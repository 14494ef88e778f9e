----------------------------- MODULE MCSession -----------------------------
(***************************************************************************)
(* A sender, a receiver and their workers.  Lines have at most ten         *)
(* characters, so that a sendall may fit and its delivery not, a join and  *)
(* the answer to it not, and the longest text leaves a rest with a colon.  *)
(***************************************************************************)
EXTENDS Session

CONSTANTS s, r

MCSenders == {s}
MCReceivers == {r}
MCConns == {s, r}
MCUsername == [c \in MCConns |-> IF c = s THEN <<"ann">> ELSE <<"eve">>]
MCRoomName == [c \in MCConns |-> <<"a">>]

Line(tag, data) == [tag |-> tag, data |-> data]
Say(data) == Line("sendall", data)
JoinA == Line("join", <<"a">>)
Leaving == Line("leave", <<>>)
Quit == Line("quit", <<>>)
Long == <<"a", "a", "a", "a", "a", "a", "a", "a">>
MCScripts ==
  {<<JoinA, Say(<<" ", "a">>), Say(<<"a", ":">>), Quit>>,
   <<JoinA, Leaving, Say(<<"a", "a", "a", "a">>), Line("join", <<"a", "a">>)>>,
   <<Line("join", <<"a", "a", "a", "a", "a", "a", "a">>), Leaving, Quit>>,
   <<Say(<<>>), Say(Long \o <<":">>), Say(Long), Leaving, Quit>>}

MCLowercase == Tags \cup {"a", "ann", "eve"}
MCNL == "\n"
MCWhite == {" ", MCNL}
MCChars == MCLowercase \cup MCWhite \cup
  {":", "logged", "joined", "left", "noroom", "sent", "bye", "badtag", "welcome",
   "invalid", "refused"}
MCPieces == {4}
=============================================================================
