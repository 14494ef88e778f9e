-------------------------------- MODULE Rio --------------------------------
(***************************************************************************)
(* Robust I/O over a connection (assign5/csapp.c): rio_writen hands the    *)
(* socket as much as it accepts and goes on with the rest, rio_read        *)
(* refills its buffer with whatever has arrived, and rio_readlineb collects*)
(* from that buffer a line of at most MaxLen - 1 characters.  The socket   *)
(* is a stream in each direction: it keeps the order of the characters and *)
(* tells nothing about the calls they were written by.                     *)
(*                                                                         *)
(* An end of a connection is the connection and a side.  unsent belongs to *)
(* the writing end of a stream; wire, buf and got to the reading end.      *)
(***************************************************************************)
EXTENDS Integers, Sequences

CONSTANTS Conns,     \* the connections
          Chars,     \* the characters
          NL,        \* the newline
          MaxLen,    \* the length rio_readlineb is called with
          BufSize,   \* the size of rio_buf
          Capacity,  \* what the socket holds before a write waits
          Pieces     \* bound: the sizes of short writes

Sides == {"client", "server"}
Ends == Conns \X Sides
Peer(e) == <<e[1], IF e[2] = "client" THEN "server" ELSE "client">>

ASSUME CharsAssumption == NL \in Chars
ASSUME MaxLenAssumption == MaxLen \in Nat /\ MaxLen > 1
ASSUME SizesAssumption == BufSize \in Nat \ {0} /\ Capacity \in Nat \ {0}

VARIABLES unsent,  \* rio_writen: what is left to write
          wire,    \* written by the peer and not read yet
          buf,     \* rio_buf: read from the socket, not taken yet
          got,     \* usrbuf of the call of rio_readlineb under way
          closed,  \* the ends that have closed their socket
          sent,    \* history: everything given to rio_writen
          read     \* history: everything earlier calls of rio_readlineb took

streams == <<unsent, wire, buf, got>>
rioVars == <<streams, closed, sent, read>>

RioInit == /\ unsent = [e \in Ends |-> <<>>]
           /\ wire = [e \in Ends |-> <<>>]
           /\ buf = [e \in Ends |-> <<>>]
           /\ got = [e \in Ends |-> <<>>]
           /\ closed = {}
           /\ sent = [e \in Ends |-> <<>>]
           /\ read = [e \in Ends |-> <<>>]

First(s, n) == SubSeq(s, 1, n)
Rest(s, n) == SubSeq(s, n + 1, Len(s))
Smaller(a, b) == IF a < b THEN a ELSE b

(* A write of at most n characters may move fewer. *)
Sizes(n) == {k \in 1 .. n : k \in Pieces \/ k = n}

-----------------------------------------------------------------------------
(* rio_writen *)

StartWrite(e, text) ==
  /\ unsent[e] = <<>>
  /\ unsent' = [unsent EXCEPT ![e] = text]
  /\ sent' = [sent EXCEPT ![e] = @ \o text]
  /\ UNCHANGED <<wire, buf, got, closed, read>>

(* Mutated form: after a short write the rest is taken for written. *)
WriteOnce(e) ==
  /\ Peer(e) \notin closed
  /\ unsent[e] # <<>>
  /\ \E k \in Sizes(Smaller(Len(unsent[e]), Capacity - Len(wire[Peer(e)]))) :
       wire' = [wire EXCEPT ![Peer(e)] = @ \o First(unsent[e], k)]
  /\ unsent' = [unsent EXCEPT ![e] = <<>>]
  /\ UNCHANGED <<buf, got, closed, sent, read>>

Write(e) ==
  /\ Peer(e) \notin closed
  /\ unsent[e] # <<>>
  /\ \E k \in Sizes(Smaller(Len(unsent[e]), Capacity - Len(wire[Peer(e)]))) :
       /\ wire' = [wire EXCEPT ![Peer(e)] = @ \o First(unsent[e], k)]
       /\ unsent' = [unsent EXCEPT ![e] = Rest(@, k)]
  /\ UNCHANGED <<buf, got, closed, sent, read>>

(* The peer has closed: the write fails, or the characters are lost.  They *)
(* are kept behind what the peer has left unread.                          *)
WriteLost(e) ==
  /\ Peer(e) \in closed
  /\ unsent[e] # <<>>
  /\ wire' = [wire EXCEPT ![Peer(e)] = @ \o unsent[e]]
  /\ unsent' = [unsent EXCEPT ![e] = <<>>]
  /\ UNCHANGED <<buf, got, closed, sent, read>>

-----------------------------------------------------------------------------
(* rio_readlineb and rio_read *)

Limit == MaxLen - 1

EndsLine(s) == s # <<>> /\ s[Len(s)] = NL

HasLine(e) == EndsLine(got[e]) \/ Len(got[e]) = Limit

Refill(e) ==
  /\ ~HasLine(e)
  /\ buf[e] = <<>>
  /\ wire[e] # <<>>
  /\ LET k == Smaller(Len(wire[e]), BufSize)
     IN  /\ buf' = [buf EXCEPT ![e] = First(wire[e], k)]
         /\ wire' = [wire EXCEPT ![e] = Rest(@, k)]
  /\ UNCHANGED <<unsent, got, closed, sent, read>>

(* Character by character up to a newline, the limit or the end of buf. *)
Take(e) ==
  /\ ~HasLine(e)
  /\ buf[e] # <<>>
  /\ \E n \in 1 .. Smaller(Len(buf[e]), Limit - Len(got[e])) :
       /\ \A i \in 1 .. n - 1 : buf[e][i] # NL
       /\ buf[e][n] = NL \/ n = Smaller(Len(buf[e]), Limit - Len(got[e]))
       /\ got' = [got EXCEPT ![e] = @ \o First(buf[e], n)]
       /\ buf' = [buf EXCEPT ![e] = Rest(@, n)]
  /\ UNCHANGED <<unsent, wire, closed, sent, read>>

AtEOF(e) == Peer(e) \in closed /\ wire[e] = <<>> /\ buf[e] = <<>>

(* The call returns: a line, the last characters before the end of the     *)
(* file, none, or an error.                                                *)
EndCall(e) == /\ got' = [got EXCEPT ![e] = <<>>]
              /\ read' = [read EXCEPT ![e] = @ \o got[e]]
              /\ UNCHANGED <<unsent, wire, buf, closed, sent>>

ReturnsLine(e) == /\ HasLine(e) \/ (AtEOF(e) /\ got[e] # <<>>)
                  /\ EndCall(e)

(* A peer that closed with input left unread, or was written to later, has *)
(* reset the connection.                                                   *)
ReturnsNone(e) == /\ ~HasLine(e)
                  /\ \/ AtEOF(e) /\ got[e] = <<>>
                     \/ Peer(e) \in closed /\ wire[Peer(e)] # <<>> /\ buf[e] = <<>>
                  /\ EndCall(e)

Close(e) == /\ e \notin closed
            /\ closed' = closed \cup {e}
            /\ UNCHANGED <<streams, sent, read>>

-----------------------------------------------------------------------------
RioNext == \E e \in Ends :
  \/ \E text \in Seq(Chars) : StartWrite(e, text)
  \/ Write(e) \/ WriteLost(e)
  \/ Refill(e) \/ Take(e) \/ ReturnsLine(e) \/ ReturnsNone(e)
  \/ Close(e)

RioSpec == RioInit /\ [][RioNext]_rioVars

-----------------------------------------------------------------------------
RioTypeOK == /\ unsent \in [Ends -> Seq(Chars)]
             /\ wire \in [Ends -> Seq(Chars)]
             /\ buf \in [Ends -> Seq(Chars)]
             /\ got \in [Ends -> Seq(Chars)]
             /\ closed \subseteq Ends
             /\ sent \in [Ends -> Seq(Chars)]
             /\ read \in [Ends -> Seq(Chars)]

(* However the calls cut it up, the stream loses, repeats and reorders      *)
(* nothing: what was read, is being read, is buffered, is on its way and is *)
(* still to be written is what was given to rio_writen.                     *)
InOrder == \A e \in Ends :
  read[e] \o got[e] \o buf[e] \o wire[e] \o unsent[Peer(e)] = sent[Peer(e)]

(* In s no line has more than n characters. *)
Within(s, n) == \A i \in 0 .. Len(s) - n : \E j \in 1 .. n : s[i + j] = NL
Fits(s) == Within(s, Limit)

(* A line is returned as it was sent, from one newline to the next, if the  *)
(* peer sends no line of more than Limit characters: Connection::receive    *)
(* then gets whole messages, unless the peer ends in the middle of one.     *)
WholeLines == \A e \in Ends : Fits(sent[Peer(e)]) =>
  /\ HasLine(e) => EndsLine(got[e])
  /\ \A i \in 1 .. Len(got[e]) - 1 : got[e][i] # NL
  /\ Peer(e) \notin closed => read[e] = <<>> \/ EndsLine(read[e])

LinesInOrder == InOrder /\ WholeLines

(* What message.h says of MAX_LEN, "an encoded message may have at most     *)
(* this many characters, including the trailing newline": if none has more, *)
(* a line is returned as it was sent.                                       *)
MessagesWhole == \A e \in Ends :
  Within(sent[Peer(e)], MaxLen) => (HasLine(e) => EndsLine(got[e]))
=============================================================================
