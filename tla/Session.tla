------------------------------ MODULE Session ------------------------------
(***************************************************************************)
(* Clients and server of assign5 with the messages between them as         *)
(* characters: sender.cpp, receiver.cpp, client_util.cpp, connection.cpp,  *)
(* message.h and the workers of server.cpp, over the streams of Rio.       *)
(*                                                                         *)
(* A tag is one character, and so is the text of an answer before the name *)
(* it may end with.  Locks, the map of rooms and the inside of a queue are *)
(* ChatServer's: finding a room, joining and broadcasting are single steps *)
(* here.  A client may be killed at any time.                              *)
(***************************************************************************)
EXTENDS Rio, FiniteSets, SequencesExt

CONSTANTS Senders, Receivers,
          Username, RoomName,  \* the command line of each client
          Scripts,             \* what users may type, as requests
          MaxKilled,           \* bound: the number of clients that are killed
          Lowercase,           \* characters for which islower is true
          White                \* characters that trim removes

Tags == {"slogin", "rlogin", "join", "leave", "sendall", "quit", "ok", "err", "delivery"}

ASSUME ClientsAssumption == Conns = Senders \cup Receivers /\ Senders \cap Receivers = {}
ASSUME LowercaseAssumption == Tags \subseteq Lowercase
ASSUME WhiteAssumption == NL \in White /\ ":" \notin White

(* What the texts of the answers count as. *)
Words == {"logged", "joined", "left", "noroom", "sent", "bye", "badtag", "welcome",
          "invalid", "refused"}

ASSUME WordsAssumption == Tags \cup Words \cup {":"} \subseteq Chars \ White

NoNewline(text) == \A i \in DOMAIN text : text[i] # NL

(* A name with a newline would be two lines, and what is typed is a line. *)
ASSUME NamesAssumption == /\ \A c \in Conns : Username[c] \in Seq(Chars)
                          /\ \A c \in Receivers : RoomName[c] \in Seq(Chars)
                          /\ \A c \in Senders : NoNewline(Username[c])
ASSUME ScriptsAssumption == \A lines \in Scripts :
  /\ lines \in Seq([tag : {"join", "leave", "sendall", "quit"}, data : Seq(Chars)])
  /\ \A i \in DOMAIN lines : NoNewline(lines[i].data)

VARIABLES cpc,      \* where each client is
          ask,      \* sender: the request that waits for its answer
          answer,   \* sender: what receive made of the last answer
          script,   \* what its user is going to type
          printed,  \* receiver: what it has printed
          wpc,      \* where each worker is
          user,     \* worker: the name its client logged in with
          room,     \* worker: the room, if any, as a set
          reply,    \* worker: the message it is about to send, if any
          queue,    \* receiver's worker: the messages in its queue
          cast      \* history: the texts broadcast to each receiver

clientVars == <<cpc, ask, answer, script, printed>>
workerVars == <<wpc, user, room, reply, queue, cast>>
vars == <<rioVars, clientVars, workerVars>>

Init == /\ RioInit
        /\ cpc = [c \in Conns |-> "start"]
        /\ ask = [c \in Senders |-> <<>>]
        /\ answer = [c \in Senders |-> <<>>]
        /\ script \in [Senders -> Scripts]
        /\ printed = [c \in Receivers |-> <<>>]
        /\ wpc = [c \in Conns |-> "login"]
        /\ user = [c \in Conns |-> <<>>]
        /\ room = [c \in Conns |-> {}]
        /\ reply = [c \in Conns |-> <<>>]
        /\ queue = [c \in Receivers |-> <<>>]
        /\ cast = [c \in Receivers |-> <<>>]

Client(c) == <<c, "client">>
Server(c) == <<c, "server">>

-----------------------------------------------------------------------------
(* Messages *)

Encoded(tag, data) == <<tag, ":">> \o data \o <<NL>>

Colons(s) == {i \in DOMAIN s : s[i] = ":"}
FirstColon(s) == CHOOSE i \in Colons(s) : \A j \in Colons(s) : i <= j
TagOf(line) == First(line, FirstColon(line) - 1)
DataOf(line) == Rest(line, FirstColon(line))
HasTag(line, tag) == TagOf(line) = <<tag>>

(* Connection::receive: otherwise the result is INVALID_MSG. *)
Valid(line) == /\ Colons(line) # {}
               /\ \A i \in 1 .. FirstColon(line) - 1 : line[i] \in Lowercase

(* split_c: the fields between the colons. *)
Fields(data) == Cardinality(Colons(data)) + 1

(* Of three fields, the second and the third. *)
Speaker(data) == TagOf(DataOf(data))

(* Mutated form: a field begins with the colon before it. *)
SpokenFromColon(data) == Rest(DataOf(data), FirstColon(DataOf(data)) - 1)

Spoken(data) == DataOf(DataOf(data))

(* trim of client_util.cpp *)
Trim(s) == LET black == {i \in DOMAIN s : s[i] \notin White}
           IN  IF black = {} THEN <<>> ELSE SubSeq(s, Min(black), Max(black))

-----------------------------------------------------------------------------
(* Connection::send is StartWrite and has returned when nothing is left.   *)
(* Connection::receive is under way while an end waits for a line.         *)

Sent(e) == e \notin closed /\ unsent[e] = <<>>

Receives(e) ==
  /\ Sent(e)
  /\ \/ e[2] = "client" /\ cpc[e[1]] \in {"login", "asking", "quitting", "joining", "listening"}
     \/ e[2] = "server" /\ wpc[e[1]] \in {"login", "receive", "join"} /\ reply[e[1]] = <<>>

Transfer(e) == /\ \/ e \notin closed /\ Write(e)
                  \/ Receives(e) /\ Refill(e)
                  \/ Receives(e) /\ Take(e)
               /\ UNCHANGED <<clientVars, workerVars>>

(* What receive returns: the line, or <<>> for EOF_OR_ERROR. *)
Receive(e, line) == /\ Receives(e)
                    /\ \/ ReturnsLine(e) /\ line = got[e]
                       \/ ReturnsNone(e) /\ line = <<>>

ClientGoto(c, from, to) == cpc[c] = from /\ cpc' = [cpc EXCEPT ![c] = to]
WorkerGoto(c, from, to) == wpc[c] = from /\ wpc' = [wpc EXCEPT ![c] = to]

-----------------------------------------------------------------------------
(* sender.cpp and receiver.cpp *)

LoginTag(c) == IF c \in Senders THEN "slogin" ELSE "rlogin"

StartLogin(c) == /\ ClientGoto(c, "start", "login")
                 /\ StartWrite(Client(c), Encoded(LoginTag(c), Username[c]))
                 /\ UNCHANGED <<ask, answer, script, printed, workerVars>>

(* receive of client_util.cpp throws unless the answer is a message other  *)
(* than err.                                                               *)
Accepted(line) == line # <<>> /\ Valid(line) /\ ~HasTag(line, "err")

(* The client closes its connection and returns 1. *)
EndLogin(c) == \E line \in {<<>>, got[Client(c)]} :
  /\ cpc[c] \in {"login", "joining"}
  /\ Receive(Client(c), line)
  /\ cpc' = [cpc EXCEPT ![c] = IF ~Accepted(line) THEN "close"
                               ELSE IF @ = "joining" THEN "listening"
                               ELSE IF c \in Senders THEN "prompt" ELSE "join"]
  /\ UNCHANGED <<ask, answer, script, printed, workerVars>>

StartJoin(c) == /\ ClientGoto(c, "join", "joining")
                /\ StartWrite(Client(c), Encoded("join", RoomName[c]))
                /\ UNCHANGED <<ask, answer, script, printed, workerVars>>

(* The user of a sender types a line. *)
Ask(c) == LET request == Head(script[c]) IN
  /\ script[c] # <<>>
  /\ ClientGoto(c, "prompt", IF request.tag = "quit" THEN "quitting" ELSE "asking")
  /\ StartWrite(Client(c), Encoded(request.tag, request.data))
  /\ ask' = [ask EXCEPT ![c] = <<request.tag>>]
  /\ script' = [script EXCEPT ![c] = Tail(@)]
  /\ UNCHANGED <<answer, printed, workerVars>>

(* Mutated form: the answer is not waited for. *)
GetAnswerNot(c) ==
  /\ Sent(Client(c))
  /\ ClientGoto(c, "asking", "prompt")
  /\ UNCHANGED <<rioVars, ask, answer, script, printed, workerVars>>

(* Whatever is wrong with the answer, the loop goes on. *)
GetAnswer(c) == \E line \in {<<>>, got[Client(c)]} :
  /\ ClientGoto(c, "asking", "prompt")
  /\ Receive(Client(c), line)
  /\ answer' = [answer EXCEPT ![c] = IF line # <<>> /\ Valid(line) THEN DataOf(line) ELSE <<>>]
  /\ UNCHANGED <<ask, script, printed, workerVars>>

(* The request to quit is not inside the try block: the exception ends the *)
(* program.                                                                *)
GetBye(c) == \E line \in {<<>>, got[Client(c)]} :
  /\ ClientGoto(c, "quitting", IF Accepted(line) THEN "close" ELSE "crash")
  /\ Receive(Client(c), line)
  /\ UNCHANGED <<ask, answer, script, printed, workerVars>>

(* Nor is receive in the loop of the receiver; a delivery must have three  *)
(* fields.                                                                 *)
Listen(c) == \E line \in {<<>>, got[Client(c)]} :
  /\ ClientGoto(c, "listening", IF line = <<>> \/ ~Valid(line) THEN "crash"
                                ELSE IF Fields(DataOf(line)) # 3 THEN "close" ELSE "listening")
  /\ Receive(Client(c), line)
  /\ printed' = [printed EXCEPT ![c] =
       IF line = <<>> \/ ~Valid(line) \/ Fields(DataOf(line)) # 3 THEN @
       ELSE Append(@, <<Speaker(DataOf(line)), Spoken(DataOf(line))>>)]
  /\ UNCHANGED <<ask, answer, script, workerVars>>

(* close, or the end of a process without it: the system closes for it. *)
EndClient(c) == /\ cpc[c] \in {"close", "crash"}
                /\ cpc' = [cpc EXCEPT ![c] = "ended"]
                /\ Close(Client(c))
                /\ UNCHANGED <<ask, answer, script, printed, workerVars>>

KillClient(c) == /\ cpc[c] \notin {"close", "crash", "ended", "killed"}
                 /\ Cardinality({d \in Conns : cpc[d] = "killed"}) < MaxKilled
                 /\ cpc' = [cpc EXCEPT ![c] = "killed"]
                 /\ Close(Client(c))
                 /\ UNCHANGED <<ask, answer, script, printed, workerVars>>

(* A client that writes to a closed connection succeeds, at first, or gets *)
(* the signal SIGPIPE.                                                     *)
ClientWriteLost(c) ==
  /\ Client(c) \notin closed
  /\ WriteLost(Client(c))
  /\ \/ UNCHANGED cpc
     \/ cpc' = [cpc EXCEPT ![c] = "crash"]
  /\ UNCHANGED <<ask, answer, script, printed, workerVars>>

ClientStep(c) == \/ StartLogin(c) \/ EndLogin(c) \/ StartJoin(c)
                 \/ GetAnswer(c) \/ GetBye(c) \/ Listen(c)
                 \/ EndClient(c) \/ ClientWriteLost(c)

-----------------------------------------------------------------------------
(* worker, chat_w_sender and chat_w_receiver of server.cpp.  A worker      *)
(* first decides on its answer and then sends it.                          *)

Reply(c) == /\ reply[c] # <<>>
            /\ StartWrite(Server(c), reply[c])
            /\ reply' = [reply EXCEPT ![c] = <<>>]
            /\ UNCHANGED <<clientVars, wpc, user, room, queue, cast>>

(* The worker receives line at from, answers with text and goes on at to. *)
Serve(c, from, line, text, to) ==
  /\ WorkerGoto(c, from, to)
  /\ Receive(Server(c), line)
  /\ reply' = [reply EXCEPT ![c] = text]
  /\ UNCHANGED clientVars

Name(data) == Trim(data) \o <<NL>>
Ok(word) == Encoded("ok", <<word>>)
Err(word) == Encoded("err", <<word>>)

LoginValid(line) == /\ HasTag(line, "slogin") \/ HasTag(line, "rlogin")
                    /\ Fields(DataOf(line)) = 1

LoginRefused(c) == \E line \in {<<>>, got[Server(c)]} :
  /\ Serve(c, "login", line, IF line # <<>> /\ ~Valid(line) THEN Err("invalid") ELSE <<>>, "close")
  /\ line # <<>> /\ Valid(line) => ~LoginValid(line)
  /\ UNCHANGED <<user, room, queue, cast>>

Login(c) == LET line == got[Server(c)] IN
  /\ wpc[c] = "login"
  /\ line # <<>> /\ Valid(line) /\ LoginValid(line)
  /\ Serve(c, "login", line, <<"ok", ":", "logged">> \o Name(DataOf(line)),
           IF HasTag(line, "slogin") THEN "receive" ELSE "join")
  /\ user' = [user EXCEPT ![c] = DataOf(line)]
  /\ UNCHANGED <<room, queue, cast>>

JoinValid(line) == HasTag(line, "join") /\ Fields(DataOf(line)) = 1

JoinRefused(c) == \E line \in {<<>>, got[Server(c)]} :
  /\ Serve(c, "join", line, Err("refused"), "close")
  /\ line # <<>> /\ Valid(line) => ~JoinValid(line)
  /\ UNCHANGED <<user, room, queue, cast>>

(* find_or_create_room, add_member and the answer. *)
Join(c) == LET line == got[Server(c)] IN
  /\ wpc[c] = "join"
  /\ line # <<>> /\ Valid(line) /\ JoinValid(line)
  /\ Serve(c, "join", line, Ok("welcome"), "joined")
  /\ room' = [room EXCEPT ![c] = {DataOf(line)}]
  /\ UNCHANGED <<user, queue, cast>>

(* Mutated form: only the first message is taken. *)
DeliverOne(c) ==
  /\ WorkerGoto(c, "joined", "deliver")
  /\ Sent(Server(c)) /\ reply[c] = <<>> /\ queue[c] # <<>>
  /\ reply' = [reply EXCEPT ![c] = Encoded("delivery", Head(queue[c]))]
  /\ queue' = [queue EXCEPT ![c] = Tail(@)]
  /\ UNCHANGED <<rioVars, clientVars, user, room, cast>>

Deliver(c) ==
  /\ wpc[c] \in {"joined", "deliver"}
  /\ Sent(Server(c)) /\ reply[c] = <<>> /\ queue[c] # <<>>
  /\ wpc' = [wpc EXCEPT ![c] = "deliver"]
  /\ reply' = [reply EXCEPT ![c] = Encoded("delivery", Head(queue[c]))]
  /\ queue' = [queue EXCEPT ![c] = Tail(@)]
  /\ UNCHANGED <<rioVars, clientVars, user, room, cast>>

(* remove_member and the destructor of User, with its queue. *)
Leave(c) == /\ WorkerGoto(c, "leave", "close")
            /\ room' = [room EXCEPT ![c] = {}]
            /\ queue' = [queue EXCEPT ![c] = <<>>]
            /\ UNCHANGED <<rioVars, clientVars, user, reply, cast>>

(* One turn of the loop of chat_w_sender. *)
Request(c, line, tag, text, to) ==
  /\ wpc[c] = "receive"
  /\ line # <<>> /\ Valid(line) /\ HasTag(line, tag)
  /\ Serve(c, "receive", line, text, to)

(* Mutated form: the rooms joined before are kept. *)
ServeJoinMore(c) == LET line == got[Server(c)] IN
  /\ Request(c, line, "join", <<"ok", ":", "joined">> \o Name(DataOf(line)), "receive")
  /\ room' = [room EXCEPT ![c] = @ \cup {DataOf(line)}]
  /\ UNCHANGED <<user, queue, cast>>

ServeJoin(c) == LET line == got[Server(c)] IN
  /\ Request(c, line, "join", <<"ok", ":", "joined">> \o Name(DataOf(line)), "receive")
  /\ room' = [room EXCEPT ![c] = {DataOf(line)}]
  /\ UNCHANGED <<user, queue, cast>>

(* The room is kept. *)
ServeLeave(c) ==
  /\ Request(c, got[Server(c)], "leave", IF room[c] # {} THEN Ok("left") ELSE Err("noroom"), "receive")
  /\ UNCHANGED <<user, room, queue, cast>>

Hears(r, c) == r \in Receivers /\ room[r] = room[c] /\ user[r] # user[c]

(* broadcast_message *)
ServeSendAll(c) == LET line == got[Server(c)] IN
  /\ room[c] # {}
  /\ Request(c, line, "sendall", Ok("sent"), "receive")
  /\ LET name == CHOOSE n \in room[c] : TRUE
         text == Trim(name) \o <<":">> \o Trim(user[c]) \o <<":">> \o Trim(DataOf(line))
     IN  queue' = [r \in Receivers |-> IF Hears(r, c) THEN Append(queue[r], text) ELSE queue[r]]
  /\ cast' = [r \in Receivers |->
       IF Hears(r, c) THEN Append(cast[r], <<Trim(user[c]), Name(DataOf(line))>>) ELSE cast[r]]
  /\ UNCHANGED <<user, room>>

ServeQuit(c) == /\ Request(c, got[Server(c)], "quit", Ok("bye"), "close")
                /\ UNCHANGED <<user, room, queue, cast>>

ServeRefused(c) == LET line == got[Server(c)] IN
  /\ \/ /\ room[c] = {}
        /\ Request(c, line, "sendall", Err("noroom"), "receive")
     \/ /\ Serve(c, "receive", line, Err("badtag"), "receive")
        /\ line # <<>> /\ Valid(line)
        /\ \A tag \in {"join", "leave", "sendall", "quit"} : ~HasTag(line, tag)
  /\ UNCHANGED <<user, room, queue, cast>>

(* A line that is no message ends the loop, without an answer. *)
ServeNone(c) == \E line \in {<<>>, got[Server(c)]} :
  /\ Serve(c, "receive", line, <<>>, "close")
  /\ line # <<>> => ~Valid(line)
  /\ UNCHANGED <<user, room, queue, cast>>

(* Mutated form: the Connection is not deleted. *)
EndWorkerOpen(c) == /\ Sent(Server(c)) /\ reply[c] = <<>>
                    /\ WorkerGoto(c, "close", "ended")
                    /\ UNCHANGED <<rioVars, clientVars, user, room, reply, queue, cast>>

(* The end of the thread deletes its Connection. *)
EndWorker(c) == /\ Sent(Server(c)) /\ reply[c] = <<>>
                /\ WorkerGoto(c, "close", "ended")
                /\ Close(Server(c))
                /\ UNCHANGED <<clientVars, user, room, reply, queue, cast>>

(* Only the loop of chat_w_receiver looks at the result of send. *)
WorkerWriteLost(c) ==
  /\ WriteLost(Server(c))
  /\ \/ UNCHANGED wpc
     \/ WorkerGoto(c, "deliver", "leave")
  /\ UNCHANGED <<clientVars, user, room, reply, queue, cast>>

WorkerStep(c) ==
  \/ Reply(c) \/ LoginRefused(c) \/ Login(c) \/ JoinRefused(c) \/ Join(c)
  \/ (c \in Receivers /\ Deliver(c)) \/ Leave(c)
  \/ ServeJoin(c) \/ ServeLeave(c) \/ ServeSendAll(c) \/ ServeQuit(c)
  \/ ServeRefused(c) \/ ServeNone(c)
  \/ EndWorker(c) \/ WorkerWriteLost(c)

-----------------------------------------------------------------------------
(* The programs and the network go on as long as one of them can; nobody   *)
(* has to type anything, or to kill a client.                              *)
Runs == \/ \E e \in Ends : Transfer(e)
        \/ \E c \in Conns : WorkerStep(c) \/ ClientStep(c)

Next == Runs \/ (\E c \in Conns : KillClient(c)) \/ (\E c \in Senders : Ask(c))

Spec == Init /\ [][Next]_vars
FairSpec == Spec /\ WF_vars(Runs)

-----------------------------------------------------------------------------
TypeOK ==
  /\ RioTypeOK
  /\ cpc \in [Conns -> {"start", "login", "prompt", "asking", "quitting", "join", "joining",
                        "listening", "close", "crash", "ended", "killed"}]
  /\ ask \in [Senders -> {<<>>} \cup {<<tag>> : tag \in Tags}]
  /\ answer \in [Senders -> Seq(Chars)]
  /\ script \in [Senders -> Seq([tag : Tags, data : Seq(Chars)])]
  /\ printed \in [Receivers -> Seq(Seq(Chars) \X Seq(Chars))]
  /\ wpc \in [Conns -> {"login", "receive", "join", "joined", "deliver", "leave", "close", "ended"}]
  /\ user \in [Conns -> Seq(Chars)]
  /\ \A c \in Conns : room[c] \in SUBSET Seq(Chars) /\ Cardinality(room[c]) <= 1
  /\ reply \in [Conns -> Seq(Chars)]
  /\ queue \in [Receivers -> Seq(Seq(Chars))]
  /\ cast \in [Receivers -> Seq(Seq(Chars) \X Seq(Chars))]

Silent(e) == /\ unsent[e] = <<>> /\ wire[e] = <<>>
             /\ buf[e] = <<>> /\ got[e] = <<>>

(* What the server may answer to a request. *)
Answers == [join |-> {"joined"}, leave |-> {"left", "noroom"}, sendall |-> {"sent", "noroom"}]

(* A sender's client and its worker stay in step as long as no line is too  *)
(* long: when the client asks its user again, nothing is on its way and the *)
(* worker waits, and the answer belongs to the last request.  Neither end   *)
(* numbers the messages, so one answer too many, or a message read in two   *)
(* parts, would shift every later answer.                                   *)
RepliesInStep == \A c \in Senders :
  cpc[c] = "prompt" /\ Fits(sent[Client(c)]) /\ Fits(sent[Server(c)]) =>
    /\ Silent(Client(c)) /\ Silent(Server(c))
    /\ wpc[c] = "receive" /\ reply[c] = <<>>
    /\ ask[c] # <<>> => answer[c][1] \in Answers[ask[c][1]]

(* A receiver prints what was broadcast in its room since it joined, in     *)
(* that order and with the sender's name, and leaves nothing out, as long   *)
(* as no delivery is too long.                                              *)
PrintedAsSaid == \A r \in Receivers :
  Fits(sent[Server(r)]) => IsPrefix(printed[r], cast[r])

(* send and receive of a sender return, whatever was typed: the user is     *)
(* asked again or the client ends.  A client would wait for ever for an     *)
(* answer the worker owes it, or for the end of a connection that the       *)
(* worker has left open.                                                    *)
RequestsReturn == \A c \in Senders :
  cpc[c] \in {"login", "asking", "quitting"} ~>
  cpc[c] \in {"prompt", "close", "crash", "ended", "killed"}

(* What is broadcast to a receiver is printed, or its client ends. *)
SaidIsPrinted == \A r \in Receivers :
  Len(cast[r]) > Len(printed[r]) ~>
  Len(cast[r]) = Len(printed[r]) \/ cpc[r] \in {"ended", "killed"}
=============================================================================
