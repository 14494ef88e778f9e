------------------------------ MODULE ChatServer ------------------------------
(***************************************************************************)
(* The chat server (assign5/server.cpp, room.cpp): one worker thread per   *)
(* connection; the workers share the map of rooms (under Server::m_lock),  *)
(* the member set of each room (under the room's own lock) and the message *)
(* queue of each receiver.                                                 *)
(*                                                                         *)
(* A worker and its User object are named after the client.  A Room object *)
(* is its name and the worker that created it, so that two objects of one  *)
(* name can be told apart; a message is its sender and a number.  A client *)
(* may end its connection at any time, so receive and send may fail at any *)
(* time; an answer to a sender is part of the last step of its request.    *)
(* dequeue and the push of enqueue are single steps, as the refinement of  *)
(* FifoQueue by MessageQueue allows; enqueue's sem_post is a step apart.   *)
(***************************************************************************)
EXTENDS Naturals, Sequences, FiniteSets

CONSTANTS Senders,    \* clients that log in with slogin
          Receivers,  \* clients that log in with rlogin
          RoomNames,
          Username,   \* the user name each client logs in with
          MaxReq,     \* bound: the requests each sender makes
          NULL,       \* nullptr
          NoThread    \* the owner of a free mutex

Workers == Senders \cup Receivers
Rooms == [name : RoomNames, creator : Workers]
Messages == Senders \X (Nat \ {0})

ASSUME ClientsAssumption == /\ Senders \cap Receivers = {}
                            /\ IsFiniteSet(Senders)
                            /\ NoThread \notin Workers
ASSUME NullAssumption == NULL \notin Receivers \cup RoomNames \cup Rooms \cup Messages
ASSUME MaxReqAssumption == MaxReq \in [Senders -> Nat]

VARIABLES pc,       \* where each worker is
          arg,      \* the room name a worker looks up
          room,     \* the worker's local variable room
          m_rooms,  \* Server: the map from names to Room objects
          m_lock,   \* Server: the owner of the mutex of the map
          lock,     \* Room: the owner of its mutex
          members,  \* Room: the set of User objects
          mqueue,   \* User: the messages in its queue, oldest first
          avail,    \* User: the semaphore of the queue
          inHand,   \* the message a receiver's worker has dequeued, or NULL
          visited,  \* the users a broadcast has enqueued its message for
          to,       \* the user whose enqueue a broadcast is in, or NULL
          said,     \* the number of broadcasts of each sender
          nreq,     \* the number of requests of each sender
          told      \* the room the server has told the sender it is in

locals == <<arg, room>>
rooms  == <<m_rooms, m_lock, lock, members>>
queues == <<mqueue, avail, inHand>>
cast   == <<visited, to, said>>
asked  == <<nreq, told>>
vars   == <<pc, locals, rooms, queues, cast, asked>>

Init == /\ pc = [w \in Workers |-> "accept"]
        /\ arg = [w \in Workers |-> NULL]
        /\ room = [w \in Workers |-> NULL]
        /\ m_rooms = [n \in RoomNames |-> NULL]
        /\ m_lock = NoThread
        /\ lock = [o \in Rooms |-> NoThread]
        /\ members = [o \in Rooms |-> {}]
        /\ mqueue = [r \in Receivers |-> <<>>]
        /\ avail = [r \in Receivers |-> 0]
        /\ inHand = [r \in Receivers |-> NULL]
        /\ visited = [s \in Senders |-> {}]
        /\ to = [s \in Senders |-> NULL]
        /\ said = [s \in Senders |-> 0]
        /\ nreq = [s \in Senders |-> 0]
        /\ told = [s \in Senders |-> NULL]

Goto(w, from, next) == /\ pc[w] = from
                       /\ pc' = [pc EXCEPT ![w] = next]

-----------------------------------------------------------------------------
(* Server::handle_client_requests.  pthread_create reports a failure with  *)
(* a positive number, which the test "< 0" never sees: the loop goes on    *)
(* and nobody serves or closes the connection.                             *)

Accept(w) == /\ \/ Goto(w, "accept", "login")
                \/ Goto(w, "accept", "unserved")
             /\ UNCHANGED <<locals, rooms, queues, cast, asked>>

-----------------------------------------------------------------------------
(* worker: a login is accepted, creating the User, or the thread ends. *)

Login(w) == /\ \/ Goto(w, "login", IF w \in Senders THEN "receive" ELSE "join")
               \/ Goto(w, "login", "done")
            /\ UNCHANGED <<locals, rooms, queues, cast, asked>>

(* The destructors of User, with its queue, and of ClientData. *)
DeleteUser(w) ==
  /\ Goto(w, "delete", "done")
  /\ mqueue' = [r \in Receivers |-> IF r = w THEN <<>> ELSE mqueue[r]]
  /\ avail' = [r \in Receivers |-> IF r = w THEN 0 ELSE avail[r]]
  /\ UNCHANGED <<locals, rooms, inHand, cast, asked>>

-----------------------------------------------------------------------------
(* Server::find_or_create_room *)

AfterFind(w) == IF w \in Senders THEN "joined" ELSE "add_lock"

(* Mutated form: the map is used without its guard. *)
LockServerBusy(w) == /\ Goto(w, "find_lock", "find")
                     /\ m_lock' = w
                     /\ UNCHANGED <<locals, m_rooms, lock, members, queues, cast, asked>>

LockServer(w) == /\ Goto(w, "find_lock", "find")
                 /\ m_lock = NoThread
                 /\ m_lock' = w
                 /\ UNCHANGED <<locals, m_rooms, lock, members, queues, cast, asked>>

Find(w) ==
  /\ \/ /\ Goto(w, "find", AfterFind(w))
        /\ m_rooms[arg[w]] # NULL
        /\ room' = [room EXCEPT ![w] = m_rooms[arg[w]]]
        /\ m_lock' = NoThread
     \/ /\ Goto(w, "find", "create")
        /\ m_rooms[arg[w]] = NULL
        /\ UNCHANGED <<room, m_lock>>
  /\ UNCHANGED <<arg, m_rooms, lock, members, queues, cast, asked>>

(* std::map::insert leaves an entry that is already there alone. *)
Create(w) ==
  LET res == [name |-> arg[w], creator |-> w] IN
  /\ Goto(w, "create", AfterFind(w))
  /\ room' = [room EXCEPT ![w] = res]
  /\ m_rooms' = [m_rooms EXCEPT ![arg[w]] = IF @ = NULL THEN res ELSE @]
  /\ m_lock' = NoThread
  /\ UNCHANGED <<arg, lock, members, queues, cast, asked>>

-----------------------------------------------------------------------------
(* The constructor and the destructor of Guard, on the lock of the room. *)

(* Mutated form: the room is used without its guard. *)
LockRoomBusy(w) == lock' = [lock EXCEPT ![room[w]] = w]
LockRoom(w) == /\ lock[room[w]] = NoThread
               /\ lock' = [lock EXCEPT ![room[w]] = w]
UnlockRoom(w) == lock' = [lock EXCEPT ![room[w]] = NoThread]

-----------------------------------------------------------------------------
(* chat_w_receiver, with Room::add_member and Room::remove_member *)

Join(r) == /\ \/ \E n \in RoomNames : /\ Goto(r, "join", "find_lock")
                                      /\ arg' = [arg EXCEPT ![r] = n]
              \/ Goto(r, "join", "delete") /\ UNCHANGED arg
           /\ UNCHANGED <<room, rooms, queues, cast, asked>>

LockToAdd(r) == /\ Goto(r, "add_lock", "add")
                /\ LockRoom(r)
                /\ UNCHANGED <<locals, m_rooms, m_lock, members, queues, cast, asked>>

(* Mutated form: pthread_mutex_lock by hand, the unlock forgotten. *)
AddMemberKeepsLock(r) == /\ Goto(r, "add", "dequeue")
                         /\ members' = [members EXCEPT ![room[r]] = @ \cup {r}]
                         /\ UNCHANGED <<locals, m_rooms, m_lock, lock, queues, cast, asked>>

AddMember(r) == /\ Goto(r, "add", "dequeue")
                /\ members' = [members EXCEPT ![room[r]] = @ \cup {r}]
                /\ UnlockRoom(r)
                /\ UNCHANGED <<locals, m_rooms, m_lock, queues, cast, asked>>

(* If no message comes within a second the loop calls dequeue again. *)
Dequeue(r) == /\ Goto(r, "dequeue", "send")
              /\ avail[r] > 0
              /\ avail' = [avail EXCEPT ![r] = @ - 1]
              /\ inHand' = [inHand EXCEPT ![r] = Head(mqueue[r])]
              /\ mqueue' = [mqueue EXCEPT ![r] = Tail(@)]
              /\ UNCHANGED <<locals, rooms, cast, asked>>
DequeueTimeout(r) == pc[r] = "dequeue" /\ avail[r] = 0 /\ UNCHANGED vars

(* Mutated form: returns after a failed send, still a member of the room. *)
SendFailsReturns(r) == /\ Goto(r, "send", "dequeue") \/ Goto(r, "send", "delete")
                       /\ inHand' = [inHand EXCEPT ![r] = NULL]
                       /\ UNCHANGED <<locals, rooms, mqueue, avail, cast, asked>>

(* A failed send also deletes the message; it ends the loop. *)
Send(r) == /\ Goto(r, "send", "dequeue") \/ Goto(r, "send", "remove_lock")
           /\ inHand' = [inHand EXCEPT ![r] = NULL]
           /\ UNCHANGED <<locals, rooms, mqueue, avail, cast, asked>>

LockToRemove(r) == /\ Goto(r, "remove_lock", "remove")
                   /\ LockRoom(r)
                   /\ UNCHANGED <<locals, m_rooms, m_lock, members, queues, cast, asked>>

RemoveMember(r) == /\ Goto(r, "remove", "delete")
                   /\ members' = [members EXCEPT ![room[r]] = @ \ {r}]
                   /\ UnlockRoom(r)
                   /\ UNCHANGED <<locals, m_rooms, m_lock, queues, cast, asked>>

-----------------------------------------------------------------------------
(* chat_w_sender: each request is received, carried out and answered. *)

Request(s, next) == /\ Goto(s, "receive", next)
                    /\ nreq[s] < MaxReq[s]
                    /\ nreq' = [nreq EXCEPT ![s] = @ + 1]

RequestJoin(s, n) == /\ Request(s, "find_lock")
                     /\ arg' = [arg EXCEPT ![s] = n]
                     /\ UNCHANGED <<room, rooms, queues, cast, told>>

ReplyJoined(s) == /\ Goto(s, "joined", "receive")
                  /\ told' = [told EXCEPT ![s] = arg[s]]
                  /\ UNCHANGED <<locals, rooms, queues, cast, nreq>>

(* The answer is "left room", and the local variable room keeps its value. *)
RequestLeave(s) == /\ Request(s, "receive")
                   /\ room[s] # NULL
                   /\ told' = [told EXCEPT ![s] = NULL]
                   /\ UNCHANGED <<locals, rooms, queues, cast>>

RequestSendAll(s) == /\ Request(s, "cast_lock")
                     /\ room[s] # NULL
                     /\ UNCHANGED <<locals, rooms, queues, cast, told>>

(* Leave or sendall before a join, and any other tag: an error answer. *)
RequestRefused(s) == /\ Request(s, "receive")
                     /\ UNCHANGED <<locals, rooms, queues, cast, told>>

(* The request quit, the end of the input, or a line that is no message. *)
Quit(s) == /\ Goto(s, "receive", "delete")
           /\ UNCHANGED <<locals, rooms, queues, cast, asked>>

-----------------------------------------------------------------------------
(* Room::broadcast_message: the loop runs under the lock of the room and   *)
(* walks the users in the order of their addresses, that is in any order.  *)

LockToCast(s) == /\ Goto(s, "cast_lock", "cast")
                 /\ LockRoom(s)
                 /\ said' = [said EXCEPT ![s] = @ + 1]
                 /\ UNCHANGED <<locals, m_rooms, m_lock, members, queues, visited,
                                to, asked>>

(* Mutated form: the sender's own user name is not skipped. *)
ToVisitAll(s) == members[room[s]] \ visited[s]
ToVisit(s) == {r \in members[room[s]] \ visited[s] : Username[r] # Username[s]}

Push(s) == /\ Goto(s, "cast", "cast_post")
           /\ \E r \in ToVisit(s) :
                /\ mqueue' = [mqueue EXCEPT ![r] = Append(@, <<s, said[s]>>)]
                /\ visited' = [visited EXCEPT ![s] = @ \cup {r}]
                /\ to' = [to EXCEPT ![s] = r]
           /\ UNCHANGED <<locals, rooms, avail, inHand, said, asked>>

(* Mutated forms: nobody is notified; a wait where a post should be. *)
PostForgotten(s) == /\ Goto(s, "cast_post", "cast")
                    /\ to' = [to EXCEPT ![s] = NULL]
                    /\ UNCHANGED <<locals, rooms, queues, visited, said, asked>>
PostSwapped(s) == /\ Goto(s, "cast_post", "cast")
                  /\ avail' = [avail EXCEPT ![to[s]] = @ - 1]
                  /\ to' = [to EXCEPT ![s] = NULL]
                  /\ UNCHANGED <<locals, rooms, mqueue, inHand, visited, said, asked>>

Post(s) == /\ Goto(s, "cast_post", "cast")
           /\ avail' = [avail EXCEPT ![to[s]] = @ + 1]
           /\ to' = [to EXCEPT ![s] = NULL]
           /\ UNCHANGED <<locals, rooms, mqueue, inHand, visited, said, asked>>

(* Mutated form: answers with the lock of the room still held. *)
CastKeepsLock(s) == /\ Goto(s, "cast", "receive")
                    /\ ToVisit(s) = {}
                    /\ visited' = [visited EXCEPT ![s] = {}]
                    /\ UNCHANGED <<locals, rooms, queues, to, said, asked>>

(* The lock is released and "message sent" is answered. *)
CastDone(s) == /\ Goto(s, "cast", "receive")
               /\ ToVisit(s) = {}
               /\ visited' = [visited EXCEPT ![s] = {}]
               /\ UnlockRoom(s)
               /\ UNCHANGED <<locals, m_rooms, m_lock, members, queues, to, said, asked>>

-----------------------------------------------------------------------------
(* Steps a worker takes by itself, and steps that need its client. *)

FindOrCreate(w) == LockServer(w) \/ Find(w) \/ Create(w)
Broadcast(s) == LockToCast(s) \/ Push(s) \/ Post(s) \/ CastDone(s)

SenderStep(s) == FindOrCreate(s) \/ ReplyJoined(s) \/ Broadcast(s) \/ DeleteUser(s)
ReceiverStep(r) == \/ FindOrCreate(r) \/ LockToAdd(r) \/ AddMember(r) \/ Dequeue(r)
                   \/ LockToRemove(r) \/ RemoveMember(r) \/ DeleteUser(r)

SenderClient(s) == \/ \E n \in RoomNames : RequestJoin(s, n)
                   \/ RequestLeave(s) \/ RequestSendAll(s)
                   \/ RequestRefused(s) \/ Quit(s)

Next == \/ \E w \in Workers : Accept(w) \/ Login(w)
        \/ \E s \in Senders : SenderStep(s) \/ SenderClient(s)
        \/ \E r \in Receivers : Join(r) \/ ReceiverStep(r) \/ Send(r) \/ DequeueTimeout(r)

(* With every client served the main thread waits in accept. *)
AllServed == (\A w \in Workers : pc[w] \in {"done", "unserved"}) /\ UNCHANGED vars

Spec == Init /\ [][Next \/ AllServed]_vars

(***************************************************************************)
(* A worker that can run eventually runs, except inside receive and send:  *)
(* no client has to make a request or to read what is written to it.       *)
(***************************************************************************)
Fairness == /\ \A s \in Senders : WF_vars(SenderStep(s))
            /\ \A r \in Receivers : WF_vars(ReceiverStep(r))

FairSpec == Spec /\ Fairness

(* The clients of receivers read, so that a write to them returns. *)
ClientsRead == \A r \in Receivers : WF_vars(Send(r))
=============================================================================
