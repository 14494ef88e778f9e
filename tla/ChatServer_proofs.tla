-------------------------- MODULE ChatServer_proofs --------------------------
(***************************************************************************)
(* What holds of the chat server for any finite set of senders, any set of *)
(* receivers and of room names, and any number of requests.  The inductive *)
(* invariant adds to the properties checked what every worker has at hand  *)
(* at each point of its function, and who may be in a member set when.     *)
(***************************************************************************)
EXTENDS ChatProperties, FiniteSetTheorems, SequenceTheorems, TLAPS

FindPC == {"find_lock", "find", "create"}
CommonPC == {"accept", "unserved", "login", "done", "delete"} \cup FindPC
SenderPC == CommonPC \cup {"joined", "receive", "cast_lock", "cast", "cast_post"}
ReceiverPC == CommonPC \cup {"join", "add_lock", "add", "dequeue", "send",
                             "remove_lock", "remove"}

(* Senders run chat_w_sender and receivers chat_w_receiver. *)
Roles == /\ \A s \in Senders : pc[s] \in SenderPC
         /\ \A r \in Receivers : pc[r] \in ReceiverPC

(* The points at which room is not null: all but a sender's receive, where *)
(* it is null until the first join.                                        *)
RoomPC == {"joined", "add_lock", "add", "dequeue", "send", "remove_lock",
           "remove", "cast_lock", "cast", "cast_post"}

(* What a worker looks up is a name, and what it found a room. *)
AtHand == \A w \in Workers : /\ pc[w] \in FindPC => arg[w] \in RoomNames
                             /\ pc[w] \in RoomPC => room[w] # NULL

(* The map files a room under its own name, and find_or_create_room creates *)
(* a room only while the map has none of that name.                         *)
MapFiled == /\ \A n \in RoomNames : m_rooms[n] # NULL => m_rooms[n].name = n
            /\ \A w \in Workers : pc[w] = "create" => m_rooms[arg[w]] = NULL

(* A member is a receiver between the end of add_member and of              *)
(* remove_member, and is so in its own room only.                           *)
InsidePC == {"dequeue", "send", "remove_lock", "remove"}
MembersInside == \A o \in Rooms, r \in Receivers :
  r \in members[o] <=> pc[r] \in InsidePC /\ room[r] = o

(* A broadcast that has still to post posts to a member of its room, whom *)
(* it does not let go before it is done.                                  *)
CastPC == {"cast", "cast_post"}
Casting == \A s \in Senders : /\ to[s] # NULL <=> pc[s] = "cast_post"
                              /\ to[s] # NULL => to[s] \in members[room[s]]
                              /\ pc[s] \in CastPC => said[s] # 0
                              /\ pc[s] \notin CastPC => visited[s] = {}

(* The message a receiver's worker has dequeued is in hand until written. *)
HandFull == \A r \in Receivers : pc[r] = "send" <=> inHand[r] # NULL

(* A queue is empty before its user joins and after it is destroyed. *)
EmptyOutside == \A r \in Receivers :
  pc[r] \notin InsidePC \cup {"delete"} => mqueue[r] = <<>>

IInv == /\ TypeOK
        /\ CriticalSections
        /\ OneRoomPerName
        /\ TokensMatchQueue
        /\ Roles
        /\ AtHand
        /\ MapFiled
        /\ MembersInside
        /\ Casting
        /\ HandFull
        /\ EmptyOutside

-----------------------------------------------------------------------------
(* The senders that have a message in a queue and its post still to make. *)
Posting(r) == {s \in Senders : to[s] = r}

LEMMA PostingFinite ==
  ASSUME NEW r
  PROVE  IsFiniteSet(Posting(r)) /\ Cardinality(Posting(r)) \in Nat
<1>1. Posting(r) \in SUBSET Senders
  BY DEF Posting
<1> QED
  BY <1>1, ClientsAssumption, FS_Subset, FS_CardinalityType

(* The initial state. *)
LEMMA InitIInv == Init => IInv
<1> SUFFICES ASSUME Init PROVE IInv
  OBVIOUS
<1>1. TypeOK
  BY DEF Init, TypeOK, PCs
<1>2. CriticalSections
  BY ClientsAssumption DEF Init, CriticalSections
<1>3. OneRoomPerName
  BY DEF Init, OneRoomPerName
<1>4. TokensMatchQueue
  <2> SUFFICES ASSUME NEW r \in Receivers
               PROVE  Len(mqueue[r]) = avail[r] + Cardinality(Posting(r))
    BY DEF TokensMatchQueue, Posting
  <2>1. Posting(r) = {}
    BY NullAssumption DEF Init, Posting
  <2>2. Cardinality(Posting(r)) = 0
    BY <2>1, FS_EmptySet
  <2>3. Len(mqueue[r]) = 0 /\ avail[r] = 0
    BY DEF Init
  <2> QED
    BY <2>2, <2>3
<1>5. Roles /\ AtHand
  BY DEF Init, Roles, AtHand, CommonPC, SenderPC, ReceiverPC, RoomPC, FindPC, Workers
<1>6. MapFiled /\ MembersInside
  BY DEF Init, MapFiled, MembersInside, InsidePC, Workers
<1>7. Casting /\ HandFull
  BY DEF Init, Casting, HandFull, CastPC, Workers
<1>8. EmptyOutside
  BY DEF Init, EmptyOutside
<1> QED
  BY <1>1, <1>2, <1>3, <1>4, <1>5, <1>6, <1>7, <1>8 DEF IInv

-----------------------------------------------------------------------------
(* A token is there only together with a message to take. *)
LEMMA TokenMeansMessage ==
  ASSUME TypeOK, TokensMatchQueue, NEW r \in Receivers, avail[r] > 0
  PROVE  mqueue[r] # <<>>
<1>1. Len(mqueue[r]) = avail[r] + Cardinality(Posting(r))
  BY DEF TokensMatchQueue, Posting
<1>2. Len(mqueue[r]) > 0
  BY <1>1, PostingFinite DEF TypeOK
<1> QED
  BY <1>2

(* Where a worker has a room at hand, it is a Room object. *)
LEMMA RoomIsRoom ==
  ASSUME TypeOK, AtHand, NEW w \in Workers, pc[w] \in RoomPC
  PROVE  room[w] \in Rooms
BY DEF TypeOK, AtHand

(* Types are kept; Dequeue needs the tokens for it, Push the count. *)
LEMMA StepTypeOK == IInv /\ [Next]_vars => TypeOK'
<1> SUFFICES ASSUME IInv, [Next]_vars PROVE TypeOK'
  OBVIOUS
<1> USE DEF IInv
<1>1. ASSUME NEW w \in Workers, NEW from, NEW next \in PCs, Goto(w, from, next)
      PROVE  pc' \in [Workers -> PCs]
  BY <1>1 DEF Goto, TypeOK
<1>2. ASSUME NEW w \in Workers, Accept(w) \/ Login(w) \/ DeleteUser(w)
      PROVE  TypeOK'
  <2>1. pc' \in [Workers -> PCs]
    BY <1>2, <1>1 DEF Accept, Login, DeleteUser, PCs
  <2>2. CASE DeleteUser(w)
    BY <2>1, <2>2
    DEF DeleteUser, TypeOK, locals, rooms, cast, asked
  <2> QED
    BY <1>2, <2>1, <2>2
    DEF Accept, Login, TypeOK, locals, rooms, queues, cast, asked
<1>3. ASSUME NEW w \in Workers, FindOrCreate(w)
      PROVE  TypeOK'
  <2>1. pc' \in [Workers -> PCs]
    BY <1>3, <1>1 DEF FindOrCreate, LockServer, Find, Create, AfterFind, PCs
  <2>2. CASE LockServer(w)
    BY <2>1, <2>2
    DEF LockServer, TypeOK, locals, queues, cast, asked
  <2>3. CASE Find(w)
    <3>1. arg[w] \in RoomNames
      BY <2>3 DEF Find, Goto, AtHand, FindPC
    <3> QED
      BY <2>1, <2>3, <3>1
      DEF Find, TypeOK, queues, cast, asked
  <2>4. CASE Create(w)
    <3>1. arg[w] \in RoomNames
      BY <2>4 DEF Create, Goto, AtHand, FindPC
    <3>2. [name |-> arg[w], creator |-> w] \in Rooms
      BY <3>1 DEF Rooms
    <3> QED
      BY <2>1, <2>4, <3>1, <3>2
      DEF Create, TypeOK, queues, cast, asked
  <2> QED
    BY <1>3, <2>2, <2>3, <2>4 DEF FindOrCreate
<1>4. ASSUME NEW r \in Receivers,
             \/ Join(r) \/ LockToAdd(r) \/ AddMember(r) \/ Dequeue(r)
             \/ Send(r) \/ LockToRemove(r) \/ RemoveMember(r)
      PROVE  TypeOK'
  <2> r \in Workers
    BY DEF Workers
  <2>1. pc' \in [Workers -> PCs]
    BY <1>4, <1>1
    DEF Join, LockToAdd, AddMember, Dequeue, Send, LockToRemove, RemoveMember, PCs
  <2>2. CASE Join(r)
    BY <2>1, <2>2 DEF Join, TypeOK, rooms, queues, cast, asked
  <2>3. CASE LockToAdd(r) \/ LockToRemove(r)
    BY <2>1, <2>3
    DEF LockToAdd, LockToRemove, LockRoom, TypeOK, locals, queues, cast, asked
  <2>4. CASE AddMember(r) \/ RemoveMember(r)
    <3>1. room[r] \in Rooms
      BY <2>4, RoomIsRoom DEF AddMember, RemoveMember, Goto, RoomPC
    <3>2. members[room[r]] \in SUBSET Receivers
      BY <3>1 DEF TypeOK
    <3>3. /\ members[room[r]] \cup {r} \in SUBSET Receivers
          /\ members[room[r]] \ {r} \in SUBSET Receivers
      BY <3>2
    <3>4. members' \in [Rooms -> SUBSET Receivers]
      BY <2>4, <3>3 DEF AddMember, RemoveMember, TypeOK
    <3> QED
      BY <2>1, <2>4, <3>4
      DEF AddMember, RemoveMember, UnlockRoom, TypeOK, locals, queues, cast, asked
  <2>5. CASE Dequeue(r)
    <3>1. mqueue[r] # <<>>
      BY <2>5, TokenMeansMessage DEF Dequeue
    <3>2. Head(mqueue[r]) \in Messages /\ Tail(mqueue[r]) \in Seq(Messages)
      BY <3>1 DEF TypeOK
    <3> QED
      BY <2>1, <2>5, <3>2 DEF Dequeue, TypeOK, locals, rooms, cast, asked
  <2>6. CASE Send(r)
    BY <2>1, <2>6 DEF Send, TypeOK, locals, rooms, cast, asked
  <2> QED
    BY <1>4, <2>2, <2>3, <2>4, <2>5, <2>6
<1>5. ASSUME NEW s \in Senders, ReplyJoined(s) \/ SenderClient(s)
      PROVE  TypeOK'
  <2> s \in Workers
    BY DEF Workers
  <2>1. pc' \in [Workers -> PCs]
    BY <1>5, <1>1
    DEF ReplyJoined, SenderClient, RequestJoin, RequestLeave, RequestSendAll,
        RequestRefused, Quit, Request, PCs
  <2>2. CASE ReplyJoined(s) \/ Quit(s)
    BY <2>1, <2>2
    DEF ReplyJoined, Quit, TypeOK, locals, rooms, queues, cast, asked
  <2>3. CASE RequestLeave(s) \/ RequestSendAll(s) \/ RequestRefused(s)
    <3>0. nreq' = [nreq EXCEPT ![s] = @ + 1]
      BY <2>3 DEF RequestLeave, RequestSendAll, RequestRefused, Request
    <3>1. nreq' \in [Senders -> Nat]
      BY <3>0 DEF TypeOK
    <3>2. told' \in [Senders -> RoomNames \cup {NULL}]
      BY <2>3 DEF RequestLeave, RequestSendAll, RequestRefused, TypeOK
    <3> QED
      BY <2>1, <2>3, <3>1, <3>2
      DEF RequestLeave, RequestSendAll, RequestRefused, TypeOK,
          locals, rooms, queues, cast
  <2>4. ASSUME NEW n \in RoomNames, RequestJoin(s, n) PROVE TypeOK'
    BY <2>1, <2>4 DEF RequestJoin, Request, TypeOK, rooms, queues, cast
  <2> QED
    BY <1>5, <2>2, <2>3, <2>4 DEF SenderClient
<1>6. ASSUME NEW s \in Senders, Broadcast(s)
      PROVE  TypeOK'
  <2> s \in Workers
    BY DEF Workers
  <2>1. pc' \in [Workers -> PCs]
    BY <1>6, <1>1 DEF Broadcast, LockToCast, Push, Post, CastDone, PCs
  <2>2. CASE LockToCast(s)
    <3>1. said' \in [Senders -> Nat]
      BY <2>2 DEF LockToCast, TypeOK
    <3>2. lock' \in [Rooms -> Workers \cup {NoThread}]
      BY <2>2 DEF LockToCast, LockRoom, TypeOK
    <3> QED
      BY <2>1, <2>2, <3>1, <3>2 DEF LockToCast, TypeOK, locals, queues, asked
  <2>3. CASE Push(s)
    <3>1. PICK r \in ToVisit(s) :
            /\ mqueue' = [mqueue EXCEPT ![r] = Append(@, <<s, said[s]>>)]
            /\ visited' = [visited EXCEPT ![s] = @ \cup {r}]
            /\ to' = [to EXCEPT ![s] = r]
      BY <2>3 DEF Push
    <3>2. room[s] \in Rooms
      BY <2>3, RoomIsRoom DEF Push, Goto, RoomPC
    <3>3. r \in Receivers
      BY <3>2 DEF ToVisit, TypeOK
    <3>4. <<s, said[s]>> \in Messages
      BY <2>3 DEF Push, Goto, Casting, CastPC, Messages, TypeOK
    <3> QED
      BY <2>1, <2>3, <3>1, <3>3, <3>4
      DEF Push, TypeOK, locals, rooms, asked
  <2>4. CASE Post(s)
    <3>1. to[s] \in Receivers
      BY <2>4 DEF Post, Goto, Casting, TypeOK
    <3>2. avail' \in [Receivers -> Nat]
      BY <2>4, <3>1 DEF Post, TypeOK
    <3> QED
      BY <2>1, <2>4, <3>2 DEF Post, TypeOK, locals, rooms, asked
  <2>5. CASE CastDone(s)
    BY <2>1, <2>5 DEF CastDone, UnlockRoom, TypeOK, locals, queues, asked
  <2> QED
    BY <1>6, <2>2, <2>3, <2>4, <2>5 DEF Broadcast
<1>7. CASE UNCHANGED vars
  BY <1>7 DEF vars, TypeOK, locals, rooms, queues, cast, asked
<1> QED
  BY <1>2, <1>3, <1>4, <1>5, <1>6, <1>7
  DEF Next, SenderStep, ReceiverStep, DequeueTimeout, Workers

-----------------------------------------------------------------------------
(* Senders and receivers keep to the points of their functions. *)
LEMMA StepRoles == IInv /\ [Next]_vars => Roles'
<1> SUFFICES ASSUME IInv, [Next]_vars PROVE Roles'
  OBVIOUS
<1>1. ASSUME NEW w \in Workers, NEW from, NEW next, Goto(w, from, next),
             w \in Senders => next \in SenderPC,
             w \in Receivers => next \in ReceiverPC
      PROVE  Roles'
  BY <1>1 DEF Goto, Roles, IInv, TypeOK, Workers
<1>2. ASSUME NEW w \in Workers,
             Accept(w) \/ Login(w) \/ DeleteUser(w) \/ FindOrCreate(w)
      PROVE  Roles'
  BY <1>2, <1>1, ClientsAssumption
  DEF Accept, Login, DeleteUser, FindOrCreate, LockServer, Find, Create, AfterFind,
      SenderPC, ReceiverPC, CommonPC, FindPC, Workers
<1>3. ASSUME NEW r \in Receivers,
             \/ Join(r) \/ LockToAdd(r) \/ AddMember(r) \/ Dequeue(r)
             \/ Send(r) \/ LockToRemove(r) \/ RemoveMember(r)
      PROVE  Roles'
  BY <1>3, <1>1, ClientsAssumption
  DEF Join, LockToAdd, AddMember, Dequeue, Send, LockToRemove, RemoveMember,
      ReceiverPC, CommonPC, FindPC, Workers
<1>4. ASSUME NEW s \in Senders, ReplyJoined(s) \/ SenderClient(s) \/ Broadcast(s)
      PROVE  Roles'
  BY <1>4, <1>1, ClientsAssumption
  DEF ReplyJoined, SenderClient, RequestJoin, RequestLeave, RequestSendAll,
      RequestRefused, Quit, Request, Broadcast, LockToCast, Push, Post, CastDone,
      SenderPC, CommonPC, FindPC, Workers
<1>5. CASE UNCHANGED vars
  BY <1>5 DEF vars, Roles, IInv
<1> QED
  BY <1>2, <1>3, <1>4, <1>5
  DEF Next, SenderStep, ReceiverStep, DequeueTimeout, Workers

(* The name a worker looks up and the room it found stay at hand. *)
LEMMA StepAtHand == IInv /\ [Next]_vars => AtHand'
<1> SUFFICES ASSUME IInv, [Next]_vars PROVE AtHand'
  OBVIOUS
<1>1. ASSUME NEW w \in Workers, NEW from, NEW next, Goto(w, from, next),
             UNCHANGED locals,
             next \in FindPC => from \in FindPC,
             next \in RoomPC => from \in RoomPC \/ room[w] # NULL
      PROVE  AtHand'
  BY <1>1 DEF Goto, AtHand, locals, IInv, TypeOK
<1>2. ASSUME NEW w \in Workers, Accept(w) \/ Login(w) \/ DeleteUser(w)
      PROVE  AtHand'
  BY <1>2, <1>1 DEF Accept, Login, DeleteUser, FindPC, RoomPC
<1>3. ASSUME NEW w \in Workers, FindOrCreate(w)
      PROVE  AtHand'
  <2>1. CASE LockServer(w)
    BY <2>1, <1>1 DEF LockServer, FindPC, RoomPC
  <2>2. CASE Find(w)
    BY <2>2 DEF Find, Goto, AfterFind, AtHand, FindPC, RoomPC, IInv, TypeOK
  <2>3. CASE Create(w)
    <3>1. [name |-> arg[w], creator |-> w] # NULL
      BY <2>3, NullAssumption DEF Create, Goto, Rooms, IInv, AtHand, FindPC
    <3> QED
      BY <2>3, <3>1 DEF Create, Goto, AfterFind, AtHand, FindPC, RoomPC, IInv, TypeOK
  <2> QED
    BY <1>3, <2>1, <2>2, <2>3 DEF FindOrCreate
<1>4. ASSUME NEW r \in Receivers, Join(r)
      PROVE  AtHand'
  BY <1>4, <1>1 DEF Join, Goto, AtHand, FindPC, RoomPC, IInv, TypeOK, Workers
<1>5. ASSUME NEW r \in Receivers,
             \/ LockToAdd(r) \/ AddMember(r) \/ Dequeue(r)
             \/ Send(r) \/ LockToRemove(r) \/ RemoveMember(r)
      PROVE  AtHand'
  BY <1>5, <1>1
  DEF LockToAdd, AddMember, Dequeue, Send, LockToRemove, RemoveMember,
      FindPC, RoomPC, Workers
<1>6. ASSUME NEW s \in Senders, NEW n \in RoomNames, RequestJoin(s, n)
      PROVE  AtHand'
  BY <1>6 DEF RequestJoin, Request, Goto, AtHand, FindPC, RoomPC, IInv, TypeOK, Workers
<1>7. ASSUME NEW s \in Senders,
             \/ ReplyJoined(s) \/ RequestLeave(s) \/ RequestSendAll(s)
             \/ RequestRefused(s) \/ Quit(s) \/ Broadcast(s)
      PROVE  AtHand'
  BY <1>7, <1>1
  DEF ReplyJoined, RequestLeave, RequestSendAll, RequestRefused, Quit, Request,
      Broadcast, LockToCast, Push, Post, CastDone, FindPC, RoomPC, Workers
<1>8. CASE UNCHANGED vars
  BY <1>8 DEF vars, locals, AtHand, IInv
<1> QED
  BY <1>2, <1>3, <1>4, <1>5, <1>6, <1>7, <1>8
  DEF Next, SenderStep, SenderClient, ReceiverStep, DequeueTimeout, Workers

-----------------------------------------------------------------------------
(* Mutual exclusion, of the map and of each room: a worker enters a section *)
(* only when it takes the free lock, and its room is fixed while inside.    *)
LEMMA StepCriticalSections == IInv /\ [Next]_vars => CriticalSections'
<1> SUFFICES ASSUME IInv, [Next]_vars PROVE CriticalSections'
  OBVIOUS
<1> DEFINE MapPC == {"find", "create"}
           MemberPC == {"add", "remove", "cast", "cast_post"}
<1> USE DEF IInv, CriticalSections
<1>1. ASSUME NEW w \in Workers, NEW from, NEW next, Goto(w, from, next),
             UNCHANGED <<room, m_lock, lock>>,
             from \in MapPC <=> next \in MapPC,
             from \in MemberPC <=> next \in MemberPC
      PROVE  CriticalSections'
  BY <1>1 DEF Goto, TypeOK
<1>2. ASSUME NEW w \in Workers, Accept(w) \/ Login(w) \/ DeleteUser(w)
      PROVE  CriticalSections'
  BY <1>2, <1>1 DEF Accept, Login, DeleteUser, locals, rooms
<1>3. ASSUME NEW w \in Workers, FindOrCreate(w)
      PROVE  CriticalSections'
  <2>1. CASE LockServer(w)
    BY <2>1, ClientsAssumption DEF LockServer, Goto, locals, TypeOK
  <2>2. ASSUME NEW from \in MapPC, Goto(w, from, AfterFind(w)), NEW o,
               room' = [room EXCEPT ![w] = o], m_lock' = NoThread, lock' = lock
        PROVE  CriticalSections'
    <3>1. pc'[w] \notin MapPC \cup MemberPC
      BY <2>2 DEF Goto, AfterFind, TypeOK
    <3>2. \A v \in Workers : m_lock' = v <=> pc'[v] \in MapPC
      BY <2>2, <3>1, ClientsAssumption DEF Goto, TypeOK
    <3>3. \A v \in Workers, x \in Rooms :
            lock'[x] = v <=> pc'[v] \in MemberPC /\ room'[v] = x
      BY <2>2, <3>1 DEF Goto, TypeOK
    <3> QED
      BY <3>2, <3>3
  <2>3. CASE Find(w)
    <3>1. CASE m_rooms[arg[w]] # NULL
      BY <2>3, <3>1, <2>2 DEF Find
    <3>2. CASE m_rooms[arg[w]] = NULL
      BY <2>3, <3>2, <1>1 DEF Find
    <3> QED
      BY <3>1, <3>2
  <2>4. CASE Create(w)
    BY <2>4, <2>2 DEF Create
  <2> QED
    BY <1>3, <2>1, <2>3, <2>4 DEF FindOrCreate
<1>4. ASSUME NEW w \in Workers, NEW from, NEW next, Goto(w, from, next),
             from \notin MapPC \cup MemberPC, next \in MemberPC, next \in RoomPC,
             from \in RoomPC, LockRoom(w), UNCHANGED <<room, m_lock>>
      PROVE  CriticalSections'
  <2>1. room[w] \in Rooms
    BY <1>4, RoomIsRoom DEF Goto
  <2>2. \A v \in Workers : m_lock' = v <=> pc'[v] \in MapPC
    BY <1>4 DEF Goto, TypeOK
  <2>3. \A v \in Workers, x \in Rooms :
          lock'[x] = v <=> pc'[v] \in MemberPC /\ room'[v] = x
    BY <1>4, <2>1, ClientsAssumption DEF Goto, LockRoom, TypeOK
  <2> QED
    BY <2>2, <2>3
<1>5. ASSUME NEW w \in Workers, NEW from, NEW next, Goto(w, from, next),
             from \in MemberPC, next \notin MapPC \cup MemberPC,
             UnlockRoom(w), UNCHANGED <<room, m_lock>>
      PROVE  CriticalSections'
  <2>1. room[w] \in Rooms
    BY <1>5, RoomIsRoom DEF Goto, RoomPC
  <2>2. \A v \in Workers : m_lock' = v <=> pc'[v] \in MapPC
    BY <1>5 DEF Goto, TypeOK
  <2>3. \A v \in Workers, x \in Rooms :
          lock'[x] = v <=> pc'[v] \in MemberPC /\ room'[v] = x
    BY <1>5, <2>1, ClientsAssumption DEF Goto, UnlockRoom, TypeOK
  <2> QED
    BY <2>2, <2>3
<1>6. ASSUME NEW r \in Receivers, Join(r) \/ Dequeue(r) \/ Send(r)
      PROVE  CriticalSections'
  BY <1>6, <1>1 DEF Join, Dequeue, Send, locals, rooms, Workers
<1>7. ASSUME NEW r \in Receivers, LockToAdd(r) \/ LockToRemove(r)
      PROVE  CriticalSections'
  BY <1>7, <1>4 DEF LockToAdd, LockToRemove, locals, RoomPC, Workers
<1>8. ASSUME NEW r \in Receivers, AddMember(r) \/ RemoveMember(r)
      PROVE  CriticalSections'
  BY <1>8, <1>5 DEF AddMember, RemoveMember, locals, Workers
<1>9. ASSUME NEW s \in Senders, ReplyJoined(s) \/ SenderClient(s) \/ Push(s) \/ Post(s)
      PROVE  CriticalSections'
  BY <1>9, <1>1
  DEF ReplyJoined, SenderClient, RequestJoin, RequestLeave, RequestSendAll,
      RequestRefused, Quit, Request, Push, Post, locals, rooms, Workers
<1>10. ASSUME NEW s \in Senders, LockToCast(s)
       PROVE  CriticalSections'
  BY <1>10, <1>4 DEF LockToCast, locals, RoomPC, Workers
<1>11. ASSUME NEW s \in Senders, CastDone(s)
       PROVE  CriticalSections'
  BY <1>11, <1>5 DEF CastDone, locals, Workers
<1>12. CASE UNCHANGED vars
  BY <1>12 DEF vars, locals, rooms
<1> QED
  BY <1>2, <1>3, <1>6, <1>7, <1>8, <1>9, <1>10, <1>11, <1>12
  DEF Next, SenderStep, ReceiverStep, Broadcast, DequeueTimeout, Workers

-----------------------------------------------------------------------------
(* All steps but those of find_or_create_room leave the map of rooms and   *)
(* the workers' rooms alone, and nobody else comes to the point of create. *)
LEMMA MapFrame ==
  ASSUME IInv, [Next]_vars
  PROVE  \/ \E w \in Workers : Find(w) \/ Create(w)
         \/ /\ UNCHANGED <<room, m_rooms>>
            /\ \A w \in Workers : pc'[w] = "create" => /\ pc[w] = "create"
                                                       /\ arg'[w] = arg[w]
<1> DEFINE Quiet == /\ UNCHANGED <<room, m_rooms>>
                    /\ \A w \in Workers : pc'[w] = "create" => /\ pc[w] = "create"
                                                               /\ arg'[w] = arg[w]
<1> USE DEF IInv
<1>1. ASSUME NEW w \in Workers, NEW from, NEW next, Goto(w, from, next),
             next # "create", UNCHANGED <<locals, m_rooms>>
      PROVE  Quiet
  BY <1>1 DEF Goto, locals, TypeOK
<1>2. ASSUME NEW w \in Workers,
             Accept(w) \/ Login(w) \/ DeleteUser(w) \/ LockServer(w)
      PROVE  Quiet
  BY <1>2, <1>1 DEF Accept, Login, DeleteUser, LockServer, rooms
<1>3. ASSUME NEW r \in Receivers, Join(r)
      PROVE  Quiet
  BY <1>3 DEF Join, Goto, rooms, TypeOK, Workers
<1>4. ASSUME NEW r \in Receivers,
             \/ LockToAdd(r) \/ AddMember(r) \/ Dequeue(r)
             \/ Send(r) \/ LockToRemove(r) \/ RemoveMember(r)
      PROVE  Quiet
  BY <1>4, <1>1
  DEF LockToAdd, AddMember, Dequeue, Send, LockToRemove, RemoveMember, rooms, Workers
<1>5. ASSUME NEW s \in Senders, NEW n \in RoomNames, RequestJoin(s, n)
      PROVE  Quiet
  BY <1>5 DEF RequestJoin, Request, Goto, rooms, TypeOK, Workers
<1>6. ASSUME NEW s \in Senders,
             \/ ReplyJoined(s) \/ RequestLeave(s) \/ RequestSendAll(s)
             \/ RequestRefused(s) \/ Quit(s) \/ Broadcast(s)
      PROVE  Quiet
  BY <1>6, <1>1
  DEF ReplyJoined, RequestLeave, RequestSendAll, RequestRefused, Quit, Request,
      Broadcast, LockToCast, Push, Post, CastDone, rooms, Workers
<1>7. CASE UNCHANGED vars
  BY <1>7 DEF vars, locals, rooms
<1> QED
  BY <1>2, <1>3, <1>4, <1>5, <1>6, <1>7
  DEF Next, SenderStep, SenderClient, ReceiverStep, FindOrCreate, DequeueTimeout,
      Workers

(* Only one worker at a time is between the lookup and the insertion, so *)
(* the room it creates is the first of its name.                         *)
LEMMA StepMapFiled == IInv /\ [Next]_vars => MapFiled' /\ OneRoomPerName'
<1> SUFFICES ASSUME IInv, [Next]_vars PROVE MapFiled' /\ OneRoomPerName'
  OBVIOUS
<1> USE DEF IInv
<1>1. ASSUME NEW w \in Workers, Find(w)
      PROVE  MapFiled' /\ OneRoomPerName'
  <2>1. arg[w] \in RoomNames /\ UNCHANGED <<m_rooms, arg>>
    BY <1>1 DEF Find, Goto, AtHand, FindPC
  <2>2. MapFiled'
    BY <1>1, <2>1 DEF Find, Goto, AfterFind, MapFiled, TypeOK
  <2>3. OneRoomPerName'
    BY <1>1, <2>1 DEF Find, OneRoomPerName, MapFiled, TypeOK
  <2> QED
    BY <2>2, <2>3
<1>2. ASSUME NEW w \in Workers, Create(w)
      PROVE  MapFiled' /\ OneRoomPerName'
  <2> DEFINE res == [name |-> arg[w], creator |-> w]
  <2>1. arg[w] \in RoomNames /\ arg' = arg /\ res.name = arg[w]
    BY <1>2 DEF Create, Goto, AtHand, FindPC
  <2>2. m_rooms[arg[w]] = NULL
    BY <1>2 DEF Create, Goto, MapFiled
  <2>3. res \in Rooms
    BY <2>1 DEF Rooms
  <2> HIDE DEF res
  <2>4. room' = [room EXCEPT ![w] = res] /\ m_rooms' = [m_rooms EXCEPT ![arg[w]] = res]
    BY <1>2, <2>2 DEF Create, res
  <2>5. res # NULL
    BY <2>3, NullAssumption
  <2>6. \A v \in Workers : pc'[v] # "create"
    <3>1. m_lock = w
      BY <1>2 DEF Create, Goto, CriticalSections
    <3>2. \A v \in Workers \ {w} : pc[v] # "create"
      BY <3>1 DEF CriticalSections
    <3> QED
      BY <1>2, <3>2 DEF Create, Goto, AfterFind, TypeOK
  <2>7. MapFiled'
    BY <2>1, <2>4, <2>6 DEF MapFiled, TypeOK
  <2>8. ASSUME NEW v \in Workers, room'[v] # NULL
        PROVE  m_rooms'[room'[v].name] = room'[v]
    <3>1. CASE v = w
      BY <2>1, <2>4, <3>1 DEF TypeOK
    <3>2. CASE v # w
      <4>1. room'[v] = room[v] /\ m_rooms[room[v].name] = room[v]
        BY <2>4, <2>8, <3>2 DEF OneRoomPerName, TypeOK
      <4>2. room[v].name # arg[w]
        BY <2>2, <2>8, <4>1
      <4> QED
        BY <2>4, <4>1, <4>2 DEF TypeOK
    <3> QED
      BY <3>1, <3>2
  <2> QED
    BY <2>7, <2>8 DEF OneRoomPerName
<1>3. CASE /\ UNCHANGED <<room, m_rooms>>
           /\ \A w \in Workers : pc'[w] = "create" => /\ pc[w] = "create"
                                                      /\ arg'[w] = arg[w]
  BY <1>3 DEF MapFiled, OneRoomPerName
<1> QED
  BY <1>1, <1>2, <1>3, MapFrame

-----------------------------------------------------------------------------
(* The member set of a room holds the receivers that are inside of it. *)
LEMMA StepMembersInside == IInv /\ [Next]_vars => MembersInside'
<1> SUFFICES ASSUME IInv, [Next]_vars PROVE MembersInside'
  OBVIOUS
<1> USE DEF IInv
<1>1. ASSUME NEW w \in Workers, NEW from, NEW next, Goto(w, from, next),
             members' = members, \A v \in Workers \ {w} : room'[v] = room[v],
             w \in Receivers => \/ from \notin InsidePC /\ next \notin InsidePC
                                \/ /\ from \in InsidePC /\ next \in InsidePC
                                   /\ room'[w] = room[w]
      PROVE  MembersInside'
  BY <1>1 DEF Goto, MembersInside, TypeOK, Workers
<1>2. ASSUME NEW w \in Workers, Accept(w) \/ Login(w) \/ DeleteUser(w)
      PROVE  MembersInside'
  BY <1>2, <1>1 DEF Accept, Login, DeleteUser, locals, rooms, InsidePC
<1>3. ASSUME NEW w \in Workers, FindOrCreate(w)
      PROVE  MembersInside'
  <2>1. CASE LockServer(w)
    BY <2>1, <1>1 DEF LockServer, locals, InsidePC
  <2>2. CASE Find(w)
    BY <2>2, <1>1 DEF Find, AfterFind, InsidePC, TypeOK
  <2>3. CASE Create(w)
    BY <2>3, <1>1 DEF Create, AfterFind, InsidePC, TypeOK
  <2> QED
    BY <1>3, <2>1, <2>2, <2>3 DEF FindOrCreate
<1>4. ASSUME NEW r \in Receivers,
             \/ Join(r) \/ LockToAdd(r) \/ Dequeue(r) \/ Send(r) \/ LockToRemove(r)
      PROVE  MembersInside'
  BY <1>4, <1>1
  DEF Join, LockToAdd, Dequeue, Send, LockToRemove, locals, rooms, InsidePC, Workers
<1>5. ASSUME NEW r \in Receivers, AddMember(r)
      PROVE  MembersInside'
  <2>1. room[r] \in Rooms
    BY <1>5, RoomIsRoom DEF AddMember, Goto, RoomPC, Workers
  <2> QED
    BY <1>5, <2>1
    DEF AddMember, Goto, MembersInside, InsidePC, locals, TypeOK, Workers
<1>6. ASSUME NEW r \in Receivers, RemoveMember(r)
      PROVE  MembersInside'
  <2>1. room[r] \in Rooms
    BY <1>6, RoomIsRoom DEF RemoveMember, Goto, RoomPC, Workers
  <2> QED
    BY <1>6, <2>1
    DEF RemoveMember, Goto, MembersInside, InsidePC, locals, TypeOK, Workers
<1>7. ASSUME NEW s \in Senders, ReplyJoined(s) \/ SenderClient(s) \/ Broadcast(s)
      PROVE  MembersInside'
  BY <1>7, <1>1, ClientsAssumption
  DEF ReplyJoined, SenderClient, RequestJoin, RequestLeave, RequestSendAll,
      RequestRefused, Quit, Request, Broadcast, LockToCast, Push, Post, CastDone,
      locals, rooms, Workers
<1>8. CASE UNCHANGED vars
  BY <1>8 DEF vars, locals, rooms, MembersInside
<1> QED
  BY <1>2, <1>3, <1>4, <1>5, <1>6, <1>7, <1>8
  DEF Next, SenderStep, ReceiverStep, DequeueTimeout, Workers

(* While a broadcast has the lock of its room, nobody leaves that room. *)
LEMMA CastFrame ==
  ASSUME IInv, NEW s \in Senders, pc[s] \in CastPC, NEW r \in Receivers,
         AddMember(r) \/ RemoveMember(r)
  PROVE  members'[room[s]] = members[room[s]]
<1>1. room[s] \in Rooms /\ room[r] \in Rooms
  BY RoomIsRoom DEF IInv, AddMember, RemoveMember, Goto, RoomPC, CastPC, Workers
<1>2. lock[room[s]] = s /\ lock[room[r]] = r
  BY <1>1 DEF IInv, CriticalSections, AddMember, RemoveMember, Goto, CastPC, Workers
<1>3. room[s] # room[r]
  BY <1>2, ClientsAssumption
<1> QED
  BY <1>1, <1>3 DEF AddMember, RemoveMember, IInv, TypeOK

(* What a broadcast is about stays as it is until the broadcast is done. *)
LEMMA StepCasting == IInv /\ [Next]_vars => Casting'
<1> SUFFICES ASSUME IInv, [Next]_vars PROVE Casting'
  OBVIOUS
<1> USE DEF IInv
<1>1. ASSUME NEW w \in Workers, NEW from, NEW next, Goto(w, from, next),
             UNCHANGED <<members, cast>>, \A v \in Workers \ {w} : room'[v] = room[v],
             from \notin CastPC, next \notin CastPC
      PROVE  Casting'
  <2>1. ASSUME NEW s \in Senders
        PROVE  /\ to'[s] # NULL <=> pc'[s] = "cast_post"
               /\ to'[s] # NULL => to'[s] \in members'[room'[s]]
               /\ pc'[s] \in CastPC => said'[s] # 0
               /\ pc'[s] \notin CastPC => visited'[s] = {}
    <3>1. CASE s = w
      BY <1>1, <3>1 DEF Goto, Casting, CastPC, cast, TypeOK
    <3>2. CASE s # w
      BY <1>1, <3>2 DEF Goto, Casting, CastPC, cast, TypeOK, Workers
    <3> QED
      BY <3>1, <3>2
  <2> QED
    BY <2>1 DEF Casting
<1>2. ASSUME NEW w \in Workers, Accept(w) \/ Login(w) \/ DeleteUser(w)
      PROVE  Casting'
  BY <1>2, <1>1 DEF Accept, Login, DeleteUser, locals, rooms, CastPC
<1>3. ASSUME NEW w \in Workers, FindOrCreate(w)
      PROVE  Casting'
  <2>1. CASE LockServer(w)
    BY <2>1, <1>1 DEF LockServer, locals, CastPC
  <2>2. CASE Find(w)
    BY <2>2, <1>1 DEF Find, AfterFind, CastPC, TypeOK
  <2>3. CASE Create(w)
    BY <2>3, <1>1 DEF Create, AfterFind, CastPC, TypeOK
  <2> QED
    BY <1>3, <2>1, <2>2, <2>3 DEF FindOrCreate
<1>4. ASSUME NEW r \in Receivers,
             \/ Join(r) \/ LockToAdd(r) \/ Dequeue(r) \/ Send(r) \/ LockToRemove(r)
      PROVE  Casting'
  BY <1>4, <1>1
  DEF Join, LockToAdd, Dequeue, Send, LockToRemove, locals, rooms, CastPC, Workers
<1>5. ASSUME NEW r \in Receivers, AddMember(r) \/ RemoveMember(r)
      PROVE  Casting'
  <2>1. ASSUME NEW s \in Senders PROVE pc'[s] = pc[s] /\ s # r
    BY <1>5, ClientsAssumption DEF AddMember, RemoveMember, Goto, TypeOK, Workers
  <2>2. UNCHANGED <<room, cast>>
    BY <1>5 DEF AddMember, RemoveMember, locals
  <2>3. ASSUME NEW s \in Senders, pc[s] \in CastPC
        PROVE  members'[room[s]] = members[room[s]]
    BY <1>5, <2>3, CastFrame
  <2> QED
    BY <2>1, <2>2, <2>3 DEF Casting, CastPC, cast
<1>6. ASSUME NEW s \in Senders, ReplyJoined(s) \/ SenderClient(s)
      PROVE  Casting'
  BY <1>6, <1>1
  DEF ReplyJoined, SenderClient, RequestJoin, RequestLeave, RequestSendAll,
      RequestRefused, Quit, Request, locals, rooms, CastPC, Workers
<1>7. ASSUME NEW s \in Senders, Broadcast(s)
      PROVE  Casting'
  <2> s \in Workers
    BY DEF Workers
  <2>1. CASE LockToCast(s)
    BY <2>1 DEF LockToCast, Goto, Casting, CastPC, locals, TypeOK, Workers
  <2>2. CASE Push(s)
    <3>1. PICK r \in ToVisit(s) : visited' = [visited EXCEPT ![s] = @ \cup {r}]
                                  /\ to' = [to EXCEPT ![s] = r]
      BY <2>2 DEF Push
    <3>2. r \in members[room[s]] /\ room[s] \in Rooms
      BY <2>2, RoomIsRoom DEF ToVisit, Push, Goto, RoomPC
    <3>3. r # NULL
      BY <3>2, NullAssumption DEF TypeOK
    <3> QED
      BY <2>2, <3>1, <3>2, <3>3
      DEF Push, Goto, Casting, CastPC, locals, rooms, TypeOK, Workers
  <2>3. CASE Post(s)
    BY <2>3 DEF Post, Goto, Casting, CastPC, locals, rooms, TypeOK, Workers
  <2>4. CASE CastDone(s)
    BY <2>4 DEF CastDone, Goto, Casting, CastPC, locals, TypeOK, Workers
  <2> QED
    BY <1>7, <2>1, <2>2, <2>3, <2>4 DEF Broadcast
<1>8. CASE UNCHANGED vars
  BY <1>8 DEF vars, locals, rooms, cast, Casting
<1> QED
  BY <1>2, <1>3, <1>4, <1>5, <1>6, <1>7, <1>8
  DEF Next, SenderStep, ReceiverStep, DequeueTimeout, Workers

-----------------------------------------------------------------------------
(* A message is in hand just while it is written. *)
LEMMA StepHandFull == IInv /\ [Next]_vars => HandFull'
<1> SUFFICES ASSUME IInv, [Next]_vars PROVE HandFull'
  OBVIOUS
<1> USE DEF IInv
<1>1. ASSUME NEW w \in Workers, NEW from, NEW next, Goto(w, from, next),
             inHand' = inHand, from # "send", next # "send"
      PROVE  HandFull'
  BY <1>1 DEF Goto, HandFull, TypeOK, Workers
<1>2. ASSUME NEW w \in Workers,
             Accept(w) \/ Login(w) \/ DeleteUser(w) \/ FindOrCreate(w)
      PROVE  HandFull'
  BY <1>2, <1>1
  DEF Accept, Login, DeleteUser, FindOrCreate, LockServer, Find, Create, AfterFind,
      queues
<1>3. ASSUME NEW r \in Receivers,
             \/ Join(r) \/ LockToAdd(r) \/ AddMember(r) \/ LockToRemove(r)
             \/ RemoveMember(r)
      PROVE  HandFull'
  BY <1>3, <1>1
  DEF Join, LockToAdd, AddMember, LockToRemove, RemoveMember, queues, Workers
<1>4. ASSUME NEW r \in Receivers, Dequeue(r)
      PROVE  HandFull'
  <2>1. mqueue[r] # <<>>
    BY <1>4, TokenMeansMessage DEF Dequeue
  <2>2. Head(mqueue[r]) \in Messages
    BY <2>1 DEF TypeOK
  <2>3. Head(mqueue[r]) # NULL
    BY <2>2, NullAssumption
  <2> QED
    BY <1>4, <2>3 DEF Dequeue, Goto, HandFull, TypeOK, Workers
<1>5. ASSUME NEW r \in Receivers, Send(r)
      PROVE  HandFull'
  BY <1>5 DEF Send, Goto, HandFull, TypeOK, Workers
<1>6. ASSUME NEW s \in Senders, ReplyJoined(s) \/ SenderClient(s) \/ Broadcast(s)
      PROVE  HandFull'
  BY <1>6, <1>1
  DEF ReplyJoined, SenderClient, RequestJoin, RequestLeave, RequestSendAll,
      RequestRefused, Quit, Request, Broadcast, LockToCast, Push, Post, CastDone,
      queues, Workers
<1>7. CASE UNCHANGED vars
  BY <1>7 DEF vars, queues, HandFull
<1> QED
  BY <1>2, <1>3, <1>4, <1>5, <1>6, <1>7
  DEF Next, SenderStep, ReceiverStep, DequeueTimeout, Workers

-----------------------------------------------------------------------------
(* The only steps that touch a queue or its semaphore. *)
LEMMA QueueFrame ==
  ASSUME TypeOK, [Next]_vars
  PROVE  \/ \E r \in Receivers : Dequeue(r) \/ DeleteUser(r)
         \/ \E s \in Senders : Push(s) \/ Post(s)
         \/ UNCHANGED <<mqueue, avail, to>>
<1> DEFINE Quiet == UNCHANGED <<mqueue, avail, to>>
<1>1. ASSUME NEW w \in Workers, Accept(w) \/ Login(w) \/ FindOrCreate(w)
      PROVE  Quiet
  BY <1>1 DEF Accept, Login, FindOrCreate, LockServer, Find, Create, queues, cast
<1>2. ASSUME NEW s \in Senders, DeleteUser(s)
      PROVE  Quiet
  <2>1. \A r \in Receivers : r # s
    BY ClientsAssumption
  <2>2. mqueue' = mqueue /\ avail' = avail
    BY <1>2, <2>1 DEF DeleteUser, TypeOK
  <2> QED
    BY <1>2, <2>2 DEF DeleteUser, cast
<1>3. ASSUME NEW r \in Receivers,
             \/ Join(r) \/ LockToAdd(r) \/ AddMember(r) \/ Send(r)
             \/ LockToRemove(r) \/ RemoveMember(r)
      PROVE  Quiet
  BY <1>3
  DEF Join, LockToAdd, AddMember, Send, LockToRemove, RemoveMember, queues, cast
<1>4. ASSUME NEW s \in Senders,
             ReplyJoined(s) \/ SenderClient(s) \/ LockToCast(s) \/ CastDone(s)
      PROVE  Quiet
  BY <1>4
  DEF ReplyJoined, SenderClient, RequestJoin, RequestLeave, RequestSendAll,
      RequestRefused, Quit, LockToCast, CastDone, queues, cast
<1>5. CASE UNCHANGED vars
  BY <1>5 DEF vars, queues, cast
<1> QED
  BY <1>1, <1>2, <1>3, <1>4, <1>5
  DEF Next, SenderStep, ReceiverStep, Broadcast, DequeueTimeout, Workers

(* The count: a broadcast puts a message in and has then a post to make; *)
(* the post makes a token; dequeue takes a token and a message together. *)
LEMMA StepTokensMatchQueue == IInv /\ [Next]_vars => TokensMatchQueue'
<1> SUFFICES ASSUME IInv, [Next]_vars PROVE TokensMatchQueue'
  OBVIOUS
<1> USE DEF IInv
<1> DEFINE Count(r) == Len(mqueue[r]) = avail[r] + Cardinality(Posting(r))
<1>1. \A r \in Receivers : Count(r)
  BY DEF TokensMatchQueue, Posting
<1>2. ASSUME \A r \in Receivers : Count(r)'
      PROVE  TokensMatchQueue'
  BY <1>2 DEF TokensMatchQueue, Posting
<1>3. ASSUME NEW r \in Receivers, Dequeue(r), NEW q \in Receivers
      PROVE  Count(q)'
  <2>1. mqueue[r] # <<>> /\ Posting(q)' = Posting(q)
    BY <1>3, TokenMeansMessage DEF Dequeue, cast, Posting
  <2>2. CASE q # r
    BY <1>1, <1>3, <2>1, <2>2 DEF Dequeue, TypeOK
  <2>3. CASE q = r
    <3>1. Len(mqueue'[r]) = Len(mqueue[r]) - 1 /\ avail'[r] = avail[r] - 1
      BY <1>3, <2>1 DEF Dequeue, TypeOK
    <3> QED
      BY <1>1, <2>1, <2>3, <3>1, PostingFinite DEF TypeOK
  <2> QED
    BY <2>2, <2>3
<1>4. ASSUME NEW r \in Receivers, DeleteUser(r), NEW q \in Receivers
      PROVE  Count(q)'
  <2>1. Posting(q)' = Posting(q)
    BY <1>4 DEF DeleteUser, cast, Posting
  <2>2. CASE q # r
    BY <1>1, <1>4, <2>1, <2>2 DEF DeleteUser, TypeOK
  <2>3. CASE q = r
    <3>1. ASSUME NEW s \in Senders, to[s] = r PROVE FALSE
      <4>1. to[s] # NULL /\ pc[s] = "cast_post" /\ r \in members[room[s]]
        BY <3>1, NullAssumption DEF Casting
      <4>2. room[s] \in Rooms
        BY <4>1, RoomIsRoom DEF RoomPC, Workers
      <4> QED
        BY <1>4, <4>1, <4>2 DEF DeleteUser, Goto, MembersInside, InsidePC
    <3>2. Posting(r) = {}
      BY <3>1 DEF Posting
    <3>3. Cardinality(Posting(r)') = 0
      BY <2>1, <2>3, <3>2, FS_EmptySet
    <3>4. Len(mqueue'[r]) = 0 /\ avail'[r] = 0
      BY <1>4 DEF DeleteUser
    <3> QED
      BY <2>3, <3>3, <3>4
  <2> QED
    BY <2>2, <2>3
<1>5. ASSUME NEW s \in Senders, Push(s), NEW q \in Receivers
      PROVE  Count(q)'
  <2>1. PICK r \in ToVisit(s) :
          /\ mqueue' = [mqueue EXCEPT ![r] = Append(@, <<s, said[s]>>)]
          /\ to' = [to EXCEPT ![s] = r]
    BY <1>5 DEF Push
  <2>2. to[s] = NULL /\ to[s] # q /\ avail' = avail
    BY <1>5, NullAssumption DEF Push, Goto, Casting
  <2>3. CASE q # r
    <3>1. Posting(q)' = Posting(q)
      BY <2>1, <2>2, <2>3 DEF Posting, TypeOK
    <3> QED
      BY <1>1, <2>1, <2>2, <2>3, <3>1 DEF TypeOK
  <2>4. CASE q = r
    <3>1. s \notin Posting(q) /\ Posting(q)' = Posting(q) \cup {s}
      BY <2>1, <2>2, <2>4 DEF Posting, TypeOK
    <3>2. Cardinality(Posting(q)') = Cardinality(Posting(q)) + 1
      BY <3>1, PostingFinite, FS_AddElement
    <3>3. <<s, said[s]>> \in Messages
      BY <1>5 DEF Push, Goto, Casting, CastPC, Messages, TypeOK
    <3>4. Len(mqueue'[q]) = Len(mqueue[q]) + 1
      BY <2>1, <2>4, <3>3 DEF TypeOK
    <3> QED
      BY <1>1, <2>2, <3>2, <3>4, PostingFinite DEF TypeOK
  <2> QED
    BY <2>3, <2>4
<1>6. ASSUME NEW s \in Senders, Post(s), NEW q \in Receivers
      PROVE  Count(q)'
  <2>1. to[s] \in Receivers
    BY <1>6 DEF Post, Goto, Casting, TypeOK
  <2>2. to' = [to EXCEPT ![s] = NULL] /\ q # NULL /\ mqueue' = mqueue
    BY <1>6, NullAssumption DEF Post
  <2>3. CASE q # to[s]
    <3>1. Posting(q)' = Posting(q)
      BY <2>2, <2>3 DEF Posting, TypeOK
    <3> QED
      BY <1>1, <1>6, <2>2, <2>3, <3>1 DEF Post, TypeOK
  <2>4. CASE q = to[s]
    <3>1. s \in Posting(q) /\ Posting(q)' = Posting(q) \ {s}
      BY <2>2, <2>4 DEF Posting, TypeOK
    <3>2. Cardinality(Posting(q)') = Cardinality(Posting(q)) - 1
      BY <3>1, PostingFinite, FS_RemoveElement
    <3>3. avail'[q] = avail[q] + 1
      BY <1>6, <2>4 DEF Post, TypeOK
    <3> QED
      BY <1>1, <2>2, <3>2, <3>3, PostingFinite DEF TypeOK
  <2> QED
    BY <2>3, <2>4
<1>7. CASE UNCHANGED <<mqueue, avail, to>>
  BY <1>1, <1>2, <1>7 DEF Posting
<1> QED
  BY <1>2, <1>3, <1>4, <1>5, <1>6, <1>7, QueueFrame

-----------------------------------------------------------------------------
(* Messages are put only into the queues of members. *)
LEMMA StepEmptyOutside == IInv /\ [Next]_vars => EmptyOutside'
<1> SUFFICES ASSUME IInv, [Next]_vars PROVE EmptyOutside'
  OBVIOUS
<1> USE DEF IInv
<1> DEFINE BusyPC == InsidePC \cup {"delete"}
<1>1. ASSUME NEW w \in Workers, NEW from, NEW next, Goto(w, from, next),
             mqueue' = mqueue, from \in BusyPC => next \in BusyPC
      PROVE  EmptyOutside'
  BY <1>1 DEF Goto, EmptyOutside, TypeOK, Workers
<1>2. ASSUME NEW w \in Workers, Accept(w) \/ Login(w) \/ FindOrCreate(w)
      PROVE  EmptyOutside'
  BY <1>2, <1>1
  DEF Accept, Login, FindOrCreate, LockServer, Find, Create, queues, InsidePC
<1>3. ASSUME NEW w \in Workers, DeleteUser(w)
      PROVE  EmptyOutside'
  BY <1>3 DEF DeleteUser, Goto, EmptyOutside, TypeOK, Workers
<1>4. ASSUME NEW r \in Receivers,
             \/ Join(r) \/ LockToAdd(r) \/ AddMember(r) \/ Send(r)
             \/ LockToRemove(r) \/ RemoveMember(r)
      PROVE  EmptyOutside'
  BY <1>4, <1>1
  DEF Join, LockToAdd, AddMember, Send, LockToRemove, RemoveMember, queues,
      InsidePC, Workers
<1>5. ASSUME NEW r \in Receivers, Dequeue(r)
      PROVE  EmptyOutside'
  BY <1>5 DEF Dequeue, Goto, EmptyOutside, InsidePC, TypeOK, Workers
<1>6. ASSUME NEW s \in Senders,
             \/ ReplyJoined(s) \/ SenderClient(s) \/ LockToCast(s)
             \/ Post(s) \/ CastDone(s)
      PROVE  EmptyOutside'
  BY <1>6, <1>1
  DEF ReplyJoined, SenderClient, RequestJoin, RequestLeave, RequestSendAll,
      RequestRefused, Quit, Request, LockToCast, Post, CastDone, queues,
      InsidePC, Workers
<1>7. ASSUME NEW s \in Senders, Push(s)
      PROVE  EmptyOutside'
  <2>1. PICK r \in ToVisit(s) :
          mqueue' = [mqueue EXCEPT ![r] = Append(@, <<s, said[s]>>)]
    BY <1>7 DEF Push
  <2>2. room[s] \in Rooms
    BY <1>7, RoomIsRoom DEF Push, Goto, RoomPC, Workers
  <2>3. r \in Receivers /\ pc[r] \in InsidePC
    BY <2>1, <2>2 DEF ToVisit, MembersInside, TypeOK
  <2>4. \A q \in Receivers : pc'[q] = pc[q]
    BY <1>7, ClientsAssumption DEF Push, Goto, TypeOK
  <2> QED
    BY <2>1, <2>3, <2>4 DEF EmptyOutside, TypeOK
<1>8. CASE UNCHANGED vars
  BY <1>8 DEF vars, queues, EmptyOutside
<1> QED
  BY <1>2, <1>3, <1>4, <1>5, <1>6, <1>7, <1>8
  DEF Next, SenderStep, ReceiverStep, Broadcast, DequeueTimeout, Workers

-----------------------------------------------------------------------------
(* IInv holds in every reachable state of the server; the step AllServed *)
(* changes nothing.                                                      *)
THEOREM Invariance == Spec => []IInv
<1>1. IInv /\ [Next]_vars => IInv'
  BY StepTypeOK, StepCriticalSections, StepMapFiled, StepTokensMatchQueue,
     StepRoles, StepAtHand, StepMembersInside, StepCasting, StepHandFull,
     StepEmptyOutside
  DEF IInv
<1>2. [Next \/ AllServed]_vars => [Next]_vars
  BY DEF AllServed
<1> QED
  BY InitIInv, <1>1, <1>2, PTL DEF Spec

(* Every variable of the server keeps its type. *)
THEOREM TypeCorrect == Spec => []TypeOK
<1>1. IInv => TypeOK
  BY DEF IInv
<1> QED
  BY <1>1, Invariance, PTL

(* The Guards of room.cpp and of find_or_create_room exclude: at any time  *)
(* one worker at most is in a section of a mutex, and that mutex is its.   *)
THEOREM SectionsExclude == Spec => []CriticalSections
<1>1. IInv => CriticalSections
  BY DEF IInv
<1> QED
  BY <1>1, Invariance, PTL

(* No User is used after it was deleted, however joins, broadcasts and     *)
(* the ends of connections interleave: a member set and a broadcast under  *)
(* way point to users whose worker has not come to its destructor.         *)
THEOREM UsersOutliveUse == Spec => []NoDanglingUser
<1>1. ASSUME IInv PROVE NoDanglingUser
  <2>1. ASSUME NEW o \in Rooms, NEW r \in members[o] PROVE r \in Live
    <3>1. r \in Receivers
      BY <1>1 DEF IInv, TypeOK
    <3>2. pc[r] \in InsidePC
      BY <1>1, <3>1 DEF IInv, MembersInside
    <3> QED
      BY <3>1, <3>2 DEF InsidePC, Live, Workers
  <2>2. ASSUME NEW s \in Senders, to[s] # NULL PROVE to[s] \in Live
    <3>1. to[s] \in members[room[s]] /\ pc[s] = "cast_post"
      BY <1>1, <2>2 DEF IInv, Casting
    <3>2. room[s] \in Rooms
      BY <1>1, <3>1, RoomIsRoom DEF IInv, RoomPC, Workers
    <3> QED
      BY <2>1, <3>1, <3>2
  <2> QED
    BY <2>1, <2>2 DEF NoDanglingUser
<1> QED
  BY <1>1, Invariance, PTL

(* All workers that entered a room of one name share one Room object, the *)
(* one in the map: no two of them create the room side by side.           *)
THEOREM RoomsAreUnique == Spec => []OneRoomPerName
<1>1. IInv => OneRoomPerName
  BY DEF IInv
<1> QED
  BY <1>1, Invariance, PTL

(* The tokens of a receiver's semaphore and the posts to come add up to    *)
(* the messages in its queue: none is stranded there without a token, and  *)
(* no token is left over that would make dequeue pop an empty deque.       *)
THEOREM TokensCountMessages == Spec => []TokensMatchQueue
<1>1. IInv => TokensMatchQueue
  BY DEF IInv
<1> QED
  BY <1>1, Invariance, PTL

-----------------------------------------------------------------------------
(***************************************************************************)
(* The chat server implements AtomicChat.  The argument: a broadcast takes *)
(* effect when it locks its room.  Until it lets go no receiver enters or  *)
(* leaves the room and no other broadcast is under way in it, so for each  *)
(* member at most one message is on its way, and that message comes after  *)
(* all in the member's queue.                                              *)
(***************************************************************************)

(* Moving a message between hand, queue and broadcast moves no message  *)
(* past another.                                                        *)
LEMMA MoveToQueue ==
  ASSUME NEW S, NEW h \in Seq(S), NEW q \in Seq(S), NEW m \in S
  PROVE  /\ h \o Append(q, m) \o <<>> = h \o q \o <<m>>
         /\ Append(h \o q \o <<>>, m) = h \o q \o <<m>>
<1>1. Append(q, m) = q \o <<m>> /\ <<m>> \in Seq(S) /\ Append(q, m) \in Seq(S)
  BY AppendIsConcat
<1>2. (h \o q) \o <<m>> = h \o (q \o <<m>>)
  BY <1>1, ConcatAssociative
<1>3. h \o Append(q, m) \in Seq(S) /\ h \o q \in Seq(S)
  BY <1>1, ConcatProperties
<1>4. h \o Append(q, m) \o <<>> = h \o Append(q, m) /\ h \o q \o <<>> = h \o q
  BY <1>3, ConcatEmptySeq
<1>5. Append(h \o q, m) = (h \o q) \o <<m>>
  BY <1>3, AppendIsConcat
<1> QED
  BY <1>1, <1>2, <1>4, <1>5

LEMMA MoveToHand ==
  ASSUME NEW S, NEW q \in Seq(S), q # <<>>, NEW t \in Seq(S)
  PROVE  <<Head(q)>> \o Tail(q) \o t = <<>> \o q \o t
<1>1. <<Head(q)>> \o Tail(q) = q /\ <<>> \o q = q
  BY ConcatEmptySeq
<1> QED
  BY <1>1

LEMMA MoveToClient ==
  ASSUME NEW S, NEW m \in S, NEW q \in Seq(S), NEW t \in Seq(S)
  PROVE  /\ <<m>> \o q \o t # <<>>
         /\ Tail(<<m>> \o q \o t) = <<>> \o q \o t
<1>1. (<<m>> \o q) \o t = <<m>> \o (q \o t) /\ q \o t \in Seq(S) /\ <<>> \o q = q
  BY ConcatAssociative, ConcatProperties, ConcatEmptySeq
<1>2. \A u \in Seq(S) : <<m>> \o u # <<>> /\ Tail(<<m>> \o u) = u
  OBVIOUS
<1> QED
  BY <1>1, <1>2

-----------------------------------------------------------------------------
(* A receiver sits in a room just while it is inside. *)
LEMMA SitsInside ==
  ASSUME IInv, NEW r \in Receivers
  PROVE  /\ IsMember(r) <=> pc[r] \in InsidePC
         /\ \A o \in Rooms : r \in members[o] <=> IsMember(r) /\ room[r] = o
<1>1. pc[r] \in InsidePC => room[r] # NULL
  BY DEF IInv, AtHand, InsidePC, RoomPC, Workers
<1>2. room[r] # NULL => room[r] \in Rooms
  BY DEF IInv, TypeOK, Workers
<1> QED
  BY <1>1, <1>2, NullAssumption DEF IInv, MembersInside, IsMember

(* A broadcast to a receiver is under way in the room the receiver sits in, *)
(* and has the lock of that room.                                           *)
LEMMA CasterInRoom ==
  ASSUME IInv, NEW r \in Receivers, NEW s \in CastingTo(r)
  PROVE  IsMember(r) /\ room[s] \in Rooms /\ room[r] = room[s] /\ lock[room[r]] = s
<1>1. s \in Senders /\ pc[s] \in CastPC /\ r \in members[room[s]]
  BY DEF CastingTo, ToVisit, CastPC
<1>2. room[s] \in Rooms
  BY <1>1, RoomIsRoom DEF IInv, CastPC, RoomPC, Workers
<1>3. lock[room[s]] = s
  BY <1>1, <1>2 DEF IInv, CriticalSections, CastPC, Workers
<1> QED
  BY <1>1, <1>2, <1>3, SitsInside

(* So one message at most is on its way to a receiver. *)
LEMMA OneInFlight ==
  ASSUME IInv, NEW r \in Receivers, NEW s \in CastingTo(r)
  PROVE  CastingTo(r) = {s} /\ InFlight(r) = <<<<s, said[s]>>>>
<1>1. CastingTo(r) = {s}
  BY CasterInRoom
<1>2. Only({s}) = s
  BY DEF Only
<1> QED
  BY <1>1, <1>2 DEF InFlight

LEMMA InFlightType ==
  ASSUME IInv, NEW r \in Receivers
  PROVE  /\ InFlight(r) \in Seq(Messages)
         /\ Held(r) \in Seq(Messages)
         /\ mqueue[r] \in Seq(Messages)
<1>1. ASSUME NEW s \in CastingTo(r) PROVE InFlight(r) \in Seq(Messages)
  <2>1. <<s, said[s]>> \in Messages
    BY DEF CastingTo, IInv, Casting, CastPC, TypeOK, Messages
  <2>2. InFlight(r) = <<<<s, said[s]>>>>
    BY OneInFlight
  <2> QED
    BY <2>1, <2>2
<1>2. CastingTo(r) = {} => InFlight(r) = <<>>
  BY DEF InFlight
<1>3. Held(r) \in Seq(Messages)
  BY DEF Held, IInv, TypeOK
<1>4. InFlight(r) \in Seq(Messages)
  <2>1. <<>> \in Seq(Messages)
    OBVIOUS
  <2> QED
    BY <1>1, <1>2, <2>1
<1> QED
  BY <1>3, <1>4 DEF IInv, TypeOK

(* A step that touches neither members nor messages changes nothing that *)
(* AtomicChat can see.                                                   *)
LEMMA QuietStep ==
  ASSUME IInv, UNCHANGED <<members, mqueue, inHand, said>>,
         \A r \in Receivers : CastingTo(r)' = CastingTo(r),
         \A r \in Receivers : IsMember(r) \/ IsMember(r)' => room'[r] = room[r],
         \A s \in Senders : talks'[s] = talks[s]
  PROVE  UNCHANGED Chat!vars
<1>1. \A r \in Receivers : IsMember(r)' <=> IsMember(r)
  BY DEF IsMember
<1>2. talks' = talks
  BY DEF talks
<1>3. sits' = sits
  BY <1>1 DEF sits
<1>4. \A r \in Receivers : InFlight(r)' = InFlight(r)
  BY DEF InFlight
<1>5. \A r \in Receivers : Held(r)' = Held(r)
  BY DEF Held
<1>6. pending' = pending
  BY <1>1, <1>4, <1>5 DEF pending
<1> QED
  BY <1>2, <1>3, <1>6 DEF Chat!vars

(* Whom a broadcast goes to changes in a broadcast only. *)
LEMMA CastingFrame ==
  ASSUME IInv, NEW w \in Workers, NEW from, NEW next, Goto(w, from, next),
         from \in CastPC <=> next \in CastPC, UNCHANGED <<members, visited>>,
         \A v \in Workers \ {w} : room'[v] = room[v],
         from \in CastPC => room'[w] = room[w],
         NEW r \in Receivers
  PROVE  CastingTo(r)' = CastingTo(r)
<1>1. ASSUME NEW s \in Senders
      PROVE  s \in CastingTo(r)' <=> s \in CastingTo(r)
  <2>1. pc'[s] \in CastPC <=> pc[s] \in CastPC
    BY DEF Goto, IInv, TypeOK, Workers
  <2>2. pc[s] \in CastPC => room'[s] = room[s]
    BY DEF Goto, Workers
  <2> QED
    BY <2>1, <2>2 DEF CastingTo, ToVisit, CastPC
<1> QED
  BY <1>1 DEF CastingTo

-----------------------------------------------------------------------------
(* Most steps cannot be seen from outside. *)
LEMMA HiddenStep ==
  ASSUME IInv, NEW w \in Workers, NEW from, NEW next, Goto(w, from, next),
         from \in CastPC <=> next \in CastPC,
         UNCHANGED <<room, members, mqueue, inHand, visited, said>>
  PROVE  UNCHANGED Chat!vars
<1>1. \A r \in Receivers : CastingTo(r)' = CastingTo(r)
  BY CastingFrame
<1>2. \A s \in Senders : talks'[s] = talks[s]
  BY DEF talks
<1> QED
  BY <1>1, <1>2, QuietStep

(* An object is made and destroyed while its user is in no room. *)
LEMMA DeleteHidden ==
  ASSUME IInv, NEW w \in Workers, DeleteUser(w)
  PROVE  UNCHANGED Chat!vars
<1>1. Goto(w, "delete", "done") /\ UNCHANGED <<room, members, inHand, visited, said>>
  BY DEF DeleteUser, locals, rooms, cast
<1>2. \A r \in Receivers : InFlight(r)' = InFlight(r) /\ Held(r)' = Held(r)
  <2>1. \A r \in Receivers : CastingTo(r)' = CastingTo(r)
    BY <1>1, CastingFrame DEF CastPC
  <2> QED
    BY <1>1, <2>1 DEF InFlight, Held
<1>3. \A r \in Receivers : IsMember(r)' <=> IsMember(r)
  BY <1>1 DEF IsMember
<1>4. ASSUME NEW r \in Receivers, IsMember(r) PROVE mqueue'[r] = mqueue[r]
  <2>1. r # w
    BY <1>1, <1>4, SitsInside DEF Goto, InsidePC
  <2> QED
    BY <2>1 DEF DeleteUser
<1>5. pending' = pending
  BY <1>2, <1>3, <1>4 DEF pending
<1>6. talks' = talks /\ sits' = sits
  BY <1>1, <1>3 DEF talks, sits
<1> QED
  BY <1>1, <1>5, <1>6 DEF Chat!vars

(* find_or_create_room: for a sender it is the join; a receiver is not yet *)
(* a member of the room it looks up.                                       *)
LEMMA LookupRefines ==
  ASSUME IInv, NEW w \in Workers, NEW o \in Rooms, NEW from \in FindPC,
         Goto(w, from, AfterFind(w)), room' = [room EXCEPT ![w] = o],
         o.name \in RoomNames, UNCHANGED <<members, queues, cast>>
  PROVE  [Chat!Next]_(Chat!vars)
<1>1. AfterFind(w) \notin CastPC \cup InsidePC /\ from \notin CastPC \cup InsidePC
  BY DEF AfterFind, CastPC, InsidePC, FindPC
<1>2. \A r \in Receivers : CastingTo(r)' = CastingTo(r)
  <2>1. UNCHANGED visited /\ \A v \in Workers \ {w} : room'[v] = room[v]
    BY DEF cast, IInv, TypeOK
  <2> QED
    BY <1>1, <2>1, CastingFrame
<1>3. ASSUME NEW r \in Receivers PROVE IsMember(r)' <=> IsMember(r)
  <2>1. CASE r = w
    <3>1. ~IsMember(r)
      BY <1>1, <2>1, SitsInside DEF Goto
    <3>2. r \notin members[o]
      BY <3>1, SitsInside
    <3>3. room'[r] = o /\ members' = members
      BY <2>1 DEF IInv, TypeOK
    <3> QED
      BY <3>1, <3>2, <3>3 DEF IsMember
  <2>2. CASE r # w
    BY <2>2 DEF IsMember, IInv, TypeOK, Workers
  <2> QED
    BY <2>1, <2>2
<1>4. ASSUME NEW r \in Receivers, IsMember(r) PROVE room'[r] = room[r]
  BY <1>1, <1>4, SitsInside DEF Goto, IInv, TypeOK, Workers
<1>5. CASE w \in Receivers
  <2>1. \A s \in Senders : talks'[s] = talks[s]
    BY <1>5, ClientsAssumption DEF talks, IInv, TypeOK, Workers
  <2> QED
    BY <1>2, <1>3, <1>4, <2>1, QuietStep DEF queues, cast
<1>6. CASE w \in Senders
  <2>1. talks' = [talks EXCEPT ![w] = o.name]
    BY <1>6, NullAssumption DEF talks, IInv, TypeOK, Workers
  <2>2. sits' = sits
    BY <1>3, <1>4 DEF sits
  <2>3. \A r \in Receivers : InFlight(r)' = InFlight(r)
    BY <1>2 DEF InFlight, cast
  <2>4. \A r \in Receivers : Held(r)' = Held(r)
    BY DEF Held, queues
  <2>5. pending' = pending /\ said' = said
    BY <1>3, <2>3, <2>4 DEF pending, queues, cast
  <2>6. Chat!Talk(w, o.name)
    BY <2>1, <2>2, <2>5 DEF Chat!Talk
  <2> QED
    BY <1>6, <2>6 DEF Chat!Next
<1> QED
  BY <1>5, <1>6 DEF Workers

-----------------------------------------------------------------------------
(* Taking a message out of a queue only moves it into the worker's hand. *)
LEMMA DequeueHidden ==
  ASSUME IInv, NEW r \in Receivers, Dequeue(r)
  PROVE  UNCHANGED Chat!vars
<1>1. Goto(r, "dequeue", "send") /\ UNCHANGED <<room, members, visited, said>>
  BY DEF Dequeue, locals, rooms, cast
<1>2. \A q \in Receivers : IsMember(q)' <=> IsMember(q)
  BY <1>1 DEF IsMember
<1>3. \A q \in Receivers : InFlight(q)' = InFlight(q)
  <2>1. \A q \in Receivers : CastingTo(q)' = CastingTo(q)
    BY <1>1, CastingFrame DEF CastPC, Workers
  <2> QED
    BY <1>1, <2>1 DEF InFlight
<1>4. ASSUME NEW q \in Receivers
      PROVE  Held(q)' \o mqueue'[q] \o InFlight(q) = Held(q) \o mqueue[q] \o InFlight(q)
  <2>1. CASE q = r
    <3>1. mqueue[r] # <<>>
      BY TokenMeansMessage DEF Dequeue, IInv
    <3>2. Head(mqueue[r]) # NULL
      BY <3>1, NullAssumption DEF IInv, TypeOK
    <3>3. Held(r) = <<>>
      BY <1>1 DEF Goto, Held, IInv, HandFull
    <3>4. Held(r)' = <<Head(mqueue[r])>>
      BY <3>2 DEF Dequeue, Held, IInv, TypeOK
    <3>5. mqueue'[r] = Tail(mqueue[r])
      BY DEF Dequeue, IInv, TypeOK
    <3>6. <<Head(mqueue[r])>> \o Tail(mqueue[r]) \o InFlight(r)
            = <<>> \o mqueue[r] \o InFlight(r)
      BY <3>1, InFlightType, MoveToHand
    <3> QED
      BY <2>1, <3>3, <3>4, <3>5, <3>6
  <2>2. CASE q # r
    BY <2>2 DEF Dequeue, Held, IInv, TypeOK
  <2> QED
    BY <2>1, <2>2
<1>5. pending' = pending
  BY <1>2, <1>3, <1>4 DEF pending
<1>6. talks' = talks /\ sits' = sits
  BY <1>1, <1>2 DEF talks, sits
<1> QED
  BY <1>1, <1>5, <1>6 DEF Chat!vars

(* A message written to the client is heard; one the write of which fails *)
(* is the last that is taken out of what is pending before the receiver   *)
(* leaves.                                                                *)
LEMMA SendRefines ==
  ASSUME IInv, NEW r \in Receivers, Send(r)
  PROVE  Chat!Hear(r)
<1>1. UNCHANGED <<room, members, mqueue, visited, said>>
  BY DEF Send, locals, rooms, cast
<1>2. PICK next \in {"dequeue", "remove_lock"} : Goto(r, "send", next)
  BY DEF Send
<1>3. \A q \in Receivers : IsMember(q)' <=> IsMember(q)
  BY <1>1 DEF IsMember
<1>4. \A q \in Receivers : InFlight(q)' = InFlight(q)
  <2>1. \A q \in Receivers : CastingTo(q)' = CastingTo(q)
    BY <1>1, <1>2, CastingFrame DEF CastPC, Workers
  <2> QED
    BY <1>1, <2>1 DEF InFlight
<1>5. IsMember(r)
  BY <1>2, SitsInside DEF Goto, InsidePC
<1>6. inHand[r] \in Messages /\ Held(r) = <<inHand[r]>> /\ Held(r)' = <<>>
  BY <1>2 DEF Send, Goto, Held, IInv, HandFull, TypeOK
<1>7. \A q \in Receivers \ {r} : Held(q)' = Held(q)
  BY DEF Send, Held, IInv, TypeOK
<1>8. pending[r] # <<>> /\ pending'[r] = Tail(pending[r])
  <2>1. pending[r] = <<inHand[r]>> \o mqueue[r] \o InFlight(r)
    BY <1>5, <1>6 DEF pending
  <2>2. pending'[r] = <<>> \o mqueue[r] \o InFlight(r)
    BY <1>1, <1>3, <1>4, <1>5, <1>6 DEF pending
  <2>3. /\ <<inHand[r]>> \o mqueue[r] \o InFlight(r) # <<>>
        /\ Tail(<<inHand[r]>> \o mqueue[r] \o InFlight(r))
             = <<>> \o mqueue[r] \o InFlight(r)
    BY <1>6, InFlightType, MoveToClient
  <2> QED
    BY <2>1, <2>2, <2>3
<1>9. \A q \in Receivers \ {r} : pending'[q] = pending[q]
  BY <1>1, <1>3, <1>4, <1>7 DEF pending
<1>10. pending' = [pending EXCEPT ![r] = Tail(@)]
  BY <1>8, <1>9 DEF pending
<1>11. talks' = talks /\ sits' = sits
  BY <1>1, <1>3 DEF talks, sits
<1> QED
  BY <1>1, <1>8, <1>10, <1>11 DEF Chat!Hear

(* A receiver enters and leaves its room while no broadcast is under way *)
(* there, and so neither misses the rest of one nor hears a part of one. *)
LEMMA MembershipRefines ==
  ASSUME IInv, IInv', NEW r \in Receivers, AddMember(r) \/ RemoveMember(r)
  PROVE  Chat!Next
<1>1. /\ UNCHANGED <<room, mqueue, inHand, visited, said, arg>>
      /\ r \in Workers /\ \A q \in Receivers \ {r} : pc'[q] = pc[q]
      /\ \A s \in Senders : pc'[s] = pc[s]
  BY ClientsAssumption
  DEF AddMember, RemoveMember, locals, queues, cast, Goto, IInv, TypeOK, Workers
<1>2. room[r] \in Rooms /\ room[r] # NULL /\ room[r].name \in RoomNames
  <2>1. room[r] \in Rooms
    BY RoomIsRoom DEF IInv, AddMember, RemoveMember, Goto, RoomPC, Workers
  <2> QED
    BY <2>1, NullAssumption DEF Rooms
<1>3. \A q \in Receivers \ {r} : IsMember(q)' <=> IsMember(q)
  <2>1. ASSUME NEW q \in Receivers \ {r}, NEW o \in Rooms
        PROVE  q \in members'[o] <=> q \in members[o]
    <3>1. members' = [members EXCEPT ![room[r]] = @ \cup {r}]
            \/ members' = [members EXCEPT ![room[r]] = @ \ {r}]
      BY DEF AddMember, RemoveMember
    <3>2. members'[o] \in {members[o], members[o] \cup {r}, members[o] \ {r}}
      BY <3>1 DEF IInv, TypeOK
    <3> QED
      BY <3>2
  <2>2. \A q \in Receivers : room[q] # NULL => room[q] \in Rooms
    BY DEF IInv, TypeOK, Workers
  <2> QED
    BY <1>1, <2>1, <2>2 DEF IsMember
<1>4. ASSUME NEW q \in Receivers \ {r} PROVE CastingTo(q)' = CastingTo(q)
  <2>1. \A s \in Senders : pc[s] \in CastPC => members'[room[s]] = members[room[s]]
    BY CastFrame
  <2> QED
    BY <1>1, <2>1 DEF CastingTo, ToVisit, CastPC
<1>5. CastingTo(r) = {} /\ CastingTo(r)' = {}
  <2>1. ASSUME NEW s \in CastingTo(r) PROVE FALSE
    BY <2>1, CasterInRoom, ClientsAssumption
    DEF AddMember, RemoveMember, Goto, IInv, CriticalSections, CastingTo, Workers
  <2>2. ASSUME NEW s \in CastingTo(r)' PROVE FALSE
    <3>1. s \in Senders /\ pc[s] \in CastPC /\ r \in members'[room[s]]
      BY <1>1, <2>2 DEF CastingTo, ToVisit, CastPC
    <3>2. r \in members[room[s]] /\ r \notin visited[s] /\ Username[r] # Username[s]
      BY <1>1, <2>2, <3>1, CastFrame DEF CastingTo, ToVisit
    <3>3. s \in CastingTo(r)
      BY <3>1, <3>2 DEF CastingTo, ToVisit, CastPC
    <3> QED
      BY <2>1, <3>3
  <2> QED
    BY <2>1, <2>2
<1>6. \A q \in Receivers \ {r} : pending'[q] = pending[q]
  <2>1. \A q \in Receivers \ {r} : InFlight(q)' = InFlight(q)
    BY <1>1, <1>4 DEF InFlight
  <2>2. \A q \in Receivers : Held(q)' = Held(q)
    BY <1>1 DEF Held
  <2> QED
    BY <1>1, <1>3, <2>1, <2>2 DEF pending
<1>7. talks' = talks
  BY <1>1 DEF talks
<1>8. \A q \in Receivers \ {r} : sits'[q] = sits[q]
  BY <1>1, <1>3 DEF sits
<1>9. CASE AddMember(r)
  <2>1. ~IsMember(r)
    BY <1>9, SitsInside DEF AddMember, Goto, InsidePC
  <2>2. IsMember(r)'
    BY <1>1, <1>2, <1>9 DEF AddMember, IsMember, IInv, TypeOK
  <2>3. sits[r] = NULL /\ sits' = [sits EXCEPT ![r] = room[r].name]
    BY <1>1, <1>8, <2>1, <2>2 DEF sits
  <2>4. mqueue[r] = <<>> /\ Held(r)' = <<>> /\ InFlight(r)' = <<>>
    BY <1>1, <1>5, <1>9
    DEF AddMember, Goto, Held, InFlight, IInv, EmptyOutside, HandFull, InsidePC
  <2>5. pending[r] = <<>> /\ pending'[r] = <<>>
    BY <1>1, <2>1, <2>2, <2>4 DEF pending
  <2>6. pending' = pending
    BY <1>6, <2>5 DEF pending
  <2>7. Chat!Sit(r, room[r].name)
    BY <1>1, <1>7, <2>3, <2>6 DEF Chat!Sit
  <2> QED
    BY <1>2, <2>7 DEF Chat!Next
<1>10. CASE RemoveMember(r)
  <2>1. IsMember(r)
    BY <1>10, SitsInside DEF RemoveMember, Goto, InsidePC
  <2>2. ~IsMember(r)'
    BY <1>1, <1>2, <1>10 DEF RemoveMember, IsMember, IInv, TypeOK
  <2>3. sits[r] # NULL /\ sits' = [sits EXCEPT ![r] = NULL]
    BY <1>2, <1>8, <2>1, <2>2, NullAssumption DEF sits
  <2>4. pending' = [pending EXCEPT ![r] = <<>>]
    BY <1>6, <2>2 DEF pending
  <2>5. Chat!Rise(r)
    BY <1>1, <1>7, <2>3, <2>4 DEF Chat!Rise
  <2> QED
    BY <2>5 DEF Chat!Next
<1> QED
  BY <1>9, <1>10

-----------------------------------------------------------------------------
(* A broadcast takes effect when it has locked its room: the message is    *)
(* pending from then on for every receiver in the room, and nobody else,   *)
(* although the loop has not put it into any queue.                        *)
LEMMA CastRefines ==
  ASSUME IInv, IInv', NEW s \in Senders, LockToCast(s)
  PROVE  Chat!Say(s)
<1>1. /\ UNCHANGED <<room, members, mqueue, inHand, visited, m_rooms>>
      /\ s \in Workers /\ s \notin Receivers
      /\ pc[s] = "cast_lock" /\ pc' = [pc EXCEPT ![s] = "cast"]
      /\ said' = [said EXCEPT ![s] = @ + 1]
  BY ClientsAssumption DEF LockToCast, locals, queues, Goto, Workers
<1>2. room[s] \in Rooms /\ room[s] # NULL /\ lock[room[s]] = NoThread
      /\ visited[s] = {}
  BY <1>1, RoomIsRoom, NullAssumption
  DEF LockToCast, LockRoom, RoomPC, CastPC, IInv, Casting
<1>3. talks' = talks /\ talks[s] = room[s].name /\ talks[s] # NULL
  BY <1>1, <1>2, NullAssumption DEF talks, Rooms
<1>4. \A r \in Receivers : IsMember(r)' <=> IsMember(r)
  BY <1>1 DEF IsMember
<1>5. sits' = sits
  BY <1>1, <1>4 DEF sits
<1>6. ASSUME NEW r \in Receivers
      PROVE  Chat!Hears(r, s) <=> r \in members[room[s]] /\ Username[r] # Username[s]
  <2>1. sits[r] = talks[s] <=> IsMember(r) /\ room[r].name = room[s].name
    BY <1>3 DEF sits
  <2>2. IsMember(r) /\ room[r].name = room[s].name => room[r] = room[s]
    BY <1>1, <1>2 DEF IsMember, IInv, OneRoomPerName, Workers
  <2>3. r \in members[room[s]] <=> IsMember(r) /\ room[r] = room[s]
    BY <1>2, SitsInside
  <2> QED
    BY <2>1, <2>2, <2>3 DEF Chat!Hears
<1>7. ASSUME NEW r \in Receivers, NEW c \in Senders \ {s}
      PROVE  c \in CastingTo(r)' <=> c \in CastingTo(r)
  BY <1>1 DEF CastingTo, ToVisit, IInv, TypeOK, Workers
<1>8. ASSUME NEW r \in Receivers
      PROVE  /\ s \notin CastingTo(r)
             /\ s \in CastingTo(r)' <=> Chat!Hears(r, s)
  BY <1>1, <1>2, <1>6 DEF CastingTo, ToVisit, IInv, TypeOK
<1>9. \A r \in Receivers : Held(r)' = Held(r)
  BY <1>1 DEF Held
<1>10. ASSUME NEW r \in Receivers, Chat!Hears(r, s)
       PROVE  pending'[r] = Append(pending[r], <<s, said'[s]>>)
  <2>1. IsMember(r) /\ room[r] = room[s]
    BY <1>2, <1>6, <1>10, SitsInside
  <2>2. CastingTo(r) = {}
    BY <1>2, <2>1, CasterInRoom, ClientsAssumption DEF CastingTo, Workers
  <2>3. InFlight(r) = <<>>
    BY <2>2 DEF InFlight
  <2>4. CastingTo(r)' = {s}
    BY <1>7, <1>8, <1>10, <2>2 DEF CastingTo
  <2>5. InFlight(r)' = <<<<s, said'[s]>>>>
    <3>1. Only({s}) = s
      BY DEF Only
    <3> QED
      BY <2>4, <3>1 DEF InFlight
  <2>6. <<s, said'[s]>> \in Messages
    BY <1>1 DEF Messages, IInv, TypeOK
  <2>7. pending[r] = Held(r) \o mqueue[r] \o <<>>
    BY <2>1, <2>3 DEF pending
  <2>8. pending'[r] = Held(r) \o mqueue[r] \o <<<<s, said'[s]>>>>
    BY <1>1, <1>4, <1>9, <2>1, <2>5 DEF pending
  <2>9. Append(Held(r) \o mqueue[r] \o <<>>, <<s, said'[s]>>)
          = Held(r) \o mqueue[r] \o <<<<s, said'[s]>>>>
    <3>1. Held(r) \in Seq(Messages) /\ mqueue[r] \in Seq(Messages)
      BY InFlightType
    <3>2. \A m \in Messages :
            Append(Held(r) \o mqueue[r] \o <<>>, m) = Held(r) \o mqueue[r] \o <<m>>
      BY <3>1, MoveToQueue
    <3> QED
      BY <2>6, <3>2
  <2> QED
    BY <2>7, <2>8, <2>9
<1>11. ASSUME NEW r \in Receivers, ~Chat!Hears(r, s)
       PROVE  pending'[r] = pending[r]
  <2>1. CastingTo(r)' = CastingTo(r)
    BY <1>7, <1>8, <1>11 DEF CastingTo
  <2>2. ASSUME NEW c \in CastingTo(r) PROVE said'[c] = said[c]
    BY <1>1, <1>8 DEF CastingTo, IInv, TypeOK
  <2>3. InFlight(r)' = InFlight(r)
    <3>1. CASE CastingTo(r) = {}
      BY <2>1, <3>1 DEF InFlight
    <3>2. ASSUME NEW c \in CastingTo(r) PROVE InFlight(r)' = InFlight(r)
      <4>1. CastingTo(r) = {c} /\ Only({c}) = c
        BY OneInFlight DEF Only
      <4> QED
        BY <2>1, <2>2, <4>1 DEF InFlight
    <3> QED
      BY <3>1, <3>2
  <2> QED
    BY <1>1, <1>4, <1>9, <2>3 DEF pending
<1>12. pending' = [r \in Receivers |-> IF Chat!Hears(r, s)
                                       THEN Append(pending[r], <<s, said'[s]>>)
                                       ELSE pending[r]]
  BY <1>10, <1>11 DEF pending
<1> QED
  BY <1>1, <1>3, <1>5, <1>12 DEF Chat!Say

(* When the loop puts the message into a queue, nothing is pending that *)
(* was not, and in the same order.                                      *)
LEMMA PushHidden ==
  ASSUME IInv, IInv', NEW s \in Senders, Push(s)
  PROVE  UNCHANGED Chat!vars
<1>1. /\ UNCHANGED <<room, members, inHand, said>>
      /\ s \in Workers /\ s \notin Receivers
      /\ pc[s] = "cast" /\ pc' = [pc EXCEPT ![s] = "cast_post"]
  BY ClientsAssumption DEF Push, locals, rooms, Goto, Workers
<1>2. PICK r \in ToVisit(s) :
        /\ mqueue' = [mqueue EXCEPT ![r] = Append(@, <<s, said[s]>>)]
        /\ visited' = [visited EXCEPT ![s] = @ \cup {r}]
  BY DEF Push
<1>3. r \in Receivers /\ s \in CastingTo(r)
  BY <1>1, <1>2, RoomIsRoom DEF CastingTo, ToVisit, RoomPC, IInv, TypeOK
<1>4. \A q \in Receivers : IsMember(q)' <=> IsMember(q)
  BY <1>1 DEF IsMember
<1>5. \A q \in Receivers : Held(q)' = Held(q)
  BY <1>1 DEF Held
<1>6. ASSUME NEW q \in Receivers, NEW c \in Senders, q # r \/ c # s
      PROVE  c \in CastingTo(q)' <=> c \in CastingTo(q)
  <2>1. pc'[c] \in CastPC <=> pc[c] \in CastPC
    BY <1>1 DEF CastPC, IInv, TypeOK, Workers
  <2>2. q \in visited'[c] <=> q \in visited[c]
    BY <1>2, <1>6 DEF IInv, TypeOK
  <2> QED
    BY <1>1, <2>1, <2>2 DEF CastingTo, ToVisit, CastPC
<1>7. pending'[r] = pending[r]
  <2>1. CastingTo(r) = {s} /\ InFlight(r) = <<<<s, said[s]>>>>
    BY <1>3, OneInFlight
  <2>2. s \notin CastingTo(r)'
    BY <1>2 DEF CastingTo, ToVisit, IInv, TypeOK
  <2>3. CastingTo(r)' = {}
    BY <1>3, <1>6, <2>1, <2>2 DEF CastingTo
  <2>4. InFlight(r)' = <<>>
    BY <2>3 DEF InFlight
  <2>5. IsMember(r) /\ mqueue'[r] = Append(mqueue[r], <<s, said[s]>>)
    BY <1>2, <1>3, CasterInRoom DEF IInv, TypeOK
  <2>6. <<s, said[s]>> \in Messages
    BY <1>1 DEF Messages, CastPC, Casting, IInv, TypeOK
  <2>7. Held(r) \o Append(mqueue[r], <<s, said[s]>>) \o <<>>
          = Held(r) \o mqueue[r] \o <<<<s, said[s]>>>>
    <3>1. Held(r) \in Seq(Messages) /\ mqueue[r] \in Seq(Messages)
      BY <1>3, InFlightType
    <3>2. \A m \in Messages :
            Held(r) \o Append(mqueue[r], m) \o <<>> = Held(r) \o mqueue[r] \o <<m>>
      BY <3>1, MoveToQueue
    <3> QED
      BY <2>6, <3>2
  <2>8. pending[r] = Held(r) \o mqueue[r] \o <<<<s, said[s]>>>>
    BY <1>3, <2>1, <2>5 DEF pending
  <2>9. pending'[r] = Held(r) \o Append(mqueue[r], <<s, said[s]>>) \o <<>>
    BY <1>3, <1>4, <1>5, <2>4, <2>5 DEF pending
  <2> QED
    BY <2>7, <2>8, <2>9
<1>8. ASSUME NEW q \in Receivers \ {r} PROVE pending'[q] = pending[q]
  <2>1. CastingTo(q)' = CastingTo(q)
    BY <1>6 DEF CastingTo
  <2>2. InFlight(q)' = InFlight(q)
    BY <1>1, <2>1 DEF InFlight
  <2>3. mqueue'[q] = mqueue[q]
    BY <1>2 DEF IInv, TypeOK
  <2> QED
    BY <1>4, <1>5, <2>2, <2>3 DEF pending
<1>9. pending' = pending
  BY <1>7, <1>8 DEF pending
<1>10. talks' = talks /\ sits' = sits
  BY <1>1, <1>4 DEF talks, sits
<1> QED
  BY <1>1, <1>9, <1>10 DEF Chat!vars

(* When the loop is done, the message is on its way to nobody. *)
LEMMA CastDoneHidden ==
  ASSUME IInv, NEW s \in Senders, CastDone(s)
  PROVE  UNCHANGED Chat!vars
<1>1. /\ UNCHANGED <<room, members, mqueue, inHand, said>>
      /\ s \in Workers /\ ToVisit(s) = {}
      /\ pc' = [pc EXCEPT ![s] = "receive"]
      /\ visited' = [visited EXCEPT ![s] = {}]
  BY DEF CastDone, locals, queues, Goto, Workers
<1>2. ASSUME NEW r \in Receivers PROVE CastingTo(r)' = CastingTo(r)
  <2>1. s \notin CastingTo(r) /\ s \notin CastingTo(r)'
    BY <1>1 DEF CastingTo, IInv, TypeOK
  <2>2. ASSUME NEW c \in Senders \ {s}
        PROVE  c \in CastingTo(r)' <=> c \in CastingTo(r)
    BY <1>1 DEF CastingTo, ToVisit, IInv, TypeOK, Workers
  <2> QED
    BY <2>1, <2>2 DEF CastingTo
<1>3. \A c \in Senders : talks'[c] = talks[c]
  BY <1>1 DEF talks
<1> QED
  BY <1>1, <1>2, <1>3, QuietStep

-----------------------------------------------------------------------------
(* Every step of the server is a step of AtomicChat or leaves it unchanged. *)
LEMMA StepRefines == IInv /\ IInv' /\ [Next]_vars => [Chat!Next]_(Chat!vars)
<1> SUFFICES ASSUME IInv, IInv', [Next]_vars PROVE [Chat!Next]_(Chat!vars)
  OBVIOUS
<1>1. ASSUME NEW w \in Workers, Accept(w) \/ Login(w)
      PROVE  UNCHANGED Chat!vars
  BY <1>1, HiddenStep
  DEF Accept, Login, CastPC, locals, rooms, queues, cast
<1>2. ASSUME NEW w \in Workers, FindOrCreate(w)
      PROVE  [Chat!Next]_(Chat!vars)
  <2>1. CASE LockServer(w)
    BY <2>1, HiddenStep DEF LockServer, CastPC, locals, queues, cast
  <2>2. CASE Find(w)
    <3>1. CASE m_rooms[arg[w]] # NULL
      <4>1. arg[w] \in RoomNames
        BY <2>2 DEF Find, Goto, IInv, AtHand, FindPC
      <4>2. m_rooms[arg[w]] \in Rooms /\ m_rooms[arg[w]].name = arg[w]
        BY <3>1, <4>1 DEF IInv, TypeOK, MapFiled
      <4>3. Goto(w, "find", AfterFind(w)) /\ room' = [room EXCEPT ![w] = m_rooms[arg[w]]]
            /\ UNCHANGED <<members, queues, cast>>
        BY <2>2, <3>1 DEF Find
      <4> QED
        BY <4>1, <4>2, <4>3, LookupRefines DEF FindPC
    <3>2. CASE m_rooms[arg[w]] = NULL
      BY <2>2, <3>2, HiddenStep DEF Find, CastPC, queues, cast
    <3> QED
      BY <3>1, <3>2
  <2>3. CASE Create(w)
    <3> DEFINE res == [name |-> arg[w], creator |-> w]
    <3>1. arg[w] \in RoomNames
      BY <2>3 DEF Create, Goto, IInv, AtHand, FindPC
    <3>2. res \in Rooms /\ res.name \in RoomNames
      BY <3>1 DEF Rooms
    <3>3. Goto(w, "create", AfterFind(w)) /\ room' = [room EXCEPT ![w] = res]
          /\ UNCHANGED <<members, queues, cast>>
      BY <2>3 DEF Create
    <3> HIDE DEF res
    <3> QED
      BY <3>2, <3>3, LookupRefines DEF FindPC
  <2> QED
    BY <1>2, <2>1, <2>2, <2>3 DEF FindOrCreate
<1>3. ASSUME NEW r \in Receivers, Join(r) \/ LockToAdd(r) \/ LockToRemove(r)
      PROVE  UNCHANGED Chat!vars
  BY <1>3, HiddenStep
  DEF Join, LockToAdd, LockToRemove, CastPC, locals, rooms, queues, cast, Workers
<1>4. ASSUME NEW s \in Senders,
             ReplyJoined(s) \/ SenderClient(s) \/ Post(s)
      PROVE  UNCHANGED Chat!vars
  BY <1>4, HiddenStep
  DEF ReplyJoined, SenderClient, RequestJoin, RequestLeave, RequestSendAll,
      RequestRefused, Quit, Request, Post, CastPC, locals, rooms, queues, cast, Workers
<1>5. ASSUME NEW r \in Receivers, Send(r)
      PROVE  Chat!Next
  BY <1>5, SendRefines DEF Chat!Next
<1>6. ASSUME NEW s \in Senders, LockToCast(s)
      PROVE  Chat!Next
  BY <1>6, CastRefines DEF Chat!Next
<1>7. CASE UNCHANGED vars
  BY <1>7 DEF vars, locals, rooms, queues, cast, Chat!vars, talks, sits, pending,
      IsMember, Held, InFlight, CastingTo, ToVisit
<1> QED
  BY <1>1, <1>2, <1>3, <1>4, <1>5, <1>6, <1>7, DeleteHidden, DequeueHidden,
     MembershipRefines, PushHidden, CastDoneHidden
  DEF Next, SenderStep, ReceiverStep, Broadcast, DequeueTimeout, Workers

(* The server is an atomic chat service, whatever its workers' steps       *)
(* interleave: a broadcast reaches all receivers of the room at once, each *)
(* once and in one order for all, and rooms are the same for all workers.  *)
THEOREM ImplementsAtomicChat == Spec => IsAtomicChat
<1>1. Init => Chat!Init
  BY DEF Init, Chat!Init, talks, sits, pending, IsMember, Workers
<1>2. [Next \/ AllServed]_vars => [Next]_vars
  BY DEF AllServed
<1> QED
  BY <1>1, <1>2, StepRefines, Invariance, PTL DEF Spec, IsAtomicChat, Chat!Spec
=============================================================================
