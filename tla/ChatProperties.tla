---------------------------- MODULE ChatProperties ----------------------------
(* What makes the chat server correct, stated over ChatServer. *)
EXTENDS ChatServer

PCs == {"accept", "unserved", "login", "done", "delete", "find_lock", "find",
        "create", "joined", "receive", "cast_lock", "cast", "cast_post",
        "join", "add_lock", "add", "dequeue", "send", "remove_lock", "remove"}

(* Every variable has its type. *)
TypeOK == /\ pc \in [Workers -> PCs]
          /\ arg \in [Workers -> RoomNames \cup {NULL}]
          /\ room \in [Workers -> Rooms \cup {NULL}]
          /\ m_rooms \in [RoomNames -> Rooms \cup {NULL}]
          /\ m_lock \in Workers \cup {NoThread}
          /\ lock \in [Rooms -> Workers \cup {NoThread}]
          /\ members \in [Rooms -> SUBSET Receivers]
          /\ mqueue \in [Receivers -> Seq(Messages)]
          /\ avail \in [Receivers -> Nat]
          /\ inHand \in [Receivers -> Messages \cup {NULL}]
          /\ visited \in [Senders -> SUBSET Receivers]
          /\ to \in [Senders -> Receivers \cup {NULL}]
          /\ said \in [Senders -> Nat]
          /\ nreq \in [Senders -> Nat]
          /\ told \in [Senders -> RoomNames \cup {NULL}]

(* The critical sections of room.cpp and of find_or_create_room: a mutex is *)
(* held by the worker inside the section it guards, and by nobody else.     *)
CriticalSections ==
  /\ \A w \in Workers : m_lock = w <=> pc[w] \in {"find", "create"}
  /\ \A w \in Workers, o \in Rooms :
       lock[o] = w <=> /\ pc[w] \in {"add", "remove", "cast", "cast_post"}
                       /\ room[w] = o

(* The workers whose User object exists. *)
Live == {w \in Workers : pc[w] \notin {"accept", "unserved", "login", "done"}}

(* No use after free: every User* in the member set of a room, and the one *)
(* a broadcast is about to post the semaphore of, points to a live object, *)
(* although the thread that deletes a User is not the one that uses it.    *)
NoDanglingUser == /\ \A o \in Rooms : members[o] \subseteq Live
                  /\ \A s \in Senders : to[s] # NULL => to[s] \in Live

(* find_or_create_room returns "the unique Room object representing the    *)
(* named chat room": two workers in rooms of one name share one object.    *)
OneRoomPerName == \A w \in Workers :
  room[w] # NULL => m_rooms[room[w].name] = room[w]

(* No message is stranded in a queue: the tokens of its semaphore and the  *)
(* posts that broadcasts still have to make add up to the messages inside. *)
TokensMatchQueue == \A r \in Receivers :
  Len(mqueue[r]) = avail[r] + Cardinality({s \in Senders : to[s] = r})

-----------------------------------------------------------------------------
(* The refinement of AtomicChat.  A message is said when the broadcast has *)
(* locked the room; until the loop has come to it, it is pending for every *)
(* member although it is not yet in the member's queue.                    *)

talks == [s \in Senders |-> IF room[s] = NULL THEN NULL ELSE room[s].name]

IsMember(r) == room[r] # NULL /\ r \in members[room[r]]
sits == [r \in Receivers |-> IF IsMember(r) THEN room[r].name ELSE NULL]

CastingTo(r) == {s \in Senders : pc[s] \in {"cast", "cast_post"} /\ r \in ToVisit(s)}
Only(S) == CHOOSE x \in S : TRUE
InFlight(r) == IF CastingTo(r) = {} THEN <<>>
               ELSE LET s == Only(CastingTo(r)) IN <<<<s, said[s]>>>>
Held(r) == IF inHand[r] = NULL THEN <<>> ELSE <<inHand[r]>>
pending == [r \in Receivers |-> IF IsMember(r)
                                THEN Held(r) \o mqueue[r] \o InFlight(r)
                                ELSE <<>>]

Chat == INSTANCE AtomicChat

(* The server is an atomic chat service: one room per name, a broadcast    *)
(* reaches every member at once, in one order for all, each message once.  *)
IsAtomicChat == Chat!Spec

-----------------------------------------------------------------------------
(* Liveness *)

(* A sendall is answered even if no receiver of the room reads what its *)
(* worker writes: a broadcast waits for locks, never for a connection.  *)
SendAllAnswered == \A s \in Senders : pc[s] = "cast_lock" ~> pc[s] = "receive"

(* A worker whose client is gone leaves its room and ends. *)
FailedWorkerEnds == \A w \in Workers :
  pc[w] \in {"remove_lock", "delete"} ~> pc[w] = "done"

(* A message in a queue does not stay there: it is written to the client, *)
(* or the client is gone and the queue is destroyed.                      *)
Waiting(r, m) == \E i \in DOMAIN mqueue[r] : mqueue[r][i] = m
QueuedIsWritten == ClientsRead =>
  \A r \in Receivers, s \in Senders : \A k \in 1 .. MaxReq[s] :
    Waiting(r, <<s, k>>) ~> ~Waiting(r, <<s, k>>)

(* The answer "left room" means what message.h says of the tag, "leave a *)
(* chat room": a sender broadcasts only in the room it was told it is in. *)
CastsOnlyWhereJoined == \A s \in Senders :
  pc[s] \in {"cast", "cast_post"} => told[s] = room[s].name
=============================================================================
