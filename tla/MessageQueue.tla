---------------------------- MODULE MessageQueue ----------------------------
(***************************************************************************)
(* The class MessageQueue (assign5/message_queue.cpp): a deque guarded by  *)
(* the mutex m_lock and counted by the semaphore m_avail.  enqueue posts   *)
(* the semaphore after it has released the mutex and dequeue waits on it   *)
(* before it takes the mutex, so the count and the deque are never updated *)
(* together; every step between two synchronisation calls is an action.    *)
(***************************************************************************)
EXTENDS Naturals, Sequences, FiniteSets

CONSTANTS Producers,  \* threads that call enqueue (senders in a broadcast)
          Consumers,  \* threads that call dequeue
          Messages,   \* the heap-allocated Message objects
          NULL,       \* nullptr
          NoThread    \* the owner of a free mutex

Threads == Producers \cup Consumers

ASSUME ThreadsAssumption == /\ IsFiniteSet(Threads)
                            /\ Producers \cap Consumers = {}
                            /\ NoThread \notin Threads
ASSUME MessagesAssumption == NULL \notin Messages

VARIABLES m_lock,      \* the thread that holds the mutex, or NoThread
          m_avail,     \* the value of the semaphore
          m_messages,  \* the deque, front first
          pc,          \* where each thread is in enqueue or dequeue
          msg,         \* enqueue's parameter, dequeue's local variable
          fresh,       \* objects not allocated yet
          deleted      \* objects the caller of dequeue has deleted

vars == <<m_lock, m_avail, m_messages, pc, msg, fresh, deleted>>

Init == /\ m_lock = NoThread
        /\ m_avail = 0
        /\ m_messages = <<>>
        /\ pc = [t \in Threads |-> "idle"]
        /\ msg = [t \in Threads |-> NULL]
        /\ fresh = Messages
        /\ deleted = {}

Goto(t, from, to) == /\ pc[t] = from
                     /\ pc' = [pc EXCEPT ![t] = to]

-----------------------------------------------------------------------------
(* The mutex: pthread_mutex_lock waits until it is free. *)

(* Mutated form: enters without waiting for the owner to leave. *)
LockBusy(t, from, to) == /\ Goto(t, from, to)
                         /\ m_lock' = t
                         /\ UNCHANGED <<m_avail, m_messages, msg, fresh, deleted>>

Lock(t, from, to) == /\ Goto(t, from, to)
                     /\ m_lock = NoThread
                     /\ m_lock' = t
                     /\ UNCHANGED <<m_avail, m_messages, msg, fresh, deleted>>

(* Mutated form: returns without releasing the mutex. *)
UnlockForgotten(t, from, to) ==
  /\ Goto(t, from, to)
  /\ UNCHANGED <<m_lock, m_avail, m_messages, msg, fresh, deleted>>

Unlock(t, from, to) == /\ Goto(t, from, to)
                       /\ m_lock' = NoThread
                       /\ UNCHANGED <<m_avail, m_messages, msg, fresh, deleted>>

-----------------------------------------------------------------------------
(* enqueue *)

CallEnqueue(p) == \E m \in fresh :
  /\ Goto(p, "idle", "e_lock")
  /\ msg' = [msg EXCEPT ![p] = m]
  /\ fresh' = fresh \ {m}
  /\ UNCHANGED <<m_lock, m_avail, m_messages, deleted>>

PushBack(p) ==
  /\ Goto(p, "e_push", "e_unlock")
  /\ m_messages' = Append(m_messages, msg[p])
  /\ msg' = [msg EXCEPT ![p] = NULL]
  /\ UNCHANGED <<m_lock, m_avail, fresh, deleted>>

(* Mutated form: nobody is notified. *)
SemPostForgotten(p) ==
  /\ Goto(p, "e_post", "idle")
  /\ UNCHANGED <<m_lock, m_avail, m_messages, msg, fresh, deleted>>

SemPost(p) ==
  /\ Goto(p, "e_post", "idle")
  /\ m_avail' = m_avail + 1
  /\ UNCHANGED <<m_lock, m_messages, msg, fresh, deleted>>

EnqueueStep(p) == \/ Lock(p, "e_lock", "e_push")
                  \/ PushBack(p)
                  \/ Unlock(p, "e_unlock", "e_post")
                  \/ SemPost(p)

-----------------------------------------------------------------------------
(* dequeue *)

CallDequeue(c) == /\ Goto(c, "idle", "d_wait")
                  /\ UNCHANGED <<m_lock, m_avail, m_messages, msg, fresh, deleted>>

(* Mutated form: goes on without a token. *)
SemTakeUnchecked(c, from) ==
  /\ Goto(c, from, "d_lock")
  /\ m_avail' = m_avail - 1
  /\ UNCHANGED <<m_lock, m_messages, msg, fresh, deleted>>

(* sem_timedwait takes a token at once if there is one, *)
(* whatever the deadline; otherwise the thread blocks.  *)
SemTake(c, from) ==
  /\ m_avail > 0
  /\ Goto(c, from, "d_lock")
  /\ m_avail' = m_avail - 1
  /\ UNCHANGED <<m_lock, m_messages, msg, fresh, deleted>>

SemBlock(c) ==
  /\ m_avail = 0
  /\ Goto(c, "d_wait", "d_block")
  /\ UNCHANGED <<m_lock, m_avail, m_messages, msg, fresh, deleted>>

(* The deadline of a blocked thread can pass although a token *)
(* has just been posted; dequeue then returns nullptr.        *)
SemTimeout(c) ==
  /\ Goto(c, "d_block", "idle")
  /\ UNCHANGED <<m_lock, m_avail, m_messages, msg, fresh, deleted>>

Front(c) ==
  /\ Goto(c, "d_front", "d_pop")
  /\ msg' = [msg EXCEPT ![c] = Head(m_messages)]
  /\ UNCHANGED <<m_lock, m_avail, m_messages, fresh, deleted>>

(* Mutated form: pop_back. *)
PopBack(c) ==
  /\ Goto(c, "d_pop", "d_unlock")
  /\ m_messages' = SubSeq(m_messages, 1, Len(m_messages) - 1)
  /\ UNCHANGED <<m_lock, m_avail, msg, fresh, deleted>>

PopFront(c) ==
  /\ Goto(c, "d_pop", "d_unlock")
  /\ m_messages' = Tail(m_messages)
  /\ UNCHANGED <<m_lock, m_avail, msg, fresh, deleted>>

(* The caller has used the message and deletes it. *)
DeleteMessage(c) ==
  /\ Goto(c, "d_ret", "idle")
  /\ deleted' = deleted \cup {msg[c]}
  /\ msg' = [msg EXCEPT ![c] = NULL]
  /\ UNCHANGED <<m_lock, m_avail, m_messages, fresh>>

DequeueStep(c) == \/ SemTake(c, "d_wait")
                  \/ SemBlock(c)
                  \/ SemTake(c, "d_block")
                  \/ SemTimeout(c)
                  \/ Lock(c, "d_lock", "d_front")
                  \/ Front(c)
                  \/ PopFront(c)
                  \/ Unlock(c, "d_unlock", "d_ret")
                  \/ DeleteMessage(c)

-----------------------------------------------------------------------------
Next == \/ \E p \in Producers : CallEnqueue(p) \/ EnqueueStep(p)
        \/ \E c \in Consumers : CallDequeue(c) \/ DequeueStep(c)

Spec == Init /\ [][Next]_vars

(***************************************************************************)
(* A thread that can run is eventually run, a deadline eventually passes,  *)
(* and the thread that owns the queue calls dequeue in an endless loop.    *)
(* Nothing makes a thread call enqueue.                                    *)
(***************************************************************************)
Fairness == /\ \A p \in Producers : WF_vars(EnqueueStep(p))
            /\ \A c \in Consumers : WF_vars(CallDequeue(c) \/ DequeueStep(c))

FairSpec == Spec /\ Fairness

-----------------------------------------------------------------------------
(* Properties *)

ProducerPC == {"idle", "e_lock", "e_push", "e_unlock", "e_post"}
ConsumerPC == {"idle", "d_wait", "d_block", "d_lock", "d_front", "d_pop",
               "d_unlock", "d_ret"}
CriticalPC == {"e_push", "e_unlock", "d_front", "d_pop", "d_unlock"}

(* Every variable has its type; a thread is only at points of its function. *)
TypeOK == /\ m_lock \in Threads \cup {NoThread}
          /\ m_avail \in Nat
          /\ m_messages \in Seq(Messages)
          /\ pc \in [Threads -> ProducerPC \cup ConsumerPC]
          /\ \A p \in Producers : pc[p] \in ProducerPC
          /\ \A c \in Consumers : pc[c] \in ConsumerPC
          /\ msg \in [Threads -> Messages \cup {NULL}]
          /\ fresh \in SUBSET Messages
          /\ deleted \in SUBSET Messages

(* Whoever touches the deque holds m_lock, and nobody else does: *)
(* push_back, front and pop_front never run at the same time.    *)
DequeAccessLocked == \A t \in Threads : pc[t] \in CriticalPC <=> m_lock = t

Unposted == {p \in Producers : pc[p] \in {"e_unlock", "e_post"}}
Claims == {c \in Consumers : pc[c] \in {"d_lock", "d_front", "d_pop"}}

(* The semaphore counts the messages in the deque, less those whose enqueue *)
(* has not posted yet and those a dequeue has a token for: this is what the *)
(* comment "the semaphore keeps a count of how many messages are currently  *)
(* in the queue" comes to when the two are not updated together.            *)
SemaphoreCounts ==
  Len(m_messages) = m_avail + Cardinality(Unposted) + Cardinality(Claims)

(* front() and pop_front() are never called on an empty deque (undefined *)
(* behaviour): a token taken in dequeue always stands for a message.     *)
NoPopOfEmpty == \A c \in Consumers :
  pc[c] \in {"d_front", "d_pop"} => m_messages # <<>>

(* The class is a FIFO queue whose operations take effect once. *)
phase == [t \in Threads |->
  IF pc[t] \in {"d_wait", "e_lock", "e_push", "d_lock", "d_front", "d_pop"}
  THEN "in"
  ELSE IF pc[t] = "idle" THEN "out"
  ELSE IF pc[t] = "d_block" THEN "missed" ELSE "done"]
hand == [t \in Threads |-> IF pc[t] = "d_pop" THEN NULL ELSE msg[t]]

Fifo == INSTANCE FifoQueue WITH queue <- m_messages
IsFifoQueue == Fifo!Spec

(* enqueue "will not block" and dequeue "blocks for at most a finite     *)
(* amount of time": whatever the other threads do, both return.          *)
CallsReturn == \A t \in Threads : pc[t] # "idle" ~> pc[t] = "idle"

(* A message that was enqueued is handed to a consumer: a timeout that *)
(* races with sem_post delays it and does not lose it.                 *)
EnqueuedIsHandedOut == \A m \in Messages : m \notin fresh ~> m \in deleted
=============================================================================
