------------------------- MODULE MessageQueue_proofs -------------------------
(***************************************************************************)
(* What holds of MessageQueue for any finite set of threads and any set of *)
(* messages.  The inductive invariant adds to the invariants of the module *)
(* what a thread carries at each point of its function.                    *)
(***************************************************************************)
EXTENDS MessageQueue, FiniteSetTheorems, TLAPS

(* A thread carries a message wherever its function is about to use one, *)
(* and a dequeue at pop_front carries the message front() returned.      *)
HandsFull ==
  /\ \A p \in Producers :
       /\ pc[p] \in {"e_lock", "e_push"} => msg[p] \in Messages
       /\ pc[p] \in {"idle", "e_unlock", "e_post"} => msg[p] = NULL
  /\ \A c \in Consumers :
       /\ pc[c] \in {"idle", "d_wait", "d_block", "d_lock", "d_front"}
            => msg[c] = NULL
       /\ pc[c] = "d_pop" => msg[c] = Head(m_messages)
       /\ pc[c] \in {"d_unlock", "d_ret"} => msg[c] \in Messages

IInv == /\ TypeOK
        /\ DequeAccessLocked
        /\ SemaphoreCounts
        /\ HandsFull

-----------------------------------------------------------------------------
(* The two sets of threads SemaphoreCounts counts are finite. *)
LEMMA CountedFinite ==
  /\ IsFiniteSet(Unposted) /\ Cardinality(Unposted) \in Nat
  /\ IsFiniteSet(Claims) /\ Cardinality(Claims) \in Nat
<1>1. Unposted \in SUBSET Threads /\ Claims \in SUBSET Threads
  BY DEF Unposted, Claims, Threads
<1> QED
  BY <1>1, ThreadsAssumption, FS_Subset, FS_CardinalityType

(* A thread that stands at front() or pop_front() has a message to take, *)
(* because it is one of the threads the semaphore's count leaves out.    *)
LEMMA ClaimMeansMessage ==
  ASSUME TypeOK, SemaphoreCounts, NEW c \in Claims
  PROVE  m_messages # <<>>
<1>1. Cardinality(Claims) # 0
  BY CountedFinite, FS_EmptySet
<1>2. Len(m_messages) > 0
  BY <1>1, CountedFinite DEF TypeOK, SemaphoreCounts
<1> QED
  BY <1>2

(* In the invariant's states nothing is popped from an empty deque. *)
LEMMA CountsImplyNoPopOfEmpty == TypeOK /\ SemaphoreCounts => NoPopOfEmpty
BY ClaimMeansMessage DEF NoPopOfEmpty, Claims

-----------------------------------------------------------------------------
(* The initial state. *)
LEMMA InitIInv == Init => IInv
<1> SUFFICES ASSUME Init PROVE IInv
  OBVIOUS
<1>1. TypeOK
  BY DEF Init, TypeOK, Threads, ProducerPC, ConsumerPC
<1>2. DequeAccessLocked
  BY ThreadsAssumption DEF Init, DequeAccessLocked, CriticalPC
<1>3. SemaphoreCounts
  <2>1. Unposted = {} /\ Claims = {}
    BY DEF Init, Unposted, Claims, Threads
  <2> QED
    BY <2>1, FS_EmptySet DEF Init, SemaphoreCounts
<1>4. HandsFull
  BY DEF Init, HandsFull, Threads
<1> QED
  BY <1>1, <1>2, <1>3, <1>4 DEF IInv

-----------------------------------------------------------------------------
(* Types are kept; only front() and pop_front() need the count for it. *)
LEMMA StepTypeOK == IInv /\ [Next]_vars => TypeOK'
<1> SUFFICES ASSUME IInv, [Next]_vars PROVE TypeOK'
  OBVIOUS
<1> USE DEF IInv, TypeOK
<1>1. ASSUME NEW t \in Threads, NEW from, NEW to, Goto(t, from, to),
             t \in Producers => to \in ProducerPC,
             t \in Consumers => to \in ConsumerPC
      PROVE  /\ pc' \in [Threads -> ProducerPC \cup ConsumerPC]
             /\ \A p \in Producers : pc'[p] \in ProducerPC
             /\ \A c \in Consumers : pc'[c] \in ConsumerPC
  BY <1>1 DEF Goto, Threads
<1>2. ASSUME NEW p \in Producers, CallEnqueue(p) \/ EnqueueStep(p)
      PROVE  TypeOK'
  <2> p \in Threads /\ p \notin Consumers
    BY ThreadsAssumption DEF Threads
  <2>1. CASE CallEnqueue(p)
    BY <2>1, <1>1 DEF CallEnqueue, ProducerPC
  <2>2. CASE Lock(p, "e_lock", "e_push")
    BY <2>2, <1>1 DEF Lock, ProducerPC
  <2>3. CASE PushBack(p)
    <3>1. msg[p] \in Messages
      BY <2>3 DEF PushBack, Goto, HandsFull
    <3>2. m_messages' \in Seq(Messages)
      BY <2>3, <3>1 DEF PushBack
    <3> QED
      BY <2>3, <3>2, <1>1 DEF PushBack, ProducerPC
  <2>4. CASE Unlock(p, "e_unlock", "e_post")
    BY <2>4, <1>1 DEF Unlock, ProducerPC
  <2>5. CASE SemPost(p)
    BY <2>5, <1>1 DEF SemPost, ProducerPC
  <2> QED
    BY <1>2, <2>1, <2>2, <2>3, <2>4, <2>5 DEF EnqueueStep
<1>3. ASSUME NEW c \in Consumers, CallDequeue(c) \/ DequeueStep(c)
      PROVE  TypeOK'
  <2> c \in Threads /\ c \notin Producers
    BY ThreadsAssumption DEF Threads
  <2>1. CASE CallDequeue(c)
    BY <2>1, <1>1 DEF CallDequeue, ConsumerPC
  <2>2. ASSUME NEW from, SemTake(c, from) PROVE TypeOK'
    BY <2>2, <1>1 DEF SemTake, ConsumerPC
  <2>3. CASE SemBlock(c)
    BY <2>3, <1>1 DEF SemBlock, ConsumerPC
  <2>4. CASE SemTimeout(c)
    BY <2>4, <1>1 DEF SemTimeout, ConsumerPC
  <2>5. CASE Lock(c, "d_lock", "d_front")
    BY <2>5, <1>1 DEF Lock, ConsumerPC
  <2>6. CASE Front(c)
    <3>1. m_messages # <<>>
      BY <2>6, ClaimMeansMessage DEF Front, Goto, Claims
    <3>2. Head(m_messages) \in Messages
      BY <3>1
    <3> QED
      BY <2>6, <3>2, <1>1 DEF Front, ConsumerPC
  <2>7. CASE PopFront(c)
    <3>1. m_messages # <<>>
      BY <2>7, ClaimMeansMessage DEF PopFront, Goto, Claims
    <3>2. Tail(m_messages) \in Seq(Messages)
      BY <3>1
    <3> QED
      BY <2>7, <3>2, <1>1 DEF PopFront, ConsumerPC
  <2>8. CASE Unlock(c, "d_unlock", "d_ret")
    BY <2>8, <1>1 DEF Unlock, ConsumerPC
  <2>9. CASE DeleteMessage(c)
    <3>1. msg[c] \in Messages
      BY <2>9 DEF DeleteMessage, Goto, HandsFull
    <3> QED
      BY <2>9, <3>1, <1>1 DEF DeleteMessage, ConsumerPC
  <2> QED
    BY <1>3, <2>1, <2>2, <2>3, <2>4, <2>5, <2>6, <2>7, <2>8, <2>9
    DEF DequeueStep
<1>4. CASE UNCHANGED vars
  BY <1>4 DEF vars
<1> QED
  BY <1>2, <1>3, <1>4 DEF Next

(* The mutex excludes: a thread enters only when it takes the lock. *)
LEMMA StepDequeAccessLocked == IInv /\ [Next]_vars => DequeAccessLocked'
<1> SUFFICES ASSUME IInv, [Next]_vars PROVE DequeAccessLocked'
  OBVIOUS
<1> USE DEF IInv, TypeOK, DequeAccessLocked, CriticalPC
<1>1. ASSUME NEW t \in Threads, NEW from, NEW to, Goto(t, from, to),
             m_lock' = m_lock, from \in CriticalPC <=> to \in CriticalPC
      PROVE  DequeAccessLocked'
  BY <1>1 DEF Goto
<1>2. ASSUME NEW t \in Threads, NEW from, NEW to, Lock(t, from, to),
             to \in CriticalPC
      PROVE  DequeAccessLocked'
  BY <1>2, ThreadsAssumption DEF Lock, Goto
<1>3. ASSUME NEW t \in Threads, NEW from, NEW to, Unlock(t, from, to),
             from \in CriticalPC, to \notin CriticalPC
      PROVE  DequeAccessLocked'
  BY <1>3, ThreadsAssumption DEF Unlock, Goto
<1>4. ASSUME NEW p \in Producers, CallEnqueue(p) \/ EnqueueStep(p)
      PROVE  DequeAccessLocked'
  <2> p \in Threads
    BY DEF Threads
  <2>1. CASE CallEnqueue(p)
    BY <2>1, <1>1 DEF CallEnqueue
  <2>2. CASE PushBack(p)
    BY <2>2, <1>1 DEF PushBack
  <2>3. CASE SemPost(p)
    BY <2>3, <1>1 DEF SemPost
  <2> QED
    BY <1>4, <2>1, <2>2, <2>3, <1>2, <1>3 DEF EnqueueStep
<1>5. ASSUME NEW c \in Consumers, CallDequeue(c) \/ DequeueStep(c)
      PROVE  DequeAccessLocked'
  <2> c \in Threads
    BY DEF Threads
  <2>1. CASE CallDequeue(c)
    BY <2>1, <1>1 DEF CallDequeue
  <2>2. CASE SemTake(c, "d_wait") \/ SemTake(c, "d_block")
    BY <2>2, <1>1 DEF SemTake
  <2>3. CASE SemBlock(c) \/ SemTimeout(c)
    BY <2>3, <1>1 DEF SemBlock, SemTimeout
  <2>4. CASE Front(c)
    BY <2>4, <1>1 DEF Front
  <2>5. CASE PopFront(c)
    BY <2>5, <1>1 DEF PopFront
  <2>6. CASE DeleteMessage(c)
    BY <2>6, <1>1 DEF DeleteMessage
  <2> QED
    BY <1>5, <2>1, <2>2, <2>3, <2>4, <2>5, <2>6, <1>2, <1>3 DEF DequeueStep
<1>6. CASE UNCHANGED vars
  BY <1>6 DEF vars
<1> QED
  BY <1>4, <1>5, <1>6 DEF Next

(* What a thread carries: nobody changes the head of the deque while a *)
(* dequeue holds the lock between front() and pop_front().             *)
LEMMA StepHandsFull == IInv /\ [Next]_vars => HandsFull'
<1> SUFFICES ASSUME IInv, [Next]_vars PROVE HandsFull'
  OBVIOUS
<1> USE DEF IInv, TypeOK
<1>1. ASSUME NEW t \in Threads, NEW from, NEW to, Goto(t, from, to),
             UNCHANGED <<m_messages, msg>>,
             t \in Producers =>
               \/ from = "e_lock" /\ to = "e_push"
               \/ from \in {"idle", "e_unlock", "e_post"}
                  /\ to \in {"idle", "e_unlock", "e_post"},
             t \in Consumers =>
               \/ from = "d_unlock" /\ to = "d_ret"
               \/ from \in {"idle", "d_wait", "d_block", "d_lock", "d_front"}
                  /\ to \in {"idle", "d_wait", "d_block", "d_lock", "d_front"}
      PROVE  HandsFull'
  BY <1>1 DEF Goto, HandsFull, Threads
<1>2. ASSUME NEW p \in Producers, CallEnqueue(p) \/ EnqueueStep(p)
      PROVE  HandsFull'
  <2> p \in Threads /\ p \notin Consumers
    BY ThreadsAssumption DEF Threads
  <2>1. CASE CallEnqueue(p)
    BY <2>1 DEF CallEnqueue, Goto, HandsFull, Threads
  <2>2. CASE Lock(p, "e_lock", "e_push")
    BY <2>2, <1>1 DEF Lock
  <2>3. CASE PushBack(p)
    <3>1. \A c \in Consumers : pc[c] # "d_pop"
      BY <2>3 DEF PushBack, Goto, DequeAccessLocked, CriticalPC, Threads
    <3> QED
      BY <2>3, <3>1 DEF PushBack, Goto, HandsFull, Threads
  <2>4. CASE Unlock(p, "e_unlock", "e_post")
    BY <2>4, <1>1 DEF Unlock
  <2>5. CASE SemPost(p)
    BY <2>5, <1>1 DEF SemPost
  <2> QED
    BY <1>2, <2>1, <2>2, <2>3, <2>4, <2>5 DEF EnqueueStep
<1>3. ASSUME NEW c \in Consumers, CallDequeue(c) \/ DequeueStep(c)
      PROVE  HandsFull'
  <2> c \in Threads /\ c \notin Producers
    BY ThreadsAssumption DEF Threads
  <2>1. CASE CallDequeue(c)
    BY <2>1, <1>1 DEF CallDequeue
  <2>2. CASE SemTake(c, "d_wait") \/ SemTake(c, "d_block")
    BY <2>2, <1>1 DEF SemTake
  <2>3. CASE SemBlock(c) \/ SemTimeout(c)
    BY <2>3, <1>1 DEF SemBlock, SemTimeout
  <2>4. CASE Lock(c, "d_lock", "d_front")
    BY <2>4, <1>1 DEF Lock
  <2>5. CASE Front(c)
    BY <2>5 DEF Front, Goto, HandsFull, Threads
  <2>6. CASE PopFront(c)
    <3>1. m_messages # <<>>
      BY <2>6, ClaimMeansMessage DEF PopFront, Goto, Claims
    <3>2. msg[c] \in Messages
      BY <2>6, <3>1 DEF PopFront, Goto, HandsFull
    <3>3. \A d \in Consumers \ {c} : pc[d] # "d_pop"
      BY <2>6 DEF PopFront, Goto, DequeAccessLocked, CriticalPC, Threads
    <3> QED
      BY <2>6, <3>2, <3>3 DEF PopFront, Goto, HandsFull, Threads
  <2>7. CASE Unlock(c, "d_unlock", "d_ret")
    BY <2>7, <1>1 DEF Unlock
  <2>8. CASE DeleteMessage(c)
    BY <2>8 DEF DeleteMessage, Goto, HandsFull, Threads
  <2> QED
    BY <1>3, <2>1, <2>2, <2>3, <2>4, <2>5, <2>6, <2>7, <2>8 DEF DequeueStep
<1>4. CASE UNCHANGED vars
  BY <1>4 DEF vars, HandsFull
<1> QED
  BY <1>2, <1>3, <1>4 DEF Next

(* The count: push_back adds a message and a thread that has not posted, *)
(* sem_post turns that thread into a token, sem_timedwait the token into *)
(* a claim, and pop_front removes the claim and the message together.    *)
LEMMA StepSemaphoreCounts == IInv /\ [Next]_vars => SemaphoreCounts'
<1> SUFFICES ASSUME IInv, [Next]_vars PROVE SemaphoreCounts'
  OBVIOUS
<1> USE DEF IInv, TypeOK
<1>1. ASSUME NEW t \in Threads, NEW from, NEW to, Goto(t, from, to),
             UNCHANGED <<m_avail, m_messages>>,
             {from, to} \subseteq {"e_unlock", "e_post"}
               \/ {from, to} \cap {"e_unlock", "e_post"} = {},
             {from, to} \subseteq {"d_lock", "d_front", "d_pop"}
               \/ {from, to} \cap {"d_lock", "d_front", "d_pop"} = {}
      PROVE  SemaphoreCounts'
  <2>1. Unposted' = Unposted
    BY <1>1 DEF Goto, Unposted, Threads
  <2>2. Claims' = Claims
    BY <1>1 DEF Goto, Claims, Threads
  <2> QED
    BY <1>1, <2>1, <2>2 DEF SemaphoreCounts
<1>2. ASSUME NEW p \in Producers, CallEnqueue(p) \/ EnqueueStep(p)
      PROVE  SemaphoreCounts'
  <2> p \in Threads /\ p \notin Consumers
    BY ThreadsAssumption DEF Threads
  <2>1. CASE CallEnqueue(p)
    BY <2>1, <1>1 DEF CallEnqueue
  <2>2. CASE Lock(p, "e_lock", "e_push")
    BY <2>2, <1>1 DEF Lock
  <2>3. CASE PushBack(p)
    <3>1. p \notin Unposted /\ Unposted' = Unposted \cup {p}
      BY <2>3 DEF PushBack, Goto, Unposted, Threads
    <3>2. Claims' = Claims
      BY <2>3 DEF PushBack, Goto, Claims, Threads
    <3>3. Cardinality(Unposted') = Cardinality(Unposted) + 1
      BY <3>1, CountedFinite, FS_AddElement
    <3>4. Len(m_messages') = Len(m_messages) + 1
      BY <2>3 DEF PushBack, Goto, HandsFull
    <3> QED
      BY <2>3, <3>2, <3>3, <3>4, CountedFinite DEF PushBack, SemaphoreCounts
  <2>4. CASE Unlock(p, "e_unlock", "e_post")
    BY <2>4, <1>1 DEF Unlock
  <2>5. CASE SemPost(p)
    <3>1. p \in Unposted /\ Unposted' = Unposted \ {p}
      BY <2>5 DEF SemPost, Goto, Unposted, Threads
    <3>2. Claims' = Claims
      BY <2>5 DEF SemPost, Goto, Claims, Threads
    <3>3. Cardinality(Unposted') = Cardinality(Unposted) - 1
      BY <3>1, CountedFinite, FS_RemoveElement
    <3> QED
      BY <2>5, <3>2, <3>3, CountedFinite DEF SemPost, SemaphoreCounts
  <2> QED
    BY <1>2, <2>1, <2>2, <2>3, <2>4, <2>5 DEF EnqueueStep
<1>3. ASSUME NEW c \in Consumers, CallDequeue(c) \/ DequeueStep(c)
      PROVE  SemaphoreCounts'
  <2> c \in Threads /\ c \notin Producers
    BY ThreadsAssumption DEF Threads
  <2>1. CASE CallDequeue(c)
    BY <2>1, <1>1 DEF CallDequeue
  <2>2. ASSUME NEW from \in {"d_wait", "d_block"}, SemTake(c, from)
        PROVE  SemaphoreCounts'
    <3>1. c \notin Claims /\ Claims' = Claims \cup {c}
      BY <2>2 DEF SemTake, Goto, Claims, Threads
    <3>2. Unposted' = Unposted
      BY <2>2 DEF SemTake, Goto, Unposted, Threads
    <3>3. Cardinality(Claims') = Cardinality(Claims) + 1
      BY <3>1, CountedFinite, FS_AddElement
    <3> QED
      BY <2>2, <3>2, <3>3, CountedFinite DEF SemTake, SemaphoreCounts
  <2>3. CASE SemBlock(c) \/ SemTimeout(c)
    BY <2>3, <1>1 DEF SemBlock, SemTimeout
  <2>4. CASE Lock(c, "d_lock", "d_front")
    BY <2>4, <1>1 DEF Lock
  <2>5. CASE Front(c)
    BY <2>5, <1>1 DEF Front
  <2>6. CASE PopFront(c)
    <3>1. c \in Claims /\ Claims' = Claims \ {c}
      BY <2>6 DEF PopFront, Goto, Claims, Threads
    <3>2. Unposted' = Unposted
      BY <2>6 DEF PopFront, Goto, Unposted, Threads
    <3>3. Cardinality(Claims') = Cardinality(Claims) - 1
      BY <3>1, CountedFinite, FS_RemoveElement
    <3>4. Len(m_messages') = Len(m_messages) - 1
      BY <2>6, <3>1, ClaimMeansMessage DEF PopFront
    <3> QED
      BY <2>6, <3>2, <3>3, <3>4, CountedFinite DEF PopFront, SemaphoreCounts
  <2>7. CASE Unlock(c, "d_unlock", "d_ret")
    BY <2>7, <1>1 DEF Unlock
  <2>8. CASE DeleteMessage(c)
    BY <2>8, <1>1 DEF DeleteMessage
  <2> QED
    BY <1>3, <2>1, <2>2, <2>3, <2>4, <2>5, <2>6, <2>7, <2>8 DEF DequeueStep
<1>4. CASE UNCHANGED vars
  BY <1>4, <1>1 DEF vars, SemaphoreCounts, Unposted, Claims
<1> QED
  BY <1>2, <1>3, <1>4 DEF Next

-----------------------------------------------------------------------------
(* IInv holds in every reachable state of the queue. *)
THEOREM Invariance == Spec => []IInv
<1>1. IInv /\ [Next]_vars => IInv'
  BY StepTypeOK, StepDequeAccessLocked, StepSemaphoreCounts, StepHandsFull
  DEF IInv
<1> QED
  BY InitIInv, <1>1, PTL DEF Spec

(* Every variable of the queue keeps its type, whatever the threads do. *)
THEOREM TypeCorrect == Spec => []TypeOK
<1>1. IInv => TypeOK
  BY DEF IInv
<1> QED
  BY <1>1, Invariance, PTL

(* push_back, front and pop_front never run at the same time: the mutex *)
(* taken in enqueue and in dequeue protects every access to the deque.  *)
THEOREM DequeIsProtected == Spec => []DequeAccessLocked
<1>1. IInv => DequeAccessLocked
  BY DEF IInv
<1> QED
  BY <1>1, Invariance, PTL

(* The value of m_avail, the posts still to come and the tokens taken but *)
(* not used yet always add up to the number of messages in the deque.     *)
THEOREM SemaphoreIsCount == Spec => []SemaphoreCounts
<1>1. IInv => SemaphoreCounts
  BY DEF IInv
<1> QED
  BY <1>1, Invariance, PTL

(* dequeue never calls front() or pop_front() on an empty deque, for any *)
(* number of threads calling enqueue and dequeue on the same queue.      *)
THEOREM DequeueFindsMessage == Spec => []NoPopOfEmpty
<1>1. IInv => NoPopOfEmpty
  BY CountsImplyNoPopOfEmpty DEF IInv
<1> QED
  BY <1>1, Invariance, PTL

-----------------------------------------------------------------------------
(* A dequeue that finds the semaphore at zero may come back empty-handed: *)
(* every message inside then belongs to an enqueue that has not returned  *)
(* or to another dequeue that has a token.                                *)
LEMMA ZeroMeansAccounted ==
  ASSUME IInv, NEW c \in Consumers, pc[c] = "d_wait", m_avail = 0
  PROVE  Len(m_messages)
           =< Cardinality({p \in Producers : phase[p] = "done"})
              + Cardinality({d \in Consumers \ {c} : phase[d] = "in"})
<1> DEFINE Ending == {p \in Producers : phase[p] = "done"}
           Others == {d \in Consumers \ {c} : phase[d] = "in"}
<1>1. Ending = Unposted
  BY DEF phase, Unposted, IInv, TypeOK, ProducerPC, Threads
<1>2. Claims \subseteq Others
  BY DEF phase, Claims, Threads
<1>3. IsFiniteSet(Others)
  <2>1. Others \in SUBSET Threads
    BY DEF Threads
  <2> QED
    BY <2>1, ThreadsAssumption, FS_Subset
<1>4. /\ Cardinality(Claims) =< Cardinality(Others)
      /\ Cardinality(Others) \in Nat
  BY <1>2, <1>3, FS_Subset, FS_CardinalityType
<1>5. Len(m_messages) = Cardinality(Unposted) + Cardinality(Claims)
  BY CountedFinite DEF IInv, SemaphoreCounts
<1>6. Len(m_messages) =< Cardinality(Ending) + Cardinality(Others)
  <2> HIDE DEF Ending, Others
  <2> QED
    BY <1>1, <1>4, <1>5, CountedFinite
<1> QED
  BY <1>6

(* FifoQueue counts with the same operator. *)
LEMMA SameCardinality == \A S : Fifo!Cardinality(S) = Cardinality(S)
BY DEF Fifo!Cardinality, Cardinality

(* Every step of the queue is a step of FifoQueue or leaves it unchanged. *)
LEMMA StepRefines == IInv /\ [Next]_vars => [Fifo!Next]_(Fifo!vars)
<1> SUFFICES ASSUME IInv, [Next]_vars PROVE [Fifo!Next]_(Fifo!vars)
  OBVIOUS
<1> USE DEF IInv, TypeOK
<1>1. ASSUME NEW p \in Producers, CallEnqueue(p) \/ EnqueueStep(p)
      PROVE  [Fifo!Next]_(Fifo!vars)
  <2> p \in Threads /\ p \notin Consumers
    BY ThreadsAssumption DEF Threads
  <2>1. CASE CallEnqueue(p)
    <3>1. PICK m \in fresh : /\ msg' = [msg EXCEPT ![p] = m]
                             /\ fresh' = fresh \ {m}
      BY <2>1 DEF CallEnqueue
    <3>2. Fifo!Moves(p, "out", "in")
      BY <2>1 DEF CallEnqueue, Goto, Fifo!Moves, phase
    <3>3. hand' = [hand EXCEPT ![p] = m]
      BY <2>1, <3>1 DEF CallEnqueue, Goto, hand
    <3>4. Fifo!StartPut(p, m)
      BY <2>1, <3>1, <3>2, <3>3 DEF CallEnqueue, Fifo!StartPut
    <3> QED
      BY <3>1, <3>4 DEF Fifo!Next
  <2>2. CASE Lock(p, "e_lock", "e_push")
    BY <2>2 DEF Lock, Goto, Fifo!vars, phase, hand
  <2>3. CASE PushBack(p)
    <3>1. Fifo!Put(p)
      BY <2>3 DEF PushBack, Goto, Fifo!Put, Fifo!Moves, phase, hand
    <3> QED
      BY <3>1 DEF Fifo!Next
  <2>4. CASE Unlock(p, "e_unlock", "e_post")
    BY <2>4 DEF Unlock, Goto, Fifo!vars, phase, hand
  <2>5. CASE SemPost(p)
    <3>1. Fifo!EndPut(p)
      BY <2>5 DEF SemPost, Goto, Fifo!EndPut, Fifo!Moves, phase, hand
    <3> QED
      BY <3>1 DEF Fifo!Next
  <2> QED
    BY <1>1, <2>1, <2>2, <2>3, <2>4, <2>5 DEF EnqueueStep
<1>2. ASSUME NEW c \in Consumers, CallDequeue(c) \/ DequeueStep(c)
      PROVE  [Fifo!Next]_(Fifo!vars)
  <2> c \in Threads /\ c \notin Producers
    BY ThreadsAssumption DEF Threads
  <2>1. CASE CallDequeue(c)
    <3>1. Fifo!StartGet(c)
      BY <2>1 DEF CallDequeue, Goto, Fifo!StartGet, Fifo!Moves, phase, hand
    <3> QED
      BY <3>1 DEF Fifo!Next
  <2>2. CASE SemTake(c, "d_wait")
    BY <2>2 DEF SemTake, Goto, Fifo!vars, phase, hand
  <2>3. CASE SemTake(c, "d_block")
    <3>1. Fifo!Resume(c)
      BY <2>3 DEF SemTake, Goto, Fifo!Resume, Fifo!Moves, phase, hand
    <3> QED
      BY <3>1 DEF Fifo!Next
  <2>4. CASE SemBlock(c)
    <3>1. Fifo!Moves(c, "in", "missed") /\ UNCHANGED <<fresh, m_messages, hand>>
      BY <2>4 DEF SemBlock, Goto, Fifo!Moves, phase, hand
    <3>2. Fifo!Miss(c)
      BY <2>4, <3>1, ZeroMeansAccounted, SameCardinality
      DEF SemBlock, Goto, Fifo!Miss
    <3> QED
      BY <3>2 DEF Fifo!Next
  <2>5. CASE SemTimeout(c)
    <3>1. Fifo!EndEmpty(c)
      BY <2>5 DEF SemTimeout, Goto, Fifo!EndEmpty, Fifo!Moves, phase, hand
    <3> QED
      BY <3>1 DEF Fifo!Next
  <2>6. CASE Lock(c, "d_lock", "d_front")
    BY <2>6 DEF Lock, Goto, Fifo!vars, phase, hand
  <2>7. CASE Front(c)
    <3>1. pc[c] = "d_front" /\ msg[c] = NULL
      BY <2>7 DEF Front, Goto, HandsFull
    <3>2. phase' = phase
      BY <2>7 DEF Front, Goto, phase
    <3>3. hand' = hand
      BY <2>7, <3>1 DEF Front, Goto, hand
    <3> QED
      BY <2>7, <3>2, <3>3 DEF Front, Fifo!vars
  <2>8. CASE PopFront(c)
    <3>1. m_messages # <<>>
      BY <2>8, ClaimMeansMessage DEF PopFront, Goto, Claims
    <3>2. Fifo!Get(c)
      BY <2>8, <3>1
      DEF PopFront, Goto, HandsFull, Fifo!Get, Fifo!Moves, phase, hand
    <3> QED
      BY <3>2 DEF Fifo!Next
  <2>9. CASE Unlock(c, "d_unlock", "d_ret")
    BY <2>9 DEF Unlock, Goto, Fifo!vars, phase, hand
  <2>10. CASE DeleteMessage(c)
    <3>1. Fifo!EndGet(c)
      BY <2>10 DEF DeleteMessage, Goto, Fifo!EndGet, Fifo!Moves, phase, hand
    <3> QED
      BY <3>1 DEF Fifo!Next
  <2> QED
    BY <1>2, <2>1, <2>2, <2>3, <2>4, <2>5, <2>6, <2>7, <2>8, <2>9, <2>10
    DEF DequeueStep
<1>3. CASE UNCHANGED vars
  BY <1>3 DEF vars, Fifo!vars, phase, hand
<1> QED
  BY <1>1, <1>2, <1>3 DEF Next

(* The mutex and the semaphore together implement a FIFO queue in which    *)
(* each enqueue and each dequeue takes effect once, inside its call.       *)
THEOREM ImplementsFifoQueue == Spec => IsFifoQueue
<1>1. Init => Fifo!Init
  BY DEF Init, Fifo!Init, Fifo!Threads, Threads, phase, hand
<1> QED
  BY <1>1, StepRefines, Invariance, PTL DEF Spec, IsFifoQueue, Fifo!Spec
=============================================================================
