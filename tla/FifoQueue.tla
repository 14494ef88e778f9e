------------------------------ MODULE FifoQueue ------------------------------
(***************************************************************************)
(* What the class MessageQueue promises to the threads that share one of   *)
(* its objects: every message handed to enqueue takes effect once, between *)
(* the call and the return, and comes out once, in the order in which the  *)
(* enqueues took effect.  A dequeue may come back empty-handed, but only   *)
(* if at some moment of the call there was no message it could count on.   *)
(***************************************************************************)
EXTENDS Naturals, Sequences, FiniteSets

CONSTANTS Producers, Consumers, Messages, NULL

VARIABLES fresh,   \* messages nobody has passed to enqueue yet
          queue,   \* the messages inside, oldest first
          phase,   \* of every thread: "out", "in", "missed" or "done"
          hand     \* the message a thread carries into or out of the queue

vars == <<fresh, queue, phase, hand>>

Threads == Producers \cup Consumers

Init == /\ fresh = Messages
        /\ queue = <<>>
        /\ phase = [t \in Threads |-> "out"]
        /\ hand = [t \in Threads |-> NULL]

Moves(t, from, to) == /\ phase[t] = from
                      /\ phase' = [phase EXCEPT ![t] = to]

StartPut(p, m) == /\ Moves(p, "out", "in")
                  /\ m \in fresh
                  /\ fresh' = fresh \ {m}
                  /\ hand' = [hand EXCEPT ![p] = m]
                  /\ UNCHANGED queue

Put(p) == /\ Moves(p, "in", "done")
          /\ queue' = Append(queue, hand[p])
          /\ hand' = [hand EXCEPT ![p] = NULL]
          /\ UNCHANGED fresh

EndPut(p) == Moves(p, "done", "out") /\ UNCHANGED <<fresh, queue, hand>>

StartGet(c) == Moves(c, "out", "in") /\ UNCHANGED <<fresh, queue, hand>>

(***************************************************************************)
(* A dequeue finds nothing: the messages inside are no more than the       *)
(* enqueues that have not returned and the other dequeues in progress.     *)
(***************************************************************************)
Miss(c) ==
  /\ Moves(c, "in", "missed")
  /\ Len(queue) =< Cardinality({p \in Producers : phase[p] = "done"})
                   + Cardinality({d \in Consumers \ {c} : phase[d] = "in"})
  /\ UNCHANGED <<fresh, queue, hand>>

Resume(c) == Moves(c, "missed", "in") /\ UNCHANGED <<fresh, queue, hand>>

Get(c) == /\ Moves(c, "in", "done")
          /\ queue # <<>>
          /\ queue' = Tail(queue)
          /\ hand' = [hand EXCEPT ![c] = Head(queue)]
          /\ UNCHANGED fresh

EndGet(c) == /\ Moves(c, "done", "out")
             /\ hand' = [hand EXCEPT ![c] = NULL]
             /\ UNCHANGED <<fresh, queue>>

EndEmpty(c) == Moves(c, "missed", "out") /\ UNCHANGED <<fresh, queue, hand>>

Next == \/ \E p \in Producers : \/ \E m \in Messages : StartPut(p, m)
                                \/ Put(p)
                                \/ EndPut(p)
        \/ \E c \in Consumers : \/ StartGet(c) \/ Miss(c) \/ Resume(c)
                                \/ Get(c) \/ EndGet(c) \/ EndEmpty(c)

Spec == Init /\ [][Next]_vars
=============================================================================
