------------------------------ MODULE AtomicChat ------------------------------
(***************************************************************************)
(* What the chat server promises its clients, with no thread, lock or      *)
(* queue in sight.  Senders talk in a room and receivers sit in one; rooms *)
(* are known by name.  A message said in a room reaches, in one step,      *)
(* every receiver who sits there under another user name, so all of them   *)
(* hear the same messages in the same order; a receiver hears what is      *)
(* pending for it oldest first, and loses it when it leaves.               *)
(***************************************************************************)
EXTENDS Naturals, Sequences

CONSTANTS Senders, Receivers, RoomNames, NULL,
          Username  \* the user name of every client

VARIABLES talks,    \* the room each sender joined last, or NULL
          sits,     \* the room each receiver sits in, or NULL
          said,     \* the number of each sender's last message
          pending   \* the messages each receiver has still to hear

vars == <<talks, sits, said, pending>>

Init == /\ talks = [s \in Senders |-> NULL]
        /\ sits = [r \in Receivers |-> NULL]
        /\ said = [s \in Senders |-> 0]
        /\ pending = [r \in Receivers |-> <<>>]

Talk(s, n) == /\ talks' = [talks EXCEPT ![s] = n]
              /\ UNCHANGED <<sits, said, pending>>

Sit(r, n) == /\ sits[r] = NULL
             /\ sits' = [sits EXCEPT ![r] = n]
             /\ UNCHANGED <<talks, said, pending>>

Hears(r, s) == sits[r] = talks[s] /\ Username[r] # Username[s]

Say(s) ==
  /\ talks[s] # NULL
  /\ said' = [said EXCEPT ![s] = @ + 1]
  /\ pending' = [r \in Receivers |-> IF Hears(r, s)
                                     THEN Append(pending[r], <<s, said'[s]>>)
                                     ELSE pending[r]]
  /\ UNCHANGED <<talks, sits>>

Hear(r) == /\ pending[r] # <<>>
           /\ pending' = [pending EXCEPT ![r] = Tail(@)]
           /\ UNCHANGED <<talks, sits, said>>

Rise(r) == /\ sits[r] # NULL
           /\ sits' = [sits EXCEPT ![r] = NULL]
           /\ pending' = [pending EXCEPT ![r] = <<>>]
           /\ UNCHANGED <<talks, said>>

Next == \/ \E s \in Senders : Say(s) \/ \E n \in RoomNames : Talk(s, n)
        \/ \E r \in Receivers : \/ Hear(r) \/ Rise(r)
                                \/ \E n \in RoomNames : Sit(r, n)

Spec == Init /\ [][Next]_vars
=============================================================================
