------------------------------- MODULE ParSort -------------------------------
(***************************************************************************)
(* The parallel merge sort of assign4/parsort.c: processes that sort parts *)
(* of one file, mapped into memory and shared by all of them.              *)
(*                                                                         *)
(* Process 1 is main; process p forks 2p for the first half of its segment *)
(* and 2p+1 for the second.  Element k of the array is arr[k + 1].  While  *)
(* a process is at "sort" or "merge" it reads and writes its segment; that *)
(* one step does it all is justified by SegmentsApart.  Any process may be *)
(* killed by a signal, which leaves in a segment being written any mixture *)
(* of the values there.  int, as wide as the sizes, is not modelled.       *)
(***************************************************************************)
EXTENDS Naturals, Sequences, FiniteSets

CONSTANTS Files,      \* the contents of the file sorted
          Thresholds, \* the thresholds asked for on the command line
          MaxPid      \* bound: fork fails where a child would be above it

Pids == 1 .. MaxPid

ASSUME FilesAssumption == \A f \in Files : f \in Seq(Nat)
ASSUME NumbersAssumption == Thresholds \subseteq Nat /\ MaxPid \in Nat \ {0}

VARIABLES pc,         \* where each process is; "none" before it is forked
          status,     \* the status of a process that has ended
          begin, end, \* the segment of each process
          arr,        \* the mapped file
          threshold,  \* the command line
          file        \* what the file was at first

segments == <<begin, end>>
input == <<threshold, file>>
vars == <<pc, status, segments, arr, input>>

Init == /\ file \in Files
        /\ threshold \in Thresholds
        /\ arr = file
        /\ pc = [p \in Pids |-> IF p = 1 THEN "start" ELSE "none"]
        /\ status = [p \in Pids |-> "none"]
        /\ begin = [p \in Pids |-> 0]
        /\ end = [p \in Pids |-> IF p = 1 THEN Len(file) ELSE 0]

Goto(p, from, next) == /\ pc[p] = from
                       /\ pc' = [pc EXCEPT ![p] = next]
                       /\ UNCHANGED status
Exit(p, from, code) == /\ pc[p] = from
                       /\ pc' = [pc EXCEPT ![p] = "ended"]
                       /\ status' = [status EXCEPT ![p] = code]

-----------------------------------------------------------------------------
(* main: an invalid threshold, open, fstat and mmap may fail; after the     *)
(* sort so may munmap and close.  A file of no elements may have some       *)
(* bytes, and then mmap takes it.                                           *)

Start == /\ \/ Goto(1, "start", "call")
            \/ Exit(1, "start", "failure")
         /\ UNCHANGED <<segments, arr, input>>

Close == /\ Exit(1, "close", "success") \/ Exit(1, "close", "failure")
         /\ UNCHANGED <<segments, arr, input>>

-----------------------------------------------------------------------------
(* merge_sort *)

Call(p) == /\ Goto(p, "call", IF end[p] - begin[p] <= threshold THEN "sort" ELSE "fork1")
           /\ UNCHANGED <<segments, arr, input>>

(* A process that returns from merge_sort exits, or goes on in main. *)
Return(p, from) == IF p = 1 THEN Goto(p, from, "close") ELSE Exit(p, from, "success")

(* The segment of p and the array with that segment replaced. *)
Segment(p) == SubSeq(arr, begin[p] + 1, end[p])
Rewritten(p, seg) == SubSeq(arr, 1, begin[p]) \o seg \o SubSeq(arr, end[p] + 1, Len(arr))

(* Sequences of the values of a segment, as long as the segment. *)
Mixtures(seg) == [DOMAIN seg -> {seg[i] : i \in DOMAIN seg}]

Count(s, v) == Cardinality({i \in DOMAIN s : s[i] = v})
IsSortOf(s, t) == /\ \A i, j \in DOMAIN s : i < j => s[i] <= s[j]
                  /\ Len(s) = Len(t) /\ \A i \in DOMAIN t : Count(s, t[i]) = Count(t, t[i])

(* qsort, of the C library *)
Sort(p) == /\ Return(p, "sort")
           /\ \E seg \in Mixtures(Segment(p)) : /\ IsSortOf(seg, Segment(p))
                                               /\ arr' = Rewritten(p, seg)
           /\ UNCHANGED <<segments, input>>

Middle(p) == begin[p] + (end[p] - begin[p]) \div 2

Fork(p, from, next, kid, first, last) ==
  \/ /\ kid \in Pids
     /\ pc[p] = from
     /\ pc' = [pc EXCEPT ![p] = next, ![kid] = "call"]
     /\ begin' = [begin EXCEPT ![kid] = first]
     /\ end' = [end EXCEPT ![kid] = last]
     /\ UNCHANGED <<status, arr, input>>
  \/ Exit(p, from, "failure") /\ UNCHANGED <<segments, arr, input>>

(* Mutated forms: the second half starts or ends one too late. *)
Fork2Late(p) == Fork(p, "fork2", "wait1", 2 * p + 1, Middle(p) + 1, end[p])
Fork2Past(p) == Fork(p, "fork2", "wait1", 2 * p + 1, Middle(p), end[p] + 1)

Fork1(p) == Fork(p, "fork1", "fork2", 2 * p, begin[p], Middle(p))
Fork2(p) == Fork(p, "fork2", "wait1", 2 * p + 1, Middle(p), end[p])

(* Mutated forms: the status of the child is not looked at; the child is not *)
(* waited for; the parent waits until a child succeeds.                      *)
WaitUnchecked(p, from, next, kid) ==
  /\ Goto(p, from, next) /\ pc[kid] = "ended"
  /\ UNCHANGED <<segments, arr, input>>
WaitForNobody(p, from, next, kid) ==
  /\ Goto(p, from, next)
  /\ UNCHANGED <<segments, arr, input>>
WaitForSuccess(p, from, next, kid) ==
  /\ Goto(p, from, next) /\ pc[kid] = "ended" /\ status[kid] = "success"
  /\ UNCHANGED <<segments, arr, input>>

(* waitpid blocks until the child has ended; it can fail only then, when *)
(* the program was started with SIGCHLD ignored.                         *)
Wait(p, from, next, kid) ==
  /\ \/ Goto(p, from, next) /\ pc[kid] = "ended" /\ status[kid] = "success"
     \/ Exit(p, from, "failure") /\ pc[kid] = "ended"
  /\ UNCHANGED <<segments, arr, input>>

Wait1(p) == Wait(p, "wait1", "wait2", 2 * p)
Wait2(p) == Wait(p, "wait2", "merge", 2 * p + 1)

-----------------------------------------------------------------------------
(* merge: the two halves are copied and their copies merged. *)

(* Whether the next element comes from l, i of l and j of r being taken. *)
FromLeft(l, r, i, j) == i < Len(l) /\ (j < Len(r) => l[i + 1] <= r[j + 1])

Taken(l, r) ==  \* how many of the first k elements are from l
  LET taken[k \in 0 .. Len(l) + Len(r)] ==
        IF k = 0 THEN 0
        ELSE IF FromLeft(l, r, taken[k - 1], k - 1 - taken[k - 1])
             THEN taken[k - 1] + 1 ELSE taken[k - 1]
  IN taken

Merged(l, r) ==
  LET taken == Taken(l, r)
  IN [k \in 1 .. Len(l) + Len(r) |-> IF taken[k] > taken[k - 1]
                                     THEN l[taken[k]] ELSE r[k - taken[k]]]

Merge(p) == /\ Return(p, "merge")
            /\ arr' = Rewritten(p, Merged(SubSeq(arr, begin[p] + 1, Middle(p)),
                                          SubSeq(arr, Middle(p) + 1, end[p])))
            /\ UNCHANGED <<segments, input>>

-----------------------------------------------------------------------------
Writing == {p \in Pids : pc[p] \in {"sort", "merge"}}

(* A signal: it ends the process wherever it is. *)
Kill(p) == /\ pc[p] \notin {"none", "ended"}
           /\ Exit(p, pc[p], "killed")
           /\ IF p \in Writing
              THEN \E seg \in Mixtures(Segment(p)) : arr' = Rewritten(p, seg)
              ELSE UNCHANGED arr
           /\ UNCHANGED <<segments, input>>

Step(p) == \/ p = 1 /\ (Start \/ Close)
           \/ Call(p) \/ Sort(p) \/ Fork1(p) \/ Fork2(p)
           \/ Wait1(p) \/ Wait2(p) \/ Merge(p)

Next == \E p \in Pids : Step(p) \/ Kill(p)

Spec == Init /\ [][Next]_vars

(* The scheduler lets every process run. *)
FairSpec == Spec /\ \A p \in Pids : WF_vars(Step(p))

-----------------------------------------------------------------------------
PCs == {"none", "start", "call", "sort", "fork1", "fork2", "wait1", "wait2",
        "merge", "close", "ended"}

(* Every variable has its type; segments lie inside of the array. *)
TypeOK == /\ pc \in [Pids -> PCs]
          /\ status \in [Pids -> {"none", "success", "failure", "killed"}]
          /\ \A p \in Pids : /\ begin[p] \in 0 .. end[p]
                             /\ end[p] \in 0 .. Len(file)
          /\ Len(arr) = Len(file)
          /\ file \in Files /\ threshold \in Thresholds

(* "exit with a 0 exit code if sort was successful": the status says 0 only *)
(* if the file holds what it held, sorted, however the processes ran and    *)
(* whichever of their calls failed.                                         *)
SuccessMeansSorted == status[1] = "success" => IsSortOf(arr, file)

(* The elements of the segment of p. *)
Elements(p) == begin[p] + 1 .. end[p]

(* No data race on the shared mapping: of two processes that read and write *)
(* their segments at the same time neither touches an element of the other, *)
(* those whose parents are gone included.                                   *)
SegmentsApart == \A p, q \in Writing :
  p # q => Elements(p) \cap Elements(q) = {}

(* A half that its parent counts as sorted stays sorted until the parent *)
(* merges it, although other processes go on writing.                    *)
HalvesSorted == \A p \in Pids :
  /\ pc[p] \in {"wait2", "merge"} => IsSortOf(Segment(2 * p), Segment(2 * p))
  /\ pc[p] = "merge" => IsSortOf(Segment(2 * p + 1), Segment(2 * p + 1))

(* After a success nobody is left who could still write to the file. *)
SuccessMeansAlone == status[1] = "success" =>
  \A p \in Pids : pc[p] \in {"none", "ended"}

(* The whole tree of processes ends, even with a threshold that splits      *)
(* segments for ever, which only the failure of a fork stops, and also when *)
(* children are killed and their own children are left without a parent.    *)
AllEnd == <>[](\A p \in Pids : pc[p] \in {"none", "ended"})
=============================================================================
