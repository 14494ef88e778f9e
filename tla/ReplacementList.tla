--------------------------- MODULE ReplacementList ---------------------------
(***************************************************************************)
(* What a set-associative cache with LRU or FIFO replacement promises: its *)
(* sets are lists of blocks, the next block to be evicted last.  LRU moves *)
(* a block to the front whenever it is used, FIFO when it is brought in.   *)
(***************************************************************************)
EXTENDS Naturals, Sequences

CONSTANTS Blocks,  \* numbers of memory blocks
          Configs  \* records of sets, capacity, allocate and lru

VARIABLES config,
          lists,   \* the blocks in each set
          hits, misses

vars == <<config, lists, hits, misses>>

Init == /\ config \in Configs
        /\ lists = [i \in 0 .. config.sets - 1 |-> <<>>]
        /\ hits = 0 /\ misses = 0

In(b, list) == \E k \in DOMAIN list : list[k] = b

(* The k-th block moves to the front. *)
ToFront(list, k) ==
  [j \in DOMAIN list |-> IF j = 1 THEN list[k] ELSE IF j <= k THEN list[j - 1] ELSE list[j]]

(* The block b comes in front; the last one has to go if there is no room. *)
Brought(b, list) ==
  [j \in 1 .. (IF Len(list) < config.capacity THEN Len(list) + 1 ELSE Len(list)) |->
     IF j = 1 THEN b ELSE list[j - 1]]

Hit(b) ==
  LET i == b % config.sets IN
  /\ config.sets > 0
  /\ \E k \in DOMAIN lists[i] :
       /\ lists[i][k] = b
       /\ lists' = IF config.lru THEN [lists EXCEPT ![i] = ToFront(@, k)] ELSE lists
  /\ hits' = hits + 1
  /\ UNCHANGED <<config, misses>>

Miss(b, store) ==
  LET i == b % config.sets IN
  /\ config.sets > 0 /\ ~In(b, lists[i])
  /\ lists' = IF store /\ ~config.allocate THEN lists
              ELSE [lists EXCEPT ![i] = Brought(b, @)]
  /\ misses' = misses + 1
  /\ UNCHANGED <<config, hits>>

Next == \E b \in Blocks : Hit(b) \/ \E store \in BOOLEAN : Miss(b, store)

Spec == Init /\ [][Next]_vars
=============================================================================
