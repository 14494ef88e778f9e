------------------------------ MODULE CacheSim ------------------------------
(***************************************************************************)
(* The cache simulator of assign3/csim.cpp: sets of slots whose timestamps *)
(* order them, the last one being the next to be evicted, and, in a fully  *)
(* associative cache, an index from tags to slots.  Slots are counted from *)
(* 1 here, and 0 stands for a tag that is not in the index.                *)
(*                                                                         *)
(* One action is one line of the trace.  An address is the number of its   *)
(* memory block: the first shift, which removes the offset, is not         *)
(* modelled.  The cycles printed are those of the counters here, each with *)
(* its weight, and Cache::cycles is writeBacks times the cost of a block.  *)
(***************************************************************************)
EXTENDS Integers, Sequences, FiniteSets, TLC

CONSTANTS Args,   \* command lines: records of sets, n, bytes, allocate, write, lru
          Blocks, \* the blocks the trace accesses
          MaxOps  \* bound: the lines of the trace

ASSUME BlocksAssumption == Blocks \subseteq Nat
ASSUME ArgsAssumption == Args \subseteq [sets : Nat, n : Nat, bytes : Nat,
                                         allocate : BOOLEAN, write : BOOLEAN,
                                         lru : BOOLEAN]

VARIABLES phase,  \* where main is
          args,   \* the command line
          sets,   \* the sets of the cache
          count,  \* hits and misses, of loads and of stores
          writeBacks \* the dirty blocks evicted

vars == <<phase, args, sets, count, writeBacks>>

(* A kind of access that main counts: <<store, hit>>. *)
Kinds == BOOLEAN \X BOOLEAN
Lines == count[<<FALSE, FALSE>>] + count[<<FALSE, TRUE>>]
           + count[<<TRUE, FALSE>>] + count[<<TRUE, TRUE>>]

Init == /\ phase = "start"
        /\ args \in Args
        /\ sets = <<>>
        /\ count = [k \in Kinds |-> 0]
        /\ writeBacks = 0

-----------------------------------------------------------------------------
(* The command line *)

(* Mutated form: numbers that are not powers of two are rounded down. *)
LogTwoRounded(n) ==
  LET log[m \in 0 .. n] == IF m = 0 THEN -1 ELSE log[m \div 2] + 1
  IN log[n]

(* -1 unless n is a power of two *)
LogTwo(n) ==
  LET log[m \in 1 .. n] == IF m % 2 = 1 THEN IF m = 1 THEN 0 ELSE -1
                           ELSE IF log[m \div 2] = -1 THEN -1 ELSE log[m \div 2] + 1
  IN IF n = 0 THEN -1 ELSE log[n]

Accepted == /\ LogTwo(args.sets) # -1
            /\ LogTwo(args.n) # -1
            /\ LogTwo(args.bytes) # -1 /\ args.bytes >= 4
            /\ args.allocate \/ args.write

EmptySet == [slots |-> [i \in 1 .. args.n |-> [tag |-> 0, valid |-> FALSE,
                                                timestamp |-> 0]],
             size |-> 0,
             index |-> <<>>]

Begin == /\ phase = "start"
         /\ IF Accepted THEN /\ phase' = "run"
                             /\ sets' = [i \in 0 .. args.sets - 1 |-> EmptySet]
                        ELSE phase' = "error" /\ UNCHANGED sets
         /\ UNCHANGED <<args, count, writeBacks>>

-----------------------------------------------------------------------------
(* loadStore, on the set s, for the tag ad.  The slots in use are 1 to size. *)

FullyAssociative == args.n # 1 /\ args.sets = 1

Used(s) == 1 .. s.size
HasTag(s, ad) == IF FullyAssociative THEN ad \in DOMAIN s.index
                 ELSE \E i \in Used(s) : s.slots[i].tag = ad
SlotOf(s, ad) == IF FullyAssociative THEN s.index[ad]
                 ELSE CHOOSE i \in Used(s) : s.slots[i].tag = ad

(* The slot to be evicted has the timestamp n - 1; there is one if the set *)
(* is full.                                                                *)
Oldest(s) == {i \in Used(s) : s.slots[i].timestamp = args.n - 1}

(* Mutated form: evicted blocks stay in the index. *)
ReindexKeeps(s, ad, k) == IF FullyAssociative THEN (ad :> k) @@ s.index ELSE s.index
Reindex(s, ad, k) ==
  IF ~FullyAssociative THEN s.index
  ELSE LET kept == IF k \in Used(s) THEN DOMAIN s.index \ {s.slots[k].tag}
                                    ELSE DOMAIN s.index
       IN [t \in kept \cup {ad} |-> IF t = ad THEN k ELSE s.index[t]]

(* Mutated form: every timestamp is increased. *)
AgedAll(slots, used, old) ==
  [i \in DOMAIN slots |-> IF i \in used THEN [slots[i] EXCEPT !.timestamp = @ + 1]
                                        ELSE slots[i]]

(* The slots younger than the timestamp old get older by one. *)
Aged(slots, used, old) ==
  [i \in DOMAIN slots |-> IF i \in used /\ slots[i].timestamp < old
                          THEN [slots[i] EXCEPT !.timestamp = @ + 1]
                          ELSE slots[i]]

(* Slot k becomes the youngest and holds ad. *)
Renewed(slots, used, k, old, ad, dirty) ==
  [Aged(slots, used, old) EXCEPT ![k] = [tag |-> ad, valid |-> ~dirty, timestamp |-> 0]]

OnHit(s, ad, dirty) ==
  LET k == SlotOf(s, ad) IN
  IF args.lru
  THEN [s EXCEPT !.slots = Renewed(@, Used(s), k, @[k].timestamp, ad, dirty)]
  ELSE s

(* Mutated form: a full set grows too. *)
OnMissGrows(s, ad, dirty) ==
  LET k == IF Oldest(s) = {} THEN s.size + 1 ELSE CHOOSE i \in Oldest(s) : TRUE
  IN [slots |-> Renewed(s.slots, Used(s) \ {k}, k, args.n - 1, ad, dirty),
      size |-> s.size + 1,
      index |-> Reindex(s, ad, k)]

OnMiss(s, ad, dirty) ==
  LET k == IF Oldest(s) = {} THEN s.size + 1 ELSE CHOOSE i \in Oldest(s) : TRUE
      used == Used(s) \cup {k}
  IN [slots |-> Renewed(s.slots, used \ {k}, k, args.n - 1, ad, dirty),
      size |-> Cardinality(used),
      index |-> Reindex(s, ad, k)]

-----------------------------------------------------------------------------
(* main: one line of the trace *)

(* b >> k *)
Shifted(b, k) ==
  LET half[i \in 0 .. k] == IF i = 0 THEN b ELSE half[i - 1] \div 2
  IN half[k]

IndexOf(b) == b % args.sets
TagOf(b) == Shifted(b, LogTwo(args.sets))

(* Mutated form: stores of a write-through cache too make their slot dirty. *)
DirtyThrough(store) == store
Dirty(store) == store /\ ~args.write

Access(b, store) ==
  LET s == sets[IndexOf(b)]
      ad == TagOf(b)
      hit == HasTag(s, ad)
      Assign(t) == sets' = [sets EXCEPT ![IndexOf(b)] = t]
  IN
  /\ phase = "run"
  /\ Lines < MaxOps
  /\ count' = [count EXCEPT ![<<store, hit>>] = @ + 1]
  /\ \/ /\ hit
        /\ Assign(OnHit(s, ad, Dirty(store)))
        /\ UNCHANGED writeBacks
     \/ /\ ~hit
        /\ store /\ ~args.allocate /\ args.write
        /\ UNCHANGED <<sets, writeBacks>>
     \/ /\ ~hit
        /\ ~(store /\ ~args.allocate /\ args.write)
        /\ Assign(OnMiss(s, ad, Dirty(store)))
        /\ writeBacks' = IF \E i \in Oldest(s) : ~s.slots[i].valid
                         THEN writeBacks + 1 ELSE writeBacks
  /\ UNCHANGED <<phase, args>>

EndOfTrace == /\ phase = "run"
              /\ phase' = "done"
              /\ UNCHANGED <<args, sets, count, writeBacks>>

Next == Begin \/ EndOfTrace \/ \E b \in Blocks, store \in BOOLEAN : Access(b, store)

Stop == phase \in {"done", "error"} /\ UNCHANGED vars

Spec == Init /\ [][Next \/ Stop]_vars

-----------------------------------------------------------------------------
Slots == [tag : Nat, valid : BOOLEAN, timestamp : Nat]

(* Every variable has its type; a set has room for n slots. *)
TypeOK == /\ phase \in {"start", "error", "run", "done"}
          /\ args \in Args
          /\ count \in [Kinds -> Nat] /\ writeBacks \in Nat
          /\ \A i \in DOMAIN sets : /\ sets[i].slots \in [1 .. args.n -> Slots]
                                    /\ sets[i].size \in 0 .. args.n
                                    /\ DOMAIN sets[i].index \subseteq Nat

(* The timestamps of a set are 0 to size - 1, each once: there is always  *)
(* exactly one oldest slot, and none to evict before the set is full.     *)
TimestampsOrder == \A i \in DOMAIN sets :
  {sets[i].slots[k].timestamp : k \in Used(sets[i])} = 0 .. sets[i].size - 1

(* "map of tag to index of slot": the index and the slots of a fully     *)
(* associative cache, which are updated apart, say the same; no block is *)
(* in two slots, and no evicted block is found.                          *)
IndexAgrees == \A i \in DOMAIN sets : FullyAssociative =>
  LET s == sets[i] IN
  /\ \A t \in DOMAIN s.index : s.index[t] \in Used(s) /\ s.slots[s.index[t]].tag = t
  /\ \A k \in Used(s) : /\ s.slots[k].tag \in DOMAIN s.index
                        /\ s.index[s.slots[k].tag] = k

(* The slot with k - 1 younger ones. *)
Aging(s, k) == CHOOSE j \in Used(s) : s.slots[j].timestamp = k - 1

(* The blocks in the set s, the one with index i, the youngest slot first. *)
BlocksOf(s, i) == [k \in Used(s) |-> s.slots[Aging(s, k)].tag * args.sets + i]

config == [sets |-> args.sets, capacity |-> args.n,
           allocate |-> args.allocate, lru |-> args.lru]
lists == [i \in 0 .. args.sets - 1 |-> IF i \in DOMAIN sets THEN BlocksOf(sets[i], i) ELSE <<>>]
hits == count[<<FALSE, TRUE>>] + count[<<TRUE, TRUE>>]
misses == count[<<FALSE, FALSE>>] + count[<<TRUE, FALSE>>]

Lists == INSTANCE ReplacementList
           WITH Configs <- {[sets |-> a.sets, capacity |-> a.n, allocate |-> a.allocate,
                             lru |-> a.lru] : a \in Args}

(* The slots with their timestamps, of all three kinds of cache, are LRU and *)
(* FIFO lists of blocks, and the hits and misses counted are those of lists. *)
IsReplacementList == Lists!Spec

IsDirtySlot(s, k) == k \in Used(s) /\ ~s.slots[k].valid
DirtySlots == {x \in (DOMAIN sets) \X (1 .. args.n) : IsDirtySlot(sets[x[1]], x[2])}
Stores == count[<<TRUE, FALSE>>] + count[<<TRUE, TRUE>>]

(* No write-back is counted that no store has caused: those counted and the *)
(* dirty slots, whose write-backs are still to come, are never more than    *)
(* the stores, and in a write-through cache there is none.                  *)
WriteBacksFromStores ==
  writeBacks + Cardinality(DirtySlots) <= (IF args.write THEN 0 ELSE Stores)

IsDirty(b) == LET s == sets[IndexOf(b)] IN
  \E k \in Used(s) : s.slots[k].tag = TagOf(b) /\ IsDirtySlot(s, k)

(* "dirty - bool value that decides if slot should be marked dirty": a store *)
(* in a write-back cache leaves its block marked dirty.                      *)
StoreMarksDirty == [][\A b \in Blocks :
  ~args.write /\ Access(b, TRUE) => IsDirty(b)']_vars
=============================================================================
