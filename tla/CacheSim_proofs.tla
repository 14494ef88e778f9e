--------------------------- MODULE CacheSim_proofs ---------------------------
(***************************************************************************)
(* Theorems about the cache simulator, for any command lines, blocks and   *)
(* lengths of traces: the timestamps of a set order its slots, the index   *)
(* of a fully associative cache agrees with them, the sets are the lists   *)
(* of ReplacementList, and write-backs come from stores.                   *)
(*                                                                         *)
(* What TimestampsOrder says of the set of the timestamps is not inductive *)
(* as it does not say that no two slots share one; Ordered does.  Ordered  *)
(* also makes the slots a list, whose changes are ToFront and Brought.     *)
(* Where a definition is recursive (LogTwo) or a number of slots is        *)
(* counted, the induction is by the least counterexample.                  *)
(***************************************************************************)
EXTENDS CacheSim, TLAPS, FiniteSetTheorems, WellFoundedInduction

(* What a slot may hold, T being the tags there are. *)
SlotsOf(T) == [tag : T, valid : BOOLEAN, timestamp : Nat]

(* Of n slots those from 1 to size are in use, and their timestamps are the *)
(* numbers below size, each once.                                           *)
Ordered(T, n, slots, size) ==
  /\ slots \in [1 .. n -> SlotsOf(T)]
  /\ size \in 0 .. n
  /\ \A k \in 1 .. size : slots[k].timestamp < size
  /\ \A j, k \in 1 .. size : slots[j].timestamp = slots[k].timestamp => j = k
  /\ \A v \in 0 .. size - 1 : \E k \in 1 .. size : slots[k].timestamp = v

(* The index and the slots of the set s say the same. *)
Indexed(s) == FullyAssociative =>
  /\ \A t \in DOMAIN s.index : s.index[t] \in Used(s) /\ s.slots[s.index[t]].tag = t
  /\ \A k \in Used(s) : /\ s.slots[k].tag \in DOMAIN s.index
                        /\ s.index[s.slots[k].tag] = k

Tags == {0} \cup {TagOf(b) : b \in Blocks}

SetInv(s) == /\ s = [slots |-> s.slots, size |-> s.size, index |-> s.index]
             /\ Ordered(Tags, args.n, s.slots, s.size)
             /\ Indexed(s)
             /\ DOMAIN s.index \subseteq Tags

(* A cache exists once its geometry is accepted. *)
Running == phase \in {"run", "done"}

IInv == /\ args \in Args
        /\ phase \in {"start", "error", "run", "done"}
        /\ count \in [Kinds -> Nat] /\ writeBacks \in Nat
        /\ Running => Accepted
        /\ DOMAIN sets = IF Running THEN 0 .. args.sets - 1 ELSE {}
        /\ sets = [i \in DOMAIN sets |-> sets[i]]
        /\ \A i \in DOMAIN sets : SetInv(sets[i])

-----------------------------------------------------------------------------
(* Divisions, shifts and logarithms *)

(* Division with remainder. *)
LEMMA Quotient ==
  ASSUME NEW b \in Nat, NEW d \in Nat \ {0}
  PROVE  /\ b \div d \in Nat /\ b % d \in Nat /\ b % d < d
         /\ b = d * (b \div d) + (b % d)
<1>1. b \div d \in Int /\ b % d \in 0 .. d - 1
  OBVIOUS
<1>2. b = d * (b \div d) + (b % d)
  <2>1. d \in Nat /\ d > 0
    OBVIOUS
  <2> QED
    BY <2>1
<1>3. b \div d \in Nat
  OBVIOUS
<1> QED
  BY <1>1, <1>2, <1>3

LEMMA Multiples ==
  ASSUME NEW d \in Nat, NEW p \in Nat, NEW q \in Nat, p < q
  PROVE  d * p + d <= d * q
<1> DEFINE e == q - p - 1
<1>1. e \in Nat /\ q = p + 1 + e
  OBVIOUS
<1> HIDE DEF e
<1>2. d * q = d * p + d + d * e
  BY <1>1
<1>3. d * e \in Nat /\ d * p \in Nat
  BY <1>1
<1> QED
  BY <1>2, <1>3

(* There is only one way to divide. *)
LEMMA QuotientUnique ==
  ASSUME NEW d \in Nat \ {0}, NEW p \in Nat, NEW t \in Nat, t < d,
         NEW q \in Nat, NEW u \in Nat, u < d, d * p + t = d * q + u
  PROVE  p = q
<1>0. d * p \in Nat /\ d * q \in Nat
  OBVIOUS
<1>1. p < q => d * p + d <= d * q
  BY Multiples
<1>2. q < p => d * q + d <= d * p
  BY Multiples
<1> QED
  BY <1>0, <1>1, <1>2

(* A shift after a division. *)
LEMMA DivTwice ==
  ASSUME NEW b \in Nat, NEW h \in Nat \ {0}
  PROVE  (b \div h) \div 2 = b \div (2 * h)
<1> DEFINE q == b \div h
           r == b % h
           p == q \div 2
           s == q % 2
           d == 2 * h
           e == b \div d
           u == b % d
<1>1. q \in Nat /\ r \in Nat /\ r < h /\ b = h * q + r
  BY Quotient
<1>2. p \in Nat /\ s \in {0, 1} /\ q = 2 * p + s
  BY <1>1
<1>3. d \in Nat \ {0}
  OBVIOUS
<1>4. e \in Nat /\ u \in Nat /\ u < d /\ b = d * e + u
  BY <1>3, Quotient
<1> HIDE DEF q, r, p, s, e, u
<1>5. h * q = d * p + h * s
  BY <1>2
<1>6. h * s \in Nat /\ h * s + r < d
  BY <1>1, <1>2
<1>7. d * p + (h * s + r) = d * e + u
  <2>1. d * p \in Nat
    BY <1>2
  <2> QED
    BY <1>1, <1>4, <1>5, <1>6, <2>1
<1>8. h * s + r \in Nat
  BY <1>1, <1>6
<1> HIDE DEF d
<1>9. p = e
  BY <1>2, <1>3, <1>4, <1>6, <1>7, <1>8, QuotientUnique
<1> QED
  BY <1>9 DEF p, q, e, d

(* A set of numbers has a smallest one. *)
LEMMA Smallest ==
  ASSUME NEW T, T \subseteq Nat, T # {}
  PROVE  \E m \in T : \A i \in T : m <= i
<1>1. PICK m \in T : \A i \in T : ~(<<i, m>> \in OpToRel(<, Nat))
  BY NatLessThanWellFounded, WFMin
<1>2. \A i \in T : ~(i < m)
  BY <1>1 DEF OpToRel
<1> QED
  BY <1>2

(* What b is after i shifts by one, for i up to k. *)
Halves(b, k) == CHOOSE half : half = [i \in 0 .. k |-> IF i = 0 THEN b ELSE half[i - 1] \div 2]

LEMMA HalvesRecursion ==
  ASSUME NEW b \in Nat, NEW n \in Nat
  PROVE  /\ Shifted(b, n) = Halves(b, n)[n]
         /\ Halves(b, n) = [i \in 0 .. n |-> IF i = 0 THEN b ELSE Halves(b, n)[i - 1] \div 2]
<1> DEFINE Solves(f, m) == f = [i \in 0 .. m |-> IF i = 0 THEN b ELSE f[i - 1] \div 2]
           Bad == {m \in Nat : ~\E f : Solves(f, m)}
<1>1. Bad = {}
  <2> SUFFICES ASSUME Bad # {} PROVE FALSE
    OBVIOUS
  <2>1. PICK m \in Bad : \A i \in Bad : m <= i
    <3>1. Bad \subseteq Nat
      OBVIOUS
    <3> HIDE DEF Bad
    <3> QED
      BY <3>1, Smallest
  <2>2. m # 0
    <3>1. Solves([i \in {0} |-> b], 0)
      OBVIOUS
    <3> QED
      BY <3>1
  <2>3. m \in Nat /\ m - 1 \in Nat /\ m - 1 \notin Bad
    <3>1. m \in Nat
      OBVIOUS
    <3> HIDE DEF Bad
    <3> QED
      BY <2>1, <2>2, <3>1
  <2>4. PICK f : Solves(f, m - 1)
    BY <2>3
  <2> DEFINE g == [i \in 0 .. m |-> IF i = m THEN f[m - 1] \div 2 ELSE f[i]]
  <2>5. \A i \in 0 .. m - 1 : f[i] = IF i = 0 THEN b ELSE f[i - 1] \div 2
    <3> DEFINE h == [i \in 0 .. m - 1 |-> IF i = 0 THEN b ELSE f[i - 1] \div 2]
    <3>1. f = h
      BY <2>4
    <3>2. \A i \in 0 .. m - 1 : h[i] = IF i = 0 THEN b ELSE f[i - 1] \div 2
      OBVIOUS
    <3> QED
      BY <3>1, <3>2, Zenon
  <2>6. \A i \in 1 .. m : g[i - 1] = f[i - 1]
    BY <2>3
  <2>7. ASSUME NEW i \in 0 .. m PROVE g[i] = IF i = 0 THEN b ELSE g[i - 1] \div 2
    <3>1. CASE i = m
      <4>1. g[i] = f[i - 1] \div 2 /\ i \in 1 .. m
        BY <2>2, <2>3, <3>1
      <4> QED
        BY <2>2, <2>6, <3>1, <4>1
    <3>2. CASE i # m
      <4>1. g[i] = f[i] /\ i \in 0 .. m - 1 /\ (i # 0 => i \in 1 .. m)
        BY <2>3, <3>2
      <4> HIDE DEF g
      <4> QED
        BY <2>5, <2>6, <4>1
    <3> QED
      BY <3>1, <3>2
  <2>8. Solves(g, m)
    <3>1. \A i \in 0 .. m : g[i] = IF i = 0 THEN b ELSE g[i - 1] \div 2
      BY <2>7
    <3>2. g = [i \in 0 .. m |-> g[i]]
      OBVIOUS
    <3> HIDE DEF g
    <3> QED
      BY <3>1, <3>2
  <2> QED
    BY <2>1, <2>8
<1>2. \E f : Solves(f, n)
  BY <1>1
<1>3. Halves(b, n) = CHOOSE f : Solves(f, n)
  BY DEF Halves
<1>4. Shifted(b, n) = Halves(b, n)[n]
  BY DEF Shifted, Halves
<1> HIDE DEF Solves
<1>5. Solves(Halves(b, n), n)
  BY <1>2, <1>3
<1> QED
  BY <1>4, <1>5 DEF Solves

(* What LogTwo finds for the numbers from 1 to n. *)
Step(log, m) == IF m % 2 = 1 THEN IF m = 1 THEN 0 ELSE -1
                ELSE IF log[m \div 2] = -1 THEN -1 ELSE log[m \div 2] + 1
Logs(n) == CHOOSE log : log = [m \in 1 .. n |-> Step(log, m)]

LEMMA Halved ==
  ASSUME NEW m \in Nat \ {0}, m % 2 # 1
  PROVE  m \div 2 \in Nat /\ m \div 2 # 0 /\ m \div 2 < m /\ m = 2 * (m \div 2)
OBVIOUS

LEMMA LogsRecursion ==
  ASSUME NEW n \in Nat \ {0}
  PROVE  /\ LogTwo(n) = Logs(n)[n]
         /\ Logs(n) = [m \in 1 .. n |-> Step(Logs(n), m)]
<1> DEFINE Solves(f, m) == f = [i \in 1 .. m |-> Step(f, i)]
           Bad == {m \in Nat : ~\E f : Solves(f, m)}
<1>1. Bad = {}
  <2> SUFFICES ASSUME Bad # {} PROVE FALSE
    OBVIOUS
  <2>1. PICK m \in Bad : \A i \in Bad : m <= i
    <3>1. Bad \subseteq Nat
      OBVIOUS
    <3> HIDE DEF Bad
    <3> QED
      BY <3>1, Smallest
  <2>2. m # 0
    <3> DEFINE e == [i \in 1 .. 0 |-> 0]
    <3>1. [i \in 1 .. 0 |-> 0] = [i \in 1 .. 0 |-> Step(e, i)]
      OBVIOUS
    <3>2. Solves(e, 0)
      BY <3>1
    <3> QED
      BY <3>2
  <2>3. m \in Nat /\ m - 1 \in Nat /\ m - 1 \notin Bad
    <3>1. m \in Nat
      OBVIOUS
    <3> HIDE DEF Bad
    <3> QED
      BY <2>1, <2>2, <3>1
  <2>4. PICK f : Solves(f, m - 1)
    BY <2>3
  <2> DEFINE g == [i \in 1 .. m |-> IF i = m THEN Step(f, m) ELSE f[i]]
  <2>5. \A i \in 1 .. m - 1 : f[i] = Step(f, i)
    <3> DEFINE h == [i \in 1 .. m - 1 |-> Step(f, i)]
    <3>1. f = h
      BY <2>4
    <3>2. \A i \in 1 .. m - 1 : h[i] = Step(f, i)
      OBVIOUS
    <3> QED
      BY <3>1, <3>2, Zenon
  <2>6. ASSUME NEW i \in 1 .. m PROVE Step(g, i) = Step(f, i)
    <3>1. CASE i % 2 = 1
      BY <3>1 DEF Step
    <3>2. CASE i % 2 # 1
      <4>1. i \div 2 \in 1 .. m - 1
        BY <2>3, <3>2, Halved
      <4>2. g[i \div 2] = f[i \div 2]
        BY <2>3, <4>1
      <4> HIDE DEF g
      <4> QED
        BY <3>2, <4>2 DEF Step
    <3> QED
      BY <3>1, <3>2
  <2>7. ASSUME NEW i \in 1 .. m PROVE g[i] = Step(g, i)
    <3>1. CASE i = m
      BY <2>6, <3>1
    <3>2. CASE i # m
      <4>1. g[i] = f[i] /\ i \in 1 .. m - 1
        BY <2>3, <3>2
      <4> HIDE DEF g
      <4> QED
        BY <2>5, <2>6, <4>1
    <3> QED
      BY <3>1, <3>2
  <2>8. Solves(g, m)
    <3>1. \A i \in 1 .. m : g[i] = Step(g, i)
      BY <2>7
    <3>2. g = [i \in 1 .. m |-> g[i]]
      OBVIOUS
    <3> HIDE DEF g
    <3> QED
      BY <3>1, <3>2
  <2> QED
    BY <2>1, <2>8
<1>2. \E f : Solves(f, n)
  BY <1>1
<1>3. Logs(n) = CHOOSE f : Solves(f, n)
  BY DEF Logs
<1>4. LogTwo(n) = Logs(n)[n]
  BY DEF LogTwo, Logs, Step
<1> HIDE DEF Solves
<1>5. Solves(Logs(n), n)
  BY <1>2, <1>3
<1> QED
  BY <1>4, <1>5 DEF Solves

(* "if (logTwo(input) == -1) return -1": of a number of sets that is accepted *)
(* logTwo returns the logarithm, so that the shift by it that makes the tag   *)
(* of an address is a division, for all numbers of sets and all addresses.    *)
THEOREM ShiftDivides ==
  ASSUME NEW n \in Nat, LogTwo(n) # -1, NEW b \in Nat
  PROVE  n # 0 /\ Shifted(b, LogTwo(n)) = b \div n
<1>1. n # 0
  BY DEF LogTwo
<1> DEFINE log == Logs(n)
           N == LogTwo(n)
<1>2. /\ N = log[n]
      /\ \A m \in 1 .. n : log[m] = Step(log, m)
  <2>1. log = [m \in 1 .. n |-> Step(log, m)] /\ N = log[n]
    BY <1>1, LogsRecursion
  <2> DEFINE h == [m \in 1 .. n |-> Step(log, m)]
  <2>2. \A m \in 1 .. n : h[m] = Step(log, m)
    OBVIOUS
  <2> HIDE DEF log
  <2> QED
    BY <2>1, <2>2
<1> HIDE DEF log, N
<1> DEFINE T == {m \in 1 .. n : ~(log[m] = -1 \/ log[m] \in Nat)}
<1>3. \A m \in 1 .. n : log[m] = -1 \/ log[m] \in Nat
  <2> SUFFICES ASSUME T # {} PROVE FALSE
    OBVIOUS
  <2>1. PICK m \in T : \A i \in T : m <= i
    <3>1. T \subseteq Nat
      OBVIOUS
    <3> HIDE DEF T
    <3> QED
      BY <3>1, Smallest
  <2>2. m \in 1 .. n /\ log[m] = Step(log, m)
    BY <1>2
  <2>3. m % 2 # 1
    BY <2>2 DEF Step
  <2>4. m \div 2 \in 1 .. n /\ m \div 2 < m
    BY <2>2, <2>3, Halved
  <2>5. m \div 2 \notin T
    <3> HIDE DEF T
    <3> QED
      BY <2>1, <2>2, <2>4
  <2>6. log[m \div 2] = -1 \/ log[m \div 2] \in Nat
    BY <2>4, <2>5
  <2>7. log[m] = -1 \/ log[m] \in Nat
    BY <2>2, <2>3, <2>6 DEF Step
  <2> QED
    BY <2>7
<1>4. N \in Nat
  BY <1>1, <1>2, <1>3 DEF N
<1> DEFINE half == Halves(b, N)
<1>5. Shifted(b, N) = half[N] /\ half[0] = b /\ \A i \in 1 .. N : half[i] = half[i - 1] \div 2
  <2>1. Shifted(b, N) = half[N] /\ half = [i \in 0 .. N |-> IF i = 0 THEN b ELSE half[i - 1] \div 2]
    BY <1>4, HalvesRecursion
  <2> DEFINE h == [i \in 0 .. N |-> IF i = 0 THEN b ELSE half[i - 1] \div 2]
  <2>2. h[0] = b /\ \A i \in 1 .. N : h[i] = half[i - 1] \div 2
    BY <1>4
  <2> HIDE DEF half
  <2> QED
    BY <2>1, <2>2
<1> HIDE DEF half
<1> DEFINE Good(m) == log[m] \in 0 .. N => half[log[m]] = b \div m
           Bad == {m \in 1 .. n : ~Good(m)}
<1>6. Bad = {}
  <2> SUFFICES ASSUME Bad # {} PROVE FALSE
    OBVIOUS
  <2>1. PICK m \in Bad : \A i \in Bad : m <= i
    <3>1. Bad \subseteq Nat
      OBVIOUS
    <3> HIDE DEF Bad
    <3> QED
      BY <3>1, Smallest
  <2>2. m \in 1 .. n /\ log[m] = Step(log, m) /\ log[m] \in 0 .. N
    BY <1>2
  <2>3. m # 1
    <3> SUFFICES ASSUME m = 1 PROVE Good(1)
      BY <2>1
    <3>1. log[1] = 0
      BY <2>2 DEF Step
    <3> QED
      BY <1>5, <3>1
  <2>4. m % 2 # 1
    BY <2>2, <2>3 DEF Step
  <2> DEFINE h == m \div 2
  <2>5. h \in 1 .. n /\ h < m /\ m = 2 * h
    BY <2>2, <2>4, Halved
  <2>6. log[h] # -1 /\ log[m] = log[h] + 1
    BY <2>2, <2>4 DEF Step
  <2> HIDE DEF h
  <2>7. log[h] \in 0 .. N - 1
    BY <1>3, <1>4, <2>2, <2>5, <2>6
  <2>8. h \notin Bad
    <3> HIDE DEF Bad
    <3> QED
      BY <2>1, <2>2, <2>5
  <2>9. half[log[h]] = b \div h
    BY <1>4, <2>5, <2>7, <2>8
  <2>10. half[log[h] + 1] = half[log[h]] \div 2
    <3> DEFINE i == log[h] + 1
    <3>1. i \in 1 .. N /\ i - 1 = log[h]
      BY <1>4, <2>7
    <3> QED
      BY <1>5, <3>1
  <2>11. (b \div h) \div 2 = b \div (2 * h)
    BY <2>5, DivTwice
  <2>12. half[log[m]] = b \div m
    BY <2>5, <2>6, <2>9, <2>10, <2>11
  <2> QED
    BY <2>12
<1>7. half[N] = b \div n
  BY <1>1, <1>2, <1>4, <1>6
<1> QED
  BY <1>1, <1>5, <1>7 DEF N

-----------------------------------------------------------------------------
(* What writing a slot does to the timestamps *)

(* The slots as Renewed leaves them. *)
LEMMA RenewedSlots ==
  ASSUME NEW T, NEW n \in Nat, NEW slots \in [1 .. n -> SlotsOf(T)], NEW used,
         NEW k \in 1 .. n, NEW old \in Int, NEW ad \in T, NEW dirty \in BOOLEAN,
         NEW new, new = Renewed(slots, used, k, old, ad, dirty)
  PROVE  /\ new \in [1 .. n -> SlotsOf(T)]
         /\ new[k].timestamp = 0 /\ new[k].tag = ad /\ new[k].valid = ~dirty
         /\ \A j \in 1 .. n \ {k} :
              /\ new[j].tag = slots[j].tag /\ new[j].valid = slots[j].valid
              /\ new[j].timestamp = IF j \in used /\ slots[j].timestamp < old
                                    THEN slots[j].timestamp + 1
                                    ELSE slots[j].timestamp
<1> DEFINE aged == Aged(slots, used, old)
<1>1. \A j \in 1 .. n : /\ slots[j] \in SlotsOf(T)
                        /\ slots[j].timestamp \in Nat
  BY DEF SlotsOf
<1>2. ASSUME NEW j \in 1 .. n
      PROVE  /\ aged[j] \in SlotsOf(T)
             /\ aged[j].tag = slots[j].tag /\ aged[j].valid = slots[j].valid
             /\ aged[j].timestamp = IF j \in used /\ slots[j].timestamp < old
                                    THEN slots[j].timestamp + 1
                                    ELSE slots[j].timestamp
  BY <1>1 DEF Aged, SlotsOf
<1>3. aged \in [1 .. n -> SlotsOf(T)]
  BY <1>2 DEF Aged
<1> HIDE DEF aged
<1>4. [tag |-> ad, valid |-> ~dirty, timestamp |-> 0] \in SlotsOf(T)
  BY DEF SlotsOf
<1>5. new = [aged EXCEPT ![k] = [tag |-> ad, valid |-> ~dirty, timestamp |-> 0]]
  BY DEF Renewed, aged
<1>6. new \in [1 .. n -> SlotsOf(T)]
  BY <1>3, <1>4, <1>5
<1>7. new[k].timestamp = 0 /\ new[k].tag = ad /\ new[k].valid = ~dirty
  BY <1>3, <1>5
<1>8. \A j \in 1 .. n \ {k} : new[j] = aged[j]
  BY <1>3, <1>5
<1> QED
  BY <1>2, <1>6, <1>7, <1>8

LEMMA RenewedTags ==
  ASSUME NEW T, NEW n \in Nat, NEW slots \in [1 .. n -> SlotsOf(T)], NEW used,
         NEW k \in 1 .. n, NEW old \in Int, NEW ad \in T, NEW dirty \in BOOLEAN
  PROVE  LET new == Renewed(slots, used, k, old, ad, dirty) IN
         /\ new[k].tag = ad
         /\ \A j \in 1 .. n \ {k} : new[j].tag = slots[j].tag
<1> DEFINE new == Renewed(slots, used, k, old, ad, dirty)
<1> HIDE DEF new
<1>1. new = Renewed(slots, used, k, old, ad, dirty)
  BY DEF new
<1>2. /\ new[k].tag = ad
      /\ \A j \in 1 .. n \ {k} : new[j].tag = slots[j].tag
  BY <1>1, RenewedSlots
<1> QED
  BY <1>2 DEF new

LEMMA RenewedValid ==
  ASSUME NEW T, NEW n \in Nat, NEW slots \in [1 .. n -> SlotsOf(T)], NEW used,
         NEW k \in 1 .. n, NEW old \in Int, NEW ad \in T, NEW dirty \in BOOLEAN
  PROVE  LET new == Renewed(slots, used, k, old, ad, dirty) IN
         /\ new[k].valid = ~dirty
         /\ \A j \in 1 .. n \ {k} : new[j].valid = slots[j].valid
<1> DEFINE new == Renewed(slots, used, k, old, ad, dirty)
<1> HIDE DEF new
<1>1. new = Renewed(slots, used, k, old, ad, dirty)
  BY DEF new
<1>2. /\ new[k].valid = ~dirty
      /\ \A j \in 1 .. n \ {k} : new[j].valid = slots[j].valid
  BY <1>1, RenewedSlots
<1> QED
  BY <1>2 DEF new

(* A slot in use becomes the youngest, and those younger than it was age. *)
(* Whether the slot itself counts as used makes no difference.            *)
LEMMA HitOrdered ==
  ASSUME NEW T, NEW n \in Nat, NEW slots, NEW size, Ordered(T, n, slots, size),
         NEW k \in 1 .. size, NEW used, \A j \in 1 .. size \ {k} : j \in used,
         NEW ad \in T, NEW dirty \in BOOLEAN,
         NEW new, new = Renewed(slots, used, k, slots[k].timestamp, ad, dirty)
  PROVE  Ordered(T, n, new, size)
<1> DEFINE old == slots[k].timestamp
<1>1. /\ slots \in [1 .. n -> SlotsOf(T)] /\ size \in 0 .. n
      /\ k \in 1 .. n
  BY DEF Ordered
<1>2. \A j \in 1 .. size : slots[j].timestamp \in Nat /\ slots[j].timestamp < size
  BY <1>1 DEF Ordered, SlotsOf
<1>3. /\ new \in [1 .. n -> SlotsOf(T)]
      /\ new[k].timestamp = 0
      /\ \A j \in 1 .. size \ {k} :
           new[j].timestamp = IF slots[j].timestamp < old THEN slots[j].timestamp + 1
                              ELSE slots[j].timestamp
  BY <1>1, <1>2, RenewedSlots
<1>4. \A j \in 1 .. size \ {k} : slots[j].timestamp # old
  BY DEF Ordered
<1>5. \A j \in 1 .. size : new[j].timestamp < size
  BY <1>1, <1>2, <1>3
<1>6. \A i, j \in 1 .. size : new[i].timestamp = new[j].timestamp => i = j
  <2> TAKE i, j \in 1 .. size
  <2>1. slots[i].timestamp = slots[j].timestamp => i = j
    BY DEF Ordered
  <2>2. CASE i = k \/ j = k
    <3>1. ASSUME NEW l \in 1 .. size, l # k PROVE new[l].timestamp # 0
      <4>1. /\ slots[l].timestamp \in Nat /\ old \in Nat
            /\ slots[l].timestamp # old
        BY <1>2, <1>4, <3>1
      <4>2. new[l].timestamp = IF slots[l].timestamp < old THEN slots[l].timestamp + 1
                               ELSE slots[l].timestamp
        BY <1>3, <3>1
      <4> HIDE DEF old
      <4> QED
        BY <4>1, <4>2
    <3> QED
      BY <1>3, <2>2, <3>1
  <2>3. CASE i # k /\ j # k
    <3>1. /\ slots[i].timestamp \in Nat /\ slots[j].timestamp \in Nat
          /\ slots[i].timestamp # old /\ slots[j].timestamp # old /\ old \in Nat
      BY <1>2, <1>4, <2>3
    <3>2. /\ new[i].timestamp = IF slots[i].timestamp < old THEN slots[i].timestamp + 1
                                ELSE slots[i].timestamp
          /\ new[j].timestamp = IF slots[j].timestamp < old THEN slots[j].timestamp + 1
                                ELSE slots[j].timestamp
      BY <1>3, <2>3
    <3> HIDE DEF old
    <3> QED
      BY <2>1, <3>1, <3>2
  <2> QED
    BY <2>2, <2>3
<1>7. ASSUME NEW v \in 0 .. size - 1 PROVE \E j \in 1 .. size : new[j].timestamp = v
  <2>1. CASE v = 0
    BY <1>3, <2>1
  <2>2. CASE v > 0 /\ v <= old
    <3>1. PICK j \in 1 .. size : slots[j].timestamp = v - 1
      BY <1>1, <2>2 DEF Ordered
    <3> QED
      BY <1>2, <1>3, <2>2, <3>1
  <2>3. CASE v > old
    <3>1. PICK j \in 1 .. size : slots[j].timestamp = v
      BY DEF Ordered
    <3> QED
      BY <1>2, <1>3, <2>3, <3>1
  <2> QED
    BY <1>2, <2>1, <2>2, <2>3
<1> QED
  BY <1>1, <1>3, <1>5, <1>6, <1>7 DEF Ordered

(* A slot is taken into use as the youngest, and all others age. *)
LEMMA NewOrdered ==
  ASSUME NEW T, NEW n \in Nat, NEW slots, NEW size, Ordered(T, n, slots, size), size < n,
         NEW used, \A j \in 1 .. size : j \in used, NEW ad \in T, NEW dirty \in BOOLEAN,
         NEW new, new = Renewed(slots, used, size + 1, n - 1, ad, dirty)
  PROVE  Ordered(T, n, new, size + 1)
<1>1. /\ slots \in [1 .. n -> SlotsOf(T)] /\ size \in 0 .. n
      /\ size + 1 \in 1 .. n /\ n - 1 \in Int
  BY DEF Ordered
<1>2. \A j \in 1 .. size : slots[j].timestamp \in Nat /\ slots[j].timestamp < size
  BY <1>1 DEF Ordered, SlotsOf
<1>3. /\ new \in [1 .. n -> SlotsOf(T)]
      /\ new[size + 1].timestamp = 0
      /\ \A j \in 1 .. n \ {size + 1} :
           new[j].timestamp = IF j \in used /\ slots[j].timestamp < n - 1
                              THEN slots[j].timestamp + 1 ELSE slots[j].timestamp
  <2> DEFINE k == size + 1
             old == n - 1
  <2>1. new = Renewed(slots, used, k, old, ad, dirty) /\ k \in 1 .. n /\ old \in Int
    BY <1>1
  <2>0. slots \in [1 .. n -> SlotsOf(T)]
    BY <1>1
  <2> HIDE DEF k, old
  <2>2. /\ new \in [1 .. n -> SlotsOf(T)]
        /\ new[k].timestamp = 0
        /\ \A j \in 1 .. n \ {k} :
             new[j].timestamp = IF j \in used /\ slots[j].timestamp < old
                                THEN slots[j].timestamp + 1 ELSE slots[j].timestamp
    BY <2>0, <2>1, RenewedSlots
  <2> QED
    BY <2>2 DEF k, old
<1>4. \A j \in 1 .. size : new[j].timestamp = slots[j].timestamp + 1
  BY <1>1, <1>2, <1>3
<1>5. \A j \in 1 .. size + 1 : new[j].timestamp < size + 1
  BY <1>1, <1>2, <1>3, <1>4
<1>6. \A i, j \in 1 .. size + 1 : new[i].timestamp = new[j].timestamp => i = j
  <2> TAKE i, j \in 1 .. size + 1
  <2>1. \A l \in 1 .. size + 1 : l \in 1 .. size \/ l = size + 1
    BY <1>1
  <2>2. \A l \in 1 .. size : new[l].timestamp # 0
    BY <1>2, <1>4
  <2>3. CASE i = size + 1 \/ j = size + 1
    BY <1>3, <2>1, <2>2, <2>3
  <2>4. CASE i \in 1 .. size /\ j \in 1 .. size
    <3>1. slots[i].timestamp = slots[j].timestamp => i = j
      BY <2>4 DEF Ordered
    <3>2. /\ slots[i].timestamp \in Nat /\ slots[j].timestamp \in Nat
          /\ new[i].timestamp = slots[i].timestamp + 1
          /\ new[j].timestamp = slots[j].timestamp + 1
      BY <1>2, <1>4, <2>4
    <3> QED
      BY <3>1, <3>2
  <2> QED
    BY <2>1, <2>3, <2>4
<1>7. ASSUME NEW v \in 0 .. size PROVE \E j \in 1 .. size + 1 : new[j].timestamp = v
  <2>1. CASE v = 0
    BY <1>1, <1>3, <2>1
  <2>2. CASE v > 0
    <3>1. PICK j \in 1 .. size : slots[j].timestamp = v - 1
      BY <1>1, <2>2 DEF Ordered
    <3> QED
      BY <1>1, <1>4, <3>1
  <2> QED
    BY <1>1, <2>1, <2>2
<1> QED
  BY <1>1, <1>3, <1>5, <1>6, <1>7 DEF Ordered

-----------------------------------------------------------------------------
(* loadStore keeps the invariant of the set it is called for *)

(* The slot that is found is in use and holds the tag. *)
LEMMA SlotFound ==
  ASSUME NEW s, SetInv(s), NEW ad, HasTag(s, ad)
  PROVE  SlotOf(s, ad) \in Used(s) /\ s.slots[SlotOf(s, ad)].tag = ad
<1>1. CASE FullyAssociative
  BY <1>1 DEF SetInv, Indexed, HasTag, SlotOf
<1>2. CASE ~FullyAssociative
  BY <1>2 DEF HasTag, SlotOf
<1> QED
  BY <1>1, <1>2

LEMMA SameIndex ==
  ASSUME NEW s, NEW t, Indexed(s), t.index = s.index, t.size = s.size,
         \A j \in Used(s) : t.slots[j].tag = s.slots[j].tag
  PROVE  Indexed(t)
BY DEF Indexed, Used

LEMMA HitKeeps ==
  ASSUME NEW n \in Nat, n = args.n, NEW s, SetInv(s), NEW ad \in Tags, HasTag(s, ad),
         NEW dirty \in BOOLEAN
  PROVE  SetInv(OnHit(s, ad, dirty))
<1> DEFINE k == SlotOf(s, ad)
           new == Renewed(s.slots, Used(s), k, s.slots[k].timestamp, ad, dirty)
           t == [slots |-> new, size |-> s.size, index |-> s.index]
<1>1. OnHit(s, ad, dirty) = IF args.lru THEN t ELSE s
  BY DEF OnHit, SetInv
<1>2. k \in Used(s) /\ s.slots[k].tag = ad
  BY SlotFound
<1>3. Ordered(Tags, n, s.slots, s.size) /\ Indexed(s) /\ DOMAIN s.index \subseteq Tags
  BY DEF SetInv
<1> HIDE DEF k, SetInv
<1>4. \A j \in 1 .. s.size \ {k} : j \in Used(s)
  BY DEF Used
<1>5. Ordered(Tags, n, new, s.size)
  BY <1>2, <1>3, <1>4, HitOrdered DEF Used
<1>6. /\ s.slots \in [1 .. n -> SlotsOf(Tags)] /\ k \in 1 .. n
      /\ s.slots[k].timestamp \in Int /\ \A j \in Used(s) : j \in 1 .. n
  <2>1. s.slots \in [1 .. n -> SlotsOf(Tags)] /\ s.size \in 0 .. n
    BY <1>3 DEF Ordered
  <2>2. \A j \in Used(s) : j \in 1 .. n
    BY <2>1 DEF Used
  <2>3. k \in 1 .. n
    BY <1>2, <2>2
  <2>4. s.slots[k] \in SlotsOf(Tags)
    BY <2>1, <2>3
  <2>5. s.slots[k].timestamp \in Int
    BY <2>4 DEF SlotsOf
  <2> QED
    BY <2>1, <2>2, <2>3, <2>5
<1>7. /\ new[k].tag = ad
      /\ \A j \in 1 .. n \ {k} : new[j].tag = s.slots[j].tag
  BY <1>6, RenewedTags
<1>8. \A j \in Used(s) : new[j].tag = s.slots[j].tag
  BY <1>2, <1>6, <1>7
<1> HIDE DEF new
<1>9. t.index = s.index /\ t.size = s.size /\ t.slots = new
  OBVIOUS
<1>10. Indexed(t)
  <2> HIDE DEF t
  <2> QED
    BY <1>3, <1>8, <1>9, SameIndex
<1>11. SetInv(t)
  BY <1>3, <1>5, <1>9, <1>10 DEF SetInv
<1> QED
  BY <1>1, <1>11

(* What Reindex returns, for the slot k that gets the tag ad. *)
LEMMA ReindexAgrees ==
  ASSUME NEW s, NEW t, Indexed(s), NEW k, NEW ad, ~HasTag(s, ad),
         t.index = Reindex(s, ad, k), k \in Used(t), t.slots[k].tag = ad,
         \A j \in Used(t) \ {k} : j \in Used(s) /\ t.slots[j].tag = s.slots[j].tag,
         \A j \in Used(s) : j \in Used(t)
  PROVE  Indexed(t)
<1> SUFFICES ASSUME FullyAssociative
             PROVE  /\ \A x \in DOMAIN t.index : t.index[x] \in Used(t) /\ t.slots[t.index[x]].tag = x
                    /\ \A j \in Used(t) : /\ t.slots[j].tag \in DOMAIN t.index
                                          /\ t.index[t.slots[j].tag] = j
  BY DEF Indexed
<1> DEFINE kept == IF k \in Used(s) THEN DOMAIN s.index \ {s.slots[k].tag} ELSE DOMAIN s.index
<1>1. ad \notin DOMAIN s.index
  BY DEF HasTag
<1>2. /\ \A x \in DOMAIN s.index : s.index[x] \in Used(s) /\ s.slots[s.index[x]].tag = x
      /\ \A j \in Used(s) : /\ s.slots[j].tag \in DOMAIN s.index
                            /\ s.index[s.slots[j].tag] = j
  BY DEF Indexed
<1>3. /\ DOMAIN t.index = kept \cup {ad}
      /\ \A x \in kept \cup {ad} : t.index[x] = IF x = ad THEN k ELSE s.index[x]
  BY DEF Reindex
<1>4. ASSUME NEW x \in kept PROVE s.index[x] \in Used(t) \ {k} /\ s.slots[s.index[x]].tag = x
  BY <1>2
<1>5. ASSUME NEW j \in Used(t) \ {k} PROVE s.slots[j].tag \in kept /\ s.index[s.slots[j].tag] = j
  BY <1>2
<1> HIDE DEF kept
<1>6. kept \subseteq DOMAIN s.index
  BY DEF kept
<1>7. \A x \in DOMAIN t.index : t.index[x] \in Used(t) /\ t.slots[t.index[x]].tag = x
  BY <1>3, <1>4
<1>8. \A j \in Used(t) : /\ t.slots[j].tag \in DOMAIN t.index
                         /\ t.index[t.slots[j].tag] = j
  BY <1>1, <1>3, <1>5, <1>6
<1> QED
  BY <1>7, <1>8

(* The slot that OnMiss chooses for a block, and how many are in use then. *)
Chosen(s) == IF Oldest(s) = {} THEN s.size + 1 ELSE CHOOSE i \in Oldest(s) : TRUE
More(s) == Cardinality(Used(s) \cup {Chosen(s)})

LEMMA SlotChosen ==
  ASSUME NEW n \in Nat, n = args.n, n # 0, NEW s, NEW T, Ordered(T, n, s.slots, s.size)
  PROVE  \/ Chosen(s) = s.size + 1 /\ More(s) = s.size + 1 /\ s.size < n
         \/ /\ Chosen(s) \in 1 .. s.size /\ s.slots[Chosen(s)].timestamp = n - 1
            /\ More(s) = s.size
<1> DEFINE k == Chosen(s)
<1>1. /\ s.size \in 0 .. n /\ s.size \in Nat
      /\ \A v \in 0 .. s.size - 1 : \E j \in 1 .. s.size : s.slots[j].timestamp = v
  BY DEF Ordered
<1>2. Used(s) = 1 .. s.size
  BY DEF Used
<1>3. CASE Oldest(s) = {}
  <2>1. s.size < n
    <3> SUFFICES ASSUME s.size = n PROVE FALSE
      BY <1>1
    <3>1. n - 1 \in 0 .. s.size - 1
      BY <1>1
    <3>2. PICK j \in 1 .. s.size : s.slots[j].timestamp = n - 1
      BY <1>1, <3>1
    <3> QED
      BY <1>2, <1>3, <3>2 DEF Oldest
  <2>2. k = s.size + 1
    BY <1>3 DEF Chosen
  <2>3. Used(s) \cup {k} = 1 .. s.size + 1
    <3>1. \A m \in Nat : (1 .. m) \cup {m + 1} = 1 .. m + 1
      OBVIOUS
    <3> QED
      BY <1>1, <1>2, <2>2, <3>1
  <2>4. Cardinality(1 .. s.size + 1) = s.size + 1
    BY <1>1, FS_Interval
  <2> QED
    BY <2>1, <2>2, <2>3, <2>4 DEF More
<1>4. CASE Oldest(s) # {}
  <2>1. k \in Oldest(s)
    BY <1>4 DEF Chosen
  <2>2. k \in 1 .. s.size /\ s.slots[k].timestamp = n - 1
    BY <1>2, <2>1 DEF Oldest
  <2>3. Used(s) \cup {k} = 1 .. s.size
    BY <1>2, <2>2
  <2>4. Cardinality(1 .. s.size) = s.size
    BY <1>1, FS_Interval
  <2> QED
    BY <2>2, <2>3, <2>4 DEF More
<1> QED
  BY <1>3, <1>4

LEMMA MissKeeps ==
  ASSUME NEW n \in Nat, n = args.n, n # 0, NEW s, SetInv(s), NEW ad \in Tags,
         ~HasTag(s, ad), NEW dirty \in BOOLEAN
  PROVE  SetInv(OnMiss(s, ad, dirty))
<1> DEFINE k == Chosen(s)
           used == (Used(s) \cup {k}) \ {k}
           more == More(s)
           new == Renewed(s.slots, used, k, n - 1, ad, dirty)
           t == [slots |-> new, size |-> more, index |-> Reindex(s, ad, k)]
<1>1. OnMiss(s, ad, dirty) = t
  BY DEF OnMiss, Chosen, More
<1>2. Ordered(Tags, n, s.slots, s.size) /\ Indexed(s) /\ DOMAIN s.index \subseteq Tags
  BY DEF SetInv
<1> HIDE DEF SetInv
<1>3. \/ k = s.size + 1 /\ more = s.size + 1 /\ s.size < n
      \/ k \in 1 .. s.size /\ s.slots[k].timestamp = n - 1 /\ more = s.size
  BY <1>2, SlotChosen
<1>4. \A j \in 1 .. s.size : j # k => j \in used
  BY DEF Used
<1>5. /\ s.slots \in [1 .. n -> SlotsOf(Tags)] /\ s.size \in 0 .. n
  BY <1>2 DEF Ordered
<1>6. new = Renewed(s.slots, used, k, n - 1, ad, dirty)
  OBVIOUS
<1>7. t.slots = new /\ t.size = more /\ t.index = Reindex(s, ad, k)
      /\ t = [slots |-> t.slots, size |-> t.size, index |-> t.index]
  OBVIOUS
<1> HIDE DEF k, used, more, new, t
<1>8. Ordered(Tags, n, new, more)
  <2>1. CASE k = s.size + 1 /\ more = s.size + 1 /\ s.size < n
    <3>1. \A j \in 1 .. s.size : j \in used
      BY <1>4, <1>5, <2>1
    <3>2. new = Renewed(s.slots, used, s.size + 1, n - 1, ad, dirty)
      BY <1>6, <2>1
    <3>3. Ordered(Tags, n, new, s.size + 1)
      BY <1>2, <2>1, <3>1, <3>2, NewOrdered
    <3> QED
      BY <2>1, <3>3
  <2>2. CASE k \in 1 .. s.size /\ s.slots[k].timestamp = n - 1 /\ more = s.size
    <3>1. new = Renewed(s.slots, used, k, s.slots[k].timestamp, ad, dirty)
      BY <1>6, <2>2
    <3>2. \A j \in 1 .. s.size \ {k} : j \in used
      BY <1>4
    <3>3. Ordered(Tags, n, new, s.size)
      BY <1>2, <2>2, <3>1, <3>2, HitOrdered
    <3> QED
      BY <2>2, <3>3
  <2> QED
    BY <1>3, <2>1, <2>2
<1>9. /\ k \in 1 .. n /\ k \in 1 .. more /\ n - 1 \in Int
      /\ \A j \in 1 .. more \ {k} : j \in 1 .. s.size
      /\ \A j \in 1 .. s.size : j \in 1 .. more /\ j \in 1 .. n
  BY <1>3, <1>5
<1>10. /\ new[k].tag = ad
       /\ \A j \in 1 .. n \ {k} : new[j].tag = s.slots[j].tag
  BY <1>5, <1>9, RenewedTags DEF new
<1>11. Used(s) = 1 .. s.size /\ Used(t) = 1 .. more
  BY <1>7 DEF Used
<1>12. Indexed(t)
  <2>1. k \in Used(t) /\ t.slots[k].tag = ad
    BY <1>7, <1>9, <1>10, <1>11
  <2>2. \A j \in Used(t) \ {k} : j \in Used(s) /\ t.slots[j].tag = s.slots[j].tag
    BY <1>7, <1>9, <1>10, <1>11
  <2>3. \A j \in Used(s) : j \in Used(t)
    BY <1>9, <1>11
  <2> QED
    BY <1>2, <1>7, <2>1, <2>2, <2>3, ReindexAgrees
<1>13. DOMAIN t.index \subseteq Tags
  BY <1>2, <1>7 DEF Reindex
<1>14. SetInv(t)
  BY <1>7, <1>8, <1>12, <1>13 DEF SetInv
<1> QED
  BY <1>1, <1>14

-----------------------------------------------------------------------------
LEMMA EmptySetInv ==
  ASSUME NEW n \in Nat, n = args.n
  PROVE  SetInv(EmptySet)
<1>1. Ordered(Tags, n, EmptySet.slots, EmptySet.size)
  BY DEF Ordered, EmptySet, SlotsOf, Tags
<1>2. Used(EmptySet) = {} /\ DOMAIN EmptySet.index = {}
  BY DEF EmptySet, Used
<1>3. Indexed(EmptySet)
  BY <1>2 DEF Indexed
<1>4. EmptySet = [slots |-> EmptySet.slots, size |-> EmptySet.size, index |-> EmptySet.index]
  BY DEF EmptySet
<1> QED
  BY <1>1, <1>2, <1>3, <1>4 DEF SetInv

LEMMA AcceptedNotZero == Accepted => args.n # 0 /\ args.sets # 0
<1>1. LogTwo(0) = -1
  BY DEF LogTwo
<1> QED
  BY <1>1 DEF Accepted

(* A set is as good after a step as before it: the command line stays. *)
LEMMA SetInvStays ==
  ASSUME args' = args, NEW i, SetInv(sets'[i])
  PROVE  SetInv(sets[i])'
BY DEF SetInv, Indexed, FullyAssociative, Tags, TagOf, Used

LEMMA IInvStep ==
  ASSUME IInv, args' = args, phase' \in {"start", "error", "run", "done"},
         count' \in [Kinds -> Nat], writeBacks' \in Nat,
         Running' => Accepted,
         DOMAIN sets' = IF Running' THEN 0 .. args.sets - 1 ELSE {},
         sets' = [i \in DOMAIN sets' |-> sets'[i]],
         \A i \in DOMAIN sets' : SetInv(sets'[i])
  PROVE  IInv'
<1>1. \A i \in DOMAIN sets' : SetInv(sets[i])'
  BY SetInvStays
<1>2. (Running => Accepted)'
  BY DEF Accepted
<1> QED
  BY <1>1, <1>2 DEF IInv

LEMMA OneMore ==
  ASSUME NEW S, NEW f \in [S -> Nat], NEW x
  PROVE  [f EXCEPT ![x] = @ + 1] \in [S -> Nat]
<1> DEFINE g == [f EXCEPT ![x] = @ + 1]
<1>1. ASSUME NEW y \in S PROVE g[y] \in Nat
  BY DEF g
<1>2. g = [y \in S |-> g[y]]
  OBVIOUS
<1>3. g \in [S -> Nat]
  <2> HIDE DEF g
  <2> QED
    BY <1>1, <1>2
<1> QED
  BY <1>3

(* An access is counted as one of a load or of a store, a hit or a miss. *)
LEMMA AccessCounts ==
  ASSUME count \in [Kinds -> Nat], writeBacks \in Nat,
         NEW b, NEW store \in BOOLEAN, Access(b, store)
  PROVE  count' \in [Kinds -> Nat] /\ writeBacks' \in Nat
<1>1. writeBacks' \in Nat
  BY DEF Access
<1>2. PICK h : count' = [count EXCEPT ![<<store, h>>] = @ + 1]
  BY DEF Access
<1>3. count' \in [Kinds -> Nat]
  BY <1>2, OneMore
<1> QED
  BY <1>1, <1>3

LEMMA Inductive == IInv /\ [Next \/ Stop]_vars => IInv'
<1> SUFFICES ASSUME IInv, [Next \/ Stop]_vars PROVE IInv'
  OBVIOUS
<1>0. args.n \in Nat
  BY ArgsAssumption DEF IInv
<1>1. ASSUME UNCHANGED <<args, sets>>, phase' \in {"start", "error", "run", "done"},
             Running' <=> Running, count' \in [Kinds -> Nat], writeBacks' \in Nat
      PROVE  IInv'
  <2>1. /\ args' = args
        /\ Running' => Accepted
        /\ DOMAIN sets' = IF Running' THEN 0 .. args.sets - 1 ELSE {}
        /\ sets' = [i \in DOMAIN sets' |-> sets'[i]]
        /\ \A i \in DOMAIN sets' : SetInv(sets'[i])
    BY <1>1 DEF IInv
  <2> QED
    BY <1>1, <2>1, IInvStep
<1>2. ASSUME Begin PROVE IInv'
  <2>1. CASE Accepted
    <3>1. /\ args' = args /\ count' = count /\ writeBacks' = writeBacks
          /\ phase' = "run" /\ Running'
          /\ sets' = [i \in 0 .. args.sets - 1 |-> EmptySet]
      BY <1>2, <2>1 DEF Begin, Running
    <3>2. SetInv(EmptySet)
      BY <1>0, EmptySetInv
    <3>3. count' \in [Kinds -> Nat] /\ writeBacks' \in Nat
      BY <3>1 DEF IInv
    <3> QED
      BY <2>1, <3>1, <3>2, <3>3, IInvStep
  <2>2. CASE ~Accepted
    BY <1>1, <1>2, <2>2 DEF Begin, Running, IInv
  <2> QED
    BY <2>1, <2>2
<1>3. ASSUME NEW b \in Blocks, NEW store \in BOOLEAN, Access(b, store) PROVE IInv'
  <2> DEFINE i == IndexOf(b)
             s == sets[i]
             ad == TagOf(b)
  <2>1. /\ args' = args /\ phase = "run" /\ phase' = phase
        /\ Accepted /\ args.n # 0 /\ Running /\ Running'
    BY <1>3, AcceptedNotZero DEF Access, IInv, Running
  <2>0. count' \in [Kinds -> Nat] /\ writeBacks' \in Nat
    BY <1>3, AccessCounts DEF IInv
  <2>2. ad \in Tags /\ Dirty(store) \in BOOLEAN
    BY DEF Tags, Dirty
  <2>3. ASSUME NEW t, sets' = [sets EXCEPT ![i] = t], i \in DOMAIN sets => SetInv(t)
        PROVE  IInv'
    <3>1. /\ DOMAIN sets' = DOMAIN sets
          /\ sets' = [j \in DOMAIN sets' |-> sets'[j]]
          /\ \A j \in DOMAIN sets : sets'[j] = IF j = i THEN t ELSE sets[j]
      BY <2>3 DEF IInv
    <3>2. \A j \in DOMAIN sets' : SetInv(sets'[j])
      BY <2>3, <3>1 DEF IInv
    <3>3. /\ phase' \in {"start", "error", "run", "done"}
          /\ DOMAIN sets' = IF Running' THEN 0 .. args.sets - 1 ELSE {}
      BY <2>1, <3>1 DEF IInv
    <3> QED
      BY <2>0, <2>1, <3>1, <3>2, <3>3, IInvStep
  <2>4. i \in DOMAIN sets => SetInv(s)
    BY DEF IInv
  <2> HIDE DEF i, s, ad
  <2>5. CASE HasTag(s, ad) /\ sets' = [sets EXCEPT ![i] = OnHit(s, ad, Dirty(store))]
    <3>1. i \in DOMAIN sets => SetInv(OnHit(s, ad, Dirty(store)))
      BY <1>0, <2>2, <2>4, <2>5, HitKeeps
    <3> QED
      BY <2>3, <2>5, <3>1
  <2>6. CASE ~HasTag(s, ad) /\ sets' = [sets EXCEPT ![i] = OnMiss(s, ad, Dirty(store))]
    <3>1. i \in DOMAIN sets => SetInv(OnMiss(s, ad, Dirty(store)))
      BY <1>0, <2>1, <2>2, <2>4, <2>6, MissKeeps
    <3> QED
      BY <2>3, <2>6, <3>1
  <2>7. CASE sets' = sets
    BY <1>1, <2>0, <2>1, <2>7 DEF IInv
  <2> QED
    BY <1>3, <2>5, <2>6, <2>7 DEF Access, i, s, ad
<1>4. ASSUME EndOfTrace PROVE IInv'
  BY <1>1, <1>4 DEF EndOfTrace, IInv, Running
<1>5. ASSUME UNCHANGED vars PROVE IInv'
  BY <1>1, <1>5 DEF vars, IInv, Running
<1> QED
  BY <1>2, <1>3, <1>4, <1>5 DEF Next, Stop

LEMMA Invariance == Spec => []IInv
<1>1. Init => IInv
  BY DEF Init, IInv, Running
<1> QED
  BY <1>1, Inductive, PTL DEF Spec

(* In every set the timestamps of the slots in use are the numbers below     *)
(* their number, in any cache and after any trace: a full set always has a   *)
(* slot with the timestamp n - 1, the one that loadStore looks for to evict. *)
THEOREM TimestampsStayOrdered == Spec => []TimestampsOrder
<1>1. IInv => TimestampsOrder
  <2> SUFFICES ASSUME IInv, NEW i \in DOMAIN sets
               PROVE  {sets[i].slots[k].timestamp : k \in Used(sets[i])} = 0 .. sets[i].size - 1
    BY DEF TimestampsOrder
  <2> DEFINE slots == sets[i].slots
             size == sets[i].size
  <2>1. Ordered(Tags, args.n, slots, size) /\ args.n \in Nat
    BY ArgsAssumption DEF IInv, SetInv
  <2>2. \A k \in 1 .. size : slots[k].timestamp \in 0 .. size - 1
    <3>1. /\ size \in 0 .. args.n /\ slots \in [1 .. args.n -> SlotsOf(Tags)]
          /\ \A k \in 1 .. size : slots[k].timestamp < size
      BY <2>1 DEF Ordered
    <3> HIDE DEF slots, size
    <3>2. \A k \in 1 .. size : slots[k] \in SlotsOf(Tags)
      BY <2>1, <3>1
    <3>3. \A k \in 1 .. size : slots[k].timestamp \in Nat
      BY <3>2 DEF SlotsOf
    <3> QED
      BY <2>1, <3>1, <3>3
  <2>3. \A v \in 0 .. size - 1 : \E k \in 1 .. size : slots[k].timestamp = v
    BY <2>1 DEF Ordered
  <2> QED
    BY <2>2, <2>3 DEF Used
<1> QED
  BY <1>1, Invariance, PTL

(* The index of a fully associative cache and its slots say the same, also   *)
(* after an eviction: a tag is in the index exactly if a slot in use has it, *)
(* and no tag is in two slots.                                               *)
THEOREM IndexStaysTrue == Spec => []IndexAgrees
<1>1. IInv => IndexAgrees
  BY DEF IInv, SetInv, Indexed, IndexAgrees
<1> QED
  BY <1>1, Invariance, PTL

-----------------------------------------------------------------------------
(* The sets as lists *)

LEMMA Geometry ==
  ASSUME IInv, Running
  PROVE  /\ args.sets \in Nat \ {0} /\ args.n \in Nat \ {0}
         /\ \A b \in Nat : TagOf(b) = b \div args.sets
         /\ Tags \subseteq Nat
<1>1. Accepted /\ args.sets \in Nat \ {0} /\ args.n \in Nat \ {0} /\ LogTwo(args.sets) # -1
  BY ArgsAssumption, AcceptedNotZero DEF IInv, Accepted
<1>2. \A b \in Nat : TagOf(b) = b \div args.sets
  BY <1>1, ShiftDivides DEF TagOf
<1>3. \A b \in Nat : TagOf(b) \in Nat
  BY <1>1, <1>2, Quotient
<1>4. Tags \subseteq Nat
  BY <1>3, BlocksAssumption DEF Tags
<1> QED
  BY <1>1, <1>2, <1>4

(* Every variable has its type, and no set has more slots in use than it *)
(* has room for.                                                         *)
THEOREM TypeCorrect == Spec => []TypeOK
<1>1. IInv => TypeOK
  <2> SUFFICES ASSUME IInv PROVE TypeOK
    OBVIOUS
  <2>1. ASSUME NEW i \in DOMAIN sets
        PROVE  /\ sets[i].slots \in [1 .. args.n -> Slots]
               /\ sets[i].size \in 0 .. args.n
               /\ DOMAIN sets[i].index \subseteq Nat
    <3>1. Running /\ SetInv(sets[i])
      BY DEF IInv
    <3>2. Tags \subseteq Nat
      BY <3>1, Geometry
    <3>3. SlotsOf(Tags) \subseteq Slots
      BY <3>2 DEF SlotsOf, Slots
    <3>4. Ordered(Tags, args.n, sets[i].slots, sets[i].size) /\ DOMAIN sets[i].index \subseteq Tags
      BY <3>1 DEF SetInv
    <3>5. sets[i].slots \in [1 .. args.n -> SlotsOf(Tags)] /\ sets[i].size \in 0 .. args.n
      BY <3>4 DEF Ordered
    <3> QED
      BY <3>2, <3>3, <3>4, <3>5
  <2> QED
    BY <2>1 DEF IInv, TypeOK
<1> QED
  BY <1>1, Invariance, PTL

(* The tags of the slots in use, the youngest first. *)
TagList(slots, size) ==
  [p \in 1 .. size |-> slots[CHOOSE j \in 1 .. size : slots[j].timestamp = p - 1].tag]

(* A tag of L is at the place that the timestamp of its slot says. *)
Listed(slots, size, L) ==
  /\ DOMAIN L = 1 .. size
  /\ \A j \in 1 .. size : /\ slots[j].timestamp \in 0 .. size - 1
                          /\ L[slots[j].timestamp + 1] = slots[j].tag
  /\ \A p \in 1 .. size : \E j \in 1 .. size :
       slots[j].timestamp = p - 1 /\ L[p] = slots[j].tag

LEMMA ListOfTags ==
  ASSUME NEW T, NEW n \in Nat, NEW slots, NEW size, Ordered(T, n, slots, size)
  PROVE  size \in 0 .. n /\ Listed(slots, size, TagList(slots, size))
<1> DEFINE L == TagList(slots, size)
<1>1. /\ slots \in [1 .. n -> SlotsOf(T)] /\ size \in 0 .. n
      /\ \A j \in 1 .. size : slots[j].timestamp < size
      /\ \A i, j \in 1 .. size : slots[i].timestamp = slots[j].timestamp => i = j
      /\ \A v \in 0 .. size - 1 : \E j \in 1 .. size : slots[j].timestamp = v
  BY DEF Ordered
<1>2. \A j \in 1 .. size : slots[j] \in SlotsOf(T)
  BY <1>1
<1>3. \A j \in 1 .. size : slots[j].timestamp \in 0 .. size - 1
  <2>1. \A j \in 1 .. size : slots[j].timestamp \in Nat
    BY <1>2 DEF SlotsOf
  <2> QED
    BY <1>1, <2>1
<1> DEFINE At(p) == CHOOSE j \in 1 .. size : slots[j].timestamp = p - 1
<1>4. DOMAIN L = 1 .. size /\ \A p \in 1 .. size : L[p] = slots[At(p)].tag
  BY DEF TagList
<1>5. ASSUME NEW p \in 1 .. size PROVE At(p) \in 1 .. size /\ slots[At(p)].timestamp = p - 1
  <2>1. p - 1 \in 0 .. size - 1
    BY <1>1
  <2>2. \E j \in 1 .. size : slots[j].timestamp = p - 1
    BY <1>1, <2>1
  <2> QED
    BY <2>2
<1>6. ASSUME NEW j \in 1 .. size PROVE L[slots[j].timestamp + 1] = slots[j].tag
  <2> DEFINE p == slots[j].timestamp + 1
  <2>1. p \in 1 .. size /\ p - 1 = slots[j].timestamp
    BY <1>1, <1>3
  <2> HIDE DEF p
  <2>2. At(p) \in 1 .. size /\ slots[At(p)].timestamp = slots[j].timestamp
    BY <1>5, <2>1
  <2>3. At(p) = j
    BY <1>1, <2>2
  <2>4. L[p] = slots[j].tag
    BY <1>4, <2>1, <2>3
  <2> QED
    BY <2>4 DEF p
<1>7. \A p \in 1 .. size : \E j \in 1 .. size : slots[j].timestamp = p - 1 /\ L[p] = slots[j].tag
  <2> HIDE DEF At
  <2> QED
    BY <1>4, <1>5
<1> QED
  BY <1>1, <1>3, <1>4, <1>6, <1>7 DEF Listed

(* The tag ad of the list L moves from the place q to the front. *)
Moved(L, M, size, q, ad) ==
  /\ q \in 1 .. size /\ L[q] = ad
  /\ M = [j \in 1 .. size |-> IF j = 1 THEN ad ELSE IF j <= q THEN L[j - 1] ELSE L[j]]

(* A hit moves the tag to the front. *)
LEMMA HitMoves ==
  ASSUME NEW T, NEW n \in Nat, NEW slots, NEW size, Ordered(T, n, slots, size),
         NEW k \in 1 .. size, NEW used, \A j \in 1 .. size \ {k} : j \in used,
         NEW dirty \in BOOLEAN, NEW ad \in T, ad = slots[k].tag,
         NEW new, new = Renewed(slots, used, k, slots[k].timestamp, ad, dirty)
  PROVE  Moved(TagList(slots, size), TagList(new, size), size, slots[k].timestamp + 1, ad)
<1> DEFINE old == slots[k].timestamp
           q == old + 1
           L == TagList(slots, size)
           M == TagList(new, size)
<1>1. Ordered(T, n, new, size)
  BY HitOrdered
<1>2. /\ size \in 0 .. n
      /\ \A j \in 1 .. size : /\ slots[j].timestamp \in 0 .. size - 1
                              /\ L[slots[j].timestamp + 1] = slots[j].tag
  <2>1. size \in 0 .. n /\ Listed(slots, size, L)
    BY ListOfTags
  <2> QED
    BY <2>1 DEF Listed
<1>3. /\ DOMAIN M = 1 .. size
      /\ \A p \in 1 .. size : \E j \in 1 .. size :
           new[j].timestamp = p - 1 /\ M[p] = new[j].tag
  <2>1. Listed(new, size, M)
    BY <1>1, ListOfTags
  <2> QED
    BY <2>1 DEF Listed
<1>4. old \in 0 .. size - 1 /\ q = old + 1 /\ q \in 1 .. size /\ L[q] = ad
  <2>1. old \in 0 .. size - 1 /\ size \in Int /\ L[old + 1] = ad
    BY <1>2
  <2> HIDE DEF old, L
  <2> QED
    BY <2>1
<1>5. /\ slots \in [1 .. n -> SlotsOf(T)] /\ k \in 1 .. n /\ old \in Int
      /\ \A j \in 1 .. size : j \in 1 .. n
  BY <1>2, <1>4 DEF Ordered
<1>6. /\ new[k].timestamp = 0 /\ new[k].tag = ad
      /\ \A j \in 1 .. n \ {k} :
           /\ new[j].tag = slots[j].tag
           /\ new[j].timestamp = IF j \in used /\ slots[j].timestamp < old
                                 THEN slots[j].timestamp + 1 ELSE slots[j].timestamp
  BY <1>5, RenewedSlots
<1>7. \A j \in 1 .. size \ {k} : slots[j].timestamp # old
  BY DEF Ordered
<1> HIDE DEF old, q, L, M
<1>8. ASSUME NEW p \in 1 .. size
      PROVE  M[p] = IF p = 1 THEN ad ELSE IF p <= q THEN L[p - 1] ELSE L[p]
  <2>1. PICK j \in 1 .. size : new[j].timestamp = p - 1 /\ M[p] = new[j].tag
    BY <1>3
  <2>2. CASE j = k
    BY <1>2, <1>6, <2>1, <2>2
  <2>3. CASE j # k
    <3>1. /\ new[j].tag = slots[j].tag
          /\ p - 1 = IF slots[j].timestamp < old THEN slots[j].timestamp + 1
                     ELSE slots[j].timestamp
          /\ slots[j].timestamp \in 0 .. size - 1 /\ slots[j].timestamp # old
          /\ L[slots[j].timestamp + 1] = slots[j].tag
      BY <1>2, <1>5, <1>6, <1>7, <2>1, <2>3
    <3> DEFINE v == slots[j].timestamp
    <3>2. v \in Int /\ v >= 0 /\ p \in Int /\ (p - 1 = IF v < old THEN v + 1 ELSE v) /\ v # old
      BY <1>2, <3>1
    <3> HIDE DEF v
    <3>3. p # 1 /\ (IF p <= q THEN v + 1 = p - 1 ELSE v + 1 = p)
      BY <1>2, <1>4, <3>2
    <3> QED
      BY <2>1, <3>1, <3>3 DEF v
  <2> QED
    BY <2>2, <2>3
<1>9. M = [p \in 1 .. size |-> M[p]]
  BY <1>3 DEF TagList, M
<1> QED
  BY <1>4, <1>8, <1>9 DEF Moved, L, M, q, old

(* The slot k gets the tag ad; the slots in use before age by one. *)
Pushed(slots, size, new, more, k, ad) ==
  /\ k \in 1 .. more /\ new[k].timestamp = 0 /\ new[k].tag = ad
  /\ \A j \in 1 .. more \ {k} : /\ j \in 1 .. size /\ new[j].tag = slots[j].tag
                              /\ new[j].timestamp = slots[j].timestamp + 1

(* A miss brings a tag in front of the others. *)
LEMMA MissBrings ==
  ASSUME NEW T, NEW n \in Nat, NEW slots, NEW size, Ordered(T, n, slots, size),
         NEW new, NEW more, Ordered(T, n, new, more), NEW ad, NEW k,
         Pushed(slots, size, new, more, k, ad)
  PROVE  TagList(new, more) =
           [j \in 1 .. more |-> IF j = 1 THEN ad ELSE TagList(slots, size)[j - 1]]
<1> DEFINE L == TagList(slots, size)
           M == TagList(new, more)
<1>0. /\ k \in 1 .. more /\ new[k].timestamp = 0 /\ new[k].tag = ad
      /\ \A j \in 1 .. more \ {k} : /\ j \in 1 .. size /\ new[j].tag = slots[j].tag
                                  /\ new[j].timestamp = slots[j].timestamp + 1
  BY DEF Pushed
<1>1. /\ size \in 0 .. n
      /\ \A j \in 1 .. size : /\ slots[j].timestamp \in 0 .. size - 1
                              /\ L[slots[j].timestamp + 1] = slots[j].tag
  <2>1. size \in 0 .. n /\ Listed(slots, size, L)
    BY ListOfTags
  <2> QED
    BY <2>1 DEF Listed
<1>2. /\ more \in 0 .. n
      /\ \A p \in 1 .. more : \E j \in 1 .. more :
           new[j].timestamp = p - 1 /\ M[p] = new[j].tag
  <2>1. more \in 0 .. n /\ Listed(new, more, M)
    BY ListOfTags
  <2> QED
    BY <2>1 DEF Listed
<1>4. M = [p \in 1 .. more |-> M[p]]
  BY DEF TagList
<1> HIDE DEF L, M
<1>3. ASSUME NEW p \in 1 .. more PROVE M[p] = IF p = 1 THEN ad ELSE L[p - 1]
  <2>1. PICK j \in 1 .. more : new[j].timestamp = p - 1 /\ M[p] = new[j].tag
    BY <1>2
  <2>2. CASE j = k
    BY <1>0, <1>2, <2>1, <2>2
  <2>3. CASE j # k
    <3>1. /\ slots[j].timestamp + 1 = p - 1
          /\ slots[j].timestamp \in 0 .. size - 1
          /\ L[slots[j].timestamp + 1] = M[p]
      BY <1>0, <1>1, <2>1, <2>3
    <3> QED
      BY <1>1, <1>2, <3>1
  <2> QED
    BY <2>2, <2>3
<1> QED
  BY <1>3, <1>4 DEF L, M

(* The list of blocks is the list of tags, each tag with the index. *)
LEMMA BlocksAreTags ==
  ASSUME NEW s, NEW i
  PROVE  BlocksOf(s, i) = [p \in 1 .. s.size |-> TagList(s.slots, s.size)[p] * args.sets + i]
BY DEF BlocksOf, Aging, Used, TagList

(* loadStore hits exactly if the block is in the list. *)
LEMMA FoundExactly ==
  ASSUME IInv, Running, NEW b \in Nat, NEW s, SetInv(s)
  PROVE  HasTag(s, TagOf(b)) <=> Lists!In(b, BlocksOf(s, IndexOf(b)))
<1> DEFINE d == args.sets
           n == args.n
           ad == TagOf(b)
           i == IndexOf(b)
           L == TagList(s.slots, s.size)
<1>1. /\ d \in Nat \ {0} /\ n \in Nat /\ ad = b \div d /\ i = b % d
      /\ Tags \subseteq Nat
  BY Geometry DEF IndexOf
<1>2. ad \in Nat /\ i \in Nat /\ i < d /\ b = d * ad + i
  BY <1>1, Quotient
<1>3. Ordered(Tags, n, s.slots, s.size) /\ Indexed(s)
  BY DEF SetInv
<1> HIDE DEF d, n, ad, i, L, SetInv
<1>4. HasTag(s, ad) <=> \E j \in 1 .. s.size : s.slots[j].tag = ad
  <2>1. CASE FullyAssociative
    BY <1>3, <2>1 DEF Indexed, HasTag, Used
  <2>2. CASE ~FullyAssociative
    BY <2>2 DEF HasTag, Used
  <2> QED
    BY <2>1, <2>2
<1>5. s.size \in 0 .. n /\ Listed(s.slots, s.size, L)
  BY <1>1, <1>3, ListOfTags DEF L
<1>6. (\E j \in 1 .. s.size : s.slots[j].tag = ad) <=> \E p \in 1 .. s.size : L[p] = ad
  <2>1. ASSUME NEW j \in 1 .. s.size, s.slots[j].tag = ad
        PROVE  \E p \in 1 .. s.size : L[p] = ad
    <3>1. s.slots[j].timestamp \in 0 .. s.size - 1 /\ L[s.slots[j].timestamp + 1] = ad
      BY <1>5, <2>1 DEF Listed
    <3>2. s.slots[j].timestamp + 1 \in 1 .. s.size
      BY <1>1, <1>5, <3>1
    <3> QED
      BY <3>1, <3>2
  <2>2. ASSUME NEW p \in 1 .. s.size, L[p] = ad
        PROVE  \E j \in 1 .. s.size : s.slots[j].tag = ad
    BY <1>5, <2>2 DEF Listed
  <2> QED
    BY <2>1, <2>2
<1>7. ASSUME NEW p \in 1 .. s.size PROVE L[p] = ad <=> L[p] * d + i = b
  <2>1. PICK j \in 1 .. s.size : L[p] = s.slots[j].tag
    BY <1>5 DEF Listed
  <2>2. s.slots[j] \in SlotsOf(Tags)
    BY <1>1, <1>3, <1>5 DEF Ordered
  <2>3. L[p] \in Nat
    BY <1>1, <2>1, <2>2 DEF SlotsOf
  <2>4. d * L[p] + i = d * ad + i => L[p] = ad
    BY <1>1, <1>2, <2>3, QuotientUnique
  <2> QED
    BY <1>1, <1>2, <2>3, <2>4
<1>8. Lists!In(b, BlocksOf(s, i)) <=> \E p \in 1 .. s.size : L[p] * d + i = b
  BY BlocksAreTags DEF Lists!In, L, d
<1> QED
  BY <1>4, <1>6, <1>7, <1>8 DEF ad, i

(* A hit under LRU moves the block to the front of the list. *)
LEMMA HitInList ==
  ASSUME NEW n \in Nat, n = args.n, NEW s, SetInv(s), NEW ad \in Tags, HasTag(s, ad),
         NEW dirty \in BOOLEAN, NEW i, args.lru, NEW N, N = BlocksOf(s, i)
  PROVE  \E q \in DOMAIN N : /\ N[q] = ad * args.sets + i
                             /\ BlocksOf(OnHit(s, ad, dirty), i) = Lists!ToFront(N, q)
<1> DEFINE k == SlotOf(s, ad)
           size == s.size
           L == TagList(s.slots, size)
           new == Renewed(s.slots, Used(s), k, s.slots[k].timestamp, ad, dirty)
           M == TagList(new, size)
           q == s.slots[k].timestamp + 1
           t == OnHit(s, ad, dirty)
<1>1. t.slots = new /\ t.size = size
  BY DEF OnHit, SetInv
<1>2. k \in 1 .. size /\ s.slots[k].tag = ad
  BY SlotFound DEF Used
<1>3. Ordered(Tags, n, s.slots, size) /\ \A j \in 1 .. size \ {k} : j \in Used(s)
  BY DEF SetInv, Used
<1>4. /\ q \in 1 .. size /\ L[q] = ad
      /\ M = [j \in 1 .. size |-> IF j = 1 THEN ad ELSE IF j <= q THEN L[j - 1] ELSE L[j]]
  <2>1. /\ new = Renewed(s.slots, Used(s), k, s.slots[k].timestamp, ad, dirty)
        /\ L = TagList(s.slots, size) /\ M = TagList(new, size)
        /\ q = s.slots[k].timestamp + 1
    OBVIOUS
  <2> HIDE DEF k, size, new, L, M, q, t
  <2>2. Moved(TagList(s.slots, size), TagList(new, size), size, s.slots[k].timestamp + 1, ad)
    BY <1>2, <1>3, <2>1, HitMoves
  <2> QED
    BY <2>1, <2>2 DEF Moved
<1>5. size \in Nat
  <2>1. size \in 0 .. n
    BY <1>3 DEF Ordered
  <2> QED
    BY <2>1
<1>6. /\ N = [p \in 1 .. size |-> L[p] * args.sets + i]
      /\ BlocksOf(t, i) = [p \in 1 .. size |-> M[p] * args.sets + i]
  <2>1. M = TagList(t.slots, t.size)
    BY <1>1
  <2> HIDE DEF new, M, t
  <2> QED
    BY <1>1, <2>1, BlocksAreTags
<1> HIDE DEF k, size, new, L, M, q, t
<1>7. N[q] = ad * args.sets + i
  BY <1>4, <1>6
<1>8. BlocksOf(t, i) = Lists!ToFront(N, q)
  <2>1. ASSUME NEW p \in 1 .. size
        PROVE  M[p] * args.sets + i = IF p = 1 THEN N[q] ELSE IF p <= q THEN N[p - 1] ELSE N[p]
    <3>1. CASE p = 1
      BY <1>4, <1>7, <3>1
    <3>2. CASE p # 1
      <4>1. p - 1 \in 1 .. size
        BY <1>5, <3>2
      <4> QED
        BY <1>4, <1>6, <3>2, <4>1
    <3> QED
      BY <3>1, <3>2
  <2>2. DOMAIN N = 1 .. size
    BY <1>6
  <2> QED
    BY <1>6, <2>1, <2>2 DEF Lists!ToFront
<1> QED
  BY <1>4, <1>6, <1>7, <1>8 DEF t

(* A miss puts the block in front, and the last one leaves a full set. *)
LEMMA MissInList ==
  ASSUME NEW n \in Nat, n = args.n, n # 0, NEW s, SetInv(s), NEW ad \in Tags,
         ~HasTag(s, ad), NEW dirty \in BOOLEAN, NEW i
  PROVE  BlocksOf(OnMiss(s, ad, dirty), i) =
           Lists!Brought(ad * args.sets + i, BlocksOf(s, i))
<1> DEFINE k == Chosen(s)
           size == s.size
           used == (Used(s) \cup {k}) \ {k}
           more == More(s)
           new == Renewed(s.slots, used, k, n - 1, ad, dirty)
           L == TagList(s.slots, size)
           M == TagList(new, more)
           t == OnMiss(s, ad, dirty)
           N == BlocksOf(s, i)
<1>1. t.slots = new /\ t.size = more
  BY DEF OnMiss, Chosen, More
<1>2. Ordered(Tags, n, s.slots, size)
  BY DEF SetInv
<1>3. Ordered(Tags, n, new, more)
  <2>1. SetInv(t)
    BY MissKeeps
  <2> QED
    BY <1>1, <2>1 DEF SetInv
<1>4. \/ k = size + 1 /\ more = size + 1 /\ size < n
      \/ k \in 1 .. size /\ s.slots[k].timestamp = n - 1 /\ more = size
  BY <1>2, SlotChosen
<1>5. \A j \in 1 .. size : j # k => j \in used
  BY DEF Used
<1>6. new = Renewed(s.slots, used, k, n - 1, ad, dirty)
  OBVIOUS
<1>7. /\ BlocksOf(t, i) = [p \in 1 .. more |-> M[p] * args.sets + i]
      /\ N = [p \in 1 .. size |-> L[p] * args.sets + i]
  <2>1. M = TagList(t.slots, t.size)
    BY <1>1
  <2> HIDE DEF new, M, t, more
  <2> QED
    BY <1>1, <2>1, BlocksAreTags
<1>8. /\ s.slots \in [1 .. n -> SlotsOf(Tags)] /\ size \in 0 .. n
      /\ \A j \in 1 .. size : s.slots[j].timestamp \in 0 .. size - 1
      /\ \A j, l \in 1 .. size : s.slots[j].timestamp = s.slots[l].timestamp => j = l
  <2>1. /\ s.slots \in [1 .. n -> SlotsOf(Tags)] /\ size \in 0 .. n
        /\ \A j, l \in 1 .. size : s.slots[j].timestamp = s.slots[l].timestamp => j = l
    BY <1>2 DEF Ordered
  <2>2. Listed(s.slots, size, TagList(s.slots, size))
    BY <1>2, ListOfTags
  <2> QED
    BY <2>1, <2>2 DEF Listed
<1> HIDE DEF k, size, used, more, new, L, M, t, N
<1>9. /\ k \in 1 .. n /\ k \in 1 .. more /\ n - 1 \in Int
      /\ \A j \in 1 .. more \ {k} : j \in 1 .. size /\ j \in used /\ j \in 1 .. n
                                  /\ s.slots[j].timestamp < n - 1
  <2>1. CASE k = size + 1 /\ more = size + 1 /\ size < n
    BY <1>5, <1>8, <2>1
  <2>2. CASE k \in 1 .. size /\ s.slots[k].timestamp = n - 1 /\ more = size
    <3>1. \A j \in 1 .. size \ {k} : s.slots[j].timestamp # n - 1
      BY <1>8, <2>2
    <3> QED
      BY <1>5, <1>8, <2>2, <3>1
  <2> QED
    BY <1>4, <2>1, <2>2
<1>10. /\ new[k].timestamp = 0 /\ new[k].tag = ad
       /\ \A j \in 1 .. n \ {k} :
            /\ new[j].tag = s.slots[j].tag
            /\ new[j].timestamp = IF j \in used /\ s.slots[j].timestamp < n - 1
                                  THEN s.slots[j].timestamp + 1 ELSE s.slots[j].timestamp
  <2> DEFINE old == n - 1
  <2>1. old \in Int /\ new = Renewed(s.slots, used, k, old, ad, dirty)
    BY <1>6
  <2> HIDE DEF old
  <2>2. /\ new[k].timestamp = 0 /\ new[k].tag = ad
        /\ \A j \in 1 .. n \ {k} :
             /\ new[j].tag = s.slots[j].tag
             /\ new[j].timestamp = IF j \in used /\ s.slots[j].timestamp < old
                                   THEN s.slots[j].timestamp + 1 ELSE s.slots[j].timestamp
    <3>1. s.slots \in [1 .. n -> SlotsOf(Tags)] /\ k \in 1 .. n
      BY <1>8, <1>9
    <3> QED
      BY <2>1, <3>1, RenewedSlots
  <2> QED
    BY <2>2 DEF old
<1>11. M = [j \in 1 .. more |-> IF j = 1 THEN ad ELSE L[j - 1]]
  <2>1. Pushed(s.slots, size, new, more, k, ad)
    BY <1>9, <1>10 DEF Pushed
  <2> QED
    BY <1>2, <1>3, <2>1, MissBrings DEF L, M
<1>12. more = IF size < n THEN size + 1 ELSE size
  BY <1>4, <1>8
<1>13. Len(N) = size
  BY <1>7, <1>8
<1>14. ASSUME NEW p \in 1 .. more
       PROVE  M[p] * args.sets + i = IF p = 1 THEN ad * args.sets + i ELSE N[p - 1]
  <2>1. CASE p = 1
    BY <1>11, <2>1
  <2>2. CASE p # 1
    <3>1. p - 1 \in 1 .. size
      BY <1>8, <1>12, <2>2
    <3> QED
      BY <1>7, <1>11, <2>2, <3>1
  <2> QED
    BY <2>1, <2>2
<1>15. BlocksOf(t, i) = Lists!Brought(ad * args.sets + i, N)
  BY <1>7, <1>12, <1>13, <1>14 DEF Lists!Brought, config
<1> QED
  BY <1>15 DEF t, N

-----------------------------------------------------------------------------
(* The refinement, step by step *)

ListsOf(S) == [i \in 0 .. args.sets - 1 |->
                 IF i \in DOMAIN S THEN BlocksOf(S[i], i) ELSE <<>>]

LEMMA ListsPrimed ==
  ASSUME args' = args
  PROVE  lists = ListsOf(sets) /\ lists' = ListsOf(sets') /\ config' = config
BY DEF lists, ListsOf, BlocksOf, Aging, Used, config

(* One set changes, and so does one list. *)
LEMMA OneListChanges ==
  ASSUME IInv, Running, args' = args, NEW i \in 0 .. args.sets - 1, NEW t,
         sets' = [sets EXCEPT ![i] = t]
  PROVE  /\ lists[i] = BlocksOf(sets[i], i)
         /\ lists' = [lists EXCEPT ![i] = BlocksOf(t, i)]
<1>1. DOMAIN sets = 0 .. args.sets - 1
  BY DEF IInv
<1>2. lists = [j \in 0 .. args.sets - 1 |-> BlocksOf(sets[j], j)]
  BY <1>1 DEF lists
<1>3. lists' = [j \in 0 .. args.sets - 1 |-> BlocksOf(sets'[j], j)]
  BY <1>1, ListsPrimed DEF ListsOf
<1>4. \A j \in 0 .. args.sets - 1 : sets'[j] = IF j = i THEN t ELSE sets[j]
  BY <1>1
<1>5. \A j \in 0 .. args.sets - 1 :
        lists'[j] = IF j = i THEN BlocksOf(t, i) ELSE lists[j]
  BY <1>2, <1>3, <1>4
<1>6. lists[i] = BlocksOf(sets[i], i)
  BY <1>2
<1>7. lists' = [j \in 0 .. args.sets - 1 |-> lists'[j]]
  BY <1>3
<1>8. DOMAIN lists = 0 .. args.sets - 1
  BY <1>2
<1> QED
  BY <1>5, <1>6, <1>7, <1>8

(* An access is counted once. *)
LEMMA OneCounted ==
  ASSUME NEW S, NEW f \in [S -> Nat], NEW x \in S, NEW g, g = [f EXCEPT ![x] = @ + 1]
  PROVE  g[x] = f[x] + 1 /\ \A y \in S : y # x => g[y] = f[y]
OBVIOUS

LEMMA HasTagType ==
  ASSUME NEW s, NEW ad
  PROVE  HasTag(s, ad) \in BOOLEAN
<1>1. CASE FullyAssociative
  BY <1>1 DEF HasTag
<1>2. CASE ~FullyAssociative
  BY <1>2 DEF HasTag
<1> QED
  BY <1>1, <1>2

LEMMA KindsDiffer ==
  /\ <<FALSE, FALSE>> \in Kinds /\ <<FALSE, TRUE>> \in Kinds
  /\ <<TRUE, FALSE>> \in Kinds /\ <<TRUE, TRUE>> \in Kinds
  /\ <<FALSE, FALSE>> # <<FALSE, TRUE>> /\ <<FALSE, FALSE>> # <<TRUE, FALSE>>
  /\ <<FALSE, FALSE>> # <<TRUE, TRUE>> /\ <<FALSE, TRUE>> # <<TRUE, FALSE>>
  /\ <<FALSE, TRUE>> # <<TRUE, TRUE>> /\ <<TRUE, FALSE>> # <<TRUE, TRUE>>
BY DEF Kinds

LEMMA Counted ==
  ASSUME count \in [Kinds -> Nat], NEW store \in BOOLEAN, NEW hit \in BOOLEAN,
         count' = [count EXCEPT ![<<store, hit>>] = @ + 1]
  PROVE  /\ IF hit THEN hits' = hits + 1 /\ misses' = misses
                   ELSE hits' = hits /\ misses' = misses + 1
         /\ Stores' = IF store THEN Stores + 1 ELSE Stores
<1> DEFINE lm == <<FALSE, FALSE>>
           lh == <<FALSE, TRUE>>
           sm == <<TRUE, FALSE>>
           sh == <<TRUE, TRUE>>
<1>1. /\ lm \in Kinds /\ lh \in Kinds /\ sm \in Kinds /\ sh \in Kinds
      /\ lm # lh /\ lm # sm /\ lm # sh /\ lh # sm /\ lh # sh /\ sm # sh
  BY KindsDiffer
<1>2. /\ hits = count[lh] + count[sh] /\ misses = count[lm] + count[sm]
      /\ hits' = count'[lh] + count'[sh] /\ misses' = count'[lm] + count'[sm]
      /\ Stores = count[sm] + count[sh] /\ Stores' = count'[sm] + count'[sh]
  BY DEF hits, misses, Stores
<1>3. /\ count[lm] \in Nat /\ count[lh] \in Nat /\ count[sm] \in Nat /\ count[sh] \in Nat
  BY <1>1
<1>4. CASE store /\ hit
  <2>1. count' = [count EXCEPT ![sh] = @ + 1]
    BY <1>4
  <2> HIDE DEF lm, lh, sm, sh
  <2>2. /\ count'[sh] = count[sh] + 1
        /\ \A y \in Kinds : y # sh => count'[y] = count[y]
    BY <1>1, <2>1, OneCounted
  <2>3. hits' = hits + 1 /\ misses' = misses /\ Stores' = Stores + 1
    BY <1>1, <1>2, <1>3, <2>2
  <2> QED
    BY <1>4, <2>3
<1>5. CASE store /\ ~hit
  <2>1. count' = [count EXCEPT ![sm] = @ + 1]
    BY <1>5
  <2> HIDE DEF lm, lh, sm, sh
  <2>2. /\ count'[sm] = count[sm] + 1
        /\ \A y \in Kinds : y # sm => count'[y] = count[y]
    BY <1>1, <2>1, OneCounted
  <2>3. hits' = hits /\ misses' = misses + 1 /\ Stores' = Stores + 1
    BY <1>1, <1>2, <1>3, <2>2
  <2> QED
    BY <1>5, <2>3
<1>6. CASE ~store /\ hit
  <2>1. count' = [count EXCEPT ![lh] = @ + 1]
    BY <1>6
  <2> HIDE DEF lm, lh, sm, sh
  <2>2. /\ count'[lh] = count[lh] + 1
        /\ \A y \in Kinds : y # lh => count'[y] = count[y]
    BY <1>1, <2>1, OneCounted
  <2>3. hits' = hits + 1 /\ misses' = misses /\ Stores' = Stores
    BY <1>1, <1>2, <1>3, <2>2
  <2> QED
    BY <1>6, <2>3
<1>7. CASE ~store /\ ~hit
  <2>1. count' = [count EXCEPT ![lm] = @ + 1]
    BY <1>7
  <2> HIDE DEF lm, lh, sm, sh
  <2>2. /\ count'[lm] = count[lm] + 1
        /\ \A y \in Kinds : y # lm => count'[y] = count[y]
    BY <1>1, <2>1, OneCounted
  <2>3. hits' = hits /\ misses' = misses + 1 /\ Stores' = Stores
    BY <1>1, <1>2, <1>3, <2>2
  <2> QED
    BY <1>7, <2>3
<1> QED
  BY <1>4, <1>5, <1>6, <1>7

LEMMA BeginStutters ==
  ASSUME IInv, Begin
  PROVE  UNCHANGED <<config, lists, hits, misses>>
<1>1. args' = args /\ count' = count /\ DOMAIN sets = {}
  BY DEF Begin, IInv, Running
<1>2. config' = config /\ hits' = hits /\ misses' = misses
  BY <1>1 DEF config, hits, misses
<1>3. lists = [i \in 0 .. args.sets - 1 |-> <<>>]
  BY <1>1 DEF lists
<1>4. lists' = ListsOf(sets')
  BY <1>1, ListsPrimed
<1>5. CASE sets' = sets
  BY <1>1, <1>2, <1>4, <1>5, ListsPrimed
<1>6. CASE sets' = [i \in 0 .. args.sets - 1 |-> EmptySet]
  <2>1. \A i : BlocksOf(EmptySet, i) = <<>>
    BY DEF BlocksOf, EmptySet, Used
  <2>2. lists' = [i \in 0 .. args.sets - 1 |-> <<>>]
    BY <1>4, <1>6, <2>1 DEF ListsOf
  <2> QED
    BY <1>2, <1>3, <2>2
<1> QED
  BY <1>5, <1>6 DEF Begin

LEMMA AccessImplements ==
  ASSUME IInv, NEW b \in Blocks, NEW store \in BOOLEAN, Access(b, store)
  PROVE  Lists!Hit(b) \/ Lists!Miss(b, store)
<1> DEFINE d == args.sets
           i == IndexOf(b)
           ad == TagOf(b)
           s == sets[i]
           N == lists[i]
           hit == HasTag(s, ad)
           dirty == Dirty(store)
<1>1. /\ args' = args /\ Running /\ Accepted /\ b \in Nat
      /\ dirty \in BOOLEAN /\ ad \in Tags /\ args.n \in Nat /\ args.n # 0
      /\ d \in Nat \ {0} /\ ad = b \div d /\ i = b % d
  <2>1. args' = args /\ Running
    BY DEF Access, Running
  <2>2. Accepted /\ b \in Nat /\ ad \in Tags /\ dirty \in BOOLEAN
    BY <2>1, BlocksAssumption DEF IInv, Tags, Dirty
  <2> QED
    BY <2>1, <2>2, Geometry DEF IndexOf
<1>2. ad \in Nat /\ i \in 0 .. d - 1 /\ ad * d + i = b
  <2>1. ad \in Nat /\ i \in Nat /\ i < d /\ b = d * ad + i
    BY <1>1, Quotient
  <2> HIDE DEF ad, i, d
  <2> QED
    BY <1>1, <2>1
<1>3. SetInv(s) /\ i \in DOMAIN sets /\ N = BlocksOf(s, i)
      /\ sets = [sets EXCEPT ![i] = s]
  <2>1. DOMAIN sets = 0 .. d - 1 /\ sets = [j \in DOMAIN sets |-> sets[j]]
    BY <1>1 DEF IInv
  <2>2. i \in DOMAIN sets /\ lists = [j \in 0 .. d - 1 |-> BlocksOf(sets[j], j)]
    BY <1>2, <2>1 DEF lists
  <2>3. SetInv(s)
    BY <2>2 DEF IInv
  <2>4. sets = [sets EXCEPT ![i] = s]
    BY <2>1
  <2> QED
    BY <1>2, <2>2, <2>3, <2>4
<1>4. hit <=> Lists!In(b, N)
  BY <1>1, <1>3, FoundExactly
<1>5. config' = config /\ config.sets = d /\ config.lru = args.lru /\ config.allocate = args.allocate
  BY <1>1 DEF config
<1>6. IF hit THEN hits' = hits + 1 /\ misses' = misses
             ELSE hits' = hits /\ misses' = misses + 1
  <2>1. count \in [Kinds -> Nat]
    BY DEF IInv
  <2>2. CASE hit
    <3>1. count' = [count EXCEPT ![<<store, TRUE>>] = @ + 1]
      BY <2>2 DEF Access
    <3> QED
      BY <2>1, <2>2, <3>1, Counted
  <2>3. CASE ~hit
    <3>0. hit = FALSE
      BY <2>3 DEF HasTag
    <3>1. count' = [count EXCEPT ![<<store, FALSE>>] = @ + 1]
      BY <3>0 DEF Access
    <3> QED
      BY <2>1, <2>3, <3>1, Counted
  <2> QED
    BY <2>2, <2>3
<1>7. \/ hit /\ sets' = [sets EXCEPT ![i] = OnHit(s, ad, dirty)]
      \/ ~hit /\ store /\ ~args.allocate /\ sets' = sets
      \/ /\ ~hit /\ ~(store /\ ~args.allocate)
         /\ sets' = [sets EXCEPT ![i] = OnMiss(s, ad, dirty)]
  BY <1>1 DEF Access, Accepted
<1> HIDE DEF d, i, ad, s, N, hit, dirty
<1>8. ASSUME NEW t, sets' = [sets EXCEPT ![i] = t]
      PROVE  lists' = [lists EXCEPT ![i] = BlocksOf(t, i)]
  BY <1>1, <1>2, <1>8, OneListChanges DEF d
<1>9. b % config.sets = i /\ config.sets > 0
  BY <1>1, <1>5
<1>10. ASSUME sets' = sets PROVE lists' = lists
  BY <1>1, <1>10, ListsPrimed
<1>11. CASE hit /\ sets' = [sets EXCEPT ![i] = OnHit(s, ad, dirty)]
  <2>1. \E k \in DOMAIN N : /\ N[k] = b
                           /\ lists' = IF config.lru THEN [lists EXCEPT ![i] = Lists!ToFront(N, k)]
                                       ELSE lists
    <3>1. CASE args.lru
      <4>1. PICK k \in DOMAIN N : /\ N[k] = ad * d + i
                                 /\ BlocksOf(OnHit(s, ad, dirty), i) = Lists!ToFront(N, k)
        BY <1>1, <1>3, <1>11, <3>1, HitInList DEF d, hit
      <4> QED
        BY <1>2, <1>5, <1>8, <1>11, <3>1, <4>1
    <3>2. CASE ~args.lru
      <4>1. sets' = sets
        BY <1>3, <1>11, <3>2 DEF OnHit
      <4>2. \E k \in DOMAIN N : N[k] = b
        BY <1>4, <1>11 DEF Lists!In
      <4> QED
        BY <1>5, <1>10, <3>2, <4>1, <4>2
    <3> QED
      BY <3>1, <3>2
  <2> QED
    BY <1>5, <1>6, <1>9, <1>11, <2>1 DEF Lists!Hit, N
<1>12. CASE ~hit /\ store /\ ~args.allocate /\ sets' = sets
  BY <1>4, <1>5, <1>6, <1>9, <1>10, <1>12 DEF Lists!Miss, N
<1>13. CASE /\ ~hit /\ ~(store /\ ~args.allocate)
            /\ sets' = [sets EXCEPT ![i] = OnMiss(s, ad, dirty)]
  <2>1. BlocksOf(OnMiss(s, ad, dirty), i) = Lists!Brought(b, N)
    <3>1. BlocksOf(OnMiss(s, ad, dirty), i) = Lists!Brought(ad * args.sets + i, BlocksOf(s, i))
      BY <1>1, <1>3, <1>13, MissInList DEF hit
    <3> QED
      BY <1>2, <1>3, <3>1 DEF d
  <2>2. lists' = [lists EXCEPT ![i] = Lists!Brought(b, N)]
    BY <1>8, <1>13, <2>1
  <2> QED
    BY <1>4, <1>5, <1>6, <1>9, <1>13, <2>2 DEF Lists!Miss, N
<1> QED
  BY <1>7, <1>11, <1>12, <1>13

(* The simulator is a set of lists, for all command lines, blocks and traces:  *)
(* the timestamps of the slots, and the index, decide every hit and every      *)
(* eviction as LRU and FIFO do on the list of the blocks of a set, and the     *)
(* hits and misses that are printed are those of the lists.                    *)
THEOREM ImplementsReplacementList == Spec => IsReplacementList
<1>1. Init => Lists!Init
  <2> SUFFICES ASSUME Init PROVE Lists!Init
    OBVIOUS
  <2>1. args \in Args /\ DOMAIN sets = {} /\ count = [k \in Kinds |-> 0]
    BY DEF Init
  <2>2. config \in {[sets |-> a.sets, capacity |-> a.n, allocate |-> a.allocate, lru |-> a.lru] :
                      a \in Args}
    BY <2>1 DEF config
  <2>3. lists = [i \in 0 .. config.sets - 1 |-> <<>>]
    BY <2>1 DEF lists, config
  <2>4. hits = 0 /\ misses = 0
    BY <2>1, KindsDiffer DEF hits, misses
  <2> QED
    BY <2>2, <2>3, <2>4 DEF Lists!Init
<1>2. IInv /\ [Next \/ Stop]_vars => [Lists!Next]_(Lists!vars)
  <2> SUFFICES ASSUME IInv, [Next \/ Stop]_vars PROVE [Lists!Next]_(Lists!vars)
    OBVIOUS
  <2>1. ASSUME UNCHANGED <<args, sets, count>> PROVE UNCHANGED (Lists!vars)
    BY <2>1, ListsPrimed DEF Lists!vars, hits, misses
  <2>2. CASE Begin
    BY <2>2, BeginStutters DEF Lists!vars
  <2>3. CASE EndOfTrace
    BY <2>1, <2>3 DEF EndOfTrace
  <2>4. CASE \E b \in Blocks, store \in BOOLEAN : Access(b, store)
    BY <2>4, AccessImplements DEF Lists!Next
  <2>5. CASE UNCHANGED vars
    BY <2>1, <2>5 DEF vars
  <2> QED
    BY <2>2, <2>3, <2>4, <2>5 DEF Next, Stop
<1> QED
  BY <1>1, <1>2, Invariance, PTL DEF Spec, IsReplacementList, Lists!Spec

-----------------------------------------------------------------------------
(* The dirty slots, which are the write-backs to come *)

DirtyOf(S) == {x \in (DOMAIN S) \X (1 .. args.n) : IsDirtySlot(S[x[1]], x[2])}

LEMMA DirtyPrimed ==
  ASSUME args' = args
  PROVE  DirtySlots = DirtyOf(sets) /\ DirtySlots' = DirtyOf(sets')
BY DEF DirtySlots, DirtyOf, IsDirtySlot, Used

LEMMA DirtyFinite ==
  ASSUME IInv
  PROVE  IsFiniteSet(DirtySlots) /\ Cardinality(DirtySlots) \in Nat
<1>1. IsFiniteSet(DOMAIN sets)
  <2>1. IsFiniteSet(0 .. args.sets - 1)
    <3>1. args.sets - 1 \in Int
      BY ArgsAssumption DEF IInv
    <3> QED
      BY <3>1, FS_Interval
  <2>2. IsFiniteSet({})
    BY FS_EmptySet
  <2> QED
    BY <2>1, <2>2 DEF IInv
<1>2. IsFiniteSet(1 .. args.n)
  <2>1. args.n \in Int
    BY ArgsAssumption DEF IInv
  <2> QED
    BY <2>1, FS_Interval
<1>3. IsFiniteSet((DOMAIN sets) \X (1 .. args.n))
  BY <1>1, <1>2, FS_Product
<1>4. DirtySlots \subseteq (DOMAIN sets) \X (1 .. args.n)
  BY DEF DirtySlots
<1>5. IsFiniteSet(DirtySlots)
  BY <1>3, <1>4, FS_Subset
<1> QED
  BY <1>5, FS_CardinalityType

(* What a hit leaves dirty was dirty, or is the slot of a store. *)
LEMMA DirtyAfterHit ==
  ASSUME NEW n \in Nat, n = args.n, NEW s, SetInv(s), NEW ad \in Tags, HasTag(s, ad),
         NEW dirty \in BOOLEAN, NEW j, IsDirtySlot(OnHit(s, ad, dirty), j)
  PROVE  IsDirtySlot(s, j) \/ (dirty /\ j = SlotOf(s, ad))
<1> DEFINE k == SlotOf(s, ad)
           old == s.slots[k].timestamp
           new == Renewed(s.slots, Used(s), k, old, ad, dirty)
<1>1. CASE ~args.lru
  <2>1. OnHit(s, ad, dirty) = s
    BY <1>1 DEF OnHit
  <2>2. IsDirtySlot(s, j)
    BY <2>1 DEF IsDirtySlot
  <2> QED
    BY <2>2
<1>2. CASE args.lru
  <2>1. OnHit(s, ad, dirty).slots = new /\ OnHit(s, ad, dirty).size = s.size
    BY <1>2 DEF OnHit, SetInv
  <2>2. j \in 1 .. s.size /\ ~new[j].valid
    BY <2>1 DEF IsDirtySlot, Used
  <2>3. s.slots \in [1 .. n -> SlotsOf(Tags)] /\ s.size \in 0 .. n
    BY DEF SetInv, Ordered
  <2>4. k \in 1 .. s.size /\ k \in 1 .. n
    BY <2>3, SlotFound DEF Used
  <2>5. old \in Int
    <3>1. s.slots[k] \in SlotsOf(Tags)
      BY <2>3, <2>4
    <3> QED
      BY <3>1 DEF SlotsOf
  <2>6. /\ new[k].valid = ~dirty
        /\ \A l \in 1 .. n \ {k} : new[l].valid = s.slots[l].valid
    <3> HIDE DEF old, k
    <3> QED
      BY <2>3, <2>4, <2>5, RenewedValid
  <2> HIDE DEF new, old, k
  <2>7. j \in 1 .. n
    BY <2>2, <2>3
  <2>8. j = k \/ ~s.slots[j].valid
    BY <2>2, <2>6, <2>7
  <2>9. CASE j = k
    BY <2>2, <2>6, <2>9 DEF k
  <2>10. CASE ~s.slots[j].valid
    <3>1. IsDirtySlot(s, j)
      BY <2>2, <2>10 DEF IsDirtySlot, Used
    <3> QED
      BY <3>1
  <2> QED
    BY <2>8, <2>9, <2>10
<1> QED
  BY <1>1, <1>2

(* A miss writes one slot, and what else it leaves dirty was dirty. *)
LEMMA DirtyAfterMiss ==
  ASSUME NEW n \in Nat, n = args.n, n # 0, NEW s, SetInv(s), NEW ad \in Tags,
         NEW dirty \in BOOLEAN, NEW j, IsDirtySlot(OnMiss(s, ad, dirty), j)
  PROVE  IF j = Chosen(s) THEN dirty ELSE IsDirtySlot(s, j)
<1> DEFINE k == Chosen(s)
           used == (Used(s) \cup {k}) \ {k}
           more == More(s)
           old == n - 1
           new == Renewed(s.slots, used, k, old, ad, dirty)
<1>1. OnMiss(s, ad, dirty).slots = new /\ OnMiss(s, ad, dirty).size = more
  BY DEF OnMiss, Chosen, More
<1>2. j \in 1 .. more /\ ~new[j].valid
  BY <1>1 DEF IsDirtySlot, Used
<1>3. /\ s.slots \in [1 .. n -> SlotsOf(Tags)] /\ s.size \in 0 .. n
      /\ Ordered(Tags, n, s.slots, s.size)
  BY DEF SetInv, Ordered
<1>4. \/ k = s.size + 1 /\ more = s.size + 1 /\ s.size < n
      \/ k \in 1 .. s.size /\ more = s.size
  BY <1>3, SlotChosen
<1>5. new = Renewed(s.slots, used, k, old, ad, dirty) /\ old \in Int
  OBVIOUS
<1> HIDE DEF k, used, more, new, old
<1>6. k \in 1 .. n /\ j \in 1 .. n /\ (j # k => j \in 1 .. s.size)
  BY <1>2, <1>3, <1>4
<1>7. /\ new[k].valid = ~dirty
      /\ \A l \in 1 .. n \ {k} : new[l].valid = s.slots[l].valid
  <2>1. s.slots \in [1 .. n -> SlotsOf(Tags)] /\ k \in 1 .. n /\ old \in Int
    BY <1>3, <1>5, <1>6
  <2> QED
    BY <1>5, <2>1, RenewedValid
<1>8. CASE j = k
  BY <1>2, <1>7, <1>8 DEF k
<1>9. CASE j # k
  <2>1. ~s.slots[j].valid /\ j \in 1 .. s.size
    BY <1>2, <1>6, <1>7, <1>9
  <2> QED
    BY <1>9, <2>1 DEF IsDirtySlot, Used, k
<1> QED
  BY <1>8, <1>9

(* The write-back that a miss counts is that of the slot it writes. *)
LEMMA EvictedWasDirty ==
  ASSUME NEW n \in Nat, n = args.n, NEW s, SetInv(s), NEW o \in Oldest(s), ~s.slots[o].valid
  PROVE  IsDirtySlot(s, Chosen(s)) /\ Chosen(s) \in 1 .. n
<1>1. /\ s.size \in 0 .. n
      /\ \A j, l \in 1 .. s.size : s.slots[j].timestamp = s.slots[l].timestamp => j = l
  BY DEF SetInv, Ordered
<1>2. Chosen(s) \in Oldest(s)
  BY DEF Chosen
<1>3. Chosen(s) = o /\ o \in 1 .. s.size
  BY <1>1, <1>2 DEF Oldest, Used
<1> QED
  BY <1>1, <1>3 DEF IsDirtySlot, Used

(* How sets of dirty slots compare. *)
LEMMA FewerSlots ==
  ASSUME NEW D, IsFiniteSet(D), NEW E, NEW x, E \subseteq D \cup {x}
  PROVE  /\ Cardinality(D) \in Nat /\ Cardinality(E) \in Nat
         /\ Cardinality(E) <= Cardinality(D) + 1
         /\ E \subseteq D => Cardinality(E) <= Cardinality(D)
         /\ x \in D /\ x \notin E => Cardinality(E) <= Cardinality(D) - 1
<1>1. /\ IsFiniteSet(D \cup {x}) /\ Cardinality(D) \in Nat
      /\ Cardinality(D \cup {x}) = IF x \in D THEN Cardinality(D) ELSE Cardinality(D) + 1
  BY FS_AddElement, FS_CardinalityType
<1>2. IsFiniteSet(E) /\ Cardinality(E) \in Nat /\ Cardinality(E) <= Cardinality(D \cup {x})
  BY <1>1, FS_Subset, FS_CardinalityType
<1>3. E \subseteq D => Cardinality(E) <= Cardinality(D)
  BY FS_Subset
<1>4. ASSUME x \in D, x \notin E PROVE Cardinality(E) <= Cardinality(D) - 1
  <2>1. E \subseteq D \ {x}
    BY <1>4
  <2>2. IsFiniteSet(D \ {x}) /\ Cardinality(D \ {x}) = Cardinality(D) - 1
    BY <1>4, FS_RemoveElement
  <2> QED
    BY <2>1, <2>2, FS_Subset
<1> QED
  BY <1>1, <1>2, <1>3, <1>4

(* One set gets another value, of which at most the slot k is dirty and was *)
(* not before.                                                              *)
LEMMA DirtyStep ==
  ASSUME IInv, args' = args, NEW i \in DOMAIN sets, NEW t, sets' = [sets EXCEPT ![i] = t],
         NEW k, \A j : IsDirtySlot(t, j) => IsDirtySlot(sets[i], j) \/ j = k
  PROVE  /\ DirtySlots' \subseteq DirtySlots \cup {<<i, k>>}
         /\ ~IsDirtySlot(t, k) => <<i, k>> \notin DirtySlots'
<1>1. DirtySlots = DirtyOf(sets) /\ DirtySlots' = DirtyOf(sets')
  BY DirtyPrimed
<1>2. /\ DOMAIN sets' = DOMAIN sets
      /\ \A j \in DOMAIN sets : sets'[j] = IF j = i THEN t ELSE sets[j]
  BY DEF IInv
<1>3. ASSUME NEW x \in DirtyOf(sets') PROVE x \in DirtyOf(sets) \cup {<<i, k>>}
  <2>1. PICK m \in DOMAIN sets, j \in 1 .. args.n : x = <<m, j>> /\ IsDirtySlot(sets'[m], j)
    BY <1>2 DEF DirtyOf
  <2>2. CASE m = i /\ j = k
    BY <2>1, <2>2
  <2>3. CASE ~(m = i /\ j = k)
    <3>1. IsDirtySlot(sets[m], j)
      BY <1>2, <2>1, <2>3
    <3> QED
      BY <2>1, <3>1 DEF DirtyOf
  <2> QED
    BY <2>2, <2>3
<1>4. ~IsDirtySlot(t, k) => <<i, k>> \notin DirtyOf(sets')
  BY <1>2 DEF DirtyOf
<1> QED
  BY <1>1, <1>3, <1>4

LEMMA AccessKeepsWriteBacks ==
  ASSUME IInv, WriteBacksFromStores, NEW b \in Blocks, NEW store \in BOOLEAN, Access(b, store)
  PROVE  WriteBacksFromStores'
<1> DEFINE i == IndexOf(b)
           ad == TagOf(b)
           s == sets[i]
           dirty == Dirty(store)
           D == DirtySlots
           E == DirtySlots'
           bound == IF args.write THEN 0 ELSE Stores
           bound1 == IF args.write THEN 0 ELSE Stores'
           w == writeBacks
           w1 == writeBacks'
<1>1. /\ args' = args /\ Running /\ ad \in Tags /\ dirty \in BOOLEAN
      /\ args.n \in Nat /\ args.n # 0
  <2>1. args' = args /\ Running
    BY DEF Access, Running
  <2> QED
    BY <2>1, Geometry DEF Tags, Dirty
<1>2. i \in DOMAIN sets /\ SetInv(s)
  <2>1. b \in Nat /\ args.sets \in Nat \ {0} /\ DOMAIN sets = 0 .. args.sets - 1
    BY <1>1, Geometry, BlocksAssumption DEF IInv
  <2>2. b % args.sets \in 0 .. args.sets - 1
    <3> DEFINE d == args.sets
    <3>1. d \in Nat \ {0}
      BY <2>1
    <3> HIDE DEF d
    <3>2. b % d \in Nat /\ b % d < d
      BY <2>1, <3>1, Quotient
    <3>3. b % d \in 0 .. d - 1
      BY <3>1, <3>2
    <3> QED
      BY <3>3 DEF d
  <2>3. i \in DOMAIN sets
    BY <2>1, <2>2 DEF IndexOf
  <2> QED
    BY <2>3 DEF IInv
<1>3. /\ bound \in Nat /\ bound1 \in Nat
      /\ bound1 >= bound + (IF dirty THEN 1 ELSE 0)
  <2>1. count \in [Kinds -> Nat] /\ count' \in [Kinds -> Nat]
    BY AccessCounts DEF IInv
  <2>2. Stores \in Nat /\ Stores' \in Nat
    BY <2>1, KindsDiffer DEF Stores
  <2>3. Stores' = IF store THEN Stores + 1 ELSE Stores
    <3> DEFINE hit == HasTag(s, ad)
    <3>1. hit \in BOOLEAN
      BY HasTagType
    <3>2. count' = [count EXCEPT ![<<store, hit>>] = @ + 1]
      BY DEF Access
    <3> HIDE DEF hit
    <3> QED
      BY <2>1, <3>1, <3>2, Counted
  <2> QED
    BY <2>2, <2>3 DEF Dirty
<1>4. IsFiniteSet(D) /\ w \in Nat /\ w + Cardinality(D) <= bound
  BY DirtyFinite DEF IInv, WriteBacksFromStores
<1>5. WriteBacksFromStores' <=> w1 + Cardinality(E) <= bound1
  BY <1>1 DEF WriteBacksFromStores
<1>6. \/ HasTag(s, ad) /\ sets' = [sets EXCEPT ![i] = OnHit(s, ad, dirty)] /\ w1 = w
      \/ sets' = sets /\ w1 = w
      \/ /\ ~HasTag(s, ad) /\ sets' = [sets EXCEPT ![i] = OnMiss(s, ad, dirty)]
         /\ w1 = IF \E o \in Oldest(s) : ~s.slots[o].valid THEN w + 1 ELSE w
  BY DEF Access
<1> HIDE DEF i, ad, s, dirty, D, E, bound, bound1, w, w1
<1>7. CASE HasTag(s, ad) /\ sets' = [sets EXCEPT ![i] = OnHit(s, ad, dirty)] /\ w1 = w
  <2> DEFINE t == OnHit(s, ad, dirty)
             k == SlotOf(s, ad)
  <2>1. \A j : IsDirtySlot(t, j) => IsDirtySlot(s, j) \/ (dirty /\ j = k)
    BY <1>1, <1>2, <1>7, DirtyAfterHit
  <2> HIDE DEF t, k
  <2>2. /\ E \subseteq D \cup {<<i, k>>}
        /\ ~IsDirtySlot(t, k) => <<i, k>> \notin E
    BY <1>1, <1>2, <1>7, <2>1, DirtyStep DEF s, D, E, t
  <2>3. CASE dirty
    <3>1. Cardinality(D) \in Nat /\ Cardinality(E) \in Nat /\ Cardinality(E) <= Cardinality(D) + 1
      BY <1>4, <2>2, FewerSlots
    <3> QED
      BY <1>3, <1>4, <1>5, <1>7, <2>3, <3>1
  <2>4. CASE ~dirty
    <3>1. E \subseteq D
      <4>1. CASE IsDirtySlot(s, k)
        <5>1. k \in 1 .. args.n
          BY <1>1, <1>2, <4>1 DEF IsDirtySlot, SetInv, Ordered, Used
        <5>2. <<i, k>> \in D
          BY <1>2, <4>1, <5>1 DEF D, DirtySlots, s
        <5> QED
          BY <2>2, <5>2
      <4>2. CASE ~IsDirtySlot(s, k)
        BY <2>1, <2>2, <2>4, <4>2
      <4> QED
        BY <4>1, <4>2
    <3>2. Cardinality(D) \in Nat /\ Cardinality(E) \in Nat /\ Cardinality(E) <= Cardinality(D)
      BY <1>4, <2>2, <3>1, FewerSlots
    <3> QED
      BY <1>3, <1>4, <1>5, <1>7, <2>4, <3>2
  <2> QED
    BY <2>3, <2>4
<1>8. CASE sets' = sets /\ w1 = w
  <2>1. E = D
    BY <1>1, <1>8, DirtyPrimed DEF D, E
  <2>2. Cardinality(D) \in Nat
    BY <1>4, FS_CardinalityType
  <2> QED
    BY <1>3, <1>4, <1>5, <1>8, <2>1, <2>2
<1>9. CASE /\ ~HasTag(s, ad) /\ sets' = [sets EXCEPT ![i] = OnMiss(s, ad, dirty)]
           /\ w1 = IF \E o \in Oldest(s) : ~s.slots[o].valid THEN w + 1 ELSE w
  <2> DEFINE t == OnMiss(s, ad, dirty)
             k == Chosen(s)
             evicts == \E o \in Oldest(s) : ~s.slots[o].valid
  <2>1. \A j : IsDirtySlot(t, j) => IF j = k THEN dirty ELSE IsDirtySlot(s, j)
    BY <1>1, <1>2, DirtyAfterMiss
  <2>2. evicts => <<i, k>> \in D
    <3>1. evicts => IsDirtySlot(s, k) /\ k \in 1 .. args.n
      BY <1>1, <1>2, EvictedWasDirty
    <3> HIDE DEF evicts, k
    <3> QED
      BY <1>2, <3>1 DEF D, DirtySlots, s
  <2>3. w1 = IF evicts THEN w + 1 ELSE w
    BY <1>9
  <2> HIDE DEF t, k, evicts
  <2>4. /\ E \subseteq D \cup {<<i, k>>}
        /\ ~dirty => <<i, k>> \notin E
    <3>1. /\ E \subseteq D \cup {<<i, k>>}
          /\ ~IsDirtySlot(t, k) => <<i, k>> \notin E
      BY <1>1, <1>2, <1>9, <2>1, DirtyStep DEF s, D, E, t
    <3> QED
      BY <2>1, <3>1
  <2>5. /\ Cardinality(D) \in Nat /\ Cardinality(E) \in Nat
        /\ Cardinality(E) <= Cardinality(D) + 1
        /\ E \subseteq D => Cardinality(E) <= Cardinality(D)
        /\ <<i, k>> \in D /\ <<i, k>> \notin E => Cardinality(E) <= Cardinality(D) - 1
    BY <1>4, <2>4, FewerSlots
  <2>6. Cardinality(E) <= Cardinality(D) + (IF dirty THEN 1 ELSE 0) - (IF evicts THEN 1 ELSE 0)
    <3>1. CASE evicts
      <4>1. <<i, k>> \in D /\ E \subseteq D
        BY <2>2, <2>4, <3>1
      <4> QED
        BY <2>4, <2>5, <3>1, <4>1
    <3>2. CASE ~evicts
      <4>1. ~dirty => E \subseteq D
        BY <2>4
      <4> QED
        BY <2>5, <3>2, <4>1
    <3> QED
      BY <3>1, <3>2
  <2> QED
    BY <1>3, <1>4, <1>5, <2>3, <2>5, <2>6
<1> QED
  BY <1>6, <1>7, <1>8, <1>9

(* "toRem > -1 && !block[toRem].valid": no write-back is counted that no      *)
(* store has caused, in any cache and after any trace.  The write-backs       *)
(* counted and the dirty slots are no more than the stores, and none at all   *)
(* in a write-through cache: a slot is dirty only if a store wrote it, and it *)
(* is counted when another block takes the slot.                              *)
THEOREM WriteBacksAreStores == Spec => []WriteBacksFromStores
<1>1. Init => WriteBacksFromStores
  <2> SUFFICES ASSUME Init PROVE WriteBacksFromStores
    OBVIOUS
  <2>1. DirtySlots = {}
    BY DEF Init, DirtySlots
  <2>2. Cardinality(DirtySlots) = 0
    BY <2>1, FS_EmptySet
  <2>3. Stores = 0
    BY KindsDiffer DEF Init, Stores
  <2> QED
    BY <2>2, <2>3 DEF Init, WriteBacksFromStores
<1>2. IInv /\ WriteBacksFromStores /\ [Next \/ Stop]_vars => WriteBacksFromStores'
  <2> SUFFICES ASSUME IInv, WriteBacksFromStores, [Next \/ Stop]_vars
               PROVE  WriteBacksFromStores'
    OBVIOUS
  <2>1. ASSUME args' = args, count' = count, writeBacks' = writeBacks, DirtySlots' = DirtySlots
        PROVE  WriteBacksFromStores'
    BY <2>1 DEF WriteBacksFromStores, Stores
  <2>2. ASSUME UNCHANGED <<args, sets, count, writeBacks>> PROVE WriteBacksFromStores'
    BY <2>1, <2>2, DirtyPrimed
  <2>3. ASSUME Begin PROVE WriteBacksFromStores'
    <3>1. args' = args /\ count' = count /\ writeBacks' = writeBacks /\ DOMAIN sets = {}
      BY <2>3 DEF Begin, IInv, Running
    <3>2. CASE sets' = sets
      BY <2>2, <3>1, <3>2
    <3>3. CASE sets' = [i \in 0 .. args.sets - 1 |-> EmptySet]
      <4>1. \A k : ~IsDirtySlot(EmptySet, k)
        BY DEF IsDirtySlot, EmptySet, Used
      <4>2. DirtyOf(sets') = {}
        BY <3>3, <4>1 DEF DirtyOf
      <4>3. DirtyOf(sets) = {}
        BY <3>1 DEF DirtyOf
      <4> QED
        BY <2>1, <3>1, <4>2, <4>3, DirtyPrimed
    <3> QED
      BY <2>3, <3>2, <3>3 DEF Begin
  <2>4. CASE EndOfTrace
    BY <2>2, <2>4 DEF EndOfTrace
  <2>5. CASE \E b \in Blocks, store \in BOOLEAN : Access(b, store)
    BY <2>5, AccessKeepsWriteBacks
  <2>6. CASE UNCHANGED vars
    BY <2>2, <2>6 DEF vars
  <2> QED
    BY <2>3, <2>4, <2>5, <2>6 DEF Next, Stop
<1> QED
  BY <1>1, <1>2, Invariance, PTL DEF Spec
=============================================================================
