--------------------------- MODULE ParSort_proofs ---------------------------
(***************************************************************************)
(* Theorems about the sorting processes, for any files, thresholds and     *)
(* number of processes: a success means that the file is sorted, a half    *)
(* stays sorted until it is merged, no data race on the mapping, nobody    *)
(* left behind a success, and type correctness.                            *)
(*                                                                         *)
(* Who may write an element changes hands: a process holds its segment     *)
(* when it is forked, hands each half to a child, gets it back when it has *)
(* seen the child succeed, and gives it up when it fails.  No element is   *)
(* ever held by two processes, so what a process holds is what it left     *)
(* there: its part of the file, untouched or sorted.  That merge sorts is  *)
(* proved of what it takes from each half, step by step; where that needs  *)
(* induction, the least number that breaks a claim is refuted.             *)
(***************************************************************************)
EXTENDS ParSort, TLAPS, WellFoundedInduction, FiniteSetTheorems, FunctionTheorems

-----------------------------------------------------------------------------
(* A set of numbers has a smallest one. *)
LEMMA Smallest ==
  ASSUME NEW T, T \subseteq Nat, T # {}
  PROVE  \E m \in T : \A i \in T : m <= i
<1>1. PICK m \in T : \A i \in T : ~(<<i, m>> \in OpToRel(<, Nat))
  BY NatLessThanWellFounded, WFMin
<1>2. \A i \in T : ~(i < m)
  BY <1>1 DEF OpToRel
<1> QED
  BY <1>2

(* The function of merge's steps exists and is computed as it is written. *)
LEMMA TakenRecursion ==
  ASSUME NEW l, NEW r, NEW n \in Nat, n = Len(l) + Len(r)
  PROVE  Taken(l, r) = [k \in 0 .. n |->
           IF k = 0 THEN 0
           ELSE IF FromLeft(l, r, Taken(l, r)[k - 1], k - 1 - Taken(l, r)[k - 1])
                THEN Taken(l, r)[k - 1] + 1 ELSE Taken(l, r)[k - 1]]
<1> DEFINE Turn(f, k) == IF FromLeft(l, r, f[k - 1], k - 1 - f[k - 1])
                         THEN f[k - 1] + 1 ELSE f[k - 1]
           Solves(f, m) == f = [k \in 0 .. m |-> IF k = 0 THEN 0 ELSE Turn(f, k)]
           Bad == {m \in Nat : ~\E f : Solves(f, m)}
<1>1. Bad = {}
  <2> SUFFICES ASSUME Bad # {} PROVE FALSE
    OBVIOUS
  <2>1. PICK m \in Bad : \A i \in Bad : m <= i
    <3>1. Bad \subseteq Nat
      OBVIOUS
    <3> HIDE DEF Bad
    <3> QED
      BY <3>1, Smallest
  <2>2. m # 0
    <3>1. Solves([k \in {0} |-> 0], 0)
      OBVIOUS
    <3> QED
      BY <3>1
  <2>3. m \in Nat /\ m - 1 \in Nat /\ m - 1 \notin Bad
    <3>1. m \in Nat
      OBVIOUS
    <3> HIDE DEF Bad
    <3> QED
      BY <2>1, <2>2, <3>1
  <2>4. PICK f : Solves(f, m - 1)
    BY <2>3
  <2> DEFINE g == [k \in 0 .. m |-> IF k = m THEN Turn(f, m) ELSE f[k]]
  <2>5. \A k \in 0 .. m - 1 : f[k] = IF k = 0 THEN 0 ELSE Turn(f, k)
    <3> DEFINE h == [k \in 0 .. m - 1 |-> IF k = 0 THEN 0 ELSE Turn(f, k)]
    <3>1. f = h
      BY <2>4
    <3>2. \A k \in 0 .. m - 1 : h[k] = IF k = 0 THEN 0 ELSE Turn(f, k)
      OBVIOUS
    <3> QED
      BY <3>1, <3>2, Zenon
  <2>6. \A k \in 1 .. m : Turn(g, k) = Turn(f, k)
    <3> SUFFICES ASSUME NEW k \in 1 .. m PROVE g[k - 1] = f[k - 1]
      OBVIOUS
    <3> QED
      BY <2>3
  <2>7. ASSUME NEW k \in 0 .. m PROVE g[k] = IF k = 0 THEN 0 ELSE Turn(g, k)
    <3>1. CASE k = m
      <4>1. g[k] = Turn(f, k) /\ k \in 1 .. m
        BY <2>2, <2>3, <3>1
      <4> QED
        BY <2>2, <2>6, <3>1, <4>1
    <3>2. CASE k # m
      <4>1. g[k] = f[k] /\ k \in 0 .. m - 1
        BY <2>3, <3>2
      <4> HIDE DEF Turn, g
      <4> QED
        BY <2>3, <2>5, <2>6, <4>1
    <3> QED
      BY <3>1, <3>2
  <2>8. Solves(g, m)
    <3> HIDE DEF Turn
    <3> QED
      BY <2>7
  <2> QED
    BY <2>1, <2>8
<1>2. \E f : Solves(f, n)
  BY <1>1
<1>3. Taken(l, r) = CHOOSE f : Solves(f, n)
  BY DEF Taken
<1> HIDE DEF Solves
<1>4. Solves(Taken(l, r), n)
  BY <1>2, <1>3
<1> QED
  BY <1>4 DEF Solves

(* What was taken fits the halves, and grows by one element at a time. *)
LEMMA TakenBounds ==
  ASSUME NEW l \in Seq(Nat), NEW r \in Seq(Nat), NEW n, n = Len(l) + Len(r),
         NEW t, t = Taken(l, r)
  PROVE  /\ n \in Nat /\ t[0] = 0
         /\ \A k \in 0 .. n : t[k] \in Nat /\ t[k] <= Len(l) /\ t[k] <= k /\ k - t[k] <= Len(r)
         /\ \A k \in 1 .. n : IF FromLeft(l, r, t[k - 1], k - 1 - t[k - 1])
                              THEN t[k] = t[k - 1] + 1 ELSE t[k] = t[k - 1]
<1>0. Len(l) \in Nat /\ Len(r) \in Nat /\ n \in Nat
  OBVIOUS
<1>1. t = [k \in 0 .. n |-> IF k = 0 THEN 0
                            ELSE IF FromLeft(l, r, t[k - 1], k - 1 - t[k - 1])
                                 THEN t[k - 1] + 1 ELSE t[k - 1]]
  BY <1>0, TakenRecursion
<1>2. t[0] = 0
  BY <1>0, <1>1
<1>3. \A k \in 1 .. n : IF FromLeft(l, r, t[k - 1], k - 1 - t[k - 1])
                        THEN t[k] = t[k - 1] + 1 ELSE t[k] = t[k - 1]
  BY <1>0, <1>1
<1> DEFINE Good(k) == t[k] \in Nat /\ t[k] <= Len(l) /\ t[k] <= k /\ k - t[k] <= Len(r)
           Bad == {k \in 0 .. n : ~Good(k)}
<1>4. Bad = {}
  <2> SUFFICES ASSUME Bad # {} PROVE FALSE
    OBVIOUS
  <2>1. PICK m \in Bad : \A i \in Bad : m <= i
    <3>1. Bad \subseteq Nat
      BY <1>0
    <3> HIDE DEF Bad
    <3> QED
      BY <3>1, Smallest
  <2>2. m # 0
    BY <1>0, <1>2
  <2>3. m \in 1 .. n /\ Good(m - 1)
    <3>1. m \in 0 .. n /\ m - 1 \notin Bad
      <4>1. m \in 0 .. n
        OBVIOUS
      <4> HIDE DEF Bad
      <4> QED
        BY <1>0, <2>1, <4>1
    <3> QED
      BY <1>0, <2>2, <3>1
  <2>4. Good(m)
    <3> DEFINE i == t[m - 1]
               j == m - 1 - t[m - 1]
    <3>1. CASE FromLeft(l, r, i, j)
      <4>1. i < Len(l) /\ t[m] = i + 1
        BY <1>3, <2>3, <3>1 DEF FromLeft
      <4> QED
        BY <1>0, <2>3, <4>1
    <3>2. CASE ~FromLeft(l, r, i, j)
      <4>1. t[m] = i /\ (i < Len(l) => j < Len(r))
        BY <1>3, <2>3, <3>2 DEF FromLeft
      <4> QED
        BY <1>0, <2>3, <4>1
    <3> QED
      BY <3>1, <3>2
  <2> QED
    BY <2>4
<1> QED
  BY <1>0, <1>2, <1>3, <1>4

(* A function of the numbers to n that grows by at most one at a time      *)
(* grows at each value up to its last.                                     *)
LEMMA GrowsThrough ==
  ASSUME NEW n \in Nat, NEW t, t[0] = 0,
         \A k \in 0 .. n : t[k] \in Nat,
         \A k \in 1 .. n : t[k] = t[k - 1] \/ t[k] = t[k - 1] + 1,
         NEW i \in 1 .. t[n]
  PROVE  \E k \in 1 .. n : t[k] = i /\ t[k - 1] < i
<1> DEFINE T == {k \in 0 .. n : i <= t[k]}
<1>1. T \subseteq Nat /\ n \in T
  OBVIOUS
<1>2. PICK m \in T : \A k \in T : m <= k
  <2> HIDE DEF T
  <2> QED
    BY <1>1, Smallest
<1>3. m \in 0 .. n /\ i <= t[m]
  OBVIOUS
<1>4. m # 0
  BY <1>3
<1>5. m - 1 \in 0 .. n /\ m - 1 \notin T
  <2> HIDE DEF T
  <2> QED
    BY <1>2, <1>3, <1>4
<1> QED
  BY <1>3, <1>4, <1>5

LEMMA GrowsWith ==
  ASSUME NEW n \in Nat, NEW t,
         \A k \in 0 .. n : t[k] \in Nat,
         \A k \in 1 .. n : t[k] = t[k - 1] \/ t[k] = t[k - 1] + 1,
         NEW i \in 0 .. n, NEW j \in i .. n
  PROVE  t[i] <= t[j]
<1> DEFINE T == {k \in i .. n : t[k] < t[i]}
<1> SUFFICES ASSUME T # {} PROVE FALSE
  OBVIOUS
<1>1. T \subseteq Nat
  OBVIOUS
<1>2. PICK m \in T : \A k \in T : m <= k
  <2> HIDE DEF T
  <2> QED
    BY <1>1, Smallest
<1>3. m \in i .. n /\ t[m] < t[i] /\ m # i
  OBVIOUS
<1>4. m - 1 \in i .. n /\ m - 1 \notin T
  <2> HIDE DEF T
  <2> QED
    BY <1>2, <1>3
<1> QED
  BY <1>3, <1>4

(* A function that takes the places of one sequence to those of another    *)
(* shows that there are as many.                                           *)
LEMMA AsMany ==
  ASSUME NEW S, IsFiniteSet(S), NEW T, NEW f \in [S -> T],
         \A a, b \in S : f[a] = f[b] => a = b,
         \A b \in T : \E a \in S : f[a] = b
  PROVE  IsFiniteSet(T) /\ Cardinality(S) = Cardinality(T)
<1>1. f \in Bijection(S, T)
  BY Fun_IsBij
<1>2. ExistsBijection(S, T)
  BY <1>1 DEF ExistsBijection
<1> QED
  BY <1>2, FS_Bijection

LEMMA PartOfInterval ==
  ASSUME NEW a \in Int, NEW b \in Int, NEW S, S \subseteq a .. b
  PROVE  IsFiniteSet(S) /\ Cardinality(S) \in Nat
<1>1. IsFiniteSet(a .. b) /\ S \in SUBSET (a .. b)
  BY FS_Interval
<1>2. IsFiniteSet(S)
  BY <1>1, FS_Subset
<1> QED
  BY <1>2, FS_CardinalityType

(* Element k of m is the next one of l, and not above what is next in r,   *)
(* when t elements of l and u elements of r have been taken with it.       *)
TakenFrom(m, l, r, t, u, k) ==
  /\ t[k] = t[k - 1] + 1 /\ u[k] = u[k - 1]
  /\ m[k] = l[t[k]]
  /\ u[k] < Len(r) => l[t[k]] <= r[u[k] + 1]

Interleaves(m, n, l, r, t, u) ==
  /\ n \in Nat /\ m \in [1 .. n -> Nat]
  /\ t \in [0 .. n -> 0 .. Len(l)] /\ u \in [0 .. n -> 0 .. Len(r)]
  /\ t[0] = 0 /\ t[n] = Len(l)
  /\ u[0] = 0 /\ u[n] = Len(r)
  /\ \A k \in 1 .. n : TakenFrom(m, l, r, t, u, k) \/ TakenFrom(m, r, l, u, t, k)

LEMMA MergedInterleaves ==
  ASSUME NEW l \in Seq(Nat), NEW r \in Seq(Nat)
  PROVE  \E n, t, u : Interleaves(Merged(l, r), n, l, r, t, u)
<1> DEFINE n == Len(l) + Len(r)
           t == Taken(l, r)
           m == Merged(l, r)
           u == [k \in 0 .. n |-> k - t[k]]
<1>0. n \in Nat /\ Len(l) \in Nat /\ Len(r) \in Nat
  OBVIOUS
<1>1. \A k \in 0 .. n : t[k] \in Nat /\ t[k] <= Len(l) /\ t[k] <= k /\ k - t[k] <= Len(r)
  BY TakenBounds
<1>2. \A k \in 1 .. n : IF FromLeft(l, r, t[k - 1], k - 1 - t[k - 1])
                        THEN t[k] = t[k - 1] + 1 ELSE t[k] = t[k - 1]
  BY TakenBounds
<1>3. t[0] = 0
  BY TakenBounds
<1>4. m = [k \in 1 .. n |-> IF t[k] > t[k - 1] THEN l[t[k]] ELSE r[k - t[k]]]
  BY DEF Merged
<1>5. t \in [0 .. n -> 0 .. Len(l)]
  <2>1. t = [k \in 0 .. n |-> t[k]]
    BY <1>0, TakenRecursion
  <2>2. \A k \in 0 .. n : t[k] \in 0 .. Len(l)
    BY <1>0, <1>1
  <2> HIDE DEF t
  <2> QED
    BY <2>1, <2>2
<1> HIDE DEF t, m, n
<1>6. \A k \in 0 .. n : u[k] = k - t[k] /\ u[k] \in 0 .. Len(r)
  BY <1>0, <1>1
<1>7. u \in [0 .. n -> 0 .. Len(r)]
  BY <1>6
<1>8. t[n] = Len(l) /\ u[n] = Len(r) /\ u[0] = 0
  <2>1. n \in 0 .. n /\ 0 \in 0 .. n
    BY <1>0
  <2> QED
    BY <1>0, <1>1, <1>3, <1>6, <2>1 DEF n
<1> HIDE DEF u
<1>9. ASSUME NEW k \in 1 .. n
      PROVE  /\ TakenFrom(m, l, r, t, u, k) \/ TakenFrom(m, r, l, u, t, k)
             /\ m[k] \in Nat
  <2>1. k \in 0 .. n /\ k - 1 \in 0 .. n /\ k \in Nat
    BY <1>0
  <2>2. /\ t[k] \in 0 .. Len(l) /\ t[k - 1] \in 0 .. Len(l)
        /\ u[k] \in 0 .. Len(r) /\ u[k - 1] \in 0 .. Len(r)
        /\ u[k] = k - t[k] /\ u[k - 1] = k - 1 - t[k - 1]
    BY <1>1, <1>5, <1>6, <2>1
  <2>3. m[k] = IF t[k] > t[k - 1] THEN l[t[k]] ELSE r[u[k]]
    BY <1>4, <2>2
  <2>4. IF FromLeft(l, r, t[k - 1], u[k - 1])
        THEN t[k] = t[k - 1] + 1 ELSE t[k] = t[k - 1]
    BY <1>2, <2>2
  <2>5. \A i \in 1 .. Len(l) : l[i] \in Nat
    OBVIOUS
  <2>6. \A i \in 1 .. Len(r) : r[i] \in Nat
    OBVIOUS
  <2>7. CASE FromLeft(l, r, t[k - 1], u[k - 1])
    <3>1. t[k] = t[k - 1] + 1 /\ u[k] = u[k - 1]
      BY <1>0, <2>1, <2>2, <2>4, <2>7
    <3>2. m[k] = l[t[k]] /\ t[k] \in 1 .. Len(l)
      BY <1>0, <2>2, <2>3, <3>1
    <3>3. u[k] < Len(r) => l[t[k]] <= r[u[k] + 1]
      BY <2>7, <3>1 DEF FromLeft
    <3> QED
      BY <2>5, <3>1, <3>2, <3>3 DEF TakenFrom
  <2>8. CASE ~FromLeft(l, r, t[k - 1], u[k - 1])
    <3>1. t[k] = t[k - 1] /\ u[k] = u[k - 1] + 1
      BY <1>0, <2>1, <2>2, <2>4, <2>8
    <3>2. m[k] = r[u[k]] /\ u[k] \in 1 .. Len(r)
      BY <1>0, <2>2, <2>3, <3>1
    <3>3. t[k] < Len(l) => ~(l[t[k] + 1] <= r[u[k]])
      BY <2>8, <3>1 DEF FromLeft
    <3>4. t[k] < Len(l) => l[t[k] + 1] \in Nat
      <4>1. t[k] < Len(l) => t[k] + 1 \in 1 .. Len(l)
        BY <1>0, <2>2
      <4> QED
        BY <2>5, <4>1
    <3>5. t[k] < Len(l) => r[u[k]] <= l[t[k] + 1]
      BY <2>6, <3>2, <3>3, <3>4
    <3> QED
      BY <2>6, <3>1, <3>2, <3>5 DEF TakenFrom
  <2> QED
    BY <2>7, <2>8
<1>10. m \in [1 .. n -> Nat]
  BY <1>4, <1>9
<1>11. Interleaves(m, n, l, r, t, u)
  BY <1>0, <1>3, <1>5, <1>7, <1>8, <1>9, <1>10 DEF Interleaves
<1> QED
  BY <1>11 DEF m

LEMMA BothWays ==
  ASSUME NEW m, NEW n, NEW l, NEW r, NEW t, NEW u, Interleaves(m, n, l, r, t, u)
  PROVE  Interleaves(m, n, r, l, u, t)
BY DEF Interleaves

LEMMA Growing ==
  ASSUME NEW m, NEW n, NEW l \in Seq(Nat), NEW r \in Seq(Nat), NEW t, NEW u,
         Interleaves(m, n, l, r, t, u)
  PROVE  /\ n \in Nat /\ Len(l) \in Nat /\ Len(r) \in Nat
         /\ \A k \in 0 .. n : t[k] \in Nat /\ t[k] <= Len(l)
         /\ \A k \in 1 .. n : t[k] = t[k - 1] \/ t[k] = t[k - 1] + 1
<1>1. n \in Nat /\ Len(l) \in Nat /\ Len(r) \in Nat
  BY DEF Interleaves
<1>2. \A k \in 0 .. n : t[k] \in 0 .. Len(l)
  BY DEF Interleaves
<1>3. \A k \in 1 .. n : t[k] = t[k - 1] \/ t[k] = t[k - 1] + 1
  BY DEF Interleaves, TakenFrom
<1> QED
  BY <1>1, <1>2, <1>3

(* The elements that are a v taken from l. *)
TakenAs(l, n, t, v) == {k \in 1 .. n : t[k] = t[k - 1] + 1 /\ l[t[k]] = v}

LEMMA TakenCount ==
  ASSUME NEW m, NEW n, NEW l \in Seq(Nat), NEW r \in Seq(Nat), NEW t, NEW u,
         Interleaves(m, n, l, r, t, u), NEW v
  PROVE  /\ IsFiniteSet(TakenAs(l, n, t, v))
         /\ Cardinality(TakenAs(l, n, t, v)) = Count(l, v)
<1> DEFINE A == TakenAs(l, n, t, v)
           L == {i \in 1 .. Len(l) : l[i] = v}
           f == [k \in A |-> t[k]]
<1>a. n \in Nat /\ Len(l) \in Nat
  BY Growing
<1>b. t[0] = 0 /\ t[n] = Len(l)
  BY DEF Interleaves
<1>0. n \in Nat /\ Len(l) \in Nat /\ t[0] = 0 /\ t[n] = Len(l)
  BY <1>a, <1>b
<1>1. \A k \in 0 .. n : t[k] \in Nat /\ t[k] <= Len(l)
  BY Growing
<1>c. \A k \in 0 .. n : t[k] \in Nat
  BY <1>1
<1>2. \A k \in 1 .. n : t[k] = t[k - 1] \/ t[k] = t[k - 1] + 1
  BY DEF Interleaves, TakenFrom
<1>3. \A k \in A : k \in 1 .. n /\ t[k] = t[k - 1] + 1 /\ l[t[k]] = v
  BY DEF TakenAs
<1>4. IsFiniteSet(A)
  <2>1. n \in Int /\ 1 \in Int /\ A \subseteq 1 .. n
    BY <1>0, <1>3
  <2> HIDE DEF A
  <2> QED
    BY <2>1, PartOfInterval
<1>5. ASSUME NEW k \in A PROVE t[k] \in L
  <2>1. k \in 0 .. n /\ k - 1 \in 0 .. n
    BY <1>0, <1>3
  <2>2. t[k] \in Nat /\ t[k - 1] \in Nat /\ t[k] <= Len(l) /\ t[k] = t[k - 1] + 1
    BY <1>1, <1>3, <2>1
  <2>3. t[k] \in 1 .. Len(l)
    BY <1>0, <2>2
  <2> QED
    BY <1>3, <2>3
<1> HIDE DEF A
<1>6. ASSUME NEW i \in A, NEW j \in A, i < j PROVE t[i] < t[j]
  <2>1. i \in 0 .. n /\ j - 1 \in i .. n /\ j - 1 \in 0 .. n /\ t[j] = t[j - 1] + 1
    BY <1>0, <1>3, <1>6
  <2>2. t[i] <= t[j - 1]
    BY <1>0, <1>2, <1>c, <2>1, GrowsWith
  <2>3. t[i] \in Nat /\ t[j - 1] \in Nat
    BY <1>1, <2>1
  <2> QED
    BY <2>1, <2>2, <2>3
<1>7. ASSUME NEW i \in A, NEW j \in A, t[i] = t[j] PROVE i = j
  <2>1. i \in 0 .. n /\ j \in 0 .. n
    BY <1>0, <1>3
  <2>2. i \in Nat /\ j \in Nat /\ t[i] \in Nat
    BY <1>0, <1>1, <2>1
  <2>3. ~(i < j)
    BY <1>6, <1>7, <2>2
  <2>4. ~(j < i)
    BY <1>6, <1>7, <2>2
  <2> QED
    BY <2>2, <2>3, <2>4
<1>8. ASSUME NEW i \in L PROVE \E k \in A : t[k] = i
  <2>1. i \in 1 .. t[n] /\ l[i] = v
    BY <1>0
  <2>2. PICK k \in 1 .. n : t[k] = i /\ t[k - 1] < i
    BY <1>0, <1>2, <1>c, <2>1, GrowsThrough
  <2>3. k - 1 \in 0 .. n
    BY <1>0
  <2>4. t[k - 1] \in Nat
    BY <1>1, <2>3
  <2>5. t[k] = t[k - 1] + 1
    BY <1>2, <2>2, <2>4
  <2> QED
    BY <2>1, <2>2, <2>5 DEF A, TakenAs
<1> HIDE DEF L
<1>9. f \in [A -> L]
  BY <1>5
<1>10. \A i, j \in A : f[i] = f[j] => i = j
  BY <1>7
<1>11. \A i \in L : \E k \in A : f[k] = i
  BY <1>8
<1> HIDE DEF f
<1>12. Cardinality(A) = Cardinality(L)
  BY <1>4, <1>9, <1>10, <1>11, AsMany
<1>13. DOMAIN l = 1 .. Len(l)
  OBVIOUS
<1>14. Cardinality(L) = Count(l, v)
  BY <1>13 DEF Count, L
<1> QED
  BY <1>4, <1>12, <1>14 DEF A

(* No value gets lost or appears when two sequences are merged. *)
LEMMA MergedCount ==
  ASSUME NEW l \in Seq(Nat), NEW r \in Seq(Nat), NEW v
  PROVE  Count(Merged(l, r), v) = Count(l, v) + Count(r, v)
<1> DEFINE m == Merged(l, r)
<1>1. PICK n, t, u : Interleaves(m, n, l, r, t, u)
  BY MergedInterleaves
<1> HIDE DEF m
<1> DEFINE A == TakenAs(l, n, t, v)
           B == TakenAs(r, n, u, v)
<1>2. IsFiniteSet(A) /\ Cardinality(A) = Count(l, v)
  BY <1>1, TakenCount
<1>3. IsFiniteSet(B) /\ Cardinality(B) = Count(r, v)
  <2>1. Interleaves(m, n, r, l, u, t)
    BY <1>1, BothWays
  <2> QED
    BY <2>1, TakenCount
<1>4. ASSUME NEW k \in 1 .. n
      PROVE  (m[k] = v <=> k \in A \/ k \in B) /\ ~(k \in A /\ k \in B)
  <2>1. k - 1 \in 0 .. n /\ k \in 0 .. n /\ n \in Nat
    BY <1>1 DEF Interleaves
  <2>2. t[k - 1] \in Nat /\ u[k - 1] \in Nat
    BY <1>1, <2>1 DEF Interleaves
  <2>3. TakenFrom(m, l, r, t, u, k) \/ TakenFrom(m, r, l, u, t, k)
    BY <1>1 DEF Interleaves
  <2> QED
    BY <2>2, <2>3 DEF TakenFrom, TakenAs
<1>5. DOMAIN m = 1 .. n
  BY <1>1 DEF Interleaves
<1>6. A \subseteq 1 .. n /\ B \subseteq 1 .. n
  BY DEF TakenAs
<1> HIDE DEF A, B
<1>7. {k \in DOMAIN m : m[k] = v} = A \cup B
  BY <1>4, <1>5, <1>6
<1>8. A \cap B = {}
  BY <1>4, <1>6
<1>9. Cardinality(A) \in Nat /\ Cardinality(B) \in Nat
  BY <1>2, <1>3, FS_CardinalityType
<1>10. Cardinality(A \cup B) = Cardinality(A) + Cardinality(B) - Cardinality(A \cap B)
  BY <1>2, <1>3, FS_Union
<1>11. Cardinality({}) = 0
  BY FS_EmptySet
<1>12. Cardinality(A \cup B) = Cardinality(A) + Cardinality(B)
  <2>1. Cardinality(A \cap B) = 0
    BY <1>8, <1>11
  <2> QED
    BY <1>9, <1>10, <2>1
<1> QED
  BY <1>2, <1>3, <1>7, <1>12 DEF Count, m

Ascending(s) == \A i, j \in DOMAIN s : i < j => s[i] <= s[j]

(* Nothing of s is below x from element i + 1 on. *)
Below(x, s, i) == \A j \in i + 1 .. Len(s) : x <= s[j]

(* What is taken first is below all that is left. *)
LEMMA TakenLowest ==
  ASSUME NEW m, NEW n, NEW l \in Seq(Nat), NEW r \in Seq(Nat), NEW t, NEW u,
         Interleaves(m, n, l, r, t, u), Ascending(l), Ascending(r),
         NEW k \in 1 .. n, TakenFrom(m, l, r, t, u, k)
  PROVE  Below(m[k], l, t[k]) /\ Below(m[k], r, u[k])
<1>1. n \in Nat /\ Len(l) \in Nat /\ Len(r) \in Nat
  BY Growing
<1>2. k \in 0 .. n /\ k - 1 \in 0 .. n
  BY <1>1
<1>3. t[k] \in 0 .. Len(l) /\ t[k - 1] \in 0 .. Len(l) /\ u[k] \in 0 .. Len(r)
  BY <1>2 DEF Interleaves
<1>4. t[k] = t[k - 1] + 1 /\ m[k] = l[t[k]]
  BY DEF TakenFrom
<1>5. u[k] < Len(r) => l[t[k]] <= r[u[k] + 1]
  BY DEF TakenFrom
<1>6. t[k] \in 1 .. Len(l)
  BY <1>1, <1>3, <1>4
<1>7. DOMAIN l = 1 .. Len(l) /\ DOMAIN r = 1 .. Len(r)
  OBVIOUS
<1>8. \A i \in 1 .. Len(l) : l[i] \in Nat
  OBVIOUS
<1>9. \A i \in 1 .. Len(r) : r[i] \in Nat
  OBVIOUS
<1>10. ASSUME NEW j \in t[k] + 1 .. Len(l) PROVE m[k] <= l[j]
  <2>1. j \in 1 .. Len(l) /\ t[k] < j
    BY <1>1, <1>6
  <2> QED
    BY <1>4, <1>6, <1>7, <2>1 DEF Ascending
<1>11. ASSUME NEW j \in u[k] + 1 .. Len(r) PROVE m[k] <= r[j]
  <2>1. j \in 1 .. Len(r) /\ u[k] + 1 \in 1 .. Len(r) /\ u[k] < Len(r) /\ u[k] + 1 <= j
    BY <1>1, <1>3
  <2>2. l[t[k]] <= r[u[k] + 1]
    BY <1>5, <2>1
  <2>3. r[u[k] + 1] <= r[j]
    <3>1. CASE j = u[k] + 1
      BY <1>9, <2>1, <3>1
    <3>2. CASE u[k] + 1 < j
      BY <1>7, <2>1, <3>2 DEF Ascending
    <3> QED
      BY <1>1, <1>3, <2>1, <3>1, <3>2
  <2>4. l[t[k]] \in Nat /\ r[u[k] + 1] \in Nat /\ r[j] \in Nat
    BY <1>6, <1>8, <1>9, <2>1
  <2> QED
    BY <1>4, <2>2, <2>3, <2>4
<1> QED
  BY <1>10, <1>11 DEF Below

(* An element taken after k is one of those left at k. *)
LEMMA TakenLater ==
  ASSUME NEW m, NEW n, NEW l \in Seq(Nat), NEW r \in Seq(Nat), NEW t, NEW u,
         Interleaves(m, n, l, r, t, u), NEW k \in 1 .. n, NEW j \in 1 .. n, k < j,
         NEW x, Below(x, l, t[k]), TakenFrom(m, l, r, t, u, j)
  PROVE  x <= m[j]
<1>1. n \in Nat /\ Len(l) \in Nat
  BY Growing
<1>2. k \in 0 .. n /\ j \in 0 .. n /\ j - 1 \in 0 .. n /\ j - 1 \in k .. n
  BY <1>1
<1>3. \A i \in 0 .. n : t[i] \in Nat
  BY DEF Interleaves
<1>4. \A i \in 1 .. n : t[i] = t[i - 1] \/ t[i] = t[i - 1] + 1
  BY DEF Interleaves, TakenFrom
<1>5. t[k] <= t[j - 1]
  BY <1>1, <1>2, <1>3, <1>4, GrowsWith
<1>6. t[j] = t[j - 1] + 1 /\ m[j] = l[t[j]]
  BY DEF TakenFrom
<1>7. t[j] \in 0 .. Len(l)
  BY <1>2 DEF Interleaves
<1>8. t[k] \in Nat /\ t[j - 1] \in Nat
  BY <1>2, <1>3
<1>9. t[j] \in t[k] + 1 .. Len(l)
  BY <1>1, <1>5, <1>6, <1>7, <1>8
<1> QED
  BY <1>6, <1>9 DEF Below

(* Merging sorts what is sorted in halves. *)
LEMMA MergedAscends ==
  ASSUME NEW l \in Seq(Nat), NEW r \in Seq(Nat), Ascending(l), Ascending(r)
  PROVE  Ascending(Merged(l, r))
<1> DEFINE m == Merged(l, r)
<1>1. PICK n, t, u : Interleaves(m, n, l, r, t, u)
  BY MergedInterleaves
<1> HIDE DEF m
<1>2. Interleaves(m, n, r, l, u, t)
  BY <1>1, BothWays
<1>3. ASSUME NEW k \in 1 .. n
      PROVE  TakenFrom(m, l, r, t, u, k) \/ TakenFrom(m, r, l, u, t, k)
  BY <1>1 DEF Interleaves
<1>4. ASSUME NEW k \in 1 .. n
      PROVE  Below(m[k], l, t[k]) /\ Below(m[k], r, u[k])
  BY <1>1, <1>2, <1>3, TakenLowest
<1>5. ASSUME NEW k \in 1 .. n, NEW j \in 1 .. n, k < j
      PROVE  m[k] <= m[j]
  BY <1>1, <1>2, <1>3, <1>4, <1>5, TakenLater
<1>6. DOMAIN m = 1 .. n
  BY <1>1 DEF Interleaves
<1>7. Ascending(m)
  BY <1>5, <1>6 DEF Ascending
<1> QED
  BY <1>7 DEF m

LEMMA MergedIsSeq ==
  ASSUME NEW l \in Seq(Nat), NEW r \in Seq(Nat)
  PROVE  Merged(l, r) \in Seq(Nat) /\ Len(Merged(l, r)) = Len(l) + Len(r)
<1> DEFINE m == Merged(l, r)
<1>1. PICK n, t, u : Interleaves(m, n, l, r, t, u)
  BY MergedInterleaves
<1>2. Len(l) + Len(r) \in Nat
  OBVIOUS
<1>3. DOMAIN m = 1 .. Len(l) + Len(r)
  BY DEF Merged
<1> HIDE DEF m
<1>4. n \in Nat /\ m \in [1 .. n -> Nat]
  BY <1>1 DEF Interleaves
<1>5. m \in Seq(Nat) /\ Len(m) = n
  BY <1>4
<1>6. Len(m) = Len(l) + Len(r)
  <2> DEFINE k == Len(l) + Len(r)
  <2>1. k \in Nat /\ DOMAIN m = 1 .. k
    BY <1>2, <1>3
  <2> HIDE DEF k
  <2>2. Len(m) = k
    BY <1>5, <2>1
  <2> QED
    BY <2>2 DEF k
<1> QED
  BY <1>5, <1>6 DEF m

(* merge sorts what is sorted in halves: of two ascending sequences of any    *)
(* lengths it makes one that ascends and has every value as often as the two  *)
(* together (parsort.c, merge).                                               *)
THEOREM MergeSorts ==
  ASSUME NEW l \in Seq(Nat), NEW r \in Seq(Nat), Ascending(l), Ascending(r)
  PROVE  /\ Ascending(Merged(l, r)) /\ Len(Merged(l, r)) = Len(l) + Len(r)
         /\ \A v : Count(Merged(l, r), v) = Count(l, v) + Count(r, v)
BY MergedAscends, MergedIsSeq, MergedCount

-----------------------------------------------------------------------------
(* Segments of an array. *)

(* s is the k elements of a from element d + 1. *)
Copies(s, k, a, d) ==
  s \in Seq(Nat) /\ Len(s) = k /\ \A i \in 1 .. k : s[i] = a[d + i]

(* An array of n elements. *)
Array(a, n) == a \in Seq(Nat) /\ Len(a) = n

(* Arrays of n elements that differ from lo + 1 to hi at most. *)
SameBut(b, a, n, lo, hi) == \A i \in 1 .. n : ~(lo < i /\ i <= hi) => b[i] = a[i]

LEMMA Cut ==
  ASSUME NEW a \in Seq(Nat), NEW lo \in Nat, NEW hi \in Nat, lo <= hi, hi <= Len(a)
  PROVE  Copies(SubSeq(a, lo + 1, hi), hi - lo, a, lo)
<1>1. CASE lo = hi
  BY <1>1 DEF Copies
<1>2. CASE lo < hi
  BY <1>2 DEF Copies
<1> QED
  BY <1>1, <1>2

LEMMA Join ==
  ASSUME NEW x \in Seq(Nat), NEW y \in Seq(Nat)
  PROVE  /\ x \o y \in Seq(Nat) /\ Len(x \o y) = Len(x) + Len(y)
         /\ Copies(x, Len(x), x \o y, 0)
         /\ Copies(y, Len(y), x \o y, Len(x))
BY DEF Copies

(* The sequence x \o s \o y in place of a: only the middle part is new. *)
LEMMA Replaced ==
  ASSUME NEW a, NEW lo \in Nat, NEW hi \in Nat, lo <= hi, NEW k \in Nat,
         NEW n, n = hi + k,
         NEW x, Copies(x, lo, a, 0), NEW y, Copies(y, k, a, hi),
         NEW s \in Seq(Nat), Len(s) = hi - lo
  PROVE  /\ Array(x \o s \o y, n)
         /\ Copies(s, hi - lo, x \o s \o y, lo)
         /\ SameBut(x \o s \o y, a, n, lo, hi)
<1> DEFINE z == x \o s
           b == z \o y
<1>1. x \in Seq(Nat) /\ Len(x) = lo /\ y \in Seq(Nat) /\ Len(y) = k
  BY DEF Copies
<1>2. z \in Seq(Nat) /\ Len(z) = Len(x) + Len(s)
  BY <1>1, Join
<1>3. Copies(x, Len(x), z, 0) /\ Copies(s, Len(s), z, Len(x))
  BY <1>1, Join
<1> HIDE DEF z
<1>4. b \in Seq(Nat) /\ Len(b) = Len(z) + Len(y)
  BY <1>1, <1>2, Join
<1>5. Copies(z, Len(z), b, 0) /\ Copies(y, Len(y), b, Len(z))
  BY <1>1, <1>2, Join
<1> HIDE DEF b
<1>6. Len(z) = hi /\ Len(b) = n
  BY <1>1, <1>2, <1>4
<1>7. ASSUME NEW i \in 1 .. hi PROVE b[i] = z[i]
  BY <1>5, <1>6 DEF Copies
<1>8. ASSUME NEW i \in 1 .. hi - lo PROVE s[i] = b[lo + i]
  <2>1. lo + i \in 1 .. hi
    OBVIOUS
  <2>2. s[i] = z[lo + i]
    BY <1>1, <1>3 DEF Copies
  <2> QED
    BY <1>7, <2>1, <2>2
<1>9. ASSUME NEW i \in 1 .. lo PROVE b[i] = a[i]
  <2>1. i \in 1 .. hi /\ 0 + i = i
    OBVIOUS
  <2>2. x[i] = z[i]
    BY <1>1, <1>3, <2>1 DEF Copies
  <2>3. x[i] = a[i]
    BY <2>1 DEF Copies
  <2> QED
    BY <1>7, <2>1, <2>2, <2>3
<1>10. ASSUME NEW i \in hi + 1 .. n PROVE b[i] = a[i]
  <2>1. i - hi \in 1 .. k /\ hi + (i - hi) = i
    OBVIOUS
  <2>2. y[i - hi] = b[i]
    BY <1>1, <1>5, <1>6, <2>1 DEF Copies
  <2>3. y[i - hi] = a[i]
    BY <2>1 DEF Copies
  <2> QED
    BY <2>2, <2>3
<1>11. ASSUME NEW i \in 1 .. n, ~(lo < i /\ i <= hi) PROVE b[i] = a[i]
  <2>1. i \in 1 .. lo \/ i \in hi + 1 .. n
    BY <1>11
  <2> QED
    BY <1>9, <1>10, <2>1
<1>12. Copies(s, hi - lo, b, lo)
  BY <1>8 DEF Copies
<1>13. SameBut(b, a, n, lo, hi)
  BY <1>11 DEF SameBut
<1>14. Array(b, n)
  BY <1>4, <1>6 DEF Array
<1> QED
  BY <1>12, <1>13, <1>14 DEF b, z

(* The array a with s in place of its elements from lo + 1 to hi. *)
Splice(a, lo, s, hi) == SubSeq(a, 1, lo) \o s \o SubSeq(a, hi + 1, Len(a))

LEMMA Spliced ==
  ASSUME NEW a \in Seq(Nat), NEW lo \in Nat, NEW hi \in Nat, lo <= hi, hi <= Len(a),
         NEW s \in Seq(Nat), Len(s) = hi - lo
  PROVE  /\ Array(Splice(a, lo, s, hi), Len(a))
         /\ SubSeq(Splice(a, lo, s, hi), lo + 1, hi) = s
         /\ SameBut(Splice(a, lo, s, hi), a, Len(a), lo, hi)
<1> DEFINE b == Splice(a, lo, s, hi)
           x == SubSeq(a, 1, lo)
           y == SubSeq(a, hi + 1, Len(a))
           n == Len(a)
           k == n - hi
<1>1. n \in Nat /\ n = Len(a) /\ k \in Nat /\ n = hi + k
  OBVIOUS
<1>2. Copies(x, lo, a, 0)
  <2>1. Copies(SubSeq(a, 0 + 1, lo), lo - 0, a, 0)
    BY <1>1, Cut
  <2> QED
    BY <2>1
<1>3. Copies(y, k, a, hi)
  BY Cut
<1>4. b = x \o s \o y
  BY DEF Splice
<1> HIDE DEF b, x, y, k, n
<1>5. b \in Seq(Nat) /\ Len(b) = n
  <2>1. Array(b, n)
    BY <1>1, <1>2, <1>3, <1>4, Replaced
  <2> QED
    BY <2>1 DEF Array
<1>6. Copies(s, hi - lo, b, lo)
  BY <1>1, <1>2, <1>3, <1>4, Replaced
<1>7. SameBut(b, a, n, lo, hi)
  BY <1>1, <1>2, <1>3, <1>4, Replaced
<1>8. SubSeq(b, lo + 1, hi) = s
  <2> DEFINE c == SubSeq(b, lo + 1, hi)
  <2>1. Copies(c, hi - lo, b, lo)
    BY <1>1, <1>5, Cut
  <2> HIDE DEF c
  <2>2. ASSUME NEW i \in 1 .. hi - lo PROVE c[i] = s[i]
    BY <1>6, <2>1 DEF Copies
  <2>3. c \in Seq(Nat) /\ Len(c) = hi - lo
    BY <2>1 DEF Copies
  <2>4. c = s
    BY <2>2, <2>3
  <2> QED
    BY <2>4 DEF c
<1> QED
  BY <1>1, <1>5, <1>7, <1>8 DEF b, Array

Sorted(a, lo, hi) == \A i, j \in lo + 1 .. hi : i < j => a[i] <= a[j]
CountIn(a, lo, hi, v) == Cardinality({i \in lo + 1 .. hi : a[i] = v})

LEMMA CutSorted ==
  ASSUME NEW a \in Seq(Nat), NEW lo \in Nat, NEW hi \in Nat, lo <= hi, hi <= Len(a)
  PROVE  Ascending(SubSeq(a, lo + 1, hi)) <=> Sorted(a, lo, hi)
<1> DEFINE s == SubSeq(a, lo + 1, hi)
<1>0. Copies(s, hi - lo, a, lo)
  BY Cut
<1> HIDE DEF s
<1>1. s \in Seq(Nat) /\ Len(s) = hi - lo
  BY <1>0 DEF Copies
<1>2. \A i \in 1 .. hi - lo : s[i] = a[lo + i]
  BY <1>0 DEF Copies
<1>3. DOMAIN s = 1 .. hi - lo
  BY <1>1
<1>4. ASSUME Ascending(s), NEW i \in lo + 1 .. hi, NEW j \in lo + 1 .. hi, i < j
      PROVE  a[i] <= a[j]
  <2>1. i - lo \in 1 .. hi - lo /\ j - lo \in 1 .. hi - lo /\ i - lo < j - lo
    BY <1>4
  <2>2. s[i - lo] <= s[j - lo]
    BY <1>3, <1>4, <2>1 DEF Ascending
  <2>3. lo + (i - lo) = i /\ lo + (j - lo) = j
    OBVIOUS
  <2>4. s[i - lo] = a[i] /\ s[j - lo] = a[j]
    BY <1>2, <2>1, <2>3
  <2> QED
    BY <2>2, <2>4
<1>5. ASSUME Sorted(a, lo, hi), NEW i \in 1 .. hi - lo, NEW j \in 1 .. hi - lo, i < j
      PROVE  s[i] <= s[j]
  <2>1. lo + i \in lo + 1 .. hi /\ lo + j \in lo + 1 .. hi /\ lo + i < lo + j
    BY <1>5
  <2>2. a[lo + i] <= a[lo + j]
    BY <1>5, <2>1 DEF Sorted
  <2> QED
    BY <1>2, <2>2
<1>6. Ascending(s) <=> Sorted(a, lo, hi)
  <2>1. Ascending(s) => Sorted(a, lo, hi)
    BY <1>4 DEF Sorted
  <2>2. Sorted(a, lo, hi) => Ascending(s)
    BY <1>3, <1>5 DEF Ascending
  <2> QED
    BY <2>1, <2>2
<1> QED
  BY <1>6 DEF s

LEMMA CutCount ==
  ASSUME NEW a \in Seq(Nat), NEW lo \in Nat, NEW hi \in Nat, lo <= hi, hi <= Len(a), NEW v
  PROVE  Count(SubSeq(a, lo + 1, hi), v) = CountIn(a, lo, hi, v)
<1> DEFINE s == SubSeq(a, lo + 1, hi)
           S == {i \in 1 .. hi - lo : s[i] = v}
           A == {i \in lo + 1 .. hi : a[i] = v}
           f == [i \in S |-> lo + i]
<1>0. Copies(s, hi - lo, a, lo)
  BY Cut
<1> HIDE DEF s
<1>1. s \in Seq(Nat) /\ Len(s) = hi - lo
  BY <1>0 DEF Copies
<1>2. \A i \in 1 .. hi - lo : s[i] = a[lo + i]
  BY <1>0 DEF Copies
<1>3. DOMAIN s = 1 .. hi - lo
  BY <1>1
<1>4. IsFiniteSet(S)
  <2>1. 1 \in Int /\ hi - lo \in Int /\ S \subseteq 1 .. hi - lo
    OBVIOUS
  <2> HIDE DEF S
  <2> QED
    BY <2>1, PartOfInterval
<1>5. ASSUME NEW i \in S PROVE i \in Nat /\ lo + i \in A
  BY <1>2
<1>6. ASSUME NEW i \in A PROVE i - lo \in S /\ lo + (i - lo) = i
  <2>1. i - lo \in 1 .. hi - lo /\ lo + (i - lo) = i
    OBVIOUS
  <2> QED
    BY <1>2, <2>1
<1> HIDE DEF S, A
<1>7. f \in [S -> A]
  BY <1>5
<1>8. \A i, j \in S : f[i] = f[j] => i = j
  BY <1>5
<1>9. \A i \in A : \E j \in S : f[j] = i
  BY <1>6
<1> HIDE DEF f
<1>10. Cardinality(S) = Cardinality(A)
  BY <1>4, <1>7, <1>8, <1>9, AsMany
<1>11. Count(s, v) = Cardinality(S)
  BY <1>3 DEF Count, S
<1> QED
  BY <1>10, <1>11 DEF CountIn, A, s

LEMMA CountAdds ==
  ASSUME NEW a, NEW lo \in Nat, NEW mid \in Nat, NEW hi \in Nat, lo <= mid, mid <= hi, NEW v
  PROVE  CountIn(a, lo, hi, v) = CountIn(a, lo, mid, v) + CountIn(a, mid, hi, v)
<1> DEFINE A == {i \in lo + 1 .. mid : a[i] = v}
           B == {i \in mid + 1 .. hi : a[i] = v}
           C == {i \in lo + 1 .. hi : a[i] = v}
<1>1. A \subseteq lo + 1 .. mid /\ B \subseteq mid + 1 .. hi
  OBVIOUS
<1>0. lo + 1 \in Int /\ mid \in Int /\ mid + 1 \in Int /\ hi \in Int
  OBVIOUS
<1>2. C = A \cup B
  OBVIOUS
<1>3. A \cap B = {}
  OBVIOUS
<1> HIDE DEF A, B, C
<1>4. IsFiniteSet(A) /\ Cardinality(A) \in Nat
  BY <1>0, <1>1, PartOfInterval
<1>5. IsFiniteSet(B) /\ Cardinality(B) \in Nat
  BY <1>0, <1>1, PartOfInterval
<1>6. Cardinality(A \cup B) = Cardinality(A) + Cardinality(B) - Cardinality(A \cap B)
  BY <1>4, <1>5, FS_Union
<1>7. Cardinality(A \cap B) = 0
  BY <1>3, FS_EmptySet
<1>8. Cardinality(C) = Cardinality(A) + Cardinality(B)
  BY <1>2, <1>4, <1>5, <1>6, <1>7
<1> QED
  BY <1>8 DEF CountIn, A, B, C

(* Arrays that are the same from lo + 1 to hi. *)
Agree(a, b, lo, hi) == \A k \in lo + 1 .. hi : a[k] = b[k]

LEMMA Untouched ==
  ASSUME NEW a, NEW b, NEW lo, NEW hi, Agree(a, b, lo, hi)
  PROVE  /\ Sorted(a, lo, hi) <=> Sorted(b, lo, hi)
         /\ \A v : CountIn(a, lo, hi, v) = CountIn(b, lo, hi, v)
<1>1. Sorted(a, lo, hi) <=> Sorted(b, lo, hi)
  BY DEF Sorted, Agree
<1>2. ASSUME NEW v PROVE CountIn(a, lo, hi, v) = CountIn(b, lo, hi, v)
  <2>1. {i \in lo + 1 .. hi : a[i] = v} = {i \in lo + 1 .. hi : b[i] = v}
    BY DEF Agree
  <2> QED
    BY <2>1 DEF CountIn
<1> QED
  BY <1>1, <1>2

-----------------------------------------------------------------------------
(* What the processes hold, and what is there. *)

(* Type correctness, with what the steps of the proof need of it. *)
Typed == /\ pc \in [Pids -> PCs]
         /\ status \in [Pids -> {"none", "success", "failure", "killed"}]
         /\ begin \in [Pids -> Nat]
         /\ end \in [Pids -> Nat]
         /\ \A p \in Pids : begin[p] <= end[p] /\ end[p] <= Len(file)
         /\ file \in Files /\ threshold \in Thresholds

(* The mapping is a sequence as long as the file. *)
Mapped == Array(arr, Len(file))

(* Processes that have not forked their first, their second child yet. *)
Childless == {"none", "start", "call", "sort", "fork1"}
OneChild == Childless \cup {"fork2"}

(* A process, its children and what it knows of them. *)
Family(p) ==
  /\ pc[p] \in Childless /\ 2 * p \in Pids => pc[2 * p] = "none"
  /\ pc[p] \in OneChild /\ 2 * p + 1 \in Pids => pc[2 * p + 1] = "none"
  /\ pc[p] \in {"fork2", "wait1", "wait2", "merge"} =>
       2 * p \in Pids /\ begin[2 * p] = begin[p] /\ end[2 * p] = Middle(p)
  /\ pc[p] \in {"wait1", "wait2", "merge"} =>
       2 * p + 1 \in Pids /\ begin[2 * p + 1] = Middle(p) /\ end[2 * p + 1] = end[p]
  /\ pc[p] \in {"wait2", "merge"} => status[2 * p] = "success"
  /\ pc[p] = "merge" => status[2 * p + 1] = "success"
  /\ pc[p] \in {"start", "close"} => p = 1
  /\ status[p] # "none" <=> pc[p] = "ended"
Families == \A p \in Pids : Family(p)

(* Behind a success there are only successes. *)
Succeeded(p) == pc[p] = "close" \/ status[p] = "success"
Finished(c) == c \in Pids => pc[c] = "none" \/ status[c] = "success"
SuccessBelow == \A p \in Pids :
  Succeeded(p) => Finished(2 * p) /\ Finished(2 * p + 1)

(* Process p has a parent that has not seen it end. *)
Awaited(p) == \E r \in Pids : \/ p = 2 * r /\ pc[r] \in {"fork2", "wait1"}
                              \/ p = 2 * r + 1 /\ pc[r] \in {"wait1", "wait2"}

(* Process p has succeeded, and its success still counts. *)
Counts(p) == status[p] = "success" /\ (p = 1 \/ Awaited(p))

(* Process p holds the element k. *)
Holds(p, k) ==
  /\ begin[p] < k /\ k <= end[p]
  /\ \/ pc[p] \in {"start", "call", "sort", "fork1", "merge", "close"}
     \/ pc[p] = "fork2" /\ Middle(p) < k
     \/ pc[p] = "wait2" /\ k <= Middle(p)
     \/ Counts(p)
HeldOnce == \A p, q \in Pids, k \in Nat : Holds(p, k) /\ Holds(q, k) => p = q

(* From lo + 1 to hi the array a is the file f sorted. *)
Done(a, f, lo, hi) == /\ Sorted(a, lo, hi)
                      /\ \A v \in Nat : CountIn(a, lo, hi, v) = CountIn(f, lo, hi, v)

(* What a process has not touched yet, and what it has done. *)
Content(p) ==
  /\ pc[p] \in {"start", "call", "sort", "fork1"} => Agree(arr, file, begin[p], end[p])
  /\ pc[p] = "fork2" => Agree(arr, file, Middle(p), end[p])
  /\ pc[p] \in {"wait2", "merge"} => Done(arr, file, begin[p], Middle(p))
  /\ pc[p] = "merge" => Done(arr, file, Middle(p), end[p])
  /\ pc[p] = "close" \/ Counts(p) => Done(arr, file, begin[p], end[p])
Contents == \A p \in Pids : Content(p)

(* The segment of main is the whole file. *)
Whole == begin[1] = 0 /\ end[1] = Len(file)

IInv == Typed /\ Mapped /\ Families /\ SuccessBelow /\ HeldOnce /\ Contents /\ Whole

-----------------------------------------------------------------------------
LEMMA InitTyped == Init => Typed /\ Mapped
<1> SUFFICES ASSUME Init PROVE Typed /\ Mapped
  OBVIOUS
<1> USE FilesAssumption, NumbersAssumption
<1>1. file \in Seq(Nat) /\ Len(file) \in Nat
  BY DEF Init
<1>2. Typed
  BY <1>1 DEF Init, Typed, PCs, Pids
<1>3. Mapped
  BY <1>1 DEF Init, Mapped, Array
<1> QED
  BY <1>2, <1>3

LEMMA InitRest == Init => Families /\ SuccessBelow /\ HeldOnce /\ Contents /\ Whole
<1> SUFFICES ASSUME Init PROVE Families /\ SuccessBelow /\ HeldOnce /\ Contents /\ Whole
  OBVIOUS
<1> USE NumbersAssumption DEF Init, Pids
<1>1. Families
  BY DEF Families, Family, Childless, OneChild
<1>2. SuccessBelow
  BY DEF SuccessBelow, Succeeded
<1>3. HeldOnce
  BY DEF HeldOnce, Holds, Counts
<1>4. Contents
  BY DEF Contents, Content, Counts, Agree
<1>5. Whole
  BY DEF Whole
<1> QED
  BY <1>1, <1>2, <1>3, <1>4, <1>5

-----------------------------------------------------------------------------
(* What a step does to the processes: one moves on, one ends, or one forks *)
(* a child.                                                                *)
Unmoved == begin' = begin /\ end' = end /\ file' = file /\ threshold' = threshold

Moves(p, from, next) ==
  /\ pc[p] = from
  /\ \A q \in Pids : pc'[q] = IF q = p THEN next ELSE pc[q]
  /\ status' = status
  /\ Unmoved

Ends(p, code) ==
  /\ pc[p] \notin {"none", "ended"}
  /\ \A q \in Pids : /\ pc'[q] = IF q = p THEN "ended" ELSE pc[q]
                     /\ status'[q] = IF q = p THEN code ELSE status[q]
  /\ Unmoved

Begets(p, from, next, kid, first, last) ==
  /\ kid \in Pids
  /\ pc[p] = from
  /\ \A q \in Pids : /\ pc'[q] = IF q = kid THEN "call" ELSE IF q = p THEN next ELSE pc[q]
                     /\ begin'[q] = IF q = kid THEN first ELSE begin[q]
                     /\ end'[q] = IF q = kid THEN last ELSE end[q]
  /\ status' = status
  /\ file' = file /\ threshold' = threshold

Functions == /\ pc \in [Pids -> PCs]
             /\ status \in [Pids -> {"none", "success", "failure", "killed"}]
             /\ begin \in [Pids -> Nat]
             /\ end \in [Pids -> Nat]

LEMMA GotoMoves ==
  ASSUME Functions, NEW p \in Pids, NEW from, NEW next \in PCs, Goto(p, from, next), Unmoved
  PROVE  Moves(p, from, next) /\ Functions'
BY DEF Functions, Goto, Moves, Unmoved

LEMMA ExitEnds ==
  ASSUME Functions, NEW p \in Pids, NEW from \in PCs \ {"none", "ended"},
         NEW code \in {"success", "failure", "killed"}, Exit(p, from, code), Unmoved
  PROVE  Ends(p, code) /\ pc[p] = from /\ Functions'
<1>1. \A q \in Pids : /\ pc'[q] = IF q = p THEN "ended" ELSE pc[q]
                     /\ status'[q] = IF q = p THEN code ELSE status[q]
  BY DEF Functions, Exit
<1>2. Functions'
  BY DEF Functions, Exit, Unmoved, PCs
<1> QED
  BY <1>1, <1>2 DEF Ends, Exit

LEMMA ForkBegets ==
  ASSUME Functions, NEW p \in Pids, NEW from, NEW next \in PCs, NEW kid \in Pids, kid # p,
         NEW first \in Nat, NEW last \in Nat,
         pc[p] = from, pc' = [pc EXCEPT ![p] = next, ![kid] = "call"],
         begin' = [begin EXCEPT ![kid] = first], end' = [end EXCEPT ![kid] = last],
         UNCHANGED <<status, arr, input>>
  PROVE  Begets(p, from, next, kid, first, last) /\ Functions'
<1>1. \A q \in Pids : pc'[q] = IF q = kid THEN "call" ELSE IF q = p THEN next ELSE pc[q]
  BY DEF Functions
<1>2. \A q \in Pids : /\ begin'[q] = IF q = kid THEN first ELSE begin[q]
                     /\ end'[q] = IF q = kid THEN last ELSE end[q]
  BY DEF Functions
<1>3. "call" \in PCs
  BY DEF PCs
<1>4. pc' \in [Pids -> PCs]
  BY <1>3 DEF Functions
<1>5. status' = status /\ file' = file /\ threshold' = threshold
  BY DEF input
<1>6. begin' \in [Pids -> Nat] /\ end' \in [Pids -> Nat]
  BY DEF Functions
<1> QED
  BY <1>1, <1>2, <1>4, <1>5, <1>6 DEF Begets, Functions

(* The steps that the invariants are about. *)
Stirs(p) ==
  \/ p = 1 /\ Moves(p, "start", "call")
  \/ \E next \in {"sort", "fork1"} : Moves(p, "call", next)
  \/ p = 1 /\ pc[p] \in {"sort", "merge"} /\ Moves(p, pc[p], "close")
  \/ pc[p] \in {"sort", "merge", "close"} /\ Ends(p, "success")
  \/ Ends(p, "failure") \/ Ends(p, "killed")
  \/ Begets(p, "fork1", "fork2", 2 * p, begin[p], Middle(p))
  \/ Begets(p, "fork2", "wait1", 2 * p + 1, Middle(p), end[p])
  \/ Moves(p, "wait1", "wait2") /\ pc[2 * p] = "ended" /\ status[2 * p] = "success"
  \/ Moves(p, "wait2", "merge") /\ pc[2 * p + 1] = "ended" /\ status[2 * p + 1] = "success"

LEMMA MiddleInside ==
  ASSUME Typed, NEW p \in Pids
  PROVE  Middle(p) \in Nat /\ begin[p] <= Middle(p) /\ Middle(p) <= end[p]
BY DEF Typed, Middle

LEMMA StepStirs ==
  ASSUME Typed, NEW p \in Pids, Step(p) \/ Kill(p)
  PROVE  Stirs(p) /\ Functions'
<1> USE NumbersAssumption
<1>0. Functions /\ p \in Nat /\ 2 * p # p /\ 2 * p + 1 # p
  BY DEF Typed, Functions, Pids
<1>1. ASSUME p = 1, Start PROVE Stirs(p) /\ Functions'
  <2>1. Unmoved
    BY <1>1 DEF Start, segments, input, Unmoved
  <2>2. "call" \in PCs /\ "start" \in PCs \ {"none", "ended"}
    BY DEF PCs
  <2>3. CASE Goto(1, "start", "call")
    BY <1>0, <1>1, <2>1, <2>2, <2>3, GotoMoves DEF Stirs
  <2>4. CASE Exit(1, "start", "failure")
    BY <1>0, <1>1, <2>1, <2>2, <2>4, ExitEnds DEF Stirs
  <2> QED
    BY <1>1, <2>3, <2>4 DEF Start
<1>2. ASSUME p = 1, Close PROVE Stirs(p) /\ Functions'
  <2>1. Unmoved
    BY <1>2 DEF Close, segments, input, Unmoved
  <2>2. "close" \in PCs \ {"none", "ended"}
    BY DEF PCs
  <2> QED
    BY <1>0, <1>2, <2>1, <2>2, ExitEnds DEF Close, Stirs
<1>3. ASSUME Call(p) PROVE Stirs(p) /\ Functions'
  <2>1. Unmoved
    BY <1>3 DEF Call, segments, input, Unmoved
  <2>2. PICK next \in {"sort", "fork1"} : Goto(p, "call", next)
    BY <1>3 DEF Call
  <2>3. next \in PCs
    BY DEF PCs
  <2> QED
    BY <1>0, <2>1, <2>2, <2>3, GotoMoves DEF Stirs
<1>4. ASSUME NEW from \in {"sort", "merge"}, Return(p, from), Unmoved
      PROVE  Stirs(p) /\ Functions'
  <2>1. from \in PCs \ {"none", "ended"} /\ "close" \in PCs
    BY DEF PCs
  <2>2. CASE p = 1
    <3>1. Goto(p, from, "close")
      BY <1>4, <2>2 DEF Return
    <3>2. Moves(p, from, "close") /\ Functions'
      BY <1>0, <1>4, <2>1, <3>1, GotoMoves
    <3> QED
      BY <2>2, <3>2 DEF Stirs, Moves
  <2>3. CASE p # 1
    <3>1. Exit(p, from, "success")
      BY <1>4, <2>3 DEF Return
    <3>2. Ends(p, "success") /\ pc[p] = from /\ Functions'
      BY <1>0, <1>4, <2>1, <3>1, ExitEnds
    <3> QED
      BY <3>2 DEF Stirs
  <2> QED
    BY <2>2, <2>3
<1>5. ASSUME Sort(p) PROVE Stirs(p) /\ Functions'
  <2>1. Return(p, "sort") /\ Unmoved
    BY <1>5 DEF Sort, segments, input, Unmoved
  <2> QED
    BY <1>4, <2>1
<1>6. ASSUME Merge(p) PROVE Stirs(p) /\ Functions'
  <2>1. Return(p, "merge") /\ Unmoved
    BY <1>6 DEF Merge, segments, input, Unmoved
  <2> QED
    BY <1>4, <2>1
<1>7. ASSUME NEW from \in PCs \ {"none", "ended"}, Exit(p, from, "failure"),
             UNCHANGED <<segments, arr, input>>
      PROVE  Stirs(p) /\ Functions'
  <2>1. Unmoved
    BY <1>7 DEF segments, input, Unmoved
  <2> QED
    BY <1>0, <1>7, <2>1, ExitEnds DEF Stirs
<1>8. {"fork1", "fork2", "wait1", "wait2", "merge"} \subseteq PCs \ {"none", "ended"}
  BY DEF PCs
<1>9. ASSUME Fork1(p) PROVE Stirs(p) /\ Functions'
  <2>1. CASE /\ 2 * p \in Pids /\ pc[p] = "fork1"
             /\ pc' = [pc EXCEPT ![p] = "fork2", ![2 * p] = "call"]
             /\ begin' = [begin EXCEPT ![2 * p] = begin[p]]
             /\ end' = [end EXCEPT ![2 * p] = Middle(p)]
             /\ UNCHANGED <<status, arr, input>>
    <3>1. begin[p] \in Nat
      BY DEF Typed
    <3> HIDE DEF Typed
    <3>2. Begets(p, "fork1", "fork2", 2 * p, begin[p], Middle(p)) /\ Functions'
      BY <1>0, <1>8, <2>1, <3>1, MiddleInside, ForkBegets
    <3> QED
      BY <3>2 DEF Stirs
  <2> QED
    BY <1>7, <1>8, <1>9, <2>1 DEF Fork1, Fork
<1>10. ASSUME Fork2(p) PROVE Stirs(p) /\ Functions'
  <2>1. CASE /\ 2 * p + 1 \in Pids /\ pc[p] = "fork2"
             /\ pc' = [pc EXCEPT ![p] = "wait1", ![2 * p + 1] = "call"]
             /\ begin' = [begin EXCEPT ![2 * p + 1] = Middle(p)]
             /\ end' = [end EXCEPT ![2 * p + 1] = end[p]]
             /\ UNCHANGED <<status, arr, input>>
    <3>1. end[p] \in Nat
      BY DEF Typed
    <3>2. Begets(p, "fork2", "wait1", 2 * p + 1, Middle(p), end[p]) /\ Functions'
      BY <1>0, <1>8, <2>1, <3>1, MiddleInside, ForkBegets
    <3> QED
      BY <3>2 DEF Stirs
  <2> QED
    BY <1>7, <1>8, <1>10, <2>1 DEF Fork2, Fork
<1>11. ASSUME NEW from \in PCs \ {"none", "ended"}, NEW next \in PCs, NEW kid,
              Wait(p, from, next, kid)
       PROVE  /\ Functions'
              /\ \/ Ends(p, "failure")
                 \/ Moves(p, from, next) /\ pc[kid] = "ended" /\ status[kid] = "success"
  <2>1. Unmoved
    BY <1>11 DEF Wait, segments, input, Unmoved
  <2>2. CASE Goto(p, from, next) /\ pc[kid] = "ended" /\ status[kid] = "success"
    BY <1>0, <2>1, <2>2, GotoMoves
  <2>3. CASE Exit(p, from, "failure") /\ pc[kid] = "ended"
    BY <1>0, <2>1, <2>3, ExitEnds
  <2> QED
    BY <1>11, <2>2, <2>3 DEF Wait
<1>12. ASSUME Wait1(p) \/ Wait2(p) PROVE Stirs(p) /\ Functions'
  BY <1>8, <1>11, <1>12 DEF Wait1, Wait2, Stirs
<1>13. ASSUME Kill(p) PROVE Stirs(p) /\ Functions'
  <2>1. Unmoved /\ Exit(p, pc[p], "killed") /\ pc[p] \in PCs \ {"none", "ended"}
    BY <1>0, <1>13 DEF Kill, segments, input, Unmoved, Functions
  <2> QED
    BY <1>0, <2>1, ExitEnds DEF Stirs
<1> QED
  BY <1>1, <1>2, <1>3, <1>5, <1>6, <1>9, <1>10, <1>12, <1>13 DEF Step

-----------------------------------------------------------------------------
(* The invariant but for the array, from the shape of the steps. *)

LEMMA TypedStep ==
  ASSUME Typed, NEW p \in Pids, Stirs(p), Functions'
  PROVE  Typed'
<1> USE DEF Typed, Functions
<1>1. CASE Unmoved
  BY <1>1 DEF Unmoved
<1>2. ASSUME NEW from, NEW next, NEW kid, NEW first \in Nat, NEW last \in Nat,
             first <= last, last <= end[p], Begets(p, from, next, kid, first, last)
      PROVE  Typed'
  <2>1. file' = file /\ threshold' = threshold
    BY <1>2 DEF Begets
  <2>2. PICK n \in Nat : n = Len(file)
    BY FilesAssumption
  <2>3. ASSUME NEW q \in Pids PROVE begin'[q] <= end'[q] /\ end'[q] <= Len(file)
    <3>1. begin[q] <= end[q] /\ end[q] <= n /\ end[p] <= n /\ begin[q] \in Nat /\ end[q] \in Nat /\ end[p] \in Nat
      BY <2>2
    <3>2. begin'[q] = IF q = kid THEN first ELSE begin[q]
      BY <1>2 DEF Begets
    <3>3. end'[q] = IF q = kid THEN last ELSE end[q]
      BY <1>2 DEF Begets
    <3> HIDE DEF Typed, Functions
    <3> QED
      BY <1>2, <2>2, <3>1, <3>2, <3>3
  <2> QED
    BY <2>1, <2>3
<1> QED
  BY <1>1, <1>2, MiddleInside DEF Stirs, Moves, Ends

LEMMA FamiliesStep ==
  ASSUME Typed, Families, NEW p \in Pids, Stirs(p), NEW q \in Pids
  PROVE  Family(q)'
<1>0. p \in Nat /\ q \in Nat /\ \A n \in Nat : n \in Pids <=> 1 <= n /\ n <= MaxPid
  BY NumbersAssumption DEF Pids
<1>1. Family(p) /\ Family(q)
  BY DEF Families
<1>2. /\ 2 * q \in Pids => Family(2 * q)
      /\ 2 * q + 1 \in Pids => Family(2 * q + 1)
  BY DEF Families
<1> USE DEF Family, Childless, OneChild
<1>3. ASSUME NEW next \in {"sort", "fork1"}, Moves(p, "call", next) PROVE Family(q)'
  BY <1>0, <1>1, <1>3 DEF Moves, Unmoved, Middle
<1>4. ASSUME p = 1, Moves(p, "start", "call") PROVE Family(q)'
  BY <1>0, <1>1, <1>4 DEF Moves, Unmoved, Middle
<1>5. ASSUME p = 1, pc[p] \in {"sort", "merge"}, Moves(p, pc[p], "close") PROVE Family(q)'
  BY <1>0, <1>1, <1>5 DEF Moves, Unmoved, Middle
<1>6. ASSUME NEW code \in {"success", "failure", "killed"}, Ends(p, code) PROVE Family(q)'
  BY <1>0, <1>1, <1>2, <1>6 DEF Ends, Unmoved, Middle
<1>7. ASSUME Begets(p, "fork1", "fork2", 2 * p, begin[p], Middle(p)) PROVE Family(q)'
  BY <1>0, <1>1, <1>2, <1>7 DEF Begets, Middle
<1>8. ASSUME Begets(p, "fork2", "wait1", 2 * p + 1, Middle(p), end[p]) PROVE Family(q)'
  BY <1>0, <1>1, <1>2, <1>8 DEF Begets, Middle
<1>9. ASSUME Moves(p, "wait1", "wait2"), status[2 * p] = "success" PROVE Family(q)'
  BY <1>0, <1>1, <1>9 DEF Moves, Unmoved, Middle
<1>10. ASSUME Moves(p, "wait2", "merge"), status[2 * p + 1] = "success" PROVE Family(q)'
  BY <1>0, <1>1, <1>10 DEF Moves, Unmoved, Middle
<1> HIDE DEF Family
<1> QED
  BY <1>3, <1>4, <1>5, <1>6, <1>7, <1>8, <1>9, <1>10 DEF Stirs

LEMMA SuccessStep ==
  ASSUME Typed, Families, SuccessBelow, NEW p \in Pids, Stirs(p), NEW q \in Pids,
         Succeeded(q)'
  PROVE  Finished(2 * q)' /\ Finished(2 * q + 1)'
<1>0. p \in Nat /\ q \in Nat /\ \A n \in Nat : n \in Pids <=> 1 <= n /\ n <= MaxPid
  BY NumbersAssumption DEF Pids
<1>1. Family(p) /\ Family(q)
  BY DEF Families
<1>2. Succeeded(q) => Finished(2 * q) /\ Finished(2 * q + 1)
  BY DEF SuccessBelow
<1> USE DEF Succeeded, Finished, Family, Childless, OneChild
<1>3. ASSUME NEW from, NEW next \in {"call", "sort", "fork1", "wait2", "merge", "close"},
             Moves(p, from, next), from \notin {"none", "ended"},
             next = "close" => from \in {"sort", "merge"}
      PROVE  Finished(2 * q)' /\ Finished(2 * q + 1)'
  BY <1>0, <1>1, <1>2, <1>3 DEF Moves
<1>4. ASSUME NEW code \in {"success", "failure", "killed"}, Ends(p, code),
             code = "success" => pc[p] \in {"sort", "merge", "close"}
      PROVE  Finished(2 * q)' /\ Finished(2 * q + 1)'
  BY <1>0, <1>1, <1>2, <1>4 DEF Ends
<1>5. ASSUME NEW from \in {"fork1", "fork2"}, NEW next \in {"fork2", "wait1"}, NEW kid,
             NEW first, NEW last, kid = 2 * p \/ kid = 2 * p + 1,
             Begets(p, from, next, kid, first, last)
      PROVE  Finished(2 * q)' /\ Finished(2 * q + 1)'
  BY <1>0, <1>1, <1>2, <1>5 DEF Begets
<1> HIDE DEF Succeeded, Finished, Family
<1>6. ASSUME p = 1, pc[p] \in {"sort", "merge"}, Moves(p, pc[p], "close")
      PROVE  Finished(2 * q)' /\ Finished(2 * q + 1)'
  BY <1>3, <1>6
<1> QED
  BY <1>3, <1>4, <1>5, <1>6 DEF Stirs

-----------------------------------------------------------------------------
(* Elements change hands. *)

(* Nobody holds more than before. *)
LEMMA HeldLess ==
  ASSUME HeldOnce, \A q \in Pids, k \in Nat : Holds(q, k)' => Holds(q, k)
  PROVE  HeldOnce'
BY DEF HeldOnce

(* The process to gets some of what the process from held. *)
LEMMA HeldMoves ==
  ASSUME HeldOnce, NEW from \in Pids, NEW to \in Pids, from # to,
         \A q \in Pids \ {to}, k \in Nat : Holds(q, k)' => Holds(q, k),
         \A k \in Nat : Holds(to, k)' => Holds(to, k) \/ (Holds(from, k) /\ ~Holds(from, k)')
  PROVE  HeldOnce'
BY DEF HeldOnce

LEMMA HeldStep ==
  ASSUME Typed, Families, HeldOnce, NEW p \in Pids, Stirs(p)
  PROVE  HeldOnce'
<1>0. p \in Nat /\ \A n \in Nat : n \in Pids <=> 1 <= n /\ n <= MaxPid
  BY NumbersAssumption DEF Pids
<1>1. \A q \in Pids : Family(q) /\ q \in Nat
  BY <1>0 DEF Families, Pids
<1>2. \A q \in Pids : begin[q] \in Nat /\ end[q] \in Nat
  BY DEF Typed
<1>3. \A q \in Pids : Middle(q) \in Nat /\ begin[q] <= Middle(q) /\ Middle(q) <= end[q]
  BY MiddleInside
<1>4. ASSUME Unmoved PROVE \A q \in Pids : Middle(q)' = Middle(q)
  BY <1>4 DEF Unmoved, Middle
(* A step that takes nothing from a child. *)
<1>5. ASSUME NEW next \in {"call", "sort", "fork1", "close"}, Moves(p, pc[p], next),
             pc[p] \in {"start", "call", "sort", "merge"}
      PROVE  HeldOnce'
  <2>1. \A q \in Pids : Counts(q)' => Counts(q)
    BY <1>5 DEF Moves, Awaited, Counts
  <2>2. \A q \in Pids, k \in Nat : Holds(q, k)' => Holds(q, k)
    BY <1>1, <1>4, <1>5, <2>1 DEF Holds, Moves, Unmoved, Family
  <2> QED
    BY <2>2, HeldLess
<1>6. ASSUME NEW code, Ends(p, code), code = "success" => pc[p] \in {"sort", "merge", "close"}
      PROVE  HeldOnce'
  <2>1. \A q \in Pids \ {p} : Counts(q)' => Counts(q)
    BY <1>6 DEF Ends, Awaited, Counts
  <2>2. Counts(p)' => pc[p] \in {"sort", "merge", "close"}
    BY <1>6 DEF Ends, Counts
  <2>3. \A q \in Pids, k \in Nat : Holds(q, k)' => Holds(q, k)
    BY <1>1, <1>4, <1>6, <2>1, <2>2 DEF Holds, Ends, Unmoved, Family
  <2> QED
    BY <2>3, HeldLess
<1>7. ASSUME Begets(p, "fork1", "fork2", 2 * p, begin[p], Middle(p)) PROVE HeldOnce'
  <2>1. 2 * p \in Pids /\ 2 * p # p /\ pc[p] = "fork1" /\ pc[2 * p] = "none" /\ status[2 * p] = "none"
    BY <1>0, <1>1, <1>7 DEF Begets, Family, Childless
  <2>2. Middle(p)' = Middle(p)
    BY <1>7, <2>1 DEF Begets, Middle
  <2>3. \A q \in Pids \ {2 * p} : Middle(q)' = Middle(q)
    BY <1>7, <2>1 DEF Begets, Middle
  <2>4. \A q \in Pids : Counts(q)' => Counts(q) \/ q = 2 * p
    BY <1>0, <1>1, <1>7 DEF Begets, Awaited, Counts
  <2>5. \A q \in Pids \ {2 * p}, k \in Nat : Holds(q, k)' => Holds(q, k)
    BY <1>1, <1>7, <2>1, <2>3, <2>4 DEF Holds, Begets
  <2>6. ASSUME NEW k \in Nat, Holds(2 * p, k)' PROVE Holds(p, k) /\ ~Holds(p, k)'
    <3>1. begin[p] < k /\ k <= Middle(p)
      BY <1>7, <2>1, <2>6 DEF Holds, Begets
    <3>2. Holds(p, k)
      BY <1>2, <1>3, <2>1, <3>1 DEF Holds
    <3>3. status'[p] # "success" /\ pc'[p] = "fork2"
      BY <1>1, <1>7, <2>1 DEF Begets, Family
    <3>4. ~Holds(p, k)'
      BY <1>2, <1>3, <2>2, <3>1, <3>3 DEF Holds, Counts
    <3> QED
      BY <3>2, <3>4
  <2> QED
    BY <2>1, <2>5, <2>6, HeldMoves
<1>8. ASSUME Begets(p, "fork2", "wait1", 2 * p + 1, Middle(p), end[p]) PROVE HeldOnce'
  <2> DEFINE c == 2 * p + 1
  <2>1. c \in Pids /\ c # p /\ pc[p] = "fork2" /\ pc[c] = "none" /\ status[c] = "none"
    BY <1>0, <1>1, <1>8 DEF Begets, Family, Childless, OneChild
  <2>2. \A q \in Pids \ {c} : Middle(q)' = Middle(q)
    BY <1>8, <2>1 DEF Begets, Middle
  <2>3. \A q \in Pids : Counts(q)' => Counts(q) \/ q = c
    BY <1>0, <1>1, <1>8 DEF Begets, Awaited, Counts
  <2>4. \A q \in Pids \ {c}, k \in Nat : Holds(q, k)' => Holds(q, k)
    BY <1>1, <1>8, <2>1, <2>2, <2>3 DEF Holds, Begets
  <2>5. ASSUME NEW k \in Nat, Holds(c, k)' PROVE Holds(p, k) /\ ~Holds(p, k)'
    <3>1. Middle(p) < k /\ k <= end[p]
      BY <1>8, <2>1, <2>5 DEF Holds, Begets
    <3>2. Holds(p, k)
      BY <1>2, <1>3, <2>1, <3>1 DEF Holds
    <3>3. status'[p] # "success" /\ pc'[p] = "wait1"
      BY <1>1, <1>8, <2>1 DEF Begets, Family
    <3>4. ~Holds(p, k)'
      BY <3>3 DEF Holds, Counts
    <3> QED
      BY <3>2, <3>4
  <2> HIDE DEF c
  <2> QED
    BY <2>1, <2>4, <2>5, HeldMoves
<1>9. ASSUME Moves(p, "wait1", "wait2"), pc[2 * p] = "ended", status[2 * p] = "success"
      PROVE  HeldOnce'
  <2> DEFINE c == 2 * p
  <2>1. /\ c \in Pids /\ c # p /\ pc[p] = "wait1" /\ pc'[c] = "ended"
        /\ begin[c] = begin[p] /\ end[c] = Middle(p)
    BY <1>0, <1>1, <1>9 DEF Moves, Family
  <2>2. ~Counts(c)' /\ \A q \in Pids : Counts(q)' => Counts(q)
    BY <1>0, <1>1, <1>9 DEF Moves, Awaited, Counts
  <2>3. \A q \in Pids \ {p}, k \in Nat : Holds(q, k)' => Holds(q, k)
    BY <1>4, <1>9, <2>2 DEF Holds, Moves, Unmoved
  <2>4. ASSUME NEW k \in Nat, Holds(p, k)' PROVE Holds(c, k) /\ ~Holds(c, k)'
    <3>1. status'[p] # "success" /\ pc'[p] = "wait2"
      BY <1>1, <1>9 DEF Moves, Family
    <3>2. begin[p] < k /\ k <= Middle(p)
      <4>1. pc'[p] = "wait2" /\ begin' = begin /\ Middle(p)' = Middle(p)
        BY <1>4, <1>9, <3>1 DEF Moves, Unmoved
      <4> QED
        BY <2>4, <3>1, <4>1 DEF Holds, Counts
    <3>3. Counts(c)
      BY <1>9 DEF Awaited, Moves, Counts
    <3>4. Holds(c, k)
      BY <1>9, <2>1, <3>2, <3>3 DEF Holds
    <3>5. ~Holds(c, k)'
      BY <2>1, <2>2 DEF Holds
    <3> QED
      BY <3>4, <3>5
  <2> HIDE DEF c
  <2> QED
    BY <2>1, <2>3, <2>4, HeldMoves
<1>10. ASSUME Moves(p, "wait2", "merge"), pc[2 * p + 1] = "ended", status[2 * p + 1] = "success"
       PROVE  HeldOnce'
  <2> DEFINE c == 2 * p + 1
  <2>1. /\ c \in Pids /\ c # p /\ pc[p] = "wait2" /\ pc'[c] = "ended"
        /\ begin[c] = Middle(p) /\ end[c] = end[p]
    BY <1>0, <1>1, <1>10 DEF Moves, Family
  <2>2. ~Counts(c)' /\ \A q \in Pids : Counts(q)' => Counts(q)
    BY <1>0, <1>1, <1>10 DEF Moves, Awaited, Counts
  <2>3. \A q \in Pids \ {p}, k \in Nat : Holds(q, k)' => Holds(q, k)
    BY <1>4, <1>10, <2>2 DEF Holds, Moves, Unmoved
  <2>4. ASSUME NEW k \in Nat, Holds(p, k)' PROVE Holds(p, k) \/ (Holds(c, k) /\ ~Holds(c, k)')
    <3>1. begin[p] < k /\ k <= end[p]
      BY <1>10, <2>4 DEF Holds, Moves, Unmoved
    <3>2. Counts(c)
      BY <1>10 DEF Awaited, Moves, Counts
    <3>3. Middle(p) < k => Holds(c, k)
      BY <1>10, <2>1, <3>1, <3>2 DEF Holds
    <3>4. ~Holds(c, k)'
      BY <2>1, <2>2 DEF Holds
    <3>5. k <= Middle(p) => Holds(p, k)
      BY <2>1, <3>1 DEF Holds
    <3> QED
      BY <1>3, <3>3, <3>4, <3>5
  <2> HIDE DEF c
  <2> QED
    BY <2>1, <2>3, <2>4, HeldMoves
<1> QED
  BY <1>5, <1>6, <1>7, <1>8, <1>9, <1>10 DEF Stirs, Moves

-----------------------------------------------------------------------------
(* What the steps write. *)

LEMMA SegmentCopies ==
  ASSUME Typed, Mapped, NEW p \in Pids
  PROVE  /\ begin[p] \in Nat /\ end[p] \in Nat /\ begin[p] <= end[p] /\ end[p] <= Len(arr)
         /\ arr \in Seq(Nat) /\ Len(arr) = Len(file) /\ Len(file) \in Nat
         /\ file \in Seq(Nat)
         /\ Array(Segment(p), end[p] - begin[p])
<1>1. arr \in Seq(Nat) /\ Len(arr) = Len(file) /\ file \in Seq(Nat) /\ Len(file) \in Nat
  BY FilesAssumption DEF Typed, Mapped, Array
<1>2. begin[p] \in Nat /\ end[p] \in Nat /\ begin[p] <= end[p] /\ end[p] <= Len(arr)
  BY <1>1 DEF Typed
<1>3. Copies(Segment(p), end[p] - begin[p], arr, begin[p])
  BY <1>1, <1>2, Cut DEF Segment
<1> QED
  BY <1>1, <1>2, <1>3 DEF Copies, Array

(* A sequence that is written over a segment. *)
LEMMA RewrittenIs ==
  ASSUME Typed, Mapped, NEW p \in Pids, NEW seg, Array(seg, end[p] - begin[p]),
         arr' = Rewritten(p, seg)
  PROVE  /\ Array(arr', Len(file))
         /\ SubSeq(arr', begin[p] + 1, end[p]) = seg
         /\ SameBut(arr', arr, Len(file), begin[p], end[p])
<1> DEFINE lo == begin[p]
           hi == end[p]
           n == Len(file)
<1>1. lo \in Nat /\ hi \in Nat /\ lo <= hi /\ hi <= Len(arr) /\ arr \in Seq(Nat) /\ Len(arr) = n
  BY SegmentCopies
<1>2. seg \in Seq(Nat) /\ Len(seg) = hi - lo
  BY DEF Array
<1>3. arr' = Splice(arr, lo, seg, hi)
  BY DEF Rewritten, Splice
<1> HIDE DEF lo, hi, n
<1>4. Array(arr', n)
  BY <1>1, <1>2, <1>3, Spliced
<1>5. SubSeq(arr', lo + 1, hi) = seg
  <2>1. SubSeq(Splice(arr, lo, seg, hi), lo + 1, hi) = seg
    BY <1>1, <1>2, Spliced
  <2> QED
    BY <1>3, <2>1
<1>6. SameBut(arr', arr, n, lo, hi)
  BY <1>1, <1>2, <1>3, Spliced
<1> QED
  BY <1>4, <1>5, <1>6 DEF lo, hi, n

LEMMA MixtureIsArray ==
  ASSUME NEW n \in Nat, NEW s, Array(s, n), NEW seg \in Mixtures(s)
  PROVE  /\ Array(seg, n) /\ DOMAIN seg = 1 .. n /\ DOMAIN s = 1 .. n
         /\ \A i \in 1 .. n : \E j \in 1 .. n : seg[i] = s[j]
<1>1. s \in Seq(Nat) /\ DOMAIN s = 1 .. n
  BY DEF Array
<1>2. seg \in [1 .. n -> {s[i] : i \in 1 .. n}]
  BY <1>1 DEF Mixtures
<1>3. \A i \in 1 .. n : \E j \in 1 .. n : seg[i] = s[j]
  BY <1>2
<1>4. \A i \in 1 .. n : s[i] \in Nat
  BY <1>1 DEF Array
<1>5. seg \in [1 .. n -> Nat]
  BY <1>2, <1>3, <1>4
<1>6. Array(seg, n)
  BY <1>5 DEF Array
<1> QED
  BY <1>1, <1>2, <1>3, <1>6

(* What is sorted with the same counts of its own values has the same count *)
(* of every value.                                                          *)
LEMMA SortCounts ==
  ASSUME NEW n \in Nat, NEW s, Array(s, n), NEW seg \in Mixtures(s), IsSortOf(seg, s), NEW v
  PROVE  Count(seg, v) = Count(s, v)
<1>1. DOMAIN seg = 1 .. n /\ DOMAIN s = 1 .. n
  BY MixtureIsArray
<1>2. \A i \in 1 .. n : \E j \in 1 .. n : seg[i] = s[j]
  BY MixtureIsArray
<1>3. CASE \E i \in 1 .. n : s[i] = v
  BY <1>1, <1>3 DEF IsSortOf
<1>4. CASE ~\E i \in 1 .. n : s[i] = v
  <2>1. {i \in DOMAIN s : s[i] = v} = {} /\ {i \in DOMAIN seg : seg[i] = v} = {}
    BY <1>1, <1>2, <1>4
  <2> QED
    BY <2>1 DEF Count
<1> QED
  BY <1>3, <1>4

LEMMA SortDone ==
  ASSUME Typed, Mapped, NEW p \in Pids, Agree(arr, file, begin[p], end[p]), Sort(p)
  PROVE  /\ Array(arr', Len(file)) /\ SameBut(arr', arr, Len(file), begin[p], end[p])
         /\ Done(arr', file, begin[p], end[p])
<1> DEFINE b == begin[p]
           e == end[p]
           s == Segment(p)
<1>1. b \in Nat /\ e \in Nat /\ b <= e /\ e <= Len(arr) /\ arr \in Seq(Nat) /\ Len(arr) = Len(file)
  BY SegmentCopies
<1>2. Array(s, e - b)
  BY SegmentCopies
<1>3. PICK seg \in Mixtures(s) : IsSortOf(seg, s) /\ arr' = Rewritten(p, seg)
  BY DEF Sort
<1>4. e - b \in Nat
  BY <1>1
<1>5. Array(seg, e - b)
  BY <1>2, <1>4, MixtureIsArray
<1>6. Array(arr', Len(file)) /\ SubSeq(arr', b + 1, e) = seg /\ SameBut(arr', arr, Len(file), b, e)
  BY <1>3, <1>5, RewrittenIs
<1>7. Ascending(seg)
  BY <1>3 DEF IsSortOf, Ascending
<1>8. s = SubSeq(arr, b + 1, e)
  BY DEF Segment
<1> HIDE DEF b, e, s
<1>9. arr' \in Seq(Nat) /\ Len(arr') = Len(arr)
  BY <1>1, <1>6 DEF Array
<1>10. Sorted(arr', b, e)
  BY <1>1, <1>6, <1>7, <1>9, CutSorted
<1>11. ASSUME NEW v \in Nat PROVE CountIn(arr', b, e, v) = CountIn(file, b, e, v)
  <2>1. Count(seg, v) = CountIn(arr', b, e, v)
    BY <1>1, <1>6, <1>9, CutCount
  <2>2. Count(s, v) = CountIn(arr, b, e, v)
    BY <1>1, <1>8, CutCount
  <2>3. Count(seg, v) = Count(s, v)
    BY <1>2, <1>3, <1>4, SortCounts
  <2>4. CountIn(arr, b, e, v) = CountIn(file, b, e, v)
    BY Untouched DEF b, e
  <2> QED
    BY <2>1, <2>2, <2>3, <2>4
<1>12. Done(arr', file, b, e)
  BY <1>10, <1>11 DEF Done
<1> QED
  BY <1>6, <1>12 DEF b, e

LEMMA MergeDone ==
  ASSUME Typed, Mapped, NEW p \in Pids,
         Done(arr, file, begin[p], Middle(p)), Done(arr, file, Middle(p), end[p]), Merge(p)
  PROVE  /\ Array(arr', Len(file)) /\ SameBut(arr', arr, Len(file), begin[p], end[p])
         /\ Done(arr', file, begin[p], end[p])
<1> DEFINE b == begin[p]
           m == Middle(p)
           e == end[p]
           l == SubSeq(arr, b + 1, m)
           r == SubSeq(arr, m + 1, e)
           s == Merged(l, r)
<1>1. b \in Nat /\ e \in Nat /\ b <= e /\ e <= Len(arr) /\ arr \in Seq(Nat) /\ Len(arr) = Len(file)
  BY SegmentCopies
<1>2. m \in Nat /\ b <= m /\ m <= e /\ m <= Len(arr)
  BY <1>1, MiddleInside
<1>3. Copies(l, m - b, arr, b) /\ Copies(r, e - m, arr, m)
  BY <1>1, <1>2, Cut
<1>4. arr' = Rewritten(p, s)
  BY DEF Merge
<1>a. Done(arr, file, b, m) /\ Done(arr, file, m, e)
  OBVIOUS
<1> HIDE DEF b, m, e
<1>5. Sorted(arr, b, m) /\ Sorted(arr, m, e)
  BY <1>a DEF Done
<1>6. Ascending(l) /\ Ascending(r)
  BY <1>1, <1>2, <1>5, CutSorted
<1>7. \A v : Count(l, v) = CountIn(arr, b, m, v)
  BY <1>1, <1>2, CutCount
<1>8. \A v : Count(r, v) = CountIn(arr, m, e, v)
  BY <1>1, <1>2, CutCount
<1> HIDE DEF l, r
<1>9. l \in Seq(Nat) /\ r \in Seq(Nat) /\ Len(l) = m - b /\ Len(r) = e - m
  BY <1>3 DEF Copies
<1>10. s \in Seq(Nat) /\ Len(s) = Len(l) + Len(r)
  BY <1>9, MergedIsSeq
<1>11. Array(s, e - b)
  <2>1. Len(s) = e - b
    BY <1>1, <1>2, <1>9, <1>10
  <2> QED
    BY <1>10, <2>1 DEF Array
<1>12. Ascending(s)
  BY <1>6, <1>9, MergedAscends
<1>13. ASSUME NEW v PROVE Count(s, v) = Count(l, v) + Count(r, v)
  BY <1>9, MergedCount
<1> HIDE DEF s
<1>14. Array(arr', Len(file)) /\ SubSeq(arr', b + 1, e) = s /\ SameBut(arr', arr, Len(file), b, e)
  BY <1>4, <1>11, RewrittenIs DEF b, e
<1>15. arr' \in Seq(Nat) /\ Len(arr') = Len(arr)
  BY <1>1, <1>14 DEF Array
<1>16. Sorted(arr', b, e)
  BY <1>1, <1>12, <1>14, <1>15, CutSorted
<1>17. ASSUME NEW v \in Nat PROVE CountIn(arr', b, e, v) = CountIn(file, b, e, v)
  <2>1. Count(s, v) = CountIn(arr', b, e, v)
    BY <1>1, <1>14, <1>15, CutCount
  <2>2. CountIn(arr, b, m, v) = CountIn(file, b, m, v)
    BY <1>a DEF Done
  <2>3. CountIn(arr, m, e, v) = CountIn(file, m, e, v)
    BY <1>a DEF Done
  <2>4. CountIn(file, b, e, v) = CountIn(file, b, m, v) + CountIn(file, m, e, v)
    BY <1>1, <1>2, CountAdds
  <2>5. Count(s, v) = CountIn(arr, b, m, v) + CountIn(arr, m, e, v)
    BY <1>7, <1>8, <1>13
  <2> QED
    BY <2>1, <2>2, <2>3, <2>4, <2>5
<1>18. Done(arr', file, b, e)
  BY <1>16, <1>17 DEF Done
<1> QED
  BY <1>14, <1>18 DEF b, e

(* What a step writes: nothing but the segment of a process that sorts or    *)
(* merges, which is done when the process leaves it alive.                   *)
LEMMA StepWrites ==
  ASSUME Typed, Mapped, NEW p \in Pids, Content(p), Step(p) \/ Kill(p)
  PROVE  /\ Mapped'
         /\ pc[p] \notin {"sort", "merge"} => arr' = arr
         /\ SameBut(arr', arr, Len(file), begin[p], end[p])
         /\ pc[p] \in {"sort", "merge"} /\ (pc'[p] = "close" \/ status'[p] = "success") =>
              Done(arr', file, begin[p], end[p])
<1>0. Functions
  BY DEF Typed, Functions
<1>1. ASSUME pc[p] \notin {"sort", "merge"}, UNCHANGED arr, UNCHANGED file
      PROVE  Mapped' /\ SameBut(arr', arr, Len(file), begin[p], end[p])
  BY <1>1 DEF Mapped, SameBut
<1>2. ASSUME Sort(p)
      PROVE  /\ Mapped' /\ pc[p] = "sort" /\ SameBut(arr', arr, Len(file), begin[p], end[p])
             /\ Done(arr', file, begin[p], end[p])
  <2>1. pc[p] = "sort" /\ file' = file
    BY <1>2 DEF Sort, Return, Goto, Exit, input
  <2>2. Agree(arr, file, begin[p], end[p])
    BY <2>1 DEF Content
  <2> QED
    BY <1>2, <2>1, <2>2, SortDone DEF Mapped
<1>3. ASSUME Merge(p)
      PROVE  /\ Mapped' /\ pc[p] = "merge" /\ SameBut(arr', arr, Len(file), begin[p], end[p])
             /\ Done(arr', file, begin[p], end[p])
  <2>1. pc[p] = "merge" /\ file' = file
    BY <1>3 DEF Merge, Return, Goto, Exit, input
  <2>2. Done(arr, file, begin[p], Middle(p)) /\ Done(arr, file, Middle(p), end[p])
    BY <2>1 DEF Content
  <2> QED
    BY <1>3, <2>1, <2>2, MergeDone DEF Mapped
<1>4. ASSUME Kill(p)
      PROVE  /\ Mapped' /\ SameBut(arr', arr, Len(file), begin[p], end[p])
             /\ pc[p] \notin {"sort", "merge"} => arr' = arr
             /\ pc'[p] = "ended" /\ status'[p] = "killed"
  <2>1. file' = file /\ pc'[p] = "ended" /\ status'[p] = "killed"
    BY <1>0, <1>4 DEF Kill, Exit, input, Functions
  <2>2. CASE p \in Writing
    <3>1. PICK seg \in Mixtures(Segment(p)) : arr' = Rewritten(p, seg)
      BY <1>4, <2>2 DEF Kill
    <3>2. end[p] - begin[p] \in Nat /\ Array(Segment(p), end[p] - begin[p])
      BY SegmentCopies
    <3>3. Array(seg, end[p] - begin[p])
      BY <3>2, MixtureIsArray
    <3>4. Array(arr', Len(file)) /\ SameBut(arr', arr, Len(file), begin[p], end[p])
      BY <3>1, <3>3, RewrittenIs
    <3> QED
      BY <2>1, <2>2, <3>4 DEF Mapped, Writing
  <2>3. CASE p \notin Writing
    <3>1. arr' = arr
      BY <1>4, <2>3 DEF Kill
    <3> QED
      BY <2>1, <3>1 DEF Mapped, SameBut
  <2> QED
    BY <2>2, <2>3, <2>1
<1>5. ASSUME \/ p = 1 /\ (Start \/ Close)
             \/ Call(p) \/ Fork1(p) \/ Fork2(p) \/ Wait1(p) \/ Wait2(p)
      PROVE  UNCHANGED arr /\ UNCHANGED file /\ pc[p] \notin {"sort", "merge"}
  BY <1>5 DEF Start, Close, Call, Fork1, Fork2, Fork, Wait1, Wait2, Wait, Goto, Exit, input
<1>6. CASE Sort(p)
  BY <1>2, <1>6
<1>7. CASE Merge(p)
  BY <1>3, <1>7
<1>8. CASE Kill(p)
  BY <1>4, <1>8
<1>9. CASE ~(Sort(p) \/ Merge(p) \/ Kill(p))
  <2>1. UNCHANGED arr /\ UNCHANGED file /\ pc[p] \notin {"sort", "merge"}
    BY <1>5, <1>9 DEF Step
  <2> QED
    BY <1>1, <2>1
<1> QED
  BY <1>6, <1>7, <1>8, <1>9

(* The elements a process holds are written by nobody else. *)
LEMMA KeptByOthers ==
  ASSUME Typed, Mapped, HeldOnce, NEW p \in Pids, NEW q \in Pids, q # p,
         pc[p] \notin {"sort", "merge"} => arr' = arr,
         SameBut(arr', arr, Len(file), begin[p], end[p]),
         NEW k \in 1 .. Len(file), Holds(q, k)
  PROVE  arr'[k] = arr[k]
<1>1. CASE pc[p] \notin {"sort", "merge"}
  BY <1>1
<1>2. CASE pc[p] \in {"sort", "merge"}
  <2>1. k \in Nat
    OBVIOUS
  <2>2. ~Holds(p, k)
    BY <2>1 DEF HeldOnce
  <2>3. ~(begin[p] < k /\ k <= end[p])
    BY <1>2, <2>2 DEF Holds
  <2> QED
    BY <2>3 DEF SameBut
<1> QED
  BY <1>1, <1>2

LEMMA DoneKept ==
  ASSUME NEW a, NEW b, NEW f, NEW lo, NEW hi, Agree(b, a, lo, hi)
  PROVE  /\ Agree(a, f, lo, hi) => Agree(b, f, lo, hi)
         /\ Done(a, f, lo, hi) => Done(b, f, lo, hi)
<1>1. ASSUME Agree(a, f, lo, hi) PROVE Agree(b, f, lo, hi)
  BY <1>1 DEF Agree
<1>2. ASSUME Done(a, f, lo, hi) PROVE Done(b, f, lo, hi)
  <2>1. Sorted(a, lo, hi) <=> Sorted(b, lo, hi)
    BY Untouched
  <2>2. \A v : CountIn(a, lo, hi, v) = CountIn(b, lo, hi, v)
    BY Untouched
  <2> QED
    BY <1>2, <2>1, <2>2 DEF Done
<1> QED
  BY <1>1, <1>2

(* A process that the step does not move keeps what it holds. *)
LEMMA ContentKept ==
  ASSUME Typed, Mapped, NEW q \in Pids, Content(q),
         pc'[q] = pc[q], begin'[q] = begin[q], end'[q] = end[q], file' = file,
         Counts(q)' => Counts(q),
         \A k \in 1 .. Len(file) : Holds(q, k) => arr'[k] = arr[k]
  PROVE  Content(q)'
<1> DEFINE b == begin[q]
           m == Middle(q)
           e == end[q]
<1>1. b \in Nat /\ e \in Nat /\ b <= e /\ e <= Len(file) /\ Len(file) \in Nat
  BY SegmentCopies
<1>2. m \in Nat /\ b <= m /\ m <= e
  BY MiddleInside
<1>3. Middle(q)' = m
  BY DEF Middle
<1>4. ASSUME NEW lo \in Nat, NEW hi \in Nat, b <= lo, hi <= e,
             \A k \in lo + 1 .. hi : Holds(q, k)
      PROVE  Agree(arr', arr, lo, hi)
  <2> SUFFICES ASSUME NEW k \in lo + 1 .. hi PROVE arr'[k] = arr[k]
    BY DEF Agree
  <2>1. k \in 1 .. Len(file) /\ Holds(q, k)
    BY <1>1, <1>4
  <2> QED
    BY <2>1
<1>5. ASSUME pc[q] \in {"start", "call", "sort", "fork1"} PROVE Agree(arr', file', b, e)
  <2>1. \A k \in b + 1 .. e : Holds(q, k)
    BY <1>1, <1>5 DEF Holds
  <2>2. Agree(arr, file, b, e)
    BY <1>5 DEF Content
  <2>3. Agree(arr', arr, b, e)
    BY <1>1, <1>4, <2>1
  <2> QED
    BY <2>2, <2>3, DoneKept
<1>6. ASSUME pc[q] = "fork2" PROVE Agree(arr', file', m, e)
  <2>1. \A k \in m + 1 .. e : Holds(q, k)
    BY <1>1, <1>2, <1>6 DEF Holds
  <2>2. Agree(arr, file, m, e)
    BY <1>6 DEF Content
  <2>3. Agree(arr', arr, m, e)
    BY <1>1, <1>2, <1>4, <2>1
  <2> QED
    BY <2>2, <2>3, DoneKept
<1>7. ASSUME pc[q] \in {"wait2", "merge"} PROVE Done(arr', file', b, m)
  <2>1. \A k \in b + 1 .. m : Holds(q, k)
    BY <1>1, <1>2, <1>7 DEF Holds
  <2>2. Done(arr, file, b, m)
    BY <1>7 DEF Content
  <2>3. Agree(arr', arr, b, m)
    BY <1>1, <1>2, <1>4, <2>1
  <2> QED
    BY <2>2, <2>3, DoneKept
<1>8. ASSUME pc[q] = "merge" PROVE Done(arr', file', m, e)
  <2>1. \A k \in m + 1 .. e : Holds(q, k)
    BY <1>1, <1>2, <1>8 DEF Holds
  <2>2. Done(arr, file, m, e)
    BY <1>8 DEF Content
  <2>3. Agree(arr', arr, m, e)
    BY <1>1, <1>2, <1>4, <2>1
  <2> QED
    BY <2>2, <2>3, DoneKept
<1>9. ASSUME pc[q] = "close" \/ Counts(q) PROVE Done(arr', file', b, e)
  <2>1. \A k \in b + 1 .. e : Holds(q, k)
    BY <1>1, <1>9 DEF Holds
  <2>2. Done(arr, file, b, e)
    BY <1>9 DEF Content
  <2>3. Agree(arr', arr, b, e)
    BY <1>1, <1>4, <2>1
  <2> QED
    BY <2>2, <2>3, DoneKept
<1> HIDE DEF m
<1> QED
  BY <1>3, <1>5, <1>6, <1>7, <1>8, <1>9 DEF Content

(* A part of an untouched segment is untouched. *)
LEMMA PartAgrees ==
  ASSUME NEW a, NEW f, NEW lo \in Nat, NEW hi \in Nat, Agree(a, f, lo, hi),
         NEW first \in Nat, NEW last \in Nat, lo <= first, last <= hi
  PROVE  Agree(a, f, first, last)
<1>1. first + 1 .. last \subseteq lo + 1 .. hi
  OBVIOUS
<1> QED
  BY <1>1 DEF Agree

LEMMA ContentOther ==
  ASSUME Typed, Mapped, HeldOnce, Contents, NEW p \in Pids, Step(p) \/ Kill(p),
         NEW q \in Pids, q # p, pc'[q] = pc[q], begin'[q] = begin[q], end'[q] = end[q],
         file' = file, Counts(q)' => Counts(q)
  PROVE  Content(q)'
<1>1. Content(p) /\ Content(q)
  BY DEF Contents
<1>2. pc[p] \notin {"sort", "merge"} => arr' = arr
  BY <1>1, StepWrites
<1>3. SameBut(arr', arr, Len(file), begin[p], end[p])
  BY <1>1, StepWrites
<1>4. \A k \in 1 .. Len(file) : Holds(q, k) => arr'[k] = arr[k]
  BY <1>2, <1>3, KeptByOthers
<1> QED
  BY <1>1, <1>4, ContentKept

LEMMA StatusNone ==
  ASSUME Families, NEW p \in Pids, pc[p] # "ended"
  PROVE  status[p] = "none"
BY DEF Families, Family

LEMMA ContentsStep ==
  ASSUME Typed, Mapped, Families, HeldOnce, Contents, NEW p \in Pids,
         Step(p) \/ Kill(p), Stirs(p), NEW q \in Pids
  PROVE  Content(q)'
<1>0. p \in Nat /\ \A n \in Nat : n \in Pids <=> 1 <= n /\ n <= MaxPid
  BY NumbersAssumption DEF Pids
<1>1. Family(p) /\ Family(q) /\ Content(p) /\ Content(q)
  BY DEF Families, Contents
<1>2. begin[p] \in Nat /\ end[p] \in Nat
  BY DEF Typed
<1>3. Middle(p) \in Nat /\ begin[p] <= Middle(p) /\ Middle(p) <= end[p]
  BY MiddleInside
<1>4. pc[p] \notin {"sort", "merge"} => arr' = arr
  BY <1>1, StepWrites
<1>5. pc[p] \in {"sort", "merge"} /\ (pc'[p] = "close" \/ status'[p] = "success") =>
        Done(arr', file, begin[p], end[p])
  BY <1>1, StepWrites
<1>6. ASSUME NEW r \in Pids, r # p, pc'[r] = pc[r], begin'[r] = begin[r], end'[r] = end[r],
             file' = file, Counts(r)' => Counts(r)
      PROVE  Content(r)'
  BY <1>6, ContentOther
<1>7. ASSUME NEW next \in {"call", "sort", "fork1", "close"}, Moves(p, pc[p], next),
             pc[p] \in {"start", "call", "sort", "merge"}, next = "close" <=> pc[p] \in {"sort", "merge"}
      PROVE  Content(q)'
  <2>1. \A r \in Pids : Counts(r)' => Counts(r)
    BY <1>7 DEF Moves, Awaited, Counts
  <2>2. pc'[q] = (IF q = p THEN next ELSE pc[q]) /\ Unmoved /\ status' = status
    BY <1>7 DEF Moves
  <2>3. CASE q # p
    BY <1>6, <2>1, <2>2, <2>3 DEF Unmoved
  <2>4. CASE q = p
    <3>1. status[p] # "success"
      BY <1>1, <1>7 DEF Family
    <3>2. ~Counts(p)'
      BY <2>2, <3>1 DEF Counts
    <3>3. begin'[p] = begin[p] /\ end'[p] = end[p] /\ file' = file /\ pc'[p] = next
      BY <2>2, <2>4 DEF Unmoved
    <3>4. CASE next = "close"
      <4>1. Done(arr', file', begin'[p], end'[p])
        BY <1>5, <1>7, <3>3, <3>4
      <4> QED
        BY <2>4, <3>2, <3>3, <3>4, <4>1 DEF Content
    <3>5. CASE next # "close"
      <4>1. Agree(arr, file, begin[p], end[p]) /\ arr' = arr
        BY <1>1, <1>4, <1>7, <3>5 DEF Content
      <4>2. Agree(arr', file', begin'[p], end'[p])
        BY <3>3, <4>1
      <4> QED
        BY <2>4, <3>2, <3>3, <3>5, <4>2 DEF Content
    <3> QED
      BY <3>4, <3>5
  <2> QED
    BY <2>3, <2>4
<1>8. ASSUME NEW code, Ends(p, code), code = "success" => pc[p] \in {"sort", "merge", "close"}
      PROVE  Content(q)'
  <2>1. \A r \in Pids \ {p} : Counts(r)' => Counts(r)
    BY <1>8 DEF Ends, Awaited, Counts
  <2>2. pc'[q] = (IF q = p THEN "ended" ELSE pc[q]) /\ Unmoved /\ status'[p] = code
    BY <1>8 DEF Ends
  <2>3. CASE q # p
    BY <1>6, <2>1, <2>2, <2>3 DEF Unmoved
  <2>4. CASE q = p
    <3>1. begin'[p] = begin[p] /\ end'[p] = end[p] /\ file' = file /\ pc'[p] = "ended"
      BY <2>2, <2>4 DEF Unmoved
    <3>2. ASSUME Counts(p)' PROVE Done(arr', file', begin'[p], end'[p])
      <4>1. code = "success"
        BY <2>2, <3>2 DEF Counts
      <4>2. CASE pc[p] = "close"
        <5>1. Done(arr, file, begin[p], end[p]) /\ arr' = arr
          BY <1>1, <1>4, <4>2 DEF Content
        <5> QED
          BY <3>1, <5>1
      <4>3. CASE pc[p] # "close"
        BY <1>5, <1>8, <2>2, <3>1, <4>1, <4>3
      <4> QED
        BY <4>2, <4>3
    <3> QED
      BY <2>4, <3>1, <3>2 DEF Content
  <2> QED
    BY <2>3, <2>4
<1>9. ASSUME Begets(p, "fork1", "fork2", 2 * p, begin[p], Middle(p)) PROVE Content(q)'
  <2> DEFINE c == 2 * p
  <2>1. c \in Pids /\ c # p /\ pc[p] = "fork1" /\ pc[c] = "none" /\ status[c] = "none" /\ status[p] = "none"
    <3>1. c \in Pids /\ c # p /\ pc[p] = "fork1"
      BY <1>0, <1>9 DEF Begets
    <3>2. pc[c] = "none" /\ status[p] = "none"
      BY <1>1, <3>1, StatusNone DEF Family, Childless
    <3> QED
      BY <3>1, <3>2, StatusNone
  <2>2. \A r \in Pids : Counts(r)' => Counts(r) \/ r = c
    BY <1>0, <1>1, <1>9 DEF Begets, Awaited, Counts
  <2> HIDE DEF c
  <2>3. /\ \A r \in Pids : /\ pc'[r] = IF r = c THEN "call" ELSE IF r = p THEN "fork2" ELSE pc[r]
                           /\ begin'[r] = IF r = c THEN begin[p] ELSE begin[r]
                           /\ end'[r] = IF r = c THEN Middle(p) ELSE end[r]
        /\ status' = status /\ file' = file
    BY <1>9 DEF Begets, c
  <2>4. arr' = arr /\ Agree(arr, file, begin[p], end[p])
    BY <1>1, <1>4, <2>1 DEF Content
  <2>5. CASE q = c
    <3>1. Agree(arr, file, begin[p], Middle(p))
      BY <1>2, <1>3, <2>4, PartAgrees
    <3>2. pc'[c] = "call" /\ Agree(arr', file', begin'[c], end'[c])
      BY <2>1, <2>3, <2>4, <3>1
    <3>3. ~Counts(c)'
      BY <2>1, <2>3 DEF Counts
    <3> QED
      BY <2>5, <3>2, <3>3 DEF Content
  <2>6. CASE q = p
    <3>1. Agree(arr, file, Middle(p), end[p])
      BY <1>2, <1>3, <2>4, PartAgrees
    <3>2. begin'[p] = begin[p] /\ end'[p] = end[p] /\ pc'[p] = "fork2"
      BY <2>1, <2>3
    <3>3. Middle(p)' = Middle(p)
      BY <3>2 DEF Middle
    <3>4. Agree(arr', file', Middle(p)', end'[p])
      BY <2>3, <2>4, <3>1, <3>2, <3>3
    <3>5. ~Counts(p)'
      BY <2>1, <2>3 DEF Counts
    <3> QED
      BY <2>6, <3>2, <3>4, <3>5 DEF Content
  <2>7. CASE q # c /\ q # p
    BY <1>6, <2>2, <2>3, <2>7
  <2> QED
    BY <2>5, <2>6, <2>7
<1>10. ASSUME Begets(p, "fork2", "wait1", 2 * p + 1, Middle(p), end[p]) PROVE Content(q)'
  <2> DEFINE c == 2 * p + 1
  <2>1. c \in Pids /\ c # p /\ pc[p] = "fork2" /\ pc[c] = "none" /\ status[c] = "none" /\ status[p] = "none"
    <3>1. c \in Pids /\ c # p /\ pc[p] = "fork2"
      BY <1>0, <1>10 DEF Begets
    <3>2. pc[c] = "none" /\ status[p] = "none"
      BY <1>1, <3>1, StatusNone DEF Family, OneChild
    <3> QED
      BY <3>1, <3>2, StatusNone
  <2>2. \A r \in Pids : Counts(r)' => Counts(r) \/ r = c
    BY <1>0, <1>1, <1>10 DEF Begets, Awaited, Counts
  <2> HIDE DEF c
  <2>3. /\ \A r \in Pids : /\ pc'[r] = IF r = c THEN "call" ELSE IF r = p THEN "wait1" ELSE pc[r]
                           /\ begin'[r] = IF r = c THEN Middle(p) ELSE begin[r]
                           /\ end'[r] = IF r = c THEN end[p] ELSE end[r]
        /\ status' = status /\ file' = file
    BY <1>10 DEF Begets, c
  <2>4. arr' = arr /\ Agree(arr, file, Middle(p), end[p])
    BY <1>1, <1>4, <2>1 DEF Content
  <2>5. CASE q = c
    <3>1. pc'[c] = "call" /\ Agree(arr', file', begin'[c], end'[c])
      BY <2>1, <2>3, <2>4
    <3>2. ~Counts(c)'
      BY <2>1, <2>3 DEF Counts
    <3> QED
      BY <2>5, <3>1, <3>2 DEF Content
  <2>6. CASE q = p
    <3>1. pc'[p] = "wait1"
      BY <2>1, <2>3
    <3>2. ~Counts(p)'
      BY <2>1, <2>3 DEF Counts
    <3> QED
      BY <2>6, <3>1, <3>2 DEF Content
  <2>7. CASE q # c /\ q # p
    BY <1>6, <2>2, <2>3, <2>7
  <2> QED
    BY <2>5, <2>6, <2>7
<1>11. ASSUME Moves(p, "wait1", "wait2"), status[2 * p] = "success" PROVE Content(q)'
  <2>1. /\ 2 * p \in Pids /\ pc[p] = "wait1" /\ status[p] = "none"
        /\ begin[2 * p] = begin[p] /\ end[2 * p] = Middle(p)
    BY <1>0, <1>1, <1>11, StatusNone DEF Moves, Family
  <2>2. \A r \in Pids : Counts(r)' => Counts(r)
    BY <1>11 DEF Moves, Awaited, Counts
  <2>3. pc'[q] = (IF q = p THEN "wait2" ELSE pc[q]) /\ Unmoved /\ status' = status
    BY <1>11 DEF Moves
  <2>4. CASE q = p
    <3>1. Counts(2 * p)
      BY <1>11, <2>1 DEF Counts, Awaited
    <3>2. Done(arr, file, begin[p], Middle(p)) /\ arr' = arr
      BY <1>4, <2>1, <3>1 DEF Contents, Content
    <3>3. begin'[p] = begin[p] /\ Middle(p)' = Middle(p) /\ file' = file /\ pc'[p] = "wait2"
      BY <2>3, <2>4 DEF Unmoved, Middle
    <3>4. Done(arr', file', begin'[p], Middle(p)')
      BY <3>2, <3>3
    <3>5. ~Counts(p)'
      BY <2>1, <2>3 DEF Counts
    <3> QED
      BY <2>4, <3>3, <3>4, <3>5 DEF Content
  <2>5. CASE q # p
    BY <1>6, <2>2, <2>3, <2>5 DEF Unmoved
  <2> QED
    BY <2>4, <2>5
<1>12. ASSUME Moves(p, "wait2", "merge"), status[2 * p + 1] = "success" PROVE Content(q)'
  <2>1. /\ 2 * p + 1 \in Pids /\ pc[p] = "wait2" /\ status[p] = "none"
        /\ begin[2 * p + 1] = Middle(p) /\ end[2 * p + 1] = end[p]
    BY <1>0, <1>1, <1>12, StatusNone DEF Moves, Family
  <2>2. \A r \in Pids : Counts(r)' => Counts(r)
    BY <1>12 DEF Moves, Awaited, Counts
  <2>3. pc'[q] = (IF q = p THEN "merge" ELSE pc[q]) /\ Unmoved /\ status' = status
    BY <1>12 DEF Moves
  <2>4. CASE q = p
    <3>1. Counts(2 * p + 1)
      BY <1>12, <2>1 DEF Counts, Awaited
    <3>2. Done(arr, file, begin[p], Middle(p)) /\ arr' = arr
      BY <1>1, <1>4, <2>1 DEF Content
    <3>3. Done(arr, file, Middle(p), end[p])
      BY <2>1, <3>1 DEF Contents, Content
    <3>4. /\ begin'[p] = begin[p] /\ end'[p] = end[p] /\ Middle(p)' = Middle(p)
          /\ file' = file /\ pc'[p] = "merge"
      BY <2>3, <2>4 DEF Unmoved, Middle
    <3>5. Done(arr', file', begin'[p], Middle(p)') /\ Done(arr', file', Middle(p)', end'[p])
      BY <3>2, <3>3, <3>4
    <3>6. ~Counts(p)'
      BY <2>1, <2>3 DEF Counts
    <3> QED
      BY <2>4, <3>4, <3>5, <3>6 DEF Content
  <2>5. CASE q # p
    BY <1>6, <2>2, <2>3, <2>5 DEF Unmoved
  <2> QED
    BY <2>4, <2>5
<1> QED
  BY <1>7, <1>8, <1>9, <1>10, <1>11, <1>12 DEF Stirs, Moves

-----------------------------------------------------------------------------
LEMMA WholeStep ==
  ASSUME Whole, NEW p \in Pids, Stirs(p)
  PROVE  Whole'
<1>0. 1 \in Pids /\ p \in Nat /\ p >= 1
  BY NumbersAssumption DEF Pids
<1>1. begin'[1] = begin[1] /\ end'[1] = end[1] /\ file' = file
  BY <1>0 DEF Stirs, Moves, Ends, Begets, Unmoved
<1> QED
  BY <1>1 DEF Whole

LEMMA Inductive == IInv /\ [Next]_vars => IInv'
<1> SUFFICES ASSUME IInv, [Next]_vars PROVE IInv'
  OBVIOUS
<1>1. ASSUME NEW p \in Pids, Step(p) \/ Kill(p) PROVE IInv'
  <2>1. Stirs(p) /\ Functions'
    BY <1>1, StepStirs DEF IInv
  <2>2. Typed'
    BY <2>1, TypedStep DEF IInv
  <2>3. Mapped'
    BY <1>1, StepWrites DEF IInv, Contents
  <2>4. Families'
    BY <2>1, FamiliesStep DEF IInv, Families
  <2>5. SuccessBelow'
    BY <2>1, SuccessStep DEF IInv, SuccessBelow
  <2>6. HeldOnce'
    BY <2>1, HeldStep DEF IInv
  <2>7. Contents'
    BY <1>1, <2>1, ContentsStep DEF IInv, Contents
  <2>8. Whole'
    BY <2>1, WholeStep DEF IInv
  <2> QED
    BY <2>2, <2>3, <2>4, <2>5, <2>6, <2>7, <2>8 DEF IInv
<1>2. ASSUME UNCHANGED vars PROVE IInv'
  <2> USE <1>2 DEF vars, segments, input
  <2>1. Typed' /\ Mapped'
    BY DEF IInv, Typed, Mapped
  <2>2. Families'
    BY DEF IInv, Families, Family, Middle
  <2>3. SuccessBelow'
    BY DEF IInv, SuccessBelow, Succeeded, Finished
  <2>4. HeldOnce'
    BY DEF IInv, HeldOnce, Holds, Counts, Awaited, Middle
  <2>5. Contents' /\ Whole'
    BY DEF IInv, Contents, Content, Counts, Awaited, Middle, Whole
  <2> QED
    BY <2>1, <2>2, <2>3, <2>4, <2>5 DEF IInv
<1> QED
  BY <1>1, <1>2 DEF Next

LEMMA Invariance == Spec => []IInv
<1>1. Init => IInv
  BY InitTyped, InitRest DEF IInv
<1> QED
  BY <1>1, Inductive, PTL DEF Spec

(* Every variable keeps its type, whatever the file, the threshold and the   *)
(* number of processes: no segment begins after its end or reaches beyond    *)
(* the file, and no sort, merge or killed write makes the mapping longer or  *)
(* shorter (parsort.c, merge_sort and merge).                                *)
THEOREM TypeCorrect == Spec => []TypeOK
<1>1. IInv => TypeOK
  <2> SUFFICES ASSUME IInv PROVE TypeOK
    OBVIOUS
  <2>1. Typed /\ Len(arr) = Len(file)
    BY DEF IInv, Mapped, Array
  <2>2. ASSUME NEW p \in Pids PROVE begin[p] \in 0 .. end[p] /\ end[p] \in 0 .. Len(file)
    BY <2>1, FilesAssumption DEF Typed
  <2> QED
    BY <2>1, <2>2 DEF Typed, TypeOK
<1> QED
  BY <1>1, Invariance, PTL

(* The status of main says that the sort was successful only when the file   *)
(* holds what it held, sorted, for every file, threshold and number of       *)
(* processes, and whichever calls fail and processes are killed on the way   *)
(* (parsort.c, main): what counts as done is its part of the file in order,  *)
(* qsort and merge lose no value, and only its holder writes an element.     *)
THEOREM SuccessIsSorted == Spec => []SuccessMeansSorted
<1>1. IInv => SuccessMeansSorted
  <2> SUFFICES ASSUME IInv, status[1] = "success" PROVE IsSortOf(arr, file)
    BY DEF SuccessMeansSorted
  <2> DEFINE n == Len(file)
  <2>1. 1 \in Pids
    BY NumbersAssumption DEF Pids
  <2>2. Done(arr, file, 0, n)
    BY <2>1 DEF IInv, Contents, Content, Counts, Whole
  <2>3. arr \in Seq(Nat) /\ Len(arr) = n /\ file \in Seq(Nat) /\ n \in Nat
    BY <2>1, SegmentCopies DEF IInv
  <2>4. DOMAIN arr = 0 + 1 .. n /\ DOMAIN file = 0 + 1 .. n
    BY <2>3
  <2>5. \A i, j \in DOMAIN arr : i < j => arr[i] <= arr[j]
    BY <2>2, <2>4 DEF Done, Sorted
  <2>6. \A v \in Nat : Count(arr, v) = Count(file, v)
    BY <2>2, <2>4 DEF Done, CountIn, Count
  <2>7. \A i \in DOMAIN file : file[i] \in Nat
    BY <2>3
  <2> QED
    BY <2>3, <2>5, <2>6, <2>7 DEF IsSortOf
<1> QED
  BY <1>1, Invariance, PTL

(* A half that its parent has seen sorted is sorted until it is merged: the  *)
(* parent holds it from the moment that waitpid has reported the success, so *)
(* nobody else writes to it (parsort.c, merge_sort).                         *)
THEOREM HalvesStaySorted == Spec => []HalvesSorted
<1>1. IInv => HalvesSorted
  <2> SUFFICES ASSUME IInv, NEW p \in Pids
               PROVE  /\ pc[p] \in {"wait2", "merge"} => IsSortOf(Segment(2 * p), Segment(2 * p))
                      /\ pc[p] = "merge" => IsSortOf(Segment(2 * p + 1), Segment(2 * p + 1))
    BY DEF HalvesSorted
  <2>1. Family(p) /\ Content(p)
    BY DEF IInv, Families, Contents
  <2>2. /\ begin[p] \in Nat /\ end[p] \in Nat /\ begin[p] <= end[p] /\ end[p] <= Len(arr)
        /\ arr \in Seq(Nat) /\ Len(arr) \in Nat
    BY SegmentCopies DEF IInv
  <2>3. Middle(p) \in Nat /\ begin[p] <= Middle(p) /\ Middle(p) <= end[p] /\ Middle(p) <= Len(arr)
    BY <2>2, MiddleInside DEF IInv
  <2>4. ASSUME NEW s, Ascending(s) PROVE IsSortOf(s, s)
    BY <2>4 DEF Ascending, IsSortOf
  <2>5. ASSUME pc[p] \in {"wait2", "merge"} PROVE Ascending(Segment(2 * p))
    <3>1. Segment(2 * p) = SubSeq(arr, begin[p] + 1, Middle(p))
      BY <2>1, <2>5 DEF Family, Segment
    <3>2. Sorted(arr, begin[p], Middle(p))
      BY <2>1, <2>5 DEF Content, Done
    <3>3. Ascending(SubSeq(arr, begin[p] + 1, Middle(p)))
      BY <2>2, <2>3, <3>2, CutSorted
    <3> QED
      BY <3>1, <3>3
  <2>6. ASSUME pc[p] = "merge" PROVE Ascending(Segment(2 * p + 1))
    <3>1. Segment(2 * p + 1) = SubSeq(arr, Middle(p) + 1, end[p])
      BY <2>1, <2>6 DEF Family, Segment
    <3>2. Sorted(arr, Middle(p), end[p])
      BY <2>1, <2>6 DEF Content, Done
    <3>3. Ascending(SubSeq(arr, Middle(p) + 1, end[p]))
      BY <2>2, <2>3, <3>2, CutSorted
    <3> QED
      BY <3>1, <3>3
  <2> QED
    BY <2>4, <2>5, <2>6
<1> QED
  BY <1>1, Invariance, PTL

(* Of two processes that read and write their segments at the same time      *)
(* neither touches an element of the other, also after a failure has left    *)
(* children without their parents: each of them holds all that it touches.   *)
THEOREM SegmentsStayApart == Spec => []SegmentsApart
<1>1. IInv => SegmentsApart
  <2> SUFFICES ASSUME IInv, NEW p \in Writing, NEW q \in Writing, p # q,
                      NEW k \in Elements(p), k \in Elements(q)
               PROVE  FALSE
    BY DEF SegmentsApart
  <2>1. k \in Nat /\ begin[p] < k /\ k <= end[p] /\ begin[q] < k /\ k <= end[q]
    BY DEF IInv, Typed, Writing, Elements
  <2>2. Holds(p, k) /\ Holds(q, k)
    BY <2>1 DEF Holds, Writing
  <2> QED
    BY <2>1, <2>2 DEF IInv, HeldOnce, Writing
<1> QED
  BY <1>1, Invariance, PTL

(* When the first process has succeeded, every process has ended: the file   *)
(* is no longer written when the shell sees the status 0.  Otherwise take    *)
(* the lowest process that has neither succeeded nor never been: its parent, *)
(* lower than it, has succeeded without it or never forked it.               *)
THEOREM NobodyLeft == Spec => []SuccessMeansAlone
<1>1. IInv => SuccessMeansAlone
  <2> SUFFICES ASSUME IInv, status[1] = "success",
                      NEW b \in Pids, pc[b] \notin {"none", "ended"}
               PROVE  FALSE
    BY DEF SuccessMeansAlone
  <2> DEFINE T == {p \in Pids : pc[p] # "none" /\ status[p] # "success"}
  <2>0. \A p \in Pids : Family(p)
    BY DEF IInv, Families
  <2>1. T \subseteq Nat /\ T # {}
    <3>1. status[b] # "success"
      BY <2>0 DEF Family
    <3> QED
      BY <3>1 DEF Pids
  <2>2. PICK m \in T : \A n \in T : m <= n
    <3> HIDE DEF T
    <3> QED
      BY <2>1, Smallest
  <2>3. \A n \in T : ~(n < m)
    BY <2>1, <2>2
  <2>4. m \in Nat /\ m > 1
    BY <2>1 DEF Pids
  <2>5. PICK r \in Pids : r < m /\ (m = 2 * r \/ m = 2 * r + 1)
    <3>1. m \div 2 \in Nat /\ m \div 2 >= 1 /\ m \div 2 < m
      BY <2>4
    <3>2. m = 2 * (m \div 2) \/ m = 2 * (m \div 2) + 1
      BY <2>4
    <3>3. m \div 2 \in Pids
      BY <3>1, NumbersAssumption DEF Pids
    <3> QED
      BY <3>1, <3>2, <3>3
  <2>6. r \notin T
    BY <2>3, <2>5
  <2>7. CASE pc[r] = "none"
    BY <2>0, <2>5, <2>7 DEF Family, Childless, OneChild
  <2>8. CASE status[r] = "success"
    BY <2>5, <2>8 DEF IInv, SuccessBelow, Succeeded, Finished
  <2> QED
    BY <2>6, <2>7, <2>8
<1> QED
  BY <1>1, Invariance, PTL
=============================================================================
