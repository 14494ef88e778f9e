-------------------------- MODULE FixedPoint_proofs --------------------------
(***************************************************************************)
(* The arithmetic of FixedPoint is exact for words of every even size, 64  *)
(* bits among them.  The argument is about magnitudes: a word that wraps   *)
(* around has lost Size, and a carry from the fraction is worth Size of    *)
(* its places.                                                             *)
(*                                                                         *)
(* What FixedPointText writes it reads as the same number: the digits      *)
(* left out at either end are zeros, and a number without its last digits  *)
(* grows from place to place as reading makes it grow.                     *)
(***************************************************************************)
EXTENDS FixedPointText, TLAPS, SequenceTheorems, WellFoundedInduction

LEMMA OneLap == ASSUME NEW s \in Nat, NEW n \in Nat, s <= n, n < 2 * s
                PROVE  n % s = n - s
BY SMT

LEMMA NoLap == ASSUME NEW s \in Nat, NEW n \in Nat, n < s
               PROVE  n % s = n
BY SMT

LEMMA PlusWraps ==
  ASSUME NEW a \in Word, NEW b \in Nat, b <= Size
  PROVE  /\ a + b < Size => Plus(a, b) = a + b
         /\ a + b >= Size => Plus(a, b) = a + b - Size
<1>1. a + b \in Nat /\ a + b < 2 * Size /\ Size \in Nat
  BY SizeAssumption DEF Word, Max
<1>2. CASE a + b < Size
  BY <1>1, <1>2, NoLap DEF Plus
<1>3. CASE a + b >= Size
  <2> DEFINE n == a + b
  <2>1. n \in Nat /\ Size <= n /\ n < 2 * Size
    BY <1>1, <1>3
  <2> HIDE DEF n
  <2>2. n % Size = n - Size
    BY <1>1, <2>1, OneLap
  <2>3. Plus(a, b) = n % Size
    BY DEF Plus, n
  <2>4. Plus(a, b) = n - Size
    BY <2>2, <2>3
  <2> QED BY <1>1, <1>3, <2>4, SizeAssumption DEF n, Word, Max
<1> QED BY <1>1, <1>2, <1>3

LEMMA TimesSize ==
  ASSUME NEW a \in Int, NEW b \in Int
  PROVE  /\ (a + b) * Size = a * Size + b * Size
         /\ (a - b) * Size = a * Size - b * Size
         /\ a * Size \in Int
         /\ a <= b => a * Size <= b * Size
BY SizeAssumption

-----------------------------------------------------------------------------
(* The magnitude of a value, in places of its fraction. *)
Magnitude(v) == v.whole * Size + v.frac

LEMMA ValueOfMagnitude ==
  ASSUME NEW v \in Fixedpoint
  PROVE  /\ Magnitude(v) \in Nat
         /\ Value(v) = IF IsNeg(v) THEN -(2 * Magnitude(v)) ELSE 2 * Magnitude(v)
<1>1. v.whole \in Nat /\ v.frac \in Nat /\ Size \in Nat
  BY SizeAssumption DEF Fixedpoint, Word, Max
<1>2. Magnitude(v) \in Nat
  BY <1>1 DEF Magnitude
<1> QED BY <1>2 DEF Value, Magnitude

(* The sum of two magnitudes: the carry is found, and the whole part wraps *)
(* exactly when the sum is too large for it.                               *)
LEMMA SumMagnitude ==
  ASSUME NEW l \in Numbers, NEW r \in Numbers, l.tag = r.tag
  PROVE  LET s == SumOf(l, r) IN
         /\ s \in Fixedpoint
         /\ IsValid(s) => s.tag = l.tag /\ Magnitude(s) = Magnitude(l) + Magnitude(r)
         /\ ~IsValid(s) => /\ Magnitude(l) + Magnitude(r) >= Size * Size
                           /\ s.tag = IF IsNeg(l) THEN "Overflow_Negative"
                                                  ELSE "Overflow_Positive"
<1> DEFINE F == l.frac + r.frac
           W == l.whole + r.whole
           frac == Plus(l.frac, r.frac)
           carry == frac < l.frac \/ frac < r.frac
           c == IF carry THEN 1 ELSE 0
           whole == Plus(Plus(l.whole, r.whole), c)
<1>1. /\ l.whole \in Word /\ l.frac \in Word /\ r.whole \in Word /\ r.frac \in Word
      /\ l.tag \in Valid /\ Size \in Nat /\ Size > 0
  BY SizeAssumption DEF Numbers
<1>2. /\ frac \in Word /\ (carry <=> F >= Size)
      /\ c \in {0, 1} /\ F = frac + c * Size
  <2>1. /\ F < Size => frac = F
        /\ F >= Size => frac = F - Size
    BY <1>1, PlusWraps DEF Word, Max
  <2>2. CASE F < Size
    BY <1>1, <2>1, <2>2 DEF Word, Max
  <2>3. CASE F >= Size
    BY <1>1, <2>1, <2>3 DEF Word, Max
  <2> QED BY <1>1, <2>2, <2>3 DEF Word, Max
<1> HIDE DEF frac, carry
<1>3. /\ whole \in Word
      /\ W + c < Size => whole = W + c
      /\ W + c >= Size => whole = W + c - Size
  <2>1. /\ Plus(l.whole, r.whole) \in Word
        /\ W < Size => Plus(l.whole, r.whole) = W
        /\ W >= Size => Plus(l.whole, r.whole) = W - Size
    BY <1>1, PlusWraps DEF Word, Max
  <2>2. /\ Plus(l.whole, r.whole) + c < Size => whole = Plus(l.whole, r.whole) + c
        /\ Plus(l.whole, r.whole) + c >= Size => whole = Plus(l.whole, r.whole) + c - Size
    BY <1>1, <1>2, <2>1, PlusWraps DEF Word, Max
  <2> QED BY <1>1, <1>2, <2>1, <2>2 DEF Word, Max
<1> HIDE DEF whole, c
<1>4. Wraps(l, r, whole, carry) <=> W + c >= Size
  <2>1. carry <=> c = 1
    BY <1>2 DEF c
  <2>2. CASE W + c < Size
    BY <1>1, <1>2, <1>3, <2>1, <2>2 DEF Wraps, Word, Max
  <2>3. CASE W + c >= Size
    BY <1>1, <1>2, <1>3, <2>1, <2>3 DEF Wraps, Word, Max
  <2> QED BY <1>1, <1>2, <2>2, <2>3 DEF Word, Max
<1>5. SumOf(l, r) = [whole |-> whole, frac |-> frac,
                     tag |-> IF ~Wraps(l, r, whole, carry) THEN l.tag
                             ELSE IF IsNeg(l) THEN "Overflow_Negative"
                                              ELSE "Overflow_Positive"]
  BY DEF SumOf, whole, frac, carry, c
<1>6. Magnitude(l) + Magnitude(r) = (W + c) * Size + frac
  <2>1. /\ l.whole * Size + r.whole * Size = W * Size
        /\ W * Size + c * Size = (W + c) * Size
        /\ l.whole * Size \in Int /\ r.whole * Size \in Int /\ c * Size \in Int
    BY <1>1, <1>2, TimesSize DEF Word
  <2> QED BY <1>1, <1>2, <2>1 DEF Magnitude, Word
<1>7. SumOf(l, r) \in Fixedpoint
  BY <1>1, <1>2, <1>3, <1>5 DEF Fixedpoint, Tags
<1>8. CASE W + c < Size
  <2>1. SumOf(l, r).tag = l.tag /\ SumOf(l, r).whole = W + c /\ SumOf(l, r).frac = frac
    <3>1. ~Wraps(l, r, whole, carry)
      BY <1>1, <1>2, <1>4, <1>8 DEF Word, Max
    <3> QED BY <1>3, <1>5, <1>8, <3>1
  <2> QED BY <1>1, <1>6, <1>7, <2>1 DEF Magnitude, IsValid
<1>9. CASE W + c >= Size
  <2>1. SumOf(l, r).tag = IF IsNeg(l) THEN "Overflow_Negative" ELSE "Overflow_Positive"
    BY <1>4, <1>5, <1>9
  <2>2. (W + c) * Size + frac >= Size * Size
    BY <1>1, <1>2, <1>9, TimesSize DEF Word, Max
  <2> QED BY <1>6, <1>7, <2>1, <2>2 DEF IsValid, Valid
<1> QED BY <1>1, <1>2, <1>8, <1>9 DEF Word, Max

(* The difference of two magnitudes, with or without a borrow. *)
LEMMA DifferenceMagnitude ==
  ASSUME NEW a \in Numbers, NEW b \in Numbers, Greater(a, b)
  PROVE  /\ Difference(a, b) \in Numbers
         /\ Difference(a, b).tag = a.tag
         /\ Magnitude(Difference(a, b)) = Magnitude(a) - Magnitude(b)
<1>1. /\ a.whole \in Word /\ a.frac \in Word /\ b.whole \in Word /\ b.frac \in Word
      /\ a.tag \in Valid /\ Size \in Nat /\ Size > 0
  BY SizeAssumption DEF Numbers
<1>2. CASE a.frac < b.frac
  <2>1. a.whole > b.whole
    BY <1>1, <1>2 DEF Greater, Word, Max
  <2>2. Difference(a, b) = [whole |-> a.whole - b.whole - 1,
                            frac |-> Max - b.frac + a.frac + 1, tag |-> a.tag]
    BY <1>2 DEF Difference
  <2>3. Difference(a, b) \in Numbers
    BY <1>1, <1>2, <2>1, <2>2 DEF Numbers, Word, Max
  <2>4. (a.whole - b.whole - 1) * Size = a.whole * Size - b.whole * Size - Size
    BY <1>1 DEF Word, Max
  <2>5. Magnitude(Difference(a, b)) = (a.whole - b.whole - 1) * Size + (Max - b.frac + a.frac + 1)
    BY <2>2 DEF Magnitude
  <2>6. a.whole * Size \in Int /\ b.whole * Size \in Int
    BY <1>1 DEF Word, Max
  <2>7. Magnitude(Difference(a, b)) = Magnitude(a) - Magnitude(b)
    BY <1>1, <2>4, <2>5, <2>6 DEF Magnitude, Word, Max
  <2> QED BY <2>2, <2>3, <2>7
<1>3. CASE a.frac >= b.frac
  <2>1. a.whole >= b.whole
    BY <1>1, <1>3 DEF Greater, Word, Max
  <2>2. Difference(a, b) = [whole |-> a.whole - b.whole, frac |-> a.frac - b.frac,
                            tag |-> a.tag]
    BY <1>1, <1>3 DEF Difference, Word, Max
  <2>3. Difference(a, b) \in Numbers
    BY <1>1, <1>3, <2>1, <2>2 DEF Numbers, Word, Max
  <2>4. (a.whole - b.whole) * Size = a.whole * Size - b.whole * Size
    BY <1>1 DEF Word, Max
  <2>5. Magnitude(Difference(a, b)) = (a.whole - b.whole) * Size + (a.frac - b.frac)
    BY <2>2 DEF Magnitude
  <2>6. a.whole * Size \in Int /\ b.whole * Size \in Int
    BY <1>1 DEF Word, Max
  <2>7. Magnitude(Difference(a, b)) = Magnitude(a) - Magnitude(b)
    BY <1>1, <2>4, <2>5, <2>6 DEF Magnitude, Word, Max
  <2> QED BY <2>2, <2>3, <2>7
<1> QED BY <1>1, <1>2, <1>3 DEF Word, Max

(* Greater is the order of magnitudes. *)
LEMMA GreaterMagnitude ==
  ASSUME NEW a \in Numbers, NEW b \in Numbers
  PROVE  Greater(a, b) <=> Magnitude(a) > Magnitude(b)
<1>1. /\ a.whole \in Nat /\ a.frac \in 0 .. Size - 1
      /\ b.whole \in Nat /\ b.frac \in 0 .. Size - 1 /\ Size \in Nat
  BY SizeAssumption DEF Numbers, Word, Max
<1>2. ASSUME NEW x \in Numbers, NEW y \in Numbers, x.whole > y.whole
      PROVE  Magnitude(x) > Magnitude(y)
  <2>1. /\ x.whole \in Nat /\ x.frac \in 0 .. Size - 1
        /\ y.whole \in Nat /\ y.frac \in 0 .. Size - 1 /\ Size \in Nat
    BY SizeAssumption DEF Numbers, Word, Max
  <2>2. /\ (y.whole + 1) * Size <= x.whole * Size
        /\ (y.whole + 1) * Size = y.whole * Size + Size
        /\ y.whole * Size \in Int /\ x.whole * Size \in Int
    BY <1>2, <2>1, TimesSize
  <2> QED BY <2>1, <2>2 DEF Magnitude
<1>3. CASE a.whole > b.whole
  BY <1>2, <1>3 DEF Greater
<1>4. CASE b.whole > a.whole
  <2>1. Magnitude(b) > Magnitude(a)
    BY <1>2, <1>4
  <2> QED BY <1>1, <1>4, <2>1, TimesSize DEF Greater, Magnitude
<1>5. CASE a.whole = b.whole
  BY <1>1, <1>5, TimesSize DEF Greater, Magnitude
<1> QED BY <1>1, <1>3, <1>4, <1>5

-----------------------------------------------------------------------------
(* Each operation gives the outcome it promises. *)

LEMMA ValidSigns ==
  ASSUME NEW v \in Numbers
  PROVE  /\ v \in Fixedpoint /\ IsValid(v)
         /\ v.tag = IF IsNeg(v) THEN "Valid_Negative" ELSE "Valid_Non_Negative"
BY DEF Numbers, Fixedpoint, Tags, Valid, IsValid, IsNeg

LEMMA LimitIsSquare == Limit = 2 * (Size * Size) /\ Size * Size \in Nat
BY SizeAssumption DEF Limit

LEMMA AddOutcome ==
  ASSUME NEW l \in Numbers, NEW r \in Numbers
  PROVE  Add(l, r) \in Fixedpoint /\ IsOutcome(Add(l, r), Value(l) + Value(r))
<1>1. /\ Magnitude(l) \in Nat /\ Magnitude(r) \in Nat
      /\ Value(l) = IF IsNeg(l) THEN -(2 * Magnitude(l)) ELSE 2 * Magnitude(l)
      /\ Value(r) = IF IsNeg(r) THEN -(2 * Magnitude(r)) ELSE 2 * Magnitude(r)
  BY ValidSigns, ValueOfMagnitude
<1>2. CASE IsNeg(l) = IsNeg(r)
  <2> DEFINE s == SumOf(l, r)
  <2>1. l.tag = r.tag /\ Add(l, r) = s
    BY <1>2, ValidSigns DEF Add
  <2>2. /\ s \in Fixedpoint
        /\ IsValid(s) => s.tag = l.tag /\ Magnitude(s) = Magnitude(l) + Magnitude(r)
        /\ ~IsValid(s) => /\ Magnitude(l) + Magnitude(r) >= Size * Size
                          /\ s.tag = IF IsNeg(l) THEN "Overflow_Negative"
                                                 ELSE "Overflow_Positive"
    BY <2>1, SumMagnitude
  <2> HIDE DEF s
  <2>3. CASE IsValid(s)
    <3>1. IsNeg(s) = IsNeg(l)
      BY <2>2, <2>3 DEF IsNeg
    <3>2. Value(s) = Value(l) + Value(r)
      BY <1>1, <1>2, <2>2, <2>3, <3>1, ValueOfMagnitude
    <3> QED BY <2>1, <2>2, <2>3, <3>2 DEF IsOutcome, IsValid, Valid
  <2>4. CASE ~IsValid(s)
    <3>1. CASE IsNeg(l)
      <4>1. Value(l) + Value(r) <= -Limit
        BY <1>1, <1>2, <2>2, <2>4, <3>1, LimitIsSquare
      <4> QED BY <2>1, <2>2, <2>4, <3>1, <4>1 DEF IsOutcome
    <3>2. CASE ~IsNeg(l)
      <4>1. Value(l) + Value(r) >= Limit
        BY <1>1, <1>2, <2>2, <2>4, <3>2, LimitIsSquare
      <4> QED BY <2>1, <2>2, <2>4, <3>2, <4>1 DEF IsOutcome
    <3> QED BY <3>1, <3>2
  <2> QED BY <2>3, <2>4
<1>3. CASE IsNeg(l) # IsNeg(r)
  <2>1. ASSUME NEW a \in Numbers, NEW b \in Numbers, IsNeg(a) # IsNeg(b), Greater(a, b)
        PROVE  /\ Difference(a, b) \in Fixedpoint
               /\ IsOutcome(Difference(a, b), Value(a) + Value(b))
    <3> DEFINE d == Difference(a, b)
    <3>1. d \in Numbers /\ d.tag = a.tag /\ Magnitude(d) = Magnitude(a) - Magnitude(b)
      BY <2>1, DifferenceMagnitude
    <3> HIDE DEF d
    <3>2. IsNeg(d) = IsNeg(a)
      BY <3>1 DEF IsNeg
    <3>3. /\ Magnitude(a) \in Nat /\ Magnitude(b) \in Nat
          /\ Value(a) = IF IsNeg(a) THEN -(2 * Magnitude(a)) ELSE 2 * Magnitude(a)
          /\ Value(b) = IF IsNeg(b) THEN -(2 * Magnitude(b)) ELSE 2 * Magnitude(b)
          /\ Value(d) = IF IsNeg(d) THEN -(2 * Magnitude(d)) ELSE 2 * Magnitude(d)
      BY <3>1, ValidSigns, ValueOfMagnitude
    <3>4. Value(d) = Value(a) + Value(b)
      <4>1. (IsNeg(a) /\ ~IsNeg(b)) \/ (~IsNeg(a) /\ IsNeg(b))
        BY <2>1 DEF IsNeg
      <4>2. CASE IsNeg(a) /\ ~IsNeg(b)
        BY <4>2, <3>1, <3>2, <3>3
      <4>3. CASE ~IsNeg(a) /\ IsNeg(b)
        BY <4>3, <3>1, <3>2, <3>3
      <4> QED BY <4>1, <4>2, <4>3
    <3>5. d \in Fixedpoint /\ IsOutcome(d, Value(a) + Value(b))
      BY <3>1, <3>4, ValidSigns DEF IsOutcome
    <3> QED BY <3>5 DEF d
  <2>2. CASE Greater(r, l)
    <3>1. Add(l, r) = Difference(r, l)
      BY <1>3, <2>2 DEF Add
    <3>2. Value(l) + Value(r) = Value(r) + Value(l)
      BY <1>1
    <3> QED BY <1>3, <2>1, <2>2, <3>1, <3>2
  <2>3. CASE ~Greater(r, l) /\ Greater(l, r)
    <3>1. Add(l, r) = Difference(l, r)
      BY <1>3, <2>3 DEF Add
    <3> QED BY <1>3, <2>1, <2>3, <3>1
  <2>4. CASE ~Greater(r, l) /\ ~Greater(l, r)
    <3>1. Add(l, r) = Zero /\ Magnitude(l) = Magnitude(r)
      BY <1>1, <1>3, <2>4, GreaterMagnitude DEF Add
    <3>2. Value(l) + Value(r) = 0
      <4>1. (IsNeg(l) /\ ~IsNeg(r)) \/ (~IsNeg(l) /\ IsNeg(r))
        BY <1>3 DEF IsNeg
      <4> QED BY <1>1, <3>1, <4>1
    <3>3. /\ Zero.tag = "Valid_Non_Negative" /\ Zero.whole = 0 /\ Zero.frac = 0
          /\ Zero \in Fixedpoint
      BY SizeAssumption DEF Zero, Create2, Fixedpoint, Word, Max, Tags, Valid
    <3>4. Value(Zero) = 0
      BY <3>3, SizeAssumption DEF Value
    <3> QED BY <3>1, <3>2, <3>3, <3>4 DEF IsOutcome
  <2> QED BY <2>2, <2>3, <2>4
<1> QED BY <1>2, <1>3

LEMMA OppositeValue ==
  ASSUME NEW v \in Numbers
  PROVE  Opposite(v) \in Numbers /\ Value(Opposite(v)) = -Value(v)
<1>1. /\ Opposite(v) \in Numbers /\ IsNeg(Opposite(v)) = ~IsNeg(v)
      /\ Opposite(v).whole = v.whole /\ Opposite(v).frac = v.frac
  BY DEF Opposite, Numbers, Valid, IsNeg
<1>2. Magnitude(Opposite(v)) = Magnitude(v)
  BY <1>1 DEF Magnitude
<1>3. Value(v) = IF IsNeg(v) THEN -(2 * Magnitude(v)) ELSE 2 * Magnitude(v)
  BY ValidSigns, ValueOfMagnitude
<1>4. Value(Opposite(v)) = IF IsNeg(v) THEN 2 * Magnitude(v) ELSE -(2 * Magnitude(v))
  BY <1>1, <1>2, ValidSigns, ValueOfMagnitude
<1> QED BY <1>1, <1>3, <1>4, ValidSigns, ValueOfMagnitude

LEMMA SubOutcome ==
  ASSUME NEW l \in Numbers, NEW r \in Numbers
  PROVE  Sub(l, r) \in Fixedpoint /\ IsOutcome(Sub(l, r), Value(l) - Value(r))
<1>1. Value(l) \in Int /\ Value(r) \in Int
  BY ValidSigns, ValueOfMagnitude
<1>2. /\ Opposite(r) \in Numbers
      /\ Value(l) + Value(Opposite(r)) = Value(l) - Value(r)
  BY <1>1, OppositeValue
<1> QED BY <1>2, AddOutcome DEF Sub

LEMMA NegateOutcome ==
  ASSUME NEW v \in Numbers
  PROVE  Negate(v) \in Fixedpoint /\ IsOutcome(Negate(v), -Value(v))
<1>1. CASE v.whole # 0 \/ v.frac # 0
  <2>1. Negate(v) = Opposite(v)
    BY <1>1 DEF Negate
  <2> QED BY <2>1, OppositeValue, ValidSigns DEF IsOutcome, IsValid, Valid
<1>2. CASE v.whole = 0 /\ v.frac = 0
  <2>1. Negate(v) = v
    BY <1>2 DEF Negate
  <2>2. Value(v) = 0
    BY <1>2, SizeAssumption DEF Value
  <2>3. v \in Fixedpoint /\ v.tag \in Valid
    BY ValidSigns DEF IsValid
  <2>4. Value(v) = -Value(v)
    <3>1. Opposite(v).whole = 0 /\ Opposite(v).frac = 0
      BY <1>2 DEF Opposite, Numbers
    <3>2. Value(Opposite(v)) = 0
      BY <3>1, SizeAssumption DEF Value
    <3> QED BY <2>2, <3>2, OppositeValue
  <2>5. IsOutcome(v, Value(v))
    BY <2>3 DEF IsOutcome, Valid
  <2> QED BY <2>1, <2>3, <2>4, <2>5
<1> QED BY <1>1, <1>2

LEMMA DoubleOutcome ==
  ASSUME NEW v \in Numbers
  PROVE  Double(v) \in Fixedpoint /\ IsOutcome(Double(v), 2 * Value(v))
<1>1. Value(v) \in Int /\ Value(v) + Value(v) = 2 * Value(v)
  BY ValidSigns, ValueOfMagnitude
<1> QED BY <1>1, AddOutcome DEF Double

(* Halving moves the lowest bit of the whole part to the top of the *)
(* fraction; what is lost is the lowest bit of the fraction.        *)
LEMMA HalveOutcome ==
  ASSUME NEW v \in Numbers
  PROVE  Halve(v) \in Fixedpoint /\ IsOutcome(Halve(v), Value(v) \div 2)
<1> DEFINE h == Halve(v)
           w == v.whole
           f == v.frac
           half == Size \div 2
           M == Magnitude(v)
<1>1. /\ w \in 0 .. Size - 1 /\ f \in 0 .. Size - 1 /\ v.tag \in Valid
      /\ Size \in Nat /\ half \in Nat /\ Size = 2 * half
  BY SizeAssumption DEF Numbers, Word, Max
<1>2. M \in Nat /\ Value(v) = IF IsNeg(v) THEN -(2 * M) ELSE 2 * M
  BY ValidSigns, ValueOfMagnitude
<1>3. Value(v) \div 2 = IF IsNeg(v) THEN -M ELSE M
  BY <1>2
<1>4. /\ h.whole = w \div 2
      /\ h.frac = f \div 2 + (IF w % 2 = 1 THEN half ELSE 0)
      /\ h.tag = IF f % 2 = 0 THEN v.tag
                 ELSE IF IsNeg(v) THEN "Underflow_Negative" ELSE "Underflow_Positive"
  BY DEF Halve
<1>5. h \in Fixedpoint
  <2>1. h.whole \in Word /\ h.frac \in Word
    BY <1>1, <1>4 DEF Word, Max
  <2>2. h.tag \in Tags
    BY <1>1, <1>4 DEF Tags
  <2>3. h = [whole |-> h.whole, frac |-> h.frac, tag |-> h.tag]
    BY DEF Halve
  <2> QED BY <2>1, <2>2, <2>3 DEF Fixedpoint
<1> HIDE DEF h, M
<1>6. w * Size = 2 * (w * half) /\ w * half \in Nat
  BY <1>1
<1>7. M = 2 * (w * half) + f
  BY <1>6 DEF M, Magnitude
<1>8. CASE f % 2 = 0
  <2>1. h.tag = v.tag /\ IsNeg(h) = IsNeg(v) /\ IsValid(h)
    BY <1>1, <1>4, <1>8 DEF IsNeg, IsValid
  <2>2. 2 * Magnitude(h) = M
    <3>1. 2 * ((w \div 2) * Size) = 2 * (w \div 2) * (2 * half)
      BY <1>1
    <3>2. CASE w % 2 = 0
      <4>1. 2 * (w \div 2) = w
        BY <1>1, <3>2
      <4>2. h.frac = f \div 2 /\ 2 * (f \div 2) = f
        BY <1>1, <1>4, <1>8, <3>2
      <4>3. 2 * ((w \div 2) * Size) = 2 * (w * half)
        BY <1>1, <4>1
      <4> QED BY <1>1, <1>4, <1>6, <1>7, <4>2, <4>3 DEF Magnitude
    <3>3. CASE w % 2 = 1
      <4>1. 2 * (w \div 2) = w - 1
        BY <1>1, <3>3
      <4>2. h.frac = f \div 2 + half /\ 2 * (f \div 2) = f
        BY <1>1, <1>4, <1>8, <3>3
      <4>3. 2 * ((w \div 2) * Size) = 2 * (w * half) - 2 * half
        BY <1>1, <1>6, <4>1
      <4> QED BY <1>1, <1>4, <1>6, <1>7, <4>2, <4>3 DEF Magnitude
    <3> QED BY <1>1, <3>2, <3>3
  <2>3. Value(h) = Value(v) \div 2
    BY <1>2, <1>3, <1>5, <2>1, <2>2, ValueOfMagnitude
  <2> QED BY <1>1, <1>5, <2>1, <2>3 DEF IsOutcome, Valid, h
<1>9. CASE f % 2 # 0
  <2>1. M > 0 /\ M % 2 = 1 /\ (-M) % 2 = 1
    BY <1>1, <1>2, <1>6, <1>7, <1>9
  <2>2. h.tag = IF IsNeg(v) THEN "Underflow_Negative" ELSE "Underflow_Positive"
    BY <1>4, <1>9
  <2>3. IsNeg(v) => Value(v) \div 2 < 0 /\ (Value(v) \div 2) % 2 = 1
    BY <1>2, <1>3, <2>1
  <2>4. ~IsNeg(v) => Value(v) \div 2 > 0 /\ (Value(v) \div 2) % 2 = 1
    BY <1>2, <1>3, <2>1
  <2>5. IsOutcome(h, Value(v) \div 2)
    BY <2>2, <2>3, <2>4 DEF IsOutcome, IsValid, Valid
  <2> QED BY <1>5, <2>5 DEF h
<1> QED BY <1>8, <1>9

-----------------------------------------------------------------------------
(* Of the value in hand *)

IInv == TypeOK /\ ResultOrReason

LEMMA NumberIsOutcome ==
  ASSUME NEW v \in Numbers
  PROVE  v \in Fixedpoint /\ IsOutcome(v, Value(v)) /\ Value(v) \in Int
BY ValidSigns, ValueOfMagnitude DEF IsOutcome, Numbers, Valid

LEMMA CreateIsNumber ==
  ASSUME NEW w \in Word, NEW f \in Word
  PROVE  Create2(w, f) \in Numbers /\ Value(Create2(w, f)) = 2 * (w * Size + f)
BY DEF Create2, Numbers, Valid, Value, IsNeg

LEMMA InitIInv == Init => IInv
<1> SUFFICES ASSUME Init PROVE IInv
  OBVIOUS
<1>1. PICK w \in Word : val = Create2(w, 0) /\ exact = 2 * w * Size
  BY DEF Init
<1>2. 0 \in Word /\ 2 * w * Size = 2 * (w * Size + 0)
  BY SizeAssumption DEF Word, Max
<1>3. Create2(w, 0) \in Numbers /\ Value(Create2(w, 0)) = exact
  BY <1>1, <1>2, CreateIsNumber
<1> QED BY <1>1, <1>3, NumberIsOutcome DEF IInv, TypeOK, ResultOrReason

LEMMA StepIInv == IInv /\ [Next]_vars => IInv'
<1> SUFFICES ASSUME IInv, [Next]_vars PROVE IInv'
  OBVIOUS
<1>1. ASSUME NEW v, NEW x, Result(v, x), v \in Fixedpoint, x \in Int, IsOutcome(v, x)
      PROVE  IInv'
  BY <1>1 DEF Result, IInv, TypeOK, ResultOrReason
<1>2. CASE Create
  <2>1. ASSUME NEW w \in Word, NEW f \in Word,
               Result(Create2(w, f), 2 * (w * Size + f))
        PROVE  IInv'
    BY <1>1, <2>1, CreateIsNumber, NumberIsOutcome
  <2>2. ASSUME NEW v \in Numbers, Result(v, Value(v)) PROVE IInv'
    BY <1>1, <2>2, NumberIsOutcome
  <2>3. ASSUME Result(ErrorValue, 0) PROVE IInv'
    <3>1. /\ ErrorValue.tag = "Error"
          /\ ErrorValue \in Fixedpoint
      BY SizeAssumption DEF ErrorValue, Zero, Create2, Fixedpoint, Word, Max, Tags
    <3>2. IsOutcome(ErrorValue, 0)
      BY <3>1 DEF IsOutcome, IsValid, Valid
    <3> QED BY <1>1, <2>3, <3>1, <3>2
  <2> QED BY <1>2, <2>1, <2>2, <2>3 DEF Create
<1>3. CASE Operate
  <2>1. val \in Numbers /\ Value(val) \in Int
    <3>1. val \in Numbers
      BY <1>3 DEF Operate, IInv, TypeOK, Fixedpoint, Numbers, IsValid
    <3> QED BY <3>1, NumberIsOutcome
  <2>2. ASSUME NEW v \in Numbers, Result(Add(val, v), Value(val) + Value(v)) PROVE IInv'
    BY <1>1, <2>1, <2>2, AddOutcome, NumberIsOutcome
  <2>3. ASSUME NEW v \in Numbers, Result(Sub(val, v), Value(val) - Value(v)) PROVE IInv'
    BY <1>1, <2>1, <2>3, SubOutcome, NumberIsOutcome
  <2>4. CASE Result(Negate(val), -Value(val))
    BY <1>1, <2>1, <2>4, NegateOutcome
  <2>5. CASE Result(Halve(val), Value(val) \div 2)
    BY <1>1, <2>1, <2>5, HalveOutcome
  <2>6. CASE Result(Double(val), 2 * Value(val))
    BY <1>1, <2>1, <2>6, DoubleOutcome
  <2> QED BY <1>3, <2>2, <2>3, <2>4, <2>5, <2>6 DEF Operate
<1>4. CASE UNCHANGED vars
  BY <1>4 DEF vars, IInv, TypeOK, ResultOrReason
<1> QED BY <1>2, <1>3, <1>4 DEF Next

THEOREM Invariance == Spec => []IInv
<1> QED BY InitIInv, StepIInv, PTL DEF Spec

(* The parts of every value are words, and its tag is one of the seven. *)
THEOREM TypeCorrect == Spec => []TypeOK
<1>1. IInv => TypeOK
  BY DEF IInv
<1> QED BY <1>1, Invariance, PTL

(* Whatever chain of operations led to it, a valid value is the exact result *)
(* of the last one, and the tag of one that is not valid tells the truth.    *)
THEOREM ResultsAreExact == Spec => []ResultOrReason
<1>1. IInv => ResultOrReason
  BY DEF IInv
<1> QED BY <1>1, Invariance, PTL

(* fixedpoint_compare is the order of values, but for the 0 with a minus. *)
THEOREM ComparisonIsOrder == Spec => []ComparesByValue
<1>1. ASSUME NEW a \in Numbers \ {MinusZero}, NEW b \in Numbers \ {MinusZero}
      PROVE  InOrder(a, b)
  <2>1. /\ Magnitude(a) \in Nat /\ Magnitude(b) \in Nat
        /\ Value(a) = IF IsNeg(a) THEN -(2 * Magnitude(a)) ELSE 2 * Magnitude(a)
        /\ Value(b) = IF IsNeg(b) THEN -(2 * Magnitude(b)) ELSE 2 * Magnitude(b)
    BY ValidSigns, ValueOfMagnitude
  <2>2. ASSUME NEW v \in Numbers \ {MinusZero}, IsNeg(v) PROVE Magnitude(v) > 0
    <3>1. /\ v.whole \in Nat /\ v.frac \in Nat
          /\ v = [whole |-> v.whole, frac |-> v.frac, tag |-> "Valid_Negative"]
      BY <2>2, SizeAssumption DEF Numbers, IsNeg, Word, Max
    <3>2. v.whole > 0 \/ v.frac > 0
      BY <3>1 DEF MinusZero, Zero, Create2
    <3>3. v.whole > 0 => v.whole * Size > 0
      BY <3>1, SizeAssumption
    <3>4. v.whole * Size \in Nat
      BY <3>1, SizeAssumption
    <3> QED BY <3>1, <3>2, <3>3, <3>4 DEF Magnitude
  <2>3. /\ Greater(a, b) <=> Magnitude(a) > Magnitude(b)
        /\ Greater(b, a) <=> Magnitude(b) > Magnitude(a)
    BY GreaterMagnitude
  <2>4. CASE IsNeg(a) /\ IsNeg(b)
    BY <2>1, <2>3, <2>4 DEF InOrder, Compare, Sign
  <2>5. CASE ~IsNeg(a) /\ ~IsNeg(b)
    BY <2>1, <2>3, <2>5 DEF InOrder, Compare, Sign, IsNeg
  <2>6. CASE IsNeg(a) /\ ~IsNeg(b)
    <3>1. Compare(a, b) = -1
      BY <2>6 DEF Compare, IsNeg
    <3>2. Value(a) - Value(b) < 0
      BY <2>1, <2>2, <2>6
    <3> QED BY <2>1, <3>1, <3>2 DEF InOrder, Sign
  <2>7. CASE ~IsNeg(a) /\ IsNeg(b)
    <3>1. Compare(a, b) = 1
      BY <2>7 DEF Compare, IsNeg
    <3>2. Value(a) - Value(b) > 0
      BY <2>1, <2>2, <2>7
    <3> QED BY <2>1, <3>1, <3>2 DEF InOrder, Sign
  <2> QED BY <2>4, <2>5, <2>6, <2>7
<1>2. IInv => ComparesByValue
  <2>1. TypeOK /\ IsValid(val) => val \in Numbers
    BY DEF TypeOK, Fixedpoint, Numbers, IsValid
  <2> QED BY <1>1, <2>1 DEF IInv, ComparesByValue
<1> QED BY <1>2, Invariance, PTL

-----------------------------------------------------------------------------
(* Digits *)

(* A set of numbers has a smallest one. *)
LEMMA Smallest ==
  ASSUME NEW T, T \subseteq Nat, T # {}
  PROVE  \E m \in T : \A i \in T : m <= i
<1>1. PICK m \in T : \A i \in T : ~(<<i, m>> \in OpToRel(<, Nat))
  BY NatLessThanWellFounded, WFMin
<1>2. \A i \in T : ~(i < m)
  BY <1>1 DEF OpToRel
<1> QED
  BY <1>2

(* Something that holds at 0, and at i if at i - 1, holds up to n. *)
LEMMA UpTo ==
  ASSUME NEW n \in Nat, NEW T, 0 \in T, \A i \in 1 .. n : i - 1 \in T => i \in T
  PROVE  \A i \in 0 .. n : i \in T
<1> DEFINE Bad == {i \in 0 .. n : i \notin T}
<1> SUFFICES ASSUME Bad # {} PROVE FALSE
  OBVIOUS
<1>1. PICK m \in Bad : \A i \in Bad : m <= i
  <2>1. Bad \subseteq Nat
    OBVIOUS
  <2> HIDE DEF Bad
  <2> QED
    BY <2>1, Smallest
<1>2. m \in 1 .. n /\ m \notin T
  OBVIOUS
<1>3. m - 1 \in T
  <2>1. m - 1 \in 0 .. n /\ m - 1 \notin Bad
    <3>1. m - 1 \in 0 .. n /\ m - 1 < m
      BY <1>2
    <3> HIDE DEF Bad
    <3> QED
      BY <1>1, <1>2, <3>1
  <2> QED
    BY <2>1
<1> QED
  BY <1>2, <1>3

(* f begins at a, and every step appends a digit of c. *)
Appends(f, m, a, c) == /\ f \in [0 .. m -> Nat] /\ f[0] = a
                       /\ \A i \in 1 .. m : f[i] = f[i - 1] * Base + c[i]

LEMMA OneMoreDigit ==
  ASSUME NEW u \in Nat, NEW d \in Nat
  PROVE  u * Base + d \in Nat
BY BaseAssumption

LEMMA SomeAppends ==
  ASSUME NEW n \in Nat, NEW a \in Nat, NEW c, \A i \in 1 .. n : c[i] \in Nat
  PROVE  \E f : Appends(f, n, a, c)
<1> DEFINE T == {m \in 0 .. n : \E f : Appends(f, m, a, c)}
<1>1. 0 \in T
  <2>1. Appends([i \in 0 .. 0 |-> a], 0, a, c)
    BY DEF Appends
  <2> QED
    BY <2>1
<1>2. ASSUME NEW m \in 1 .. n, m - 1 \in T PROVE m \in T
  <2>1. PICK f : Appends(f, m - 1, a, c)
    BY <1>2
  <2> DEFINE g == [i \in 0 .. m |-> IF i = m THEN f[m - 1] * Base + c[m] ELSE f[i]]
  <2>2. f \in [0 .. m - 1 -> Nat] /\ f[0] = a
        /\ \A i \in 1 .. m - 1 : f[i] = f[i - 1] * Base + c[i]
    BY <2>1 DEF Appends
  <2>3. f[m - 1] * Base + c[m] \in Nat
    <3>1. f[m - 1] \in Nat /\ c[m] \in Nat
      BY <1>2, <2>2
    <3> QED
      BY <3>1, OneMoreDigit
  <2>4. g \in [0 .. m -> Nat] /\ g[0] = a
    BY <1>2, <2>2, <2>3
  <2>5. g[m] = f[m - 1] * Base + c[m] /\ \A i \in 0 .. m - 1 : g[i] = f[i]
    BY <1>2
  <2> HIDE DEF g
  <2>6. ASSUME NEW i \in 1 .. m PROVE g[i] = g[i - 1] * Base + c[i]
    <3>1. i - 1 \in 0 .. m - 1 /\ (i = m \/ i \in 1 .. m - 1)
      BY <1>2
    <3>2. CASE i = m
      BY <2>5, <3>1, <3>2
    <3>3. CASE i \in 1 .. m - 1
      <4>1. g[i] = f[i] /\ g[i - 1] = f[i - 1]
        BY <2>5, <3>1, <3>3
      <4> QED
        BY <2>2, <3>3, <4>1
    <3> QED
      BY <3>1, <3>2, <3>3
  <2>7. Appends(g, m, a, c)
    BY <2>4, <2>6 DEF Appends
  <2> QED
    BY <2>7
<1> HIDE DEF T
<1>3. n \in T
  BY <1>1, <1>2, UpTo
<1> QED
  BY <1>3 DEF T

(* There is only one way to do so. *)
LEMMA OneAppends ==
  ASSUME NEW n \in Nat, NEW a, NEW c, NEW f, Appends(f, n, a, c),
         NEW g, g[0] = a, \A i \in 1 .. n : g[i] = g[i - 1] * Base + c[i]
  PROVE  \A i \in 0 .. n : g[i] = f[i]
<1> DEFINE T == {i \in 0 .. n : g[i] = f[i]}
<1>1. 0 \in T
  BY DEF Appends
<1>2. ASSUME NEW i \in 1 .. n, i - 1 \in T PROVE i \in T
  BY <1>2 DEF Appends
<1> HIDE DEF T
<1>3. \A i \in 0 .. n : i \in T
  BY <1>1, <1>2, UpTo
<1> QED
  BY <1>3 DEF T

(* Number computes what appending the digits computes. *)
LEMMA NumberIs ==
  ASSUME NEW ds, NEW n \in Nat, n = Len(ds), NEW f, Appends(f, n, 0, ds)
  PROVE  Number(ds) = f[n]
<1> DEFINE Solves(g) == g = [i \in 0 .. Len(ds) |-> IF i = 0 THEN 0 ELSE g[i - 1] * Base + ds[i]]
           upTo == CHOOSE g : Solves(g)
<1>1. Solves(f)
  <2> DEFINE h == [i \in 0 .. n |-> IF i = 0 THEN 0 ELSE f[i - 1] * Base + ds[i]]
  <2>1. f \in [0 .. n -> Nat]
    BY DEF Appends
  <2>2. ASSUME NEW i \in 0 .. n PROVE f[i] = h[i]
    BY DEF Appends
  <2>3. f = h
    BY <2>1, <2>2
  <2> QED
    BY <2>3
<1>2. Solves(upTo)
  BY <1>1
<1>3. Number(ds) = upTo[n]
  BY DEF Number
<1> HIDE DEF upTo
<1>4. upTo[0] = 0 /\ \A i \in 1 .. n : upTo[i] = upTo[i - 1] * Base + ds[i]
  <2> DEFINE h == [i \in 0 .. n |-> IF i = 0 THEN 0 ELSE upTo[i - 1] * Base + ds[i]]
  <2>1. upTo = h
    BY <1>2
  <2>2. h[0] = 0 /\ \A i \in 1 .. n : h[i] = upTo[i - 1] * Base + ds[i]
    OBVIOUS
  <2> HIDE DEF h
  <2> QED
    BY <2>1, <2>2
<1>5. n \in 0 .. n /\ \A i \in 0 .. n : upTo[i] = f[i]
  BY <1>4, OneAppends
<1> QED
  BY <1>3, <1>5

(* The powers of the base. *)
LEMMA Powers ==
  /\ Power[0] = 1
  /\ \A i \in 1 .. Digits : Power[i] = Power[i - 1] * Base
  /\ \A i \in 0 .. Digits : Power[i] \in Nat \ {0}
<1> DEFINE Solves(g) == g = [i \in 0 .. Digits |-> IF i = 0 THEN 1 ELSE g[i - 1] * Base]
           none == [i \in 1 .. Digits |-> 0]
<1>1. Digits \in Nat /\ Base \in Nat /\ Base > 0
  BY BaseAssumption
<1>2. PICK f : Appends(f, Digits, 1, none)
  BY <1>1, SomeAppends
<1>3. /\ f \in [0 .. Digits -> Nat] /\ f[0] = 1
      /\ \A i \in 1 .. Digits : f[i] = f[i - 1] * Base
  <2>1. /\ f \in [0 .. Digits -> Nat] /\ f[0] = 1
        /\ \A i \in 1 .. Digits : f[i] = f[i - 1] * Base + none[i]
    BY <1>2 DEF Appends
  <2>2. ASSUME NEW i \in 1 .. Digits PROVE f[i] = f[i - 1] * Base
    <3>1. f[i - 1] \in Nat /\ none[i] = 0
      BY <1>1, <2>1
    <3>2. f[i - 1] * Base \in Nat
      BY <1>1, <3>1
    <3> QED
      BY <2>1, <3>1, <3>2
  <2> QED
    BY <2>1, <2>2
<1>4. Solves(f)
  <2> DEFINE h == [i \in 0 .. Digits |-> IF i = 0 THEN 1 ELSE f[i - 1] * Base]
  <2>1. \A i \in 0 .. Digits : f[i] = h[i]
    BY <1>3
  <2>2. f = h
    BY <1>3, <2>1
  <2> QED
    BY <2>2
<1>5. Power = CHOOSE g : Solves(g)
  BY DEF Power
<1> DEFINE p == CHOOSE g : Solves(g)
<1>6. Solves(p)
  BY <1>4
<1> HIDE DEF p
<1>7. p[0] = 1 /\ \A i \in 1 .. Digits : p[i] = p[i - 1] * Base
  <2> DEFINE h == [i \in 0 .. Digits |-> IF i = 0 THEN 1 ELSE p[i - 1] * Base]
  <2>1. p = h
    BY <1>6
  <2>2. h[0] = 1 /\ \A i \in 1 .. Digits : h[i] = p[i - 1] * Base
    BY <1>1
  <2> HIDE DEF h
  <2> QED
    BY <2>1, <2>2
<1>8. \A i \in 0 .. Digits : p[i] \in Nat \ {0}
  <2> DEFINE T == {i \in 0 .. Digits : p[i] \in Nat \ {0}}
  <2>1. 0 \in T
    BY <1>1, <1>7
  <2>2. ASSUME NEW i \in 1 .. Digits, i - 1 \in T PROVE i \in T
    <3>1. p[i - 1] \in Nat \ {0}
      BY <2>2
    <3>2. p[i - 1] * Base \in Nat \ {0}
      BY <1>1, <3>1
    <3> QED
      BY <1>7, <3>2
  <2> HIDE DEF T
  <2>3. \A i \in 0 .. Digits : i \in T
    BY <1>1, <2>1, <2>2, UpTo
  <2> QED
    BY <2>3 DEF T
<1> QED
  BY <1>5, <1>7, <1>8 DEF p
-----------------------------------------------------------------------------
(* Division by the powers of the base *)

(* Division with remainder. *)
LEMMA Quotient ==
  ASSUME NEW b \in Nat, NEW d \in Nat \ {0}
  PROVE  /\ b \div d \in Nat /\ b % d \in Nat /\ b % d < d
         /\ b = d * (b \div d) + (b % d)
<1>1. b \div d \in Int /\ b % d \in 0 .. d - 1
  OBVIOUS
<1>2. b = d * (b \div d) + (b % d)
  <2>1. d \in Nat /\ d > 0
    OBVIOUS
  <2> QED
    BY <2>1
<1>3. b \div d \in Nat
  OBVIOUS
<1> QED
  BY <1>1, <1>2, <1>3

LEMMA Multiples ==
  ASSUME NEW d \in Nat, NEW p \in Nat, NEW q \in Nat, p < q
  PROVE  d * p + d <= d * q
<1> DEFINE e == q - p - 1
<1>1. e \in Nat /\ q = p + 1 + e
  OBVIOUS
<1> HIDE DEF e
<1>2. d * q = d * p + d + d * e
  BY <1>1
<1>3. d * e \in Nat /\ d * p \in Nat
  BY <1>1
<1> QED
  BY <1>2, <1>3

(* There is only one way to divide. *)
LEMMA QuotientUnique ==
  ASSUME NEW d \in Nat \ {0}, NEW p \in Nat, NEW t \in Nat, t < d,
         NEW q \in Nat, NEW u \in Nat, u < d, d * p + t = d * q + u
  PROVE  p = q
<1>0. d * p \in Nat /\ d * q \in Nat
  OBVIOUS
<1>1. p < q => d * p + d <= d * q
  BY Multiples
<1>2. q < p => d * q + d <= d * p
  BY Multiples
<1> QED
  BY <1>0, <1>1, <1>2

LEMMA Associates ==
  ASSUME NEW a \in Nat, NEW b \in Nat, NEW c \in Nat
  PROVE  (a * b) * c = a * (b * c) /\ a * b \in Nat
OBVIOUS

(* Dividing by one power less shows one digit more. *)
LEMMA DivDigit ==
  ASSUME NEW n \in Nat, NEW h \in Nat \ {0}, NEW k \in Nat \ {0}
  PROVE  n \div h = (n \div (h * k)) * k + ((n \div h) % k)
<1> DEFINE q == n \div h
           r == n % h
           p == q \div k
           s == q % k
           d == h * k
           e == n \div d
           u == n % d
<1>1. q \in Nat /\ r \in Nat /\ r < h /\ n = h * q + r
  BY Quotient
<1>2. p \in Nat /\ s \in Nat /\ s < k /\ q = k * p + s
  BY <1>1, Quotient
<1>3. d \in Nat \ {0}
  OBVIOUS
<1>4. e \in Nat /\ u \in Nat /\ u < d /\ n = d * e + u
  BY <1>3, Quotient
<1>5. h \in Nat /\ k \in Nat
  OBVIOUS
<1>d. d = h * k
  OBVIOUS
<1> HIDE DEF q, r, p, s, d, e, u
<1>6. h * q = d * p + h * s
  <2>1. k * p \in Nat
    BY <1>2, <1>5
  <2>2. h * q = h * (k * p) + h * s
    BY <1>2, <1>5, <2>1
  <2>3. (h * k) * p = h * (k * p)
    BY <1>2, <1>5, Associates
  <2> QED
    BY <1>d, <2>2, <2>3
<1>7. h * s \in Nat /\ h * s + h <= d
  <2>1. h * s + h <= h * k
    BY <1>2, <1>5, Multiples
  <2> QED
    BY <1>2, <1>5, <1>d, <2>1
<1>8. h * s + r \in Nat /\ h * s + r < d
  BY <1>1, <1>3, <1>5, <1>7
<1>9. d * p + (h * s + r) = d * e + u
  <2>1. d * p \in Nat
    BY <1>2, <1>3
  <2> QED
    BY <1>1, <1>4, <1>6, <1>7, <2>1
<1>10. p = e
  BY <1>2, <1>3, <1>4, <1>8, <1>9, QuotientUnique
<1>11. k * p = p * k
  BY <1>2, <1>5
<1>12. q = e * k + s
  BY <1>2, <1>10, <1>11
<1> QED
  BY <1>12 DEF q, s, e, d

-----------------------------------------------------------------------------
(* The digits of a word *)

(* The word without its last digits. *)
Prefix(n) == [i \in 0 .. Digits |-> n \div Power[Digits - i]]

(* Padded writes digits, and they are the digits of the number. *)
LEMMA PaddedDigits ==
  ASSUME NEW n \in Word
  PROVE  /\ Padded(n) \in Seq(0 .. Base - 1) /\ Len(Padded(n)) = Digits
         /\ Appends(Prefix(n), Digits, 0, Padded(n))
         /\ Prefix(n)[Digits] = n
<1>1. Digits \in Nat /\ Digits > 0 /\ Base \in Nat \ {0} /\ n \in Nat /\ n < Power[Digits]
  BY BaseAssumption, SizeAssumption DEF Word, Max
<1> DEFINE ds == Padded(n)
           f == Prefix(n)
<1>2. ASSUME NEW i \in 0 .. Digits
      PROVE  /\ Digits - i \in 0 .. Digits /\ Power[Digits - i] \in Nat \ {0}
             /\ f[i] = n \div Power[Digits - i] /\ f[i] \in Nat
  <2>1. Digits - i \in 0 .. Digits
    BY <1>1
  <2>2. Power[Digits - i] \in Nat \ {0}
    BY <2>1, Powers
  <2>3. f[i] = n \div Power[Digits - i]
    BY DEF Prefix
  <2>4. n \div Power[Digits - i] \in Nat
    BY <1>1, <2>2, Quotient
  <2> QED
    BY <2>1, <2>2, <2>3, <2>4
<1>3. ASSUME NEW i \in 1 .. Digits
      PROVE  ds[i] = f[i] % Base /\ ds[i] \in 0 .. Base - 1
  <2>1. i \in 0 .. Digits
    BY <1>1
  <2>2. ds[i] = f[i] % Base
    BY <1>2, <2>1 DEF Padded
  <2>3. f[i] \in Nat
    BY <1>2, <2>1
  <2>4. f[i] % Base \in 0 .. Base - 1
    <3> HIDE DEF f
    <3> QED
      BY <1>1, <2>3
  <2> QED
    BY <2>2, <2>4
<1>4. ds \in Seq(0 .. Base - 1) /\ Len(ds) = Digits
  <2>1. ds \in [1 .. Digits -> 0 .. Base - 1]
    <3>1. ds = [i \in 1 .. Digits |-> ds[i]]
      BY DEF Padded
    <3> HIDE DEF ds
    <3> QED
      BY <1>3, <3>1
  <2> HIDE DEF ds
  <2> QED
    BY <1>1, <2>1
<1>5. f \in [0 .. Digits -> Nat]
  <2>1. f = [i \in 0 .. Digits |-> f[i]]
    BY DEF Prefix
  <2> HIDE DEF f
  <2> QED
    BY <1>2, <2>1
<1>6. f[0] = 0
  <2>1. 0 \in 0 .. Digits /\ Digits - 0 = Digits
    BY <1>1
  <2>2. f[0] = n \div Power[Digits] /\ Power[Digits] \in Nat \ {0}
    BY <1>2, <2>1
  <2>3. PICK k \in Nat \ {0} : k = Power[Digits]
    BY <2>2
  <2>4. n \div k = 0
    <3>1. /\ n \div k \in Nat /\ n % k \in Nat /\ n % k < k
          /\ n = k * (n \div k) + (n % k)
      BY <1>1, Quotient
    <3>2. k * 0 + n = n /\ n < k
      BY <1>1, <2>3
    <3>3. PICK q \in Nat : q = n \div k
      BY <3>1
    <3>4. PICK t \in Nat : t = n % k
      BY <3>1
    <3>5. k * 0 + n = k * q + t /\ t < k
      BY <3>1, <3>2, <3>3, <3>4
    <3>6. 0 = q
      BY <1>1, <3>2, <3>5, QuotientUnique
    <3> QED
      BY <3>3, <3>6
  <2> QED
    BY <2>2, <2>3, <2>4
<1>7. ASSUME NEW i \in 1 .. Digits PROVE f[i] = f[i - 1] * Base + ds[i]
  <2>1. i \in 0 .. Digits /\ i - 1 \in 0 .. Digits /\ Digits - (i - 1) \in 1 .. Digits
        /\ (Digits - (i - 1)) - 1 = Digits - i
    BY <1>1
  <2>2. PICK h \in Nat \ {0} : h = Power[Digits - i]
    BY <1>2, <2>1
  <2>3. Power[Digits - (i - 1)] = h * Base
    <3>1. Power[Digits - (i - 1)] = Power[(Digits - (i - 1)) - 1] * Base
      BY <2>1, Powers
    <3> QED
      BY <2>1, <2>2, <3>1
  <2>4. n \div h = (n \div (h * Base)) * Base + ((n \div h) % Base)
    BY <1>1, DivDigit
  <2>5. f[i] = n \div h /\ f[i - 1] = n \div (h * Base)
    BY <1>2, <2>1, <2>2, <2>3
  <2>6. ds[i] = (n \div h) % Base
    BY <1>3, <2>5
  <2> QED
    BY <2>4, <2>5, <2>6
<1>8. f[Digits] = n
  <2>1. Digits \in 0 .. Digits /\ Digits - Digits = 0
    BY <1>1
  <2>2. f[Digits] = n \div Power[0] /\ Power[0] = 1
    BY <1>2, <2>1, Powers
  <2>3. n \div 1 = n
    BY <1>1
  <2> QED
    BY <2>2, <2>3
<1>9. Appends(f, Digits, 0, ds)
  BY <1>5, <1>6, <1>7 DEF Appends
<1> QED
  BY <1>4, <1>8, <1>9
LEMMA FunctionIsSeq ==
  ASSUME NEW S, NEW m \in Nat, NEW s \in [1 .. m -> S]
  PROVE  s \in Seq(S)
OBVIOUS

(* The zeros before the first digit written count for nothing. *)
LEMMA UnpaddedDigits ==
  ASSUME NEW n \in Word
  PROVE  /\ Unpadded(n) \in Seq(0 .. Base - 1) /\ Len(Unpadded(n)) <= Digits
         /\ Number(Unpadded(n)) = n
<1> DEFINE ds == Padded(n)
           f == Prefix(n)
           Leads(i) == /\ \A j \in 1 .. i - 1 : ds[j] = 0
                       /\ ds[i] # 0 \/ i = Digits
           first == CHOOSE i \in 1 .. Digits : Leads(i)
<1>1. Digits \in Nat /\ Digits > 0 /\ Base \in Nat \ {0}
  BY BaseAssumption
<1>2. ds \in Seq(0 .. Base - 1) /\ Len(ds) = Digits /\ Appends(f, Digits, 0, ds) /\ f[Digits] = n
  BY PaddedDigits
<1>3. Unpadded(n) = SubSeq(ds, first, Digits)
  BY DEF Unpadded
<1> HIDE DEF ds, f
<1>4. \E i \in 1 .. Digits : Leads(i)
  <2> DEFINE T == {i \in 1 .. Digits : ds[i] # 0 \/ i = Digits}
  <2>1. T \subseteq Nat /\ Digits \in T
    BY <1>1
  <2>2. PICK m \in T : \A i \in T : m <= i
    <3> HIDE DEF T
    <3> QED
      BY <2>1, Smallest
  <2>3. m \in 1 .. Digits /\ (ds[m] # 0 \/ m = Digits)
    OBVIOUS
  <2>4. ASSUME NEW j \in 1 .. m - 1 PROVE ds[j] = 0
    <3>1. j \in 1 .. Digits /\ ~(m <= j)
      BY <1>1, <2>3
    <3>2. j \notin T
      <4> HIDE DEF T
      <4> QED
        BY <2>2, <3>1
    <3> QED
      BY <3>1, <3>2
  <2> QED
    BY <2>3, <2>4
<1>5. first \in 1 .. Digits /\ Leads(first)
  BY <1>4
<1>6. PICK k \in 1 .. Digits : k = first
  BY <1>5
<1>7. \A j \in 1 .. k - 1 : ds[j] = 0
  BY <1>5, <1>6
<1> HIDE DEF first
<1> DEFINE m == Digits - k + 1
           us == SubSeq(ds, k, Digits)
           g == [i \in 0 .. m |-> f[k - 1 + i]]
<1>8. m \in 1 .. Digits /\ k - 1 + m = Digits /\ k - 1 \in 0 .. Digits
  BY <1>1
<1>9. us \in Seq(0 .. Base - 1) /\ Len(us) = m /\ \A i \in 1 .. m : us[i] = ds[k - 1 + i]
  <2>1. /\ Len(us) = m
        /\ \A i \in 1 .. m : us[i] = ds[k + i - 1]
        /\ us = [i \in 1 .. m |-> ds[k + i - 1]]
    BY <1>1, <1>2, <1>8
  <2>2. ASSUME NEW i \in 1 .. m PROVE k + i - 1 = k - 1 + i /\ k + i - 1 \in 1 .. Digits
    BY <1>1
  <2>3. \A i \in 1 .. m : us[i] = ds[k - 1 + i]
    BY <2>1, <2>2
  <2>4. ASSUME NEW j \in 1 .. Digits PROVE ds[j] \in 0 .. Base - 1
    BY <1>1, <1>2
  <2>5. \A i \in 1 .. m : us[i] \in 0 .. Base - 1
    BY <2>1, <2>2, <2>4
  <2>6. us \in [1 .. m -> 0 .. Base - 1]
    <3>1. us = [i \in 1 .. m |-> us[i]]
      BY <2>1
    <3> HIDE DEF us, m
    <3> QED
      BY <2>5, <3>1
  <2>m. m \in Nat
    BY <1>8
  <2>7. us \in Seq(0 .. Base - 1)
    <3> HIDE DEF us, m
    <3> QED
      BY <2>6, <2>m, FunctionIsSeq
  <2> QED
    BY <2>1, <2>3, <2>7
<1>10. f[k - 1] = 0
  <2> DEFINE T == {i \in 0 .. Digits : f[i] = 0}
  <2>1. 0 \in T
    BY <1>1, <1>2 DEF Appends
  <2>2. ASSUME NEW i \in 1 .. k - 1, i - 1 \in T PROVE i \in T
    <3>1. i \in 1 .. Digits /\ ds[i] = 0
      BY <1>1, <1>7
    <3>2. f[i] = f[i - 1] * Base + ds[i]
      BY <1>2, <3>1 DEF Appends
    <3>3. f[i - 1] = 0
      BY <2>2
    <3> QED
      BY <1>1, <3>1, <3>2, <3>3
  <2> HIDE DEF T
  <2>3. k - 1 \in Nat /\ k - 1 \in 0 .. k - 1
    BY <1>8
  <2>4. k - 1 \in T
    BY <2>1, <2>2, <2>3, UpTo
  <2> QED
    BY <2>4 DEF T
<1>11. Appends(g, m, 0, us)
  <2>1. ASSUME NEW i \in 0 .. m PROVE k - 1 + i \in 0 .. Digits /\ g[i] = f[k - 1 + i]
    BY <1>1
  <2>2. g \in [0 .. m -> Nat]
    <3>1. \A i \in 0 .. m : f[k - 1 + i] \in Nat
      BY <1>2, <2>1 DEF Appends
    <3> HIDE DEF m
    <3> QED
      BY <3>1
  <2>3. g[0] = 0
    <3>1. 0 \in 0 .. m /\ k - 1 + 0 = k - 1
      BY <1>8
    <3> QED
      BY <1>10, <2>1, <3>1
  <2>4. ASSUME NEW i \in 1 .. m PROVE g[i] = g[i - 1] * Base + us[i]
    <3>1. /\ i \in 0 .. m /\ i - 1 \in 0 .. m
          /\ k - 1 + i \in 1 .. Digits /\ k - 1 + (i - 1) = (k - 1 + i) - 1
      BY <1>1
    <3>2. f[k - 1 + i] = f[(k - 1 + i) - 1] * Base + ds[k - 1 + i]
      BY <1>2, <3>1 DEF Appends
    <3>3. g[i] = f[k - 1 + i] /\ g[i - 1] = f[(k - 1 + i) - 1] /\ us[i] = ds[k - 1 + i]
      <4> HIDE DEF g, us, m
      <4> QED
        BY <1>9, <2>1, <3>1
    <3> HIDE DEF g, us
    <3> QED
      BY <3>2, <3>3
  <2> HIDE DEF g, us, m
  <2> QED
    BY <2>2, <2>3, <2>4 DEF Appends
<1>12. Number(us) = g[m]
  <2>1. m \in Nat
    BY <1>8
  <2> HIDE DEF g, us, m
  <2> QED
    BY <1>9, <1>11, <2>1, NumberIs
<1>13. g[m] = n
  <2>1. m \in 0 .. m
    BY <1>8
  <2>2. g[m] = f[k - 1 + m]
    BY <2>1
  <2> QED
    BY <1>2, <1>8, <2>2
<1>14. Unpadded(n) = us
  BY <1>3, <1>6
<1> HIDE DEF us, g, m
<1> QED
  BY <1>8, <1>9, <1>12, <1>13, <1>14

(* A power can be taken in two parts. *)
LEMMA PowerSum ==
  ASSUME NEW k \in 0 .. Digits
  PROVE  Power[k] * Power[Digits - k] = Power[Digits]
<1>1. Digits \in Nat /\ Base \in Nat /\ k \in Nat
  BY BaseAssumption
<1> DEFINE T == {i \in 0 .. Digits - k : Power[k] * Power[i] = Power[k + i]}
<1>2. 0 \in T
  <2>1. k + 0 = k /\ 0 \in 0 .. Digits - k
    BY <1>1
  <2>2. Power[0] = 1 /\ Power[k] \in Nat
    BY Powers
  <2>3. Power[k] * 1 = Power[k]
    BY <2>2
  <2> QED
    BY <2>1, <2>2, <2>3
<1>3. ASSUME NEW i \in 1 .. Digits - k, i - 1 \in T PROVE i \in T
  <2>1. /\ i \in 1 .. Digits /\ k + i \in 1 .. Digits /\ (k + i) - 1 = k + (i - 1)
        /\ i - 1 \in 0 .. Digits /\ k + (i - 1) \in 0 .. Digits
    BY <1>1
  <2>2. Power[i] = Power[i - 1] * Base /\ Power[k + i] = Power[k + (i - 1)] * Base
    BY <2>1, Powers
  <2>3. Power[k] * Power[i - 1] = Power[k + (i - 1)]
    BY <1>3
  <2>4. PICK a \in Nat : a = Power[k]
    BY Powers
  <2>5. PICK b \in Nat : b = Power[i - 1]
    BY <2>1, Powers
  <2>6. (a * b) * Base = a * (b * Base)
    BY <1>1, Associates
  <2>7. Power[k] * Power[i] = Power[k + i]
    BY <2>2, <2>3, <2>4, <2>5, <2>6
  <2> QED
    BY <2>7
<1>4. Digits - k \in Nat /\ Digits - k \in 0 .. Digits - k /\ k + (Digits - k) = Digits
  BY <1>1
<1> HIDE DEF T
<1>5. Digits - k \in T
  BY <1>2, <1>3, <1>4, UpTo
<1> QED
  BY <1>4, <1>5 DEF T

(* The zeros behind the last digit written are those of the place. *)
LEMMA FractionDigits ==
  ASSUME NEW n \in Word
  PROVE  /\ FractionText(n) \in Seq(0 .. Base - 1) /\ Len(FractionText(n)) <= Digits
         /\ Fraction(FractionText(n)) = n
<1> DEFINE ds == Padded(n)
           f == Prefix(n)
           Ends(i) == /\ \A j \in i + 1 .. Len(ds) : ds[j] = 0
                      /\ i # 0 => ds[i] # 0
           last == CHOOSE i \in 0 .. Len(ds) : Ends(i)
<1>1. Digits \in Nat /\ Digits > 0 /\ Base \in Nat \ {0}
  BY BaseAssumption
<1>2. ds \in Seq(0 .. Base - 1) /\ Len(ds) = Digits /\ Appends(f, Digits, 0, ds) /\ f[Digits] = n
  BY PaddedDigits
<1>3. FractionText(n) = SubSeq(ds, 1, last)
  BY DEF FractionText, Trimmed
<1> HIDE DEF ds, f
<1>4. \E i \in 0 .. Len(ds) : Ends(i)
  <2> DEFINE T == {i \in 0 .. Digits : \A j \in i + 1 .. Digits : ds[j] = 0}
  <2>1. T \subseteq Nat /\ Digits \in T
    BY <1>1
  <2>2. PICK m \in T : \A i \in T : m <= i
    <3> HIDE DEF T
    <3> QED
      BY <2>1, Smallest
  <2>3. m \in 0 .. Digits /\ \A j \in m + 1 .. Digits : ds[j] = 0
    OBVIOUS
  <2>4. ASSUME m # 0, ds[m] = 0 PROVE FALSE
    <3>1. m - 1 \in 0 .. Digits /\ ~(m <= m - 1)
      BY <1>1, <2>3, <2>4
    <3>2. ASSUME NEW j \in (m - 1) + 1 .. Digits PROVE ds[j] = 0
      <4>1. j = m \/ j \in m + 1 .. Digits
        BY <1>1, <2>3, <2>4
      <4> QED
        BY <2>3, <2>4, <4>1
    <3>3. m - 1 \in T
      BY <3>1, <3>2
    <3> HIDE DEF T
    <3> QED
      BY <2>2, <3>1, <3>3
  <2> QED
    BY <1>2, <2>3, <2>4
<1>5. last \in 0 .. Digits /\ Ends(last)
  BY <1>2, <1>4
<1>6. PICK k \in 0 .. Digits : k = last
  BY <1>5
<1>7. \A j \in k + 1 .. Digits : ds[j] = 0
  BY <1>2, <1>5, <1>6
<1> HIDE DEF last
<1> DEFINE ts == SubSeq(ds, 1, k)
           g == [i \in 0 .. k |-> f[i]]
<1>8. k \in Nat /\ k <= Digits
  BY <1>1
<1>9. ts \in Seq(0 .. Base - 1) /\ Len(ts) = k /\ \A i \in 1 .. k : ts[i] = ds[i]
  <2>1. /\ Len(ts) = k
        /\ \A i \in 1 .. k : ts[i] = ds[i]
        /\ DOMAIN ts = 1 .. k
    BY <1>1, <1>2, <1>8
  <2>2. ASSUME NEW j \in 1 .. k PROVE ds[j] \in 0 .. Base - 1
    BY <1>1, <1>2
  <2>3. ts \in [1 .. k -> 0 .. Base - 1]
    <3>1. ts = [i \in 1 .. k |-> ds[i]]
      BY <1>1, <1>2, <1>8
    <3> HIDE DEF ts
    <3> QED
      BY <2>2, <3>1
  <2>4. ts \in Seq(0 .. Base - 1)
    <3> HIDE DEF ts
    <3> QED
      BY <1>8, <2>3, FunctionIsSeq
  <2> QED
    BY <2>1, <2>4
<1>10. Appends(g, k, 0, ts)
  <2>1. ASSUME NEW i \in 0 .. k PROVE i \in 0 .. Digits /\ g[i] = f[i]
    BY <1>1
  <2>2. g \in [0 .. k -> Nat]
    <3>1. \A i \in 0 .. k : f[i] \in Nat
      BY <1>2, <2>1 DEF Appends
    <3> QED
      BY <3>1
  <2>3. g[0] = 0
    BY <1>2, <1>8 DEF Appends
  <2>4. ASSUME NEW i \in 1 .. k PROVE g[i] = g[i - 1] * Base + ts[i]
    <3>1. i \in 0 .. k /\ i - 1 \in 0 .. k /\ i \in 1 .. Digits
      BY <1>1
    <3>2. f[i] = f[i - 1] * Base + ds[i]
      BY <1>2, <3>1 DEF Appends
    <3>3. g[i] = f[i] /\ g[i - 1] = f[i - 1] /\ ts[i] = ds[i]
      <4> HIDE DEF g, ts
      <4> QED
        BY <1>9, <2>1, <3>1
    <3> HIDE DEF g, ts
    <3> QED
      BY <3>2, <3>3
  <2> HIDE DEF g, ts
  <2> QED
    BY <2>2, <2>3, <2>4 DEF Appends
<1>11. Number(ts) = f[k]
  <2>1. k \in 0 .. k /\ g[k] = f[k]
    BY <1>8
  <2> HIDE DEF g, ts
  <2>2. Number(ts) = g[k]
    BY <1>8, <1>9, <1>10, NumberIs
  <2> QED
    BY <2>1, <2>2
<1>12. f[k] * Power[Digits - k] = n
  <2> DEFINE T == {i \in 0 .. Digits - k : f[k + i] = f[k] * Power[i]}
  <2>1. 0 \in T
    <3>1. k + 0 = k /\ 0 \in 0 .. Digits - k
      BY <1>1
    <3>2. Power[0] = 1 /\ f[k] \in Nat
      BY <1>2, Powers DEF Appends
    <3>3. f[k] * 1 = f[k]
      BY <3>2
    <3> QED
      BY <3>1, <3>2, <3>3
  <2>2. ASSUME NEW i \in 1 .. Digits - k, i - 1 \in T PROVE i \in T
    <3>1. /\ i \in 1 .. Digits /\ k + i \in 1 .. Digits /\ (k + i) - 1 = k + (i - 1)
          /\ i - 1 \in 0 .. Digits /\ k + i \in k + 1 .. Digits /\ k + (i - 1) \in 0 .. Digits
      BY <1>1
    <3>2. Power[i] = Power[i - 1] * Base
      BY <3>1, Powers
    <3>3. f[k + i] = f[k + (i - 1)] * Base + ds[k + i] /\ f[k + (i - 1)] \in Nat
      BY <1>2, <3>1 DEF Appends
    <3>4. ds[k + i] = 0
      BY <1>7, <3>1
    <3>5. f[k + (i - 1)] = f[k] * Power[i - 1]
      BY <2>2
    <3>6. PICK a \in Nat : a = f[k]
      BY <1>2 DEF Appends
    <3>7. PICK b \in Nat : b = Power[i - 1]
      BY <3>1, Powers
    <3>8. (a * b) * Base = a * (b * Base) /\ a * b \in Nat
      BY <1>1, Associates
    <3>9. (a * b) * Base + 0 = (a * b) * Base
      BY <1>1, <3>8
    <3>10. f[k + i] = f[k] * Power[i]
      BY <3>2, <3>3, <3>4, <3>5, <3>6, <3>7, <3>8, <3>9
    <3> QED
      BY <3>10
  <2>3. Digits - k \in Nat /\ Digits - k \in 0 .. Digits - k /\ k + (Digits - k) = Digits
    BY <1>1
  <2> HIDE DEF T
  <2>4. Digits - k \in T
    BY <2>1, <2>2, <2>3, UpTo
  <2> QED
    BY <1>2, <2>3, <2>4 DEF T
<1>13. FractionText(n) = ts
  BY <1>3, <1>6
<1>14. Fraction(ts) = f[k] * Power[Digits - k]
  <2> HIDE DEF ts
  <2> QED
    BY <1>9, <1>11 DEF Fraction
<1> HIDE DEF ts, g
<1> QED
  BY <1>8, <1>9, <1>12, <1>13, <1>14
-----------------------------------------------------------------------------
(* Reading and writing *)

(* Digits are no other characters. *)
LEMMA DigitsAreWord ==
  ASSUME NEW ds \in Seq(0 .. Base - 1), Len(ds) <= Digits
  PROVE  IsWord(ds)
<1>1. Base \in Nat /\ Len(ds) \in Nat /\ DOMAIN ds = 1 .. Len(ds)
  BY BaseAssumption
<1>2. ASSUME NEW i \in DOMAIN ds PROVE ds[i] # Base
  <2>1. ds[i] \in 0 .. Base - 1
    BY <1>1
  <2> QED
    BY <1>1, <2>1
<1> QED
  BY <1>2 DEF IsWord

LEMMA RoundTrip == TypeOK => TextRoundTrip
<1> SUFFICES ASSUME TypeOK, IsValid(val)
             PROVE  LET t == FormatAsHex(val) IN CreateFromHex(t[1], t[2], t[3]) = val
  BY DEF TextRoundTrip
<1> DEFINE x == Unpadded(val.whole)
           y == FractionText(val.frac)
           neg == IsNeg(val)
<1>1. /\ val.whole \in Word /\ val.frac \in Word /\ val.tag \in Valid
      /\ val = [whole |-> val.whole, frac |-> val.frac, tag |-> val.tag]
  BY DEF TypeOK, Fixedpoint, IsValid
<1>2. x \in Seq(0 .. Base - 1) /\ Len(x) <= Digits /\ Number(x) = val.whole
  BY <1>1, UnpaddedDigits
<1>3. y \in Seq(0 .. Base - 1) /\ Len(y) <= Digits /\ Fraction(y) = val.frac
  BY <1>1, FractionDigits
<1>4. FormatAsHex(val) = <<neg, x, y>>
  BY DEF FormatAsHex
<1> HIDE DEF x, y
<1>5. IsWord(x) /\ IsWord(y)
  BY <1>2, <1>3, DigitsAreWord
<1>6. (IF neg THEN "Valid_Negative" ELSE "Valid_Non_Negative") = val.tag
  BY <1>1 DEF IsNeg, Valid
<1>7. CreateFromHex(neg, x, y) = val
  BY <1>1, <1>2, <1>3, <1>5, <1>6 DEF CreateFromHex
<1> QED
  BY <1>4, <1>7

(* Digits that are not too many are worth less than the power of the base. *)
LEMMA NumberIsSmall ==
  ASSUME NEW ds \in Seq(0 .. Base), IsWord(ds)
  PROVE  Len(ds) \in 0 .. Digits /\ Number(ds) \in Nat /\ Number(ds) + 1 <= Power[Len(ds)]
<1>1. PICK n \in 0 .. Digits : n = Len(ds)
  BY BaseAssumption DEF IsWord
<1>2. Digits \in Nat /\ Base \in Nat \ {0} /\ n \in Nat
  BY BaseAssumption
<1>3. ASSUME NEW i \in 1 .. n PROVE ds[i] \in Nat /\ ds[i] + 1 <= Base
  <2>1. i \in DOMAIN ds /\ ds[i] \in 0 .. Base
    BY <1>1, <1>2
  <2>2. ds[i] # Base
    BY <2>1 DEF IsWord
  <2> QED
    BY <1>2, <2>1, <2>2
<1>4. PICK f : Appends(f, n, 0, ds)
  BY <1>2, <1>3, SomeAppends
<1>5. Number(ds) = f[n]
  BY <1>1, <1>2, <1>4, NumberIs
<1> DEFINE T == {i \in 0 .. n : f[i] + 1 <= Power[i]}
<1>6. 0 \in T
  <2>1. f[0] = 0 /\ Power[0] = 1 /\ 0 \in 0 .. n
    BY <1>2, <1>4, Powers DEF Appends
  <2> QED
    BY <2>1
<1>7. ASSUME NEW i \in 1 .. n, i - 1 \in T PROVE i \in T
  <2>1. i \in 0 .. n /\ i - 1 \in 0 .. n /\ i \in 1 .. Digits /\ i - 1 \in 0 .. Digits
    BY <1>2
  <2>2. PICK a \in Nat : a = f[i - 1]
    BY <1>4, <2>1 DEF Appends
  <2>3. PICK b \in Nat : b = Power[i - 1]
    BY <2>1, Powers
  <2>4. PICK d \in Nat : d = ds[i]
    BY <1>3
  <2>5. f[i] = a * Base + d
    BY <1>4, <2>2, <2>4 DEF Appends
  <2>6. Power[i] = b * Base
    BY <2>1, <2>3, Powers
  <2>7. a + 1 <= b
    BY <1>7, <2>2, <2>3
  <2>8. d + 1 <= Base
    BY <1>3, <2>4
  <2>9. a * Base + Base <= b * Base
    <3>1. a \in Nat /\ b \in Nat /\ Base \in Nat
      BY <1>2
    <3>2. Base * a + Base <= Base * b
      BY <2>7, <3>1, Multiples
    <3>3. Base * a = a * Base /\ Base * b = b * Base
      BY <3>1
    <3> QED
      BY <3>2, <3>3
  <2>10. a * Base \in Nat /\ b * Base \in Nat
    BY <1>2
  <2>11. (a * Base + d) + 1 <= b * Base
    BY <1>2, <2>8, <2>9, <2>10
  <2>12. f[i] + 1 <= Power[i]
    BY <2>5, <2>6, <2>11
  <2> QED
    BY <2>1, <2>12
<1> HIDE DEF T
<1>8. n \in 0 .. n
  BY <1>2
<1>9. n \in T
  BY <1>2, <1>6, <1>7, <1>8, UpTo
<1>10. f[n] \in Nat
  BY <1>4, <1>8 DEF Appends
<1> QED
  BY <1>1, <1>5, <1>9, <1>10 DEF T

LEMMA FractionIsWord ==
  ASSUME NEW ds \in Seq(0 .. Base), IsWord(ds)
  PROVE  Fraction(ds) \in Word
<1>1. Len(ds) \in 0 .. Digits /\ Number(ds) \in Nat /\ Number(ds) + 1 <= Power[Len(ds)]
  BY NumberIsSmall
<1>2. Digits \in Nat
  BY BaseAssumption
<1>3. PICK k \in 0 .. Digits : k = Len(ds)
  BY <1>1
<1>4. Digits - k \in 0 .. Digits
  BY <1>2
<1>5. PICK p \in Nat \ {0} : p = Power[k]
  BY Powers
<1>6. PICK q \in Nat \ {0} : q = Power[Digits - k]
  BY <1>4, Powers
<1>7. PICK a \in Nat : a = Number(ds)
  BY <1>1
<1>8. p * q = Size
  BY <1>5, <1>6, PowerSum, BaseAssumption
<1>9. a + 1 <= p
  BY <1>1, <1>3, <1>5, <1>7
<1>10. q * a + q <= q * p
  <2>1. q \in Nat /\ p \in Nat /\ a < p
    BY <1>9
  <2> QED
    BY <2>1, Multiples
<1>11. q * a = a * q /\ q * p = p * q /\ a * q \in Nat
  OBVIOUS
<1>12. a * q < Size
  BY <1>8, <1>10, <1>11
<1>13. Fraction(ds) = a * q
  BY <1>3, <1>6, <1>7 DEF Fraction
<1> QED
  BY <1>11, <1>12, <1>13, SizeAssumption DEF Word, Max

LEMMA NumberIsWord ==
  ASSUME NEW ds \in Seq(0 .. Base), IsWord(ds)
  PROVE  Number(ds) \in Word
<1>1. Len(ds) \in 0 .. Digits /\ Number(ds) \in Nat /\ Number(ds) + 1 <= Power[Len(ds)]
  BY NumberIsSmall
<1>2. Digits \in Nat
  BY BaseAssumption
<1>3. PICK k \in 0 .. Digits : k = Len(ds)
  BY <1>1
<1>4. Digits - k \in 0 .. Digits
  BY <1>2
<1>5. PICK p \in Nat \ {0} : p = Power[k]
  BY Powers
<1>6. PICK q \in Nat \ {0} : q = Power[Digits - k]
  BY <1>4, Powers
<1>7. p * q = Size
  BY <1>5, <1>6, PowerSum, BaseAssumption
<1>8. p <= Size
  <2>1. PICK r \in Nat : q = r + 1
    <3>1. q - 1 \in Nat /\ q = (q - 1) + 1
      OBVIOUS
    <3> QED
      BY <3>1
  <2>2. p * q = p * r + p /\ p * r \in Nat
    BY <2>1
  <2> QED
    BY <1>7, <2>2
<1> QED
  BY <1>1, <1>3, <1>5, <1>8, SizeAssumption DEF Word, Max

(* What is read is a number, or the error: reading is a way to create one. *)
LEMMA ReadIsCreate == Read => Create
<1> SUFFICES ASSUME NEW neg \in BOOLEAN, NEW x \in Texts, NEW y \in Texts, NEW v,
                    v = CreateFromHex(neg, x, y),
                    Result(v, IF IsValid(v) THEN Value(v) ELSE 0)
             PROVE  Create
  BY DEF Read
<1>1. x \in Seq(0 .. Base) /\ y \in Seq(0 .. Base)
  BY TextsAssumption
<1>2. CASE IsWord(x) /\ IsWord(y)
  <2>1. Number(x) \in Word /\ Fraction(y) \in Word
    BY <1>1, <1>2, NumberIsWord, FractionIsWord
  <2>2. v = [whole |-> Number(x), frac |-> Fraction(y),
             tag |-> IF neg THEN "Valid_Negative" ELSE "Valid_Non_Negative"]
    BY <1>2 DEF CreateFromHex
  <2>3. v \in Numbers /\ IsValid(v)
    BY <2>1, <2>2 DEF Numbers, IsValid, Valid
  <2> QED
    BY <2>3 DEF Create
<1>3. CASE ~(IsWord(x) /\ IsWord(y))
  <2>1. v = ErrorValue
    BY <1>3 DEF CreateFromHex
  <2>2. ~IsValid(v)
    BY <2>1 DEF ErrorValue, Zero, Create2, IsValid, Valid
  <2> QED
    BY <2>1, <2>2 DEF Create
<1> QED
  BY <1>2, <1>3

(* A caller that reads texts does nothing FixedPoint does not allow for, so *)
(* all that holds of FixedPoint holds of it.                                *)
THEOREM ReadingCreates == TextSpec => Spec
<1>1. [Next \/ Read]_vars => [Next]_vars
  BY ReadIsCreate DEF Next
<1> QED
  BY <1>1, PTL DEF TextSpec, Spec

(* fixedpoint_format_as_hex writes what fixedpoint_create_from_hex reads as *)
(* the same number, for words of every size and digits to every base.       *)
THEOREM WrittenIsRead == TextSpec => []TextRoundTrip
<1> QED
  BY ReadingCreates, TypeCorrect, RoundTrip, PTL
=============================================================================
