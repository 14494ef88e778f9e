------------------------------ MODULE FixedPoint ------------------------------
(***************************************************************************)
(* The fixed-point numbers of assign1/fixedpoint.c: a sign, a whole part   *)
(* and a fraction, each part a machine word of Size values (2^64), and a   *)
(* tag that says whether the number is what was asked for.                 *)
(*                                                                         *)
(* The machine is a caller with one value in hand, which it creates, from  *)
(* words or from a text, and passes to one operation after the other.      *)
(* Only valid values are passed on, as the assertions and fixedpoint.h     *)
(* ask.  A text may give any number, and the error value; which one it     *)
(* gives is the matter of FixedPointText.                                  *)
(***************************************************************************)
EXTENDS Integers

CONSTANT Size

ASSUME SizeAssumption == Size \in Nat /\ Size > 0 /\ Size % 2 = 0

Max == Size - 1
Word == 0 .. Max

VARIABLES val,   \* the value in hand
          exact  \* what it should be, in halves of the last place

vars == <<val, exact>>

Valid == {"Valid_Non_Negative", "Valid_Negative"}
Tags == Valid \cup {"Overflow_Positive", "Overflow_Negative",
                    "Underflow_Positive", "Underflow_Negative", "Error"}
Fixedpoint == [whole : Word, frac : Word, tag : Tags]
Numbers == [whole : Word, frac : Word, tag : Valid]

IsValid(v) == v.tag \in Valid
IsNeg(v) == v.tag = "Valid_Negative"

Create2(whole, frac) == [whole |-> whole, frac |-> frac, tag |-> "Valid_Non_Negative"]
Zero == Create2(0, 0)

(* Of the result of an invalid text only the tag is kept: nothing uses the parts. *)
ErrorValue == [Zero EXCEPT !.tag = "Error"]

-----------------------------------------------------------------------------
(* fixedpoint_add: the larger magnitude less the smaller, or the sum *)

(* Mutated form: words do not wrap around. *)
PlusWide(a, b) == a + b
Plus(a, b) == (a + b) % Size

Greater(a, b) == a.whole > b.whole \/ (a.whole = b.whole /\ a.frac > b.frac)

Difference(a, b) ==
  IF a.frac < b.frac
  THEN [whole |-> a.whole - b.whole - 1, frac |-> Max - b.frac + a.frac + 1, tag |-> a.tag]
  ELSE [whole |-> a.whole - b.whole, frac |-> a.frac - b.frac, tag |-> a.tag]

(* Mutated form: forgets that the carry can bring the sum back to Max. *)
WrapsOnly(left, right, whole, carry) == whole < left.whole \/ whole < right.whole
Wraps(left, right, whole, carry) ==
  \/ whole < left.whole \/ whole < right.whole
  \/ left.whole = Max /\ right.whole = Max /\ carry

SumOf(left, right) ==
  LET frac == Plus(left.frac, right.frac)
      carry == frac < left.frac \/ frac < right.frac
      whole == Plus(Plus(left.whole, right.whole), IF carry THEN 1 ELSE 0)
  IN [whole |-> whole, frac |-> frac,
      tag |-> IF ~Wraps(left, right, whole, carry) THEN left.tag
              ELSE IF IsNeg(left) THEN "Overflow_Negative" ELSE "Overflow_Positive"]

Add(left, right) ==
  IF IsNeg(left) = IsNeg(right) THEN SumOf(left, right)
  ELSE IF Greater(right, left) THEN Difference(right, left)
  ELSE IF Greater(left, right) THEN Difference(left, right)
  ELSE Zero

-----------------------------------------------------------------------------
(* The other operations *)

Opposite(v) == [v EXCEPT !.tag = IF IsNeg(v) THEN "Valid_Non_Negative"
                                             ELSE "Valid_Negative"]

Sub(left, right) == Add(left, Opposite(right))

Negate(v) == IF v.whole # 0 \/ v.frac # 0 THEN Opposite(v) ELSE v

Halve(v) ==
  [whole |-> v.whole \div 2,
   frac |-> v.frac \div 2 + (IF v.whole % 2 = 1 THEN Size \div 2 ELSE 0),
   tag |-> IF v.frac % 2 = 0 THEN v.tag
           ELSE IF IsNeg(v) THEN "Underflow_Negative" ELSE "Underflow_Positive"]

Double(v) == Add(v, v)

(* Mutated form: of two negative numbers the larger magnitude is greater. *)
CompareUnsigned(left, right) ==
  IF IsNeg(left) # IsNeg(right) THEN IF IsNeg(left) THEN -1 ELSE 1
  ELSE IF Greater(left, right) THEN 1 ELSE IF Greater(right, left) THEN -1 ELSE 0

Compare(left, right) ==
  LET above == IF IsNeg(left) THEN -1 ELSE 1 IN
  IF IsNeg(left) # IsNeg(right) THEN above
  ELSE IF Greater(left, right) THEN above
  ELSE IF Greater(right, left) THEN -above ELSE 0

-----------------------------------------------------------------------------
(* The value of a number, in halves of the last place. *)
Value(v) == (IF IsNeg(v) THEN -2 ELSE 2) * (v.whole * Size + v.frac)

Init == \E w \in Word : val = Create2(w, 0) /\ exact = 2 * w * Size

Result(v, x) == val' = v /\ exact' = x

Create == \/ \E w, f \in Word : Result(Create2(w, f), 2 * (w * Size + f))
          \/ \E v \in Numbers : Result(v, Value(v))
          \/ Result(ErrorValue, 0)

Operate == /\ IsValid(val)
           /\ \/ \E v \in Numbers : \/ Result(Add(val, v), Value(val) + Value(v))
                                    \/ Result(Sub(val, v), Value(val) - Value(v))
              \/ Result(Negate(val), -Value(val))
              \/ Result(Halve(val), Value(val) \div 2)
              \/ Result(Double(val), 2 * Value(val))

Next == Create \/ Operate

Spec == Init /\ [][Next]_vars

-----------------------------------------------------------------------------
(* Every variable has its type: the parts of a value are words. *)
TypeOK == val \in Fixedpoint /\ exact \in Int

(* "if the sum is in the range of values that can be represented exactly,   *)
(* the sum is returned", and so for every operation: a valid value is the   *)
(* exact result, and otherwise the tag says, rightly, on which side the     *)
(* result was too large or that it fell between two numbers.                *)
Limit == 2 * Size * Size
IsOutcome(v, x) ==
  /\ IsValid(v) => x = Value(v)
  /\ v.tag = "Overflow_Positive"  => x >= Limit
  /\ v.tag = "Overflow_Negative"  => x <= -Limit
  /\ v.tag = "Underflow_Positive" => x > 0 /\ x % 2 = 1
  /\ v.tag = "Underflow_Negative" => x < 0 /\ x % 2 = 1
ResultOrReason == IsOutcome(val, exact)

Sign(n) == IF n < 0 THEN -1 ELSE IF n > 0 THEN 1 ELSE 0
InOrder(v, w) == Compare(v, w) = Sign(Value(v) - Value(w))

(* Numbers compare as their values do, unless one of them is the 0 with a *)
(* minus sign.                                                            *)
MinusZero == [Zero EXCEPT !.tag = "Valid_Negative"]
ComparesByValue == IsValid(val) /\ val # MinusZero =>
  \A v \in Numbers \ {MinusZero} : InOrder(val, v)
=============================================================================
