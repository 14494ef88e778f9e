---------------------------- MODULE FixedPointText ----------------------------
(***************************************************************************)
(* Reading and writing the numbers of FixedPoint in hexadecimal.  A word   *)
(* has Digits digits (16) to the base Base (16).  A text is a sign, digits *)
(* before the point and digits behind it; whether the point is there with  *)
(* no digits behind it makes no difference.                                *)
(***************************************************************************)
EXTENDS FixedPoint, Sequences

CONSTANTS Base, Digits,
          Texts  \* bound: the digits read, Base standing for any other character

(* What the digit with i digits behind it is worth. *)
Power[i \in 0 .. Digits] == IF i = 0 THEN 1 ELSE Power[i - 1] * Base

ASSUME BaseAssumption == /\ Base \in Nat \ {0} /\ Digits \in Nat \ {0}
                         /\ Size = Power[Digits]
ASSUME TextsAssumption == Texts \subseteq Seq(0 .. Base)

Number(ds) ==
  LET upTo[i \in 0 .. Len(ds)] == IF i = 0 THEN 0 ELSE upTo[i - 1] * Base + ds[i]
  IN upTo[Len(ds)]
Fraction(ds) == Number(ds) * Power[Digits - Len(ds)]

IsWord(ds) == Len(ds) <= Digits /\ Base \notin {ds[i] : i \in DOMAIN ds}

CreateFromHex(neg, x, y) ==
  IF IsWord(x) /\ IsWord(y)
  THEN [whole |-> Number(x), frac |-> Fraction(y),
        tag |-> IF neg THEN "Valid_Negative" ELSE "Valid_Non_Negative"]
  ELSE ErrorValue

(* printf: "%lx", the digits from the first that is not 0, and "%016lx" *)
Padded(n) == [i \in 1 .. Digits |-> (n \div Power[Digits - i]) % Base]
Unpadded(n) ==
  LET ds == Padded(n)
      first == CHOOSE i \in 1 .. Digits :
                 /\ \A j \in 1 .. i - 1 : ds[j] = 0
                 /\ ds[i] # 0 \/ i = Digits
  IN SubSeq(ds, first, Digits)

(* The zeros at the end are removed; if nothing is left so is the point. *)
Trimmed(ds) ==
  LET last == CHOOSE i \in 0 .. Len(ds) :
                /\ \A j \in i + 1 .. Len(ds) : ds[j] = 0
                /\ i # 0 => ds[i] # 0
  IN SubSeq(ds, 1, last)

(* Mutated form: the zeros at the front of the fraction are not printed. *)
FractionUnpadded(n) == Trimmed(Unpadded(n))
FractionText(n) == Trimmed(Padded(n))

FormatAsHex(v) == <<IsNeg(v), Unpadded(v.whole), FractionText(v.frac)>>

-----------------------------------------------------------------------------
Read == \E neg \in BOOLEAN, x, y \in Texts :
  LET v == CreateFromHex(neg, x, y) IN Result(v, IF IsValid(v) THEN Value(v) ELSE 0)

TextSpec == Init /\ [][Next \/ Read]_vars

-----------------------------------------------------------------------------
(* What is written can be read, and is the same number again. *)
TextRoundTrip == LET t == FormatAsHex(val) IN
  IsValid(val) => CreateFromHex(t[1], t[2], t[3]) = val
=============================================================================
