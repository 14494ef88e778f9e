---------------------------- MODULE MCFixedPoint ----------------------------
(* Fixed-point numbers with words of three binary digits. *)
EXTENDS FixedPointText

(* All sequences of digits, up to one too many, and some with other characters. *)
MCTexts == UNION {[1 .. n -> 0 .. 1] : n \in 0 .. Digits + 1}
           \cup {<<2>>, <<0, 2>>, <<2, 0, 1>>}
=============================================================================
