--------------------------- MODULE Renderer_proofs --------------------------
(***************************************************************************)
(* Theorems about Renderer: for every size of canvas, every file, every    *)
(* number of slots and every script.  In the order of the sections:        *)
(* numbers and colours; loops and images; the drawing functions; reading   *)
(* PNG files; writing them; the inductive invariant and the theorems.      *)
(*                                                                         *)
(* Where a function is defined by recursion in the model, Loop shows that  *)
(* such a function exists, so that the one chosen has the property that    *)
(* its definition asks for; UpTo then goes from step to step.  Predicates  *)
(* have a name of their own where a lemma takes or gives a formula with    *)
(* quantifiers.                                                            *)
(***************************************************************************)
EXTENDS Renderer, TLAPS, SequenceTheorems, WellFoundedInduction

-----------------------------------------------------------------------------
(* Numbers *)

(* A set of numbers has a smallest one. *)
LEMMA Smallest ==
  ASSUME NEW T, T \subseteq Nat, T # {}
  PROVE  \E m \in T : \A i \in T : m <= i
<1>1. PICK m \in T : \A i \in T : ~(<<i, m>> \in OpToRel(<, Nat))
  BY NatLessThanWellFounded, WFMin
<1>2. \A i \in T : ~(i < m)
  BY <1>1 DEF OpToRel
<1> QED
  BY <1>2

(* Something that holds at 0, and at i if at i - 1, holds up to n. *)
LEMMA UpTo ==
  ASSUME NEW n \in Nat, NEW T, 0 \in T, \A i \in 1 .. n : i - 1 \in T => i \in T
  PROVE  \A i \in 0 .. n : i \in T
<1> DEFINE Bad == {i \in 0 .. n : i \notin T}
<1> SUFFICES ASSUME Bad # {} PROVE FALSE
  OBVIOUS
<1>1. PICK m \in Bad : \A i \in Bad : m <= i
  <2>1. Bad \subseteq Nat
    OBVIOUS
  <2> HIDE DEF Bad
  <2> QED
    BY <2>1, Smallest
<1>2. m \in 1 .. n /\ m \notin T
  OBVIOUS
<1>3. m - 1 \in T
  <2>1. m - 1 \in 0 .. n /\ m - 1 \notin Bad
    <3>1. m - 1 \in 0 .. n /\ m - 1 < m
      BY <1>2
    <3> HIDE DEF Bad
    <3> QED
      BY <1>1, <1>2, <3>1
  <2> QED
    BY <2>1
<1> QED
  BY <1>2, <1>3

(* What div and mod give, and that only they do. *)
LEMMA Quotient ==
  ASSUME NEW b \in Nat, NEW d \in Nat \ {0}
  PROVE  /\ b \div d \in Nat /\ b % d \in Nat /\ b % d < d
         /\ b = d * (b \div d) + (b % d)
<1>1. b \div d \in Int /\ b % d \in 0 .. d - 1
  OBVIOUS
<1>2. b = d * (b \div d) + (b % d)
  <2>1. d \in Nat /\ d > 0
    OBVIOUS
  <2> QED
    BY <2>1
<1>3. b \div d \in Nat
  OBVIOUS
<1> QED
  BY <1>1, <1>2, <1>3

(* A later multiple is at least one more away. *)
LEMMA Multiples ==
  ASSUME NEW d \in Nat, NEW p \in Nat, NEW q \in Nat, p < q
  PROVE  d * p + d <= d * q
<1> DEFINE e == q - p - 1
<1>1. e \in Nat /\ q = p + 1 + e
  OBVIOUS
<1> HIDE DEF e
<1>2. d * q = d * p + d + d * e
  BY <1>1
<1>3. d * e \in Nat /\ d * p \in Nat
  BY <1>1
<1> QED
  BY <1>2, <1>3

(* There is only one way to divide. *)
LEMMA QuotientUnique ==
  ASSUME NEW d \in Nat \ {0}, NEW p \in Nat, NEW t \in Nat, t < d,
         NEW q \in Nat, NEW u \in Nat, u < d, d * p + t = d * q + u
  PROVE  p = q /\ t = u
<1>0. d * p \in Nat /\ d * q \in Nat
  OBVIOUS
<1>1. p < q => d * p + d <= d * q
  BY Multiples
<1>2. q < p => d * q + d <= d * p
  BY Multiples
<1>3. p = q
  BY <1>0, <1>1, <1>2
<1> QED
  BY <1>0, <1>3

(* So dividing gives back what was put together. *)
LEMMA DivMod ==
  ASSUME NEW d \in Nat \ {0}, NEW p \in Nat, NEW t \in Nat, t < d
  PROVE  (p * d + t) \div d = p /\ (p * d + t) % d = t /\ p * d + t \in Nat
<1>1. p * d \in Nat /\ p * d = d * p
  OBVIOUS
<1>2. PICK n \in Nat : n = p * d + t
  BY <1>1
<1>3. n \div d \in Nat /\ n % d \in Nat /\ n % d < d /\ n = d * (n \div d) + (n % d)
  BY Quotient
<1>4. PICK q \in Nat : q = n \div d
  BY <1>3
<1>5. PICK u \in Nat : u = n % d
  BY <1>3
<1>6. d * p + t = d * q + u /\ u < d
  BY <1>1, <1>2, <1>3, <1>4, <1>5
<1>7. p = q /\ t = u
  BY <1>6, QuotientUnique
<1> QED
  BY <1>2, <1>4, <1>5, <1>7

(* The provers know little of products of three. *)
LEMMA Associates ==
  ASSUME NEW a \in Nat, NEW b \in Nat, NEW c \in Nat
  PROVE  (a * b) * c = a * (b * c) /\ a * b \in Nat
OBVIOUS

(* One division after the other. *)
LEMMA DivTwice ==
  ASSUME NEW n \in Nat, NEW h \in Nat \ {0}, NEW k \in Nat \ {0}
  PROVE  n \div (h * k) = (n \div h) \div k
<1> DEFINE q == n \div h
           r == n % h
           p == q \div k
           s == q % k
           d == h * k
           e == n \div d
           u == n % d
<1>1. q \in Nat /\ r \in Nat /\ r < h /\ n = h * q + r
  BY Quotient
<1>2. p \in Nat /\ s \in Nat /\ s < k /\ q = k * p + s
  BY <1>1, Quotient
<1>3. d \in Nat \ {0}
  OBVIOUS
<1>4. e \in Nat /\ u \in Nat /\ u < d /\ n = d * e + u
  BY <1>3, Quotient
<1>5. h \in Nat /\ k \in Nat
  OBVIOUS
<1>d. d = h * k
  OBVIOUS
<1> HIDE DEF q, r, p, s, d, e, u
<1>6. h * q = d * p + h * s
  <2>1. k * p \in Nat
    BY <1>2, <1>5
  <2>2. h * q = h * (k * p) + h * s
    BY <1>2, <1>5, <2>1
  <2>3. (h * k) * p = h * (k * p)
    BY <1>2, <1>5, Associates
  <2> QED
    BY <1>d, <2>2, <2>3
<1>7. h * s \in Nat /\ h * s + h <= d
  <2>1. h * s + h <= h * k
    BY <1>2, <1>5, Multiples
  <2> QED
    BY <1>2, <1>5, <1>d, <2>1
<1>8. h * s + r \in Nat /\ h * s + r < d
  BY <1>1, <1>3, <1>5, <1>7
<1>9. d * p + (h * s + r) = d * e + u
  <2>1. d * p \in Nat
    BY <1>2, <1>3
  <2> QED
    BY <1>1, <1>4, <1>6, <1>7, <2>1
<1>10. p = e
  BY <1>2, <1>3, <1>4, <1>8, <1>9, QuotientUnique
<1> QED
  BY <1>10 DEF p, q, e, d

-----------------------------------------------------------------------------
(* Colours *)

(* A byte. *)
LEMMA BaseIs == Base \in Nat \ {0} /\ Full \in Nat /\ Full > 0 /\ Full < Base
BY FullAssumption DEF Base

(* One more byte at the end of a number. *)
LEMMA OneMoreByte ==
  ASSUME NEW q \in Nat, NEW t \in Byte
  PROVE  /\ q * Base + t \in Nat
         /\ (q * Base + t) \div Base = q /\ (q * Base + t) % Base = t
         /\ \A m \in Nat : q < m => q * Base + t < m * Base
<1>1. t \in Nat /\ t < Base /\ Base \in Nat \ {0}
  BY BaseIs DEF Byte, Base
<1>2. ASSUME NEW m \in Nat, q < m PROVE q * Base + t < m * Base
  <2>1. Base * q + Base <= Base * m
    BY <1>1, <1>2, Multiples
  <2>2. Base * q = q * Base /\ Base * m = m * Base /\ q * Base \in Nat /\ m * Base \in Nat
    BY <1>1
  <2> QED
    BY <1>1, <2>1, <2>2
<1>3. /\ q * Base + t \in Nat
      /\ (q * Base + t) \div Base = q /\ (q * Base + t) % Base = t
  BY <1>1, DivMod
<1> QED
  BY <1>2, <1>3

(* The components of a colour are those it was put together from. *)
LEMMA PackedIs ==
  ASSUME NEW r \in Byte, NEW g \in Byte, NEW b \in Byte, NEW a \in Byte
  PROVE  /\ Packed(r, g, b, a) \in Color
         /\ get_r(Packed(r, g, b, a)) = r /\ get_g(Packed(r, g, b, a)) = g
         /\ get_b(Packed(r, g, b, a)) = b /\ get_a(Packed(r, g, b, a)) = a
<1>1. Base \in Nat \ {0} /\ r \in Nat /\ r < Base
  BY BaseIs DEF Byte, Base
<1>2. PICK x \in Nat : x = r * Base + g
  BY <1>1, OneMoreByte
<1>3. x < Base * Base /\ x \div Base = r /\ x % Base = g
  BY <1>1, <1>2, OneMoreByte
<1>4. PICK y \in Nat : y = x * Base + b
  BY OneMoreByte
<1>5. y < (Base * Base) * Base /\ y \div Base = x /\ y % Base = b
  <2>1. Base * Base \in Nat
    BY <1>1
  <2> QED
    BY <1>3, <1>4, <2>1, OneMoreByte
<1>6. PICK z \in Nat : z = y * Base + a
  BY OneMoreByte
<1>7. z < ((Base * Base) * Base) * Base /\ z \div Base = y /\ z % Base = a
  <2>1. (Base * Base) * Base \in Nat
    BY <1>1
  <2> QED
    BY <1>5, <1>6, <2>1, OneMoreByte
<1>8. Packed(r, g, b, a) = z
  BY <1>2, <1>4, <1>6 DEF Packed
<1>9. z \in Color
  BY <1>1, <1>7 DEF Color, Word
<1>10. z \div (Base * Base) = x
  <2>1. z \div (Base * Base) = (z \div Base) \div Base
    BY <1>1, DivTwice
  <2> QED
    BY <1>5, <1>7, <2>1
<1>11. z \div ((Base * Base) * Base) = r
  <2>1. Base * Base \in Nat \ {0}
    BY <1>1
  <2>2. z \div ((Base * Base) * Base) = (z \div (Base * Base)) \div Base
    BY <1>1, <2>1, DivTwice
  <2> QED
    BY <1>3, <1>10, <2>2
<1>12. r % Base = r
  <2>1. r = 0 * Base + r
    BY <1>1
  <2>2. (0 * Base + r) % Base = r
    BY OneMoreByte
  <2> QED
    BY <2>1, <2>2
<1>13. get_r(z) = r /\ get_g(z) = g /\ get_b(z) = b /\ get_a(z) = a
  BY <1>3, <1>5, <1>7, <1>10, <1>11, <1>12 DEF get_r, get_g, get_b, get_a
<1> QED
  BY <1>8, <1>9, <1>13

(* And a colour is put together from its components. *)
LEMMA ComponentsPack ==
  ASSUME NEW c \in Color
  PROVE  /\ get_r(c) \in Byte /\ get_g(c) \in Byte /\ get_b(c) \in Byte /\ get_a(c) \in Byte
         /\ Packed(get_r(c), get_g(c), get_b(c), get_a(c)) = c
<1>1. Base \in Nat \ {0} /\ c \in Nat /\ c < ((Base * Base) * Base) * Base
  BY BaseIs DEF Color, Word
<1>2. ASSUME NEW n \in Nat
      PROVE  /\ n \div Base \in Nat /\ n % Base \in Byte
             /\ n = (n \div Base) * Base + (n % Base)
  <2>1. /\ n \div Base \in Nat /\ n % Base \in Nat /\ n % Base < Base
        /\ n = Base * (n \div Base) + (n % Base)
    BY <1>1, Quotient
  <2>2. PICK q \in Nat : q = n \div Base
    BY <2>1
  <2>3. Base * q = q * Base
    BY <1>1
  <2>4. n % Base \in Byte
    BY <1>1, <2>1, BaseIs DEF Byte, Base
  <2> QED
    BY <2>1, <2>2, <2>3, <2>4
<1>3. PICK y \in Nat : y = c \div Base
  BY <1>1, <1>2
<1>4. PICK x \in Nat : x = y \div Base
  BY <1>2
<1>5. PICK r \in Nat : r = x \div Base
  BY <1>2
<1>6. c \div (Base * Base) = x
  BY <1>1, <1>3, <1>4, DivTwice
<1>7. c \div ((Base * Base) * Base) = r
  <2>1. Base * Base \in Nat \ {0}
    BY <1>1
  <2> QED
    BY <1>1, <1>5, <1>6, <2>1, DivTwice
<1>8. c = y * Base + (c % Base) /\ y = x * Base + (y % Base) /\ x = r * Base + (x % Base)
  BY <1>1, <1>2, <1>3, <1>4, <1>5
<1>9. r < Base
  <2> SUFFICES ASSUME ~(r < Base) PROVE FALSE
    OBVIOUS
  <2>1. PICK d \in Nat \ {0} : d = (Base * Base) * Base
    BY <1>1
  <2>2. /\ c \div d \in Nat /\ c % d \in Nat
        /\ c = d * (c \div d) + (c % d)
    BY <1>1, Quotient
  <2>3. c = d * r + (c % d)
    BY <1>7, <2>1, <2>2
  <2>4. d * Base <= d * r
    <3>1. r = Base \/ Base < r
      BY <1>1
    <3>2. Base < r => d * Base + d <= d * r
      BY <1>1, Multiples
    <3>3. d * Base \in Nat /\ d * r \in Nat
      BY <1>1
    <3> QED
      BY <3>1, <3>2, <3>3
  <2>5. d * Base \in Nat /\ d * r \in Nat
    BY <1>1
  <2>6. d * Base <= c
    BY <2>2, <2>3, <2>4, <2>5
  <2> QED
    BY <1>1, <2>1, <2>5, <2>6
<1>10. r \in Byte /\ r % Base = r
  <2>1. r \in Byte
    BY <1>1, <1>9, BaseIs DEF Byte, Base
  <2>2. r = 0 * Base + r
    BY <1>1
  <2>3. (0 * Base + r) % Base = r
    BY <2>1, OneMoreByte
  <2> QED
    BY <2>1, <2>2, <2>3
<1>11. get_r(c) = r /\ get_g(c) = x % Base /\ get_b(c) = y % Base /\ get_a(c) = c % Base
  BY <1>3, <1>6, <1>7, <1>10 DEF get_r, get_g, get_b, get_a
<1>12. x % Base \in Byte /\ y % Base \in Byte /\ c % Base \in Byte
  BY <1>1, <1>2
<1>13. Packed(r, x % Base, y % Base, c % Base) = c
  BY <1>8 DEF Packed
<1> QED
  BY <1>10, <1>11, <1>12, <1>13

(* Two colours of the same components are the same. *)
LEMMA ComponentsTell ==
  ASSUME NEW c \in Color, NEW d \in Color, Components(c) = Components(d)
  PROVE  c = d
<1>1. get_r(c) = get_r(d) /\ get_g(c) = get_g(d) /\ get_b(c) = get_b(d) /\ get_a(c) = get_a(d)
  BY DEF Components
<1> QED
  BY <1>1, ComponentsPack

(* A word is four bytes, and byteswap puts them in the opposite order. *)
LEMMA SwapIs ==
  ASSUME NEW r \in Byte, NEW g \in Byte, NEW b \in Byte, NEW a \in Byte
  PROVE  /\ Bytes(byteswap(Packed(r, g, b, a))) = <<r, g, b, a>>
         /\ byteswap(Packed(r, g, b, a)) \in Color
         /\ byteswap(FromBytes(<<r, g, b, a>>)) = Packed(r, g, b, a)
<1>1. byteswap(Packed(r, g, b, a)) = Packed(a, b, g, r)
  BY PackedIs DEF byteswap, Bytes
<1>2. FromBytes(<<r, g, b, a>>) = Packed(a, b, g, r)
  BY DEF FromBytes
<1>3. byteswap(Packed(a, b, g, r)) = Packed(r, g, b, a)
  BY PackedIs DEF byteswap, Bytes
<1>4. Bytes(Packed(a, b, g, r)) = <<r, g, b, a>>
  BY PackedIs DEF Bytes
<1>5. Packed(a, b, g, r) \in Color
  BY PackedIs
<1> QED
  BY <1>1, <1>2, <1>3, <1>4, <1>5

(* A small number stays as it is. *)
LEMMA Small ==
  ASSUME NEW d \in Nat \ {0}, NEW n \in Nat, n < d
  PROVE  n % d = n /\ n \div d = 0
<1>1. n = 0 * d + n
  OBVIOUS
<1>2. (0 * d + n) % d = n /\ (0 * d + n) \div d = 0
  BY DivMod
<1> QED
  BY <1>1, <1>2

LEMMA Product ==
  ASSUME NEW a \in Nat, NEW b \in Nat, NEW c \in Nat, NEW d \in Nat, a <= c, b <= d
  PROVE  a * b \in Nat /\ a * b <= c * d
<1>1. PICK e \in Nat : c = a + e
  <2>1. c - a \in Nat /\ c = a + (c - a)
    OBVIOUS
  <2> QED
    BY <2>1
<1>2. PICK f \in Nat : d = b + f
  <2>1. d - b \in Nat /\ d = b + (d - b)
    OBVIOUS
  <2> QED
    BY <2>1
<1>3. c * d = a * b + a * f + e * b + e * f
  BY <1>1, <1>2
<1>4. a * b \in Nat /\ a * f \in Nat /\ e * b \in Nat /\ e * f \in Nat
  OBVIOUS
<1> QED
  BY <1>3, <1>4

(* A word. *)
LEMMA WordIs ==
  /\ Word \in Nat /\ Word > Base /\ Full * Full < Word
  /\ Word = ((Base * Base) * Base) * Base
<1>1. Base \in Nat /\ Base >= 2 /\ Full \in Nat /\ Full <= Base
  BY FullAssumption DEF Base
<1>2. PICK p \in Nat : p = Base * Base
  BY <1>1
<1>3. p > Base /\ Full * Full <= p
  <2>1. Base * 2 <= Base * Base
    BY <1>1, Product
  <2>2. Full * Full <= Base * Base
    BY <1>1, Product
  <2>3. Base * 2 \in Nat /\ Base * 2 > Base
    BY <1>1
  <2> QED
    BY <1>1, <1>2, <2>1, <2>2, <2>3
<1>4. PICK q \in Nat : q = p * Base
  BY <1>1
<1>5. q > p
  <2>1. p * 2 <= p * Base
    BY <1>1, Product
  <2> QED
    BY <1>1, <1>3, <1>4, <2>1
<1>6. q * 2 <= q * Base /\ q * Base \in Nat
  BY <1>1, Product
<1>7. Word = q * Base /\ Word = ((Base * Base) * Base) * Base
  BY <1>2, <1>4 DEF Word
<1>8. Full * Full \in Nat
  BY <1>1
<1> QED
  BY <1>1, <1>3, <1>5, <1>6, <1>7, <1>8

(* A mixture of two bytes is a byte: nothing is cut off. *)
LEMMA Mixture ==
  ASSUME NEW fg \in Byte, NEW bg \in Byte, NEW alpha \in Byte
  PROVE  /\ (alpha * fg + (Full - alpha) * bg) \div Full \in Byte
         /\ blend_components(fg, bg, alpha) = (alpha * fg + (Full - alpha) * bg) \div Full
         /\ asm_blend_components(fg, bg, alpha) = (alpha * fg + (Full - alpha) * bg) \div Full
<1>1. /\ Full \in Nat \ {0} /\ Base = Full + 1 /\ Base \in Nat \ {0}
      /\ alpha \in Nat /\ fg \in Nat /\ bg \in Nat
      /\ alpha <= Full /\ fg <= Full /\ bg <= Full
  BY FullAssumption DEF Byte, Base
<1>2. PICK beta \in Nat : beta = Full - alpha
  BY <1>1
<1>3. PICK v \in Nat : v = alpha * fg + beta * bg
  BY <1>1
<1>4. v <= Full * Full
  <2>1. alpha * fg <= alpha * Full /\ alpha * fg \in Nat
    BY <1>1, Product
  <2>2. beta * bg <= beta * Full /\ beta * bg \in Nat
    BY <1>1, Product
  <2>3. alpha * Full + beta * Full = (alpha + beta) * Full
    BY <1>1
  <2>4. alpha + beta = Full
    BY <1>1, <1>2
  <2>5. alpha * Full \in Nat /\ beta * Full \in Nat
    BY <1>1
  <2> QED
    BY <1>3, <2>1, <2>2, <2>3, <2>4, <2>5
<1>5. v < Word /\ v % Word = v /\ Word \in Nat \ {0}
  <2>1. v < Word /\ Word \in Nat \ {0}
    <3>1. Full * Full \in Nat
      BY <1>1
    <3> QED
      BY <1>4, <3>1, WordIs
  <2> QED
    BY <2>1, Small
<1>6. PICK q \in Nat : q = v \div Full
  BY <1>1, Quotient
<1>7. q <= Full
  <2> SUFFICES ASSUME q > Full PROVE FALSE
    BY <1>1
  <2>1. v % Full \in Nat /\ v = Full * q + (v % Full)
    BY <1>1, <1>6, Quotient
  <2>2. Full * Full + Full <= Full * q
    BY <1>1, Multiples
  <2>3. Full * Full \in Nat /\ Full * q \in Nat
    BY <1>1
  <2> QED
    BY <1>1, <1>4, <2>1, <2>2, <2>3
<1>8. q \in Byte /\ q % Base = q
  BY <1>1, <1>7, Small DEF Byte
<1>9. (Full - alpha) * bg + alpha * fg = v /\ alpha * fg + (Full - alpha) * bg = v
  <2>1. alpha * fg \in Nat /\ beta * bg \in Nat
    BY <1>1
  <2> QED
    BY <1>2, <1>3, <2>1
<1>10. blend_components(fg, bg, alpha) = ((v % Word) \div Full) % Base
  BY <1>9 DEF blend_components
<1>11. asm_blend_components(fg, bg, alpha) = (v % Word) \div Full
  BY <1>9 DEF asm_blend_components, Movl
<1> QED
  BY <1>5, <1>6, <1>8, <1>9, <1>10, <1>11

(* Shifting a word that is small enough loses nothing. *)
LEMMA ShlOrIs ==
  ASSUME NEW n \in Nat, NEW t \in Nat, n * Base < Word
  PROVE  ShlOr(n, t) = n * Base + t
<1>1. Word \in Nat \ {0} /\ n * Base \in Nat
  BY WordIs, BaseIs
<1>2. (n * Base) % Word = n * Base
  BY <1>1, Small
<1> QED
  BY <1>2 DEF ShlOr, Movl

(* Both programs blend as the comments say. *)
LEMMA BlendIs ==
  ASSUME NEW fg \in Color, NEW bg \in Color
  PROVE  /\ blend_colors(fg, bg) \in Color
         /\ Components(blend_colors(fg, bg)) = Over(Components(fg), Components(bg))
         /\ asm_blend_colors(fg, bg) = blend_colors(fg, bg)
<1> DEFINE Mix(f, b) == (get_a(fg) * f + (Full - get_a(fg)) * b) \div Full
<1>1. /\ get_r(fg) \in Byte /\ get_g(fg) \in Byte /\ get_b(fg) \in Byte /\ get_a(fg) \in Byte
      /\ get_r(bg) \in Byte /\ get_g(bg) \in Byte /\ get_b(bg) \in Byte /\ get_a(bg) \in Byte
  BY ComponentsPack
<1>2. PICK r \in Byte : /\ r = Mix(get_r(fg), get_r(bg))
                        /\ r = blend_components(get_r(fg), get_r(bg), get_a(fg))
                        /\ r = asm_blend_components(get_r(fg), get_r(bg), get_a(fg))
  BY <1>1, Mixture
<1>3. PICK g \in Byte : /\ g = Mix(get_g(fg), get_g(bg))
                        /\ g = blend_components(get_g(fg), get_g(bg), get_a(fg))
                        /\ g = asm_blend_components(get_g(fg), get_g(bg), get_a(fg))
  BY <1>1, Mixture
<1>4. PICK b \in Byte : /\ b = Mix(get_b(fg), get_b(bg))
                        /\ b = blend_components(get_b(fg), get_b(bg), get_a(fg))
                        /\ b = asm_blend_components(get_b(fg), get_b(bg), get_a(fg))
  BY <1>1, Mixture
<1>5. blend_colors(fg, bg) = Packed(r, g, b, Full)
  BY <1>2, <1>3, <1>4 DEF blend_colors
<1>6. Full \in Byte
  BY BaseIs DEF Byte
<1>7. /\ blend_colors(fg, bg) \in Color
      /\ Components(blend_colors(fg, bg)) = <<r, g, b, Full>>
  BY <1>5, <1>6, PackedIs DEF Components
<1>8. Over(Components(fg), Components(bg)) = <<r, g, b, Full>>
  <2> DEFINE F == Components(fg)
             B == Components(bg)
             M(i) == IF i = 4 THEN Full ELSE (F[4] * F[i] + (Full - F[4]) * B[i]) \div Full
  <2>1. /\ F[1] = get_r(fg) /\ F[2] = get_g(fg) /\ F[3] = get_b(fg) /\ F[4] = get_a(fg)
        /\ B[1] = get_r(bg) /\ B[2] = get_g(bg) /\ B[3] = get_b(bg) /\ B[4] = get_a(bg)
    BY DEF Components
  <2>2. M(1) = r /\ M(2) = g /\ M(3) = b /\ M(4) = Full
    BY <2>1, <1>2, <1>3, <1>4
  <2>3. Over(F, B) = [i \in 1 .. 4 |-> M(i)]
    BY DEF Over
  <2> HIDE DEF M, F, B
  <2>4. [i \in 1 .. 4 |-> M(i)] = <<M(1), M(2), M(3), M(4)>>
    OBVIOUS
  <2>5. Over(F, B) = <<r, g, b, Full>>
    BY <2>2, <2>3, <2>4
  <2> QED
    BY <2>5 DEF F, B
<1>9. asm_blend_colors(fg, bg) = Packed(r, g, b, Full)
  <2>1. asm_blend_colors(fg, bg) = ShlOr(ShlOr(ShlOr(r, g), b), Full)
    BY <1>2, <1>3, <1>4 DEF asm_blend_colors
  <2>2. Base \in Nat \ {0} /\ Full \in Nat /\ r \in Nat /\ g \in Nat /\ b \in Nat /\ Word \in Nat
    BY BaseIs, WordIs DEF Byte
  <2>3. r < Base
    BY <2>2, BaseIs DEF Byte, Base
  <2>4. PICK x \in Nat : x = r * Base + g
    BY <2>2
  <2>5. PICK y \in Nat : y = x * Base + b
    BY <2>2
  <2>6. x < Base * Base
    BY <2>2, <2>3, <2>4, OneMoreByte
  <2>7. y < (Base * Base) * Base
    <3>1. Base * Base \in Nat
      BY <2>2
    <3> QED
      BY <2>5, <2>6, <3>1, OneMoreByte
  <2>8. y * Base + Full < Word /\ y * Base \in Nat
    <3>1. (Base * Base) * Base \in Nat /\ y * Base \in Nat
      BY <2>2
    <3>2. y * Base + Full < ((Base * Base) * Base) * Base
      BY <1>6, <2>7, <3>1, OneMoreByte
    <3> QED
      BY <3>1, <3>2, WordIs
  <2>9. y * Base < Word /\ x * Base < Word /\ r * Base < Word
    <3>1. y <= y * Base /\ x <= x * Base
      <4>1. y * 1 <= y * Base /\ x * 1 <= x * Base
        BY <2>2, Product
      <4> QED
        BY <2>2, <4>1
    <3>2. x * Base \in Nat /\ r * Base \in Nat /\ y * Base \in Nat
      BY <2>2
    <3>3. x * Base <= y /\ r * Base <= x
      BY <2>2, <2>4, <2>5, <3>2
    <3> QED
      BY <2>2, <2>8, <3>1, <3>2, <3>3
  <2>10. ShlOr(r, g) = x
    BY <2>2, <2>4, <2>9, ShlOrIs
  <2>11. ShlOr(x, b) = y
    BY <2>2, <2>5, <2>9, ShlOrIs
  <2>12. ShlOr(y, Full) = y * Base + Full
    BY <2>2, <2>9, ShlOrIs
  <2>13. Packed(r, g, b, Full) = y * Base + Full
    BY <2>4, <2>5 DEF Packed
  <2> QED
    BY <2>1, <2>10, <2>11, <2>12, <2>13
<1> QED
  BY <1>5, <1>7, <1>8, <1>9

(* Loops: a value that is changed n times. *)
Steps(T, n, S) == T \in [1 .. n -> [S -> S]]
Run(f, a, T, n, S) ==
  f \in [0 .. n -> S] /\ f[0] = a /\ \A k \in 1 .. n : f[k] = T[k][f[k - 1]]

(* A loop of n steps ends: T is what each of them does. *)
LEMMA Loop ==
  ASSUME NEW S, NEW a \in S, NEW n \in Nat, NEW T, Steps(T, n, S)
  PROVE  \E f : Run(f, a, T, n, S)
<1>0. T \in [1 .. n -> [S -> S]]
  BY DEF Steps
<1> DEFINE Good(m) ==
      \E f \in [0 .. m -> S] : f[0] = a /\ \A k \in 1 .. m : f[k] = T[k][f[k - 1]]
<1>1. Good(0)
  <2> DEFINE g == [k \in 0 .. 0 |-> a]
  <2>1. g \in [0 .. 0 -> S] /\ g[0] = a /\ 1 .. 0 = {}
    OBVIOUS
  <2> HIDE DEF g
  <2> QED
    BY <2>1
<1>2. ASSUME NEW m \in 1 .. n, Good(m - 1) PROVE Good(m)
  <2>1. PICK f \in [0 .. m - 1 -> S] : f[0] = a /\ \A k \in 1 .. m - 1 : f[k] = T[k][f[k - 1]]
    BY <1>2
  <2>2. T[m] \in [S -> S] /\ f[m - 1] \in S
    BY <1>0, <2>1
  <2> DEFINE g == [k \in 0 .. m |-> IF k = m THEN T[m][f[m - 1]] ELSE f[k]]
  <2>3. g \in [0 .. m -> S]
    BY <2>1, <2>2
  <2>4. g[0] = a
    BY <2>1
  <2>5. ASSUME NEW k \in 1 .. m PROVE g[k] = T[k][g[k - 1]]
    <3>1. CASE k = m
      BY <3>1
    <3>2. CASE k # m
      <4>1. k \in 1 .. m - 1 /\ k - 1 # m /\ k \in 0 .. m /\ k - 1 \in 0 .. m
        BY <3>2
      <4>2. g[k] = f[k] /\ g[k - 1] = f[k - 1]
        BY <3>2, <4>1
      <4> HIDE DEF g
      <4> QED
        BY <2>1, <4>1, <4>2
    <3> QED
      BY <3>1, <3>2
  <2> HIDE DEF g
  <2> QED
    BY <2>3, <2>4, <2>5
<1> DEFINE G == {m \in 0 .. n : Good(m)}
<1>3. 0 \in G /\ \A i \in 1 .. n : i - 1 \in G => i \in G
  <2>1. 0 \in 0 .. n
    OBVIOUS
  <2> HIDE DEF Good
  <2> QED
    BY <1>1, <1>2, <2>1
<1>4. n \in G
  <2> HIDE DEF G
  <2>1. \A i \in 0 .. n : i \in G
    BY <1>3, UpTo
  <2> QED
    BY <2>1
<1> QED
  BY <1>4 DEF Run

-----------------------------------------------------------------------------
(* Points of images *)

(* The points of a picture, and where their pixels are. *)
Grid(w, h) == (0 .. w - 1) \X (0 .. h - 1)
Place(w, p) == p[2] * w + p[1]

(* The images of a size. *)
ImagesOf(w, h) == [width : {w}, height : {h}, data : [0 .. NumPixels(w, h) - 1 -> Color]]

(* A canvas or slot holds an image, or none. *)
IsImage(img) ==
  \/ img = NoImage
  \/ \E w \in Color, h \in Color : img \in ImagesOf(w, h)

(* Where the bytes can be counted, no product wraps around. *)
LEMMA CountableIs ==
  ASSUME NEW w \in Nat, NEW h \in Nat, Countable(w, h)
  PROVE  /\ w * h \in Nat /\ 4 * (w * h) + h < Word
         /\ NumPixels(w, h) = w * h /\ w * h < Word
         /\ h > 0 => 4 * w < Word
         /\ w > 0 => 4 * h < Word
<1>1. PICK a \in Nat : a = w * h
  OBVIOUS
<1>2. (4 * w) * h = 4 * a
  BY <1>1
<1>3. Word \in Nat \ {0}
  BY WordIs, BaseIs
<1>4. 4 * a + h < Word
  BY <1>2 DEF Countable
<1>5. NumPixels(w, h) = a
  <2>1. a % Word = a
    BY <1>3, <1>4, Small
  <2> QED
    BY <1>1, <2>1 DEF NumPixels
<1>6. ASSUME h > 0 PROVE 4 * w < Word
  <2>1. w * 1 <= w * h
    BY <1>6, Product
  <2> QED
    BY <1>1, <1>3, <1>4, <2>1
<1>7. ASSUME w > 0 PROVE 4 * h < Word
  <2>1. 1 * h <= w * h
    BY <1>7, Product
  <2> QED
    BY <1>1, <1>3, <1>4, <2>1
<1> QED
  BY <1>1, <1>3, <1>4, <1>5, <1>6, <1>7

(* Every point of a picture has a pixel of its own. *)
LEMMA PlaceIs ==
  ASSUME NEW w \in Nat, NEW h \in Nat, NEW p \in Grid(w, h)
  PROVE  /\ p[1] \in Nat /\ p[2] \in Nat /\ p[1] < w /\ p[2] < h
         /\ Place(w, p) \in 0 .. w * h - 1 /\ p[2] * w \in Nat
         /\ \A q \in Grid(w, h) : Place(w, q) = Place(w, p) => q = p
<1>1. p[1] \in Nat /\ p[2] \in Nat /\ p[1] < w /\ p[2] < h
  BY DEF Grid
<1>2. p[2] * w \in Nat /\ w * h \in Nat
  BY <1>1
<1>3. Place(w, p) \in 0 .. w * h - 1
  <2>1. w * p[2] + w <= w * h
    BY <1>1, Multiples
  <2>2. w * p[2] = p[2] * w
    BY <1>1
  <2> QED
    BY <1>1, <1>2, <2>1, <2>2 DEF Place
<1>4. ASSUME NEW q \in Grid(w, h), Place(w, q) = Place(w, p) PROVE q = p
  <2>1. q[1] \in Nat /\ q[2] \in Nat /\ q[1] < w /\ q[2] < h
    BY DEF Grid
  <2>2. w * q[2] + q[1] = w * p[2] + p[1] /\ w \in Nat \ {0}
    BY <1>1, <1>4, <2>1 DEF Place
  <2>3. q[2] = p[2] /\ q[1] = p[1]
    <3>1. \A a, b, c, d \in Nat : b < w /\ d < w /\ w * a + b = w * c + d => a = c /\ b = d
      BY <2>2, QuotientUnique
    <3>2. PICK a \in Nat, b \in Nat : a = q[2] /\ b = q[1]
      BY <2>1
    <3>3. PICK c \in Nat, d \in Nat : c = p[2] /\ d = p[1]
      BY <1>1
    <3>4. w * a + b = w * c + d /\ b < w /\ d < w
      BY <1>1, <2>1, <2>2, <3>2, <3>3
    <3>5. a = c /\ b = d
      BY <3>1, <3>4
    <3> QED
      BY <3>2, <3>3, <3>5
  <2> QED
    BY <2>3 DEF Grid
<1> QED
  BY <1>1, <1>2, <1>3, <1>4

(* A 32-bit register holds the numbers that scanf can store. *)
LEMMA Int32Is ==
  ASSUME NEW v \in Ints
  PROVE  Int32(v) = v
<1> DEFINE half == Word \div 2
<1>1. Word \in Nat \ {0} /\ half \in Nat
  BY WordIs, BaseIs, Quotient
<1>2. v + half \in Nat /\ v + half < Word
  BY <1>1 DEF Ints
<1>3. (v + half) % Word = v + half
  BY <1>1, <1>2, Small
<1>4. v \in Int
  BY <1>1 DEF Ints
<1> QED
  BY <1>1, <1>3, <1>4 DEF Int32

(* Both programs find the same points in bounds, and the same pixels. *)
LEMMA InBoundsIs ==
  ASSUME NEW w \in Nat, NEW h \in Nat, NEW x \in Int, NEW y \in Int,
         NEW img, img.width = w, img.height = h
  PROVE  /\ in_bounds(img, x, y) <=> <<x, y>> \in Grid(w, h)
         /\ Countable(w, h) /\ w \in Color /\ h \in Color /\ x \in Ints /\ y \in Ints
              => (asm_in_bounds(img, x, y) <=> <<x, y>> \in Grid(w, h))
<1>1. Word \in Nat
  BY WordIs
<1>2. <<x, y>> \in Grid(w, h) <=> x >= 0 /\ y >= 0 /\ x < w /\ y < h
  BY DEF Grid
<1>3. in_bounds(img, x, y) <=> x >= 0 /\ y >= 0 /\ x < w /\ y < h
  BY DEF in_bounds
<1>4. ASSUME Countable(w, h), w \in Color, h \in Color, x \in Ints, y \in Ints
      PROVE  asm_in_bounds(img, x, y) <=> <<x, y>> \in Grid(w, h)
  <2>1. asm_in_bounds(img, x, y) <=> x >= 0 /\ y >= 0 /\ x < Int32(w) /\ y < Int32(h)
    BY <1>4, Int32Is DEF asm_in_bounds
  <2>2. CASE w > 0 /\ h > 0
    <3>1. 4 * w < Word /\ 4 * h < Word
      BY <1>4, <2>2, CountableIs
    <3>2. w \in Ints /\ h \in Ints
      BY <1>1, <3>1 DEF Ints
    <3>3. Int32(w) = w /\ Int32(h) = h
      BY <3>2, Int32Is
    <3> QED
      BY <1>2, <2>1, <3>3
  <2>3. CASE w = 0 \/ h = 0
    <3>1. 0 \in Ints
      <4>1. PICK half \in Nat : half = Word \div 2
        BY <1>1, Quotient
      <4>2. Word = 2 * half + (Word % 2) /\ Word % 2 \in Nat /\ Word > 1
        BY <1>1, <4>1, Quotient, WordIs, BaseIs
      <4> QED
        BY <1>1, <4>1, <4>2 DEF Ints
    <3>2. Int32(0) = 0
      BY <3>1, Int32Is
    <3> QED
      BY <1>2, <2>1, <2>3, <3>2
  <2> QED
    BY <2>2, <2>3
<1> QED
  BY <1>2, <1>3, <1>4

(* The index of a point of the image, in C and in assembly. *)
LEMMA IndexIs ==
  ASSUME NEW w \in Color, NEW h \in Color, Countable(w, h), NEW p \in Grid(w, h),
         NEW img, img.width = w
  PROVE  /\ compute_index(img, p[1], p[2]) = Place(w, p)
         /\ asm_compute_index(img, p[1], p[2]) = Place(w, p)
         /\ Place(w, p) \in 0 .. NumPixels(w, h) - 1
<1>1. w \in Nat /\ h \in Nat /\ w < Word /\ h < Word /\ Word \in Nat \ {0}
  BY WordIs DEF Color
<1>2. w * h \in Nat /\ NumPixels(w, h) = w * h /\ w * h < Word
  BY <1>1, CountableIs
<1>3. /\ p[1] \in Nat /\ p[2] \in Nat /\ p[1] < w /\ p[2] < h
      /\ Place(w, p) \in 0 .. w * h - 1 /\ p[2] * w \in Nat
  BY <1>1, PlaceIs
<1>4. Place(w, p) \in Nat /\ Place(w, p) < Word /\ p[2] * w < Word /\ p[1] < Word /\ p[2] < Word
  BY <1>1, <1>2, <1>3 DEF Place
<1>5. Place(w, p) % Word = Place(w, p) /\ (p[2] * w) % Word = p[2] * w
      /\ p[1] % Word = p[1] /\ p[2] % Word = p[2]
  BY <1>1, <1>3, <1>4, Small
<1>6. compute_index(img, p[1], p[2]) = Place(w, p)
  BY <1>5 DEF compute_index, Place
<1>7. w * p[2] = p[2] * w
  BY <1>1, <1>3
<1>8. asm_compute_index(img, p[1], p[2]) = Place(w, p) % Word
  BY <1>5, <1>7 DEF asm_compute_index, Movl, Place
<1> QED
  BY <1>2, <1>3, <1>5, <1>6, <1>8

-----------------------------------------------------------------------------
(* The points of two nested loops are those of a rectangle, each once. *)
Path(pts, columns, rows) ==
  /\ Len(pts) \in Nat /\ pts \in [1 .. Len(pts) -> Int \X Int]
  /\ \A k \in 1 .. Len(pts) : pts[k][1] \in columns /\ pts[k][2] \in rows
  /\ \A k, l \in 1 .. Len(pts) : pts[k] = pts[l] => k = l
  /\ \A p \in columns \X rows : \E k \in 1 .. Len(pts) : pts[k] = p

(* Two nested loops come to every point once. *)
LEMMA PointsAre ==
  ASSUME NEW left \in Int, NEW right \in Int, NEW top \in Int, NEW bottom \in Int,
         NEW pts, pts = Points(left, right, top, bottom)
  PROVE  Path(pts, left .. right - 1, top .. bottom - 1)
<1>1. CASE right - left <= 0 \/ bottom - top <= 0
  <2>1. pts = <<>>
    BY <1>1 DEF Points
  <2>2. (left .. right - 1) \X (top .. bottom - 1) = {}
    <3>1. left .. right - 1 = {} \/ top .. bottom - 1 = {}
      BY <1>1
    <3> QED
      BY <3>1
  <2>3. Len(<<>>) = 0 /\ <<>> \in [1 .. 0 -> Int \X Int] /\ 1 .. 0 = {}
    OBVIOUS
  <2>4. /\ Len(pts) \in Nat /\ pts \in [1 .. Len(pts) -> Int \X Int]
        /\ 1 .. Len(pts) = {}
    BY <2>1, <2>3
  <2> QED
    BY <2>2, <2>4 DEF Path
<1>2. CASE right - left > 0 /\ bottom - top > 0
  <2>1. PICK c \in Nat \ {0} : c = right - left
    BY <1>2
  <2>2. PICK r \in Nat \ {0} : r = bottom - top
    BY <1>2
  <2>3. PICK n \in Nat : n = c * r
    OBVIOUS
  <2>4. pts = [k \in 1 .. n |-> <<left + ((k - 1) % c), top + ((k - 1) \div c)>>]
    BY <1>2, <2>1, <2>2, <2>3 DEF Points
  <2>5. ASSUME NEW k \in 1 .. n
        PROVE  /\ (k - 1) % c \in 0 .. c - 1 /\ (k - 1) \div c \in 0 .. r - 1
               /\ k - 1 = c * ((k - 1) \div c) + ((k - 1) % c)
    <3>1. PICK i \in Nat : i = k - 1
      OBVIOUS
    <3>2. /\ i \div c \in Nat /\ i % c \in Nat /\ i % c < c
          /\ i = c * (i \div c) + (i % c)
      BY Quotient
    <3>3. i \div c < r
      <4> SUFFICES ASSUME ~(i \div c < r) PROVE FALSE
        OBVIOUS
      <4>1. c * r <= c * (i \div c) /\ c * r \in Nat
        BY <3>2, Product
      <4>2. i < n
        BY <3>1
      <4>3. c * (i \div c) \in Nat
        BY <3>2
      <4> QED
        BY <2>3, <3>2, <4>1, <4>2, <4>3
    <3> QED
      BY <3>1, <3>2, <3>3
  <2>6. Len(pts) = n /\ pts \in [1 .. n -> Int \X Int]
    <3>1. \A k \in 1 .. n : <<left + ((k - 1) % c), top + ((k - 1) \div c)>> \in Int \X Int
      BY <2>5
    <3>2. pts \in [1 .. n -> Int \X Int]
      BY <2>4, <3>1
    <3> QED
      BY <3>2, <2>4
  <2>7. ASSUME NEW k \in 1 .. n
        PROVE  /\ pts[k][1] \in left .. right - 1 /\ pts[k][2] \in top .. bottom - 1
               /\ (k - 1) % c = pts[k][1] - left /\ (k - 1) \div c = pts[k][2] - top
    <3>1. pts[k] = <<left + ((k - 1) % c), top + ((k - 1) \div c)>>
      BY <2>4
    <3>2. pts[k][1] = left + ((k - 1) % c) /\ pts[k][2] = top + ((k - 1) \div c)
      BY <3>1
    <3>3. /\ (k - 1) % c \in Int /\ (k - 1) % c >= 0 /\ (k - 1) % c < c
          /\ (k - 1) \div c \in Int /\ (k - 1) \div c >= 0 /\ (k - 1) \div c < r
      BY <2>5
    <3> QED
      BY <2>1, <2>2, <3>2, <3>3
  <2>8. ASSUME NEW k \in 1 .. n, NEW l \in 1 .. n, pts[k] = pts[l] PROVE k = l
    <3>1. (k - 1) % c = (l - 1) % c /\ (k - 1) \div c = (l - 1) \div c
      BY <2>7, <2>8
    <3>2. k - 1 = l - 1
      BY <2>5, <3>1
    <3> QED
      BY <3>2
  <2>9. ASSUME NEW p \in (left .. right - 1) \X (top .. bottom - 1)
        PROVE  \E k \in 1 .. n : pts[k] = p
    <3>1. p[1] \in left .. right - 1 /\ p[2] \in top .. bottom - 1 /\ p = <<p[1], p[2]>>
      OBVIOUS
    <3>2. PICK t \in Nat : t = p[1] - left
      BY <3>1
    <3>3. PICK q \in Nat : q = p[2] - top
      BY <3>1
    <3>4. t < c /\ q < r
      BY <2>1, <2>2, <3>1, <3>2, <3>3
    <3>5. PICK i \in Nat : i = q * c + t
      OBVIOUS
    <3>6. i \div c = q /\ i % c = t
      BY <3>4, <3>5, DivMod
    <3>7. i < n
      <4>1. c * q + c <= c * r
        BY <3>4, Multiples
      <4>2. c * q = q * c /\ q * c \in Nat
        OBVIOUS
      <4> QED
        BY <2>3, <3>4, <3>5, <4>1, <4>2
    <3>8. i + 1 \in 1 .. n /\ (i + 1) - 1 = i
      BY <3>7
    <3>9. pts[i + 1] = <<left + (i % c), top + (i \div c)>>
      BY <2>4, <3>8
    <3>10. left + t = p[1] /\ top + q = p[2]
      BY <3>1, <3>2, <3>3
    <3> QED
      BY <3>1, <3>6, <3>8, <3>9, <3>10
  <2> QED
    BY <2>6, <2>7, <2>8, <2>9 DEF Path
<1> QED
  BY <1>1, <1>2

(* An image is not what stands for no image or for undefined behaviour. *)
LEMMA ImageIs ==
  ASSUME NEW w \in Color, NEW h \in Color, NEW img \in ImagesOf(w, h)
  PROVE  /\ img.width = w /\ img.height = h
         /\ img.data \in [0 .. NumPixels(w, h) - 1 -> Color]
         /\ img.data # NULL /\ img # Undefined /\ img # NoImage
<1>1. /\ img.width = w /\ img.height = h
      /\ img.data \in [0 .. NumPixels(w, h) - 1 -> Color]
  BY DEF ImagesOf
<1>2. NumPixels(w, h) \in Color
  <2>1. w \in Nat /\ h \in Nat /\ Word \in Nat \ {0}
    BY WordIs, BaseIs DEF Color
  <2>2. w * h \in Nat
    BY <2>1
  <2>3. (w * h) % Word \in Nat /\ (w * h) % Word < Word
    BY <2>1, <2>2, Quotient
  <2> QED
    BY <2>1, <2>3 DEF NumPixels, Color
<1>3. img.data # NULL
  BY <1>1, <1>2, NullAssumption
<1>4. img # Undefined
  <2>1. PICK n \in Color : n = NumPixels(w, h)
    BY <1>2
  <2>2. img \in [width : Color, height : Color, data : [0 .. n - 1 -> Color] \cup {NULL}]
    BY <2>1 DEF ImagesOf
  <2> QED
    BY <2>2, UndefinedAssumption
<1>5. NoImage.data = NULL
  BY DEF NoImage
<1> QED
  BY <1>1, <1>2, <1>3, <1>4, <1>5

LEMMA NoImageIs == NoImage # Undefined /\ NoImage.data = NULL
<1>1. 0 \in Color
  BY WordIs, BaseIs DEF Color
<1>2. NoImage \in [width : Color, height : Color, data : [0 .. 0 - 1 -> Color] \cup {NULL}]
  BY <1>1 DEF NoImage
<1> QED
  BY <1>1, <1>2, UndefinedAssumption DEF NoImage

(* The image after a pixel of it was written. *)
Written(img, i, c) == [img EXCEPT !.data[i] = c]

(* One pixel changes. *)
LEMMA WrittenIs ==
  ASSUME NEW w \in Color, NEW h \in Color, NEW img \in ImagesOf(w, h),
         NEW i \in 0 .. NumPixels(w, h) - 1, NEW c \in Color
  PROVE  /\ Written(img, i, c) \in ImagesOf(w, h)
         /\ Written(img, i, c).data = [img.data EXCEPT ![i] = c]
<1>1. /\ img.data \in [0 .. NumPixels(w, h) - 1 -> Color]
      /\ img.data # NULL
  BY ImageIs
<1>2. [img.data EXCEPT ![i] = c] \in [0 .. NumPixels(w, h) - 1 -> Color]
  BY <1>1
<1> QED
  BY <1>2 DEF ImagesOf, Written

(* A store inside the pixels writes one, any other is undefined. *)
LEMMA StoreInside ==
  ASSUME NEW w \in Color, NEW h \in Color, NEW img \in ImagesOf(w, h), NEW i, NEW c
  PROVE  Store(img, i, c) = IF i \in 0 .. NumPixels(w, h) - 1 THEN Written(img, i, c)
                            ELSE Undefined
<1>1. /\ img.data \in [0 .. NumPixels(w, h) - 1 -> Color]
      /\ img.data # NULL
  BY ImageIs
<1> QED
  BY <1>1 DEF Store, Written

(* A pixel that is written, inside of the image or not. *)
LEMMA StoreIs ==
  ASSUME NEW w \in Color, NEW h \in Color, NEW img \in ImagesOf(w, h), NEW i, NEW c \in Color
  PROVE  Store(img, i, c) \in ImagesOf(w, h) \cup {Undefined}
<1>1. i \in 0 .. NumPixels(w, h) - 1 => Written(img, i, c) \in ImagesOf(w, h)
  BY WrittenIs
<1> QED
  BY <1>1, StoreInside

(* set_pixel blends, and both forms of it do the same. *)
LEMMA SetPixelIs ==
  ASSUME NEW w \in Color, NEW h \in Color, NEW img \in ImagesOf(w, h), NEW i, NEW c \in Color
  PROVE  /\ set_pixel(img, i, c) \in ImagesOf(w, h) \cup {Undefined}
         /\ asm_set_pixel(img, i, c) = set_pixel(img, i, c)
         /\ i \in 0 .. NumPixels(w, h) - 1 =>
              /\ img.data[i] \in Color
              /\ set_pixel(img, i, c) = Written(img, i, blend_colors(c, img.data[i]))
<1>1. /\ img.data \in [0 .. NumPixels(w, h) - 1 -> Color]
      /\ img.data # NULL
  BY ImageIs
<1>2. CASE i \in 0 .. NumPixels(w, h) - 1
  <2>1. img.data[i] \in Color
    BY <1>1, <1>2
  <2>2. /\ blend_colors(c, img.data[i]) \in Color
        /\ asm_blend_colors(c, img.data[i]) = blend_colors(c, img.data[i])
    BY <2>1, BlendIs
  <2>3. /\ Store(img, i, blend_colors(c, img.data[i])) \in ImagesOf(w, h) \cup {Undefined}
        /\ Store(img, i, blend_colors(c, img.data[i]))
             = Written(img, i, blend_colors(c, img.data[i]))
    <3>1. \A b \in Color : /\ Store(img, i, b) \in ImagesOf(w, h) \cup {Undefined}
                           /\ Store(img, i, b) = Written(img, i, b)
      BY <1>2, StoreIs, StoreInside
    <3> QED
      BY <2>2, <3>1
  <2>4. i \in DOMAIN img.data
    BY <1>1, <1>2
  <2> QED
    BY <1>1, <2>1, <2>2, <2>3, <2>4 DEF set_pixel, asm_set_pixel
<1>3. CASE i \notin 0 .. NumPixels(w, h) - 1
  <2>1. i \notin DOMAIN img.data
    BY <1>1, <1>3
  <2> QED
    BY <1>3, <2>1 DEF set_pixel, asm_set_pixel
<1> QED
  BY <1>2, <1>3

(* draw_pixel blends into the pixel of a point of the picture, in both     *)
(* programs, and leaves all else alone.                                    *)
LEMMA PixelIs ==
  ASSUME NEW w \in Color, NEW h \in Color, NEW img \in ImagesOf(w, h),
         NEW x \in Int, NEW y \in Int, NEW c \in Color
  PROVE  /\ draw_pixel(img, x, y, c) \in ImagesOf(w, h) \cup {Undefined}
         /\ asm_draw_pixel(img, x, y, c) \in ImagesOf(w, h) \cup {Undefined}
         /\ Countable(w, h) =>
              draw_pixel(img, x, y, c) =
                IF <<x, y>> \in Grid(w, h)
                THEN Written(img, Place(w, <<x, y>>), blend_colors(c, img.data[Place(w, <<x, y>>)]))
                ELSE img
         /\ Countable(w, h) /\ x \in Ints /\ y \in Ints =>
              asm_draw_pixel(img, x, y, c) = draw_pixel(img, x, y, c)
<1>1. img.width = w /\ img.height = h /\ w \in Nat /\ h \in Nat
  BY ImageIs, WordIs DEF Color
<1>2. \A i : /\ set_pixel(img, i, c) \in ImagesOf(w, h) \cup {Undefined}
             /\ asm_set_pixel(img, i, c) = set_pixel(img, i, c)
             /\ i \in 0 .. NumPixels(w, h) - 1 =>
                  set_pixel(img, i, c) = Written(img, i, blend_colors(c, img.data[i]))
  BY SetPixelIs
<1>3. /\ draw_pixel(img, x, y, c) \in ImagesOf(w, h) \cup {Undefined}
      /\ asm_draw_pixel(img, x, y, c) \in ImagesOf(w, h) \cup {Undefined}
  BY <1>2 DEF draw_pixel, asm_draw_pixel
<1>4. in_bounds(img, x, y) <=> <<x, y>> \in Grid(w, h)
  BY <1>1, InBoundsIs
<1>5. ASSUME Countable(w, h), <<x, y>> \in Grid(w, h)
      PROVE  /\ compute_index(img, x, y) = Place(w, <<x, y>>)
             /\ asm_compute_index(img, x, y) = Place(w, <<x, y>>)
             /\ Place(w, <<x, y>>) \in 0 .. NumPixels(w, h) - 1
  <2>1. PICK p \in Grid(w, h) : p = <<x, y>>
    BY <1>5
  <2>2. p[1] = x /\ p[2] = y
    BY <2>1
  <2>3. /\ compute_index(img, p[1], p[2]) = Place(w, p)
        /\ asm_compute_index(img, p[1], p[2]) = Place(w, p)
        /\ Place(w, p) \in 0 .. NumPixels(w, h) - 1
    BY <1>1, <1>5, IndexIs
  <2> QED
    BY <2>1, <2>2, <2>3
<1>6. ASSUME Countable(w, h), x \in Ints, y \in Ints
      PROVE  asm_draw_pixel(img, x, y, c) = draw_pixel(img, x, y, c)
  <2>1. asm_in_bounds(img, x, y) <=> <<x, y>> \in Grid(w, h)
    BY <1>1, <1>6, InBoundsIs
  <2> QED
    BY <1>2, <1>4, <1>5, <1>6, <2>1 DEF draw_pixel, asm_draw_pixel
<1>7. ASSUME Countable(w, h)
      PROVE  draw_pixel(img, x, y, c) =
               IF <<x, y>> \in Grid(w, h)
               THEN Written(img, Place(w, <<x, y>>), blend_colors(c, img.data[Place(w, <<x, y>>)]))
               ELSE img
  BY <1>2, <1>4, <1>5, <1>7 DEF draw_pixel
<1> QED
  BY <1>3, <1>6, <1>7

-----------------------------------------------------------------------------
(* Points that are painted in turn, each once, have their new colours in   *)
(* the end, and all others the old ones.                                   *)
PaintSteps(after, img, w, h, pts, R, N) ==
  /\ after[0] = img
  /\ \A k \in 1 .. Len(pts) :
       /\ after[k - 1] \in ImagesOf(w, h)
       /\ pts[k] \in R => after[k - 1].data[Place(w, pts[k])] = img.data[Place(w, pts[k])]
       => after[k] = IF pts[k] \in R
                     THEN Written(after[k - 1], Place(w, pts[k]), N[pts[k]])
                     ELSE after[k - 1]
PaintDone(img2, img, w, h, pts, R, N) ==
  /\ img2 \in ImagesOf(w, h)
  /\ \A p \in Grid(w, h) :
       img2.data[Place(w, p)] = IF p \in R /\ \E k \in 1 .. Len(pts) : pts[k] = p
                                THEN N[p] ELSE img.data[Place(w, p)]

(* A loop over a path that gives every point of R its new colour, and no   *)
(* other point.                                                            *)
LEMMA Paints ==
  ASSUME NEW w \in Color, NEW h \in Color, Countable(w, h), NEW img \in ImagesOf(w, h),
         NEW pts, NEW columns, NEW rows, Path(pts, columns, rows),
         NEW R, R \subseteq Grid(w, h), NEW N, N \in [Grid(w, h) -> Color],
         NEW after, PaintSteps(after, img, w, h, pts, R, N)
  PROVE  PaintDone(after[Len(pts)], img, w, h, pts, R, N)
<1>p. PICK n \in Nat : n = Len(pts)
  BY DEF Path
<1>q. /\ pts \in [1 .. n -> Int \X Int]
      /\ \A k, l \in 1 .. n : pts[k] = pts[l] => k = l
  BY <1>p DEF Path
<1>s. /\ after[0] = img
      /\ \A k \in 1 .. n :
           /\ after[k - 1] \in ImagesOf(w, h)
           /\ pts[k] \in R => after[k - 1].data[Place(w, pts[k])] = img.data[Place(w, pts[k])]
           => after[k] = IF pts[k] \in R
                         THEN Written(after[k - 1], Place(w, pts[k]), N[pts[k]])
                         ELSE after[k - 1]
  BY <1>p DEF PaintSteps
<1> DEFINE Done(m) ==
      /\ after[m] \in ImagesOf(w, h)
      /\ \A p \in Grid(w, h) :
           after[m].data[Place(w, p)] = IF p \in R /\ \E k \in 1 .. m : pts[k] = p
                                        THEN N[p] ELSE img.data[Place(w, p)]
<1>1. Done(0)
  BY <1>s
<1>2. ASSUME NEW m \in 1 .. n, Done(m - 1) PROVE Done(m)
  <2> DEFINE old == after[m - 1]
  <2>1. /\ old \in ImagesOf(w, h)
        /\ \A p \in Grid(w, h) :
             old.data[Place(w, p)] = IF p \in R /\ \E k \in 1 .. m - 1 : pts[k] = p
                                     THEN N[p] ELSE img.data[Place(w, p)]
    BY <1>2
  <2>2. ~\E k \in 1 .. m - 1 : pts[k] = pts[m]
    <3> SUFFICES ASSUME NEW k \in 1 .. m - 1, pts[k] = pts[m] PROVE FALSE
      OBVIOUS
    <3>1. k \in 1 .. n /\ k # m
      OBVIOUS
    <3> QED
      BY <1>q, <3>1
  <2>3. after[m] = IF pts[m] \in R
                   THEN Written(old, Place(w, pts[m]), N[pts[m]])
                   ELSE old
    <3>1. pts[m] \in R => pts[m] \in Grid(w, h)
      OBVIOUS
    <3> QED
      BY <1>s, <2>1, <2>2, <3>1
  <2>4. \A p : (\E k \in 1 .. m : pts[k] = p) <=> (\E k \in 1 .. m - 1 : pts[k] = p) \/ p = pts[m]
    <3>1. \A k : k \in 1 .. m <=> k \in 1 .. m - 1 \/ k = m
      OBVIOUS
    <3> QED
      BY <3>1
  <2> HIDE DEF old
  <2>5. CASE pts[m] \notin R
    BY <2>1, <2>3, <2>4, <2>5
  <2>6. CASE pts[m] \in R
    <3>1. pts[m] \in Grid(w, h) /\ N[pts[m]] \in Color
      BY <2>6
    <3>2. w \in Nat /\ h \in Nat
      BY WordIs DEF Color
    <3>3. \A p \in Grid(w, h) : Place(w, p) = Place(w, pts[m]) => p = pts[m]
      BY <3>1, <3>2, PlaceIs
    <3>4. \A p \in Grid(w, h) : Place(w, p) \in 0 .. NumPixels(w, h) - 1
      <4>1. NumPixels(w, h) = w * h
        BY <3>2, CountableIs
      <4> QED
        BY <3>2, <4>1, PlaceIs
    <3>5. /\ after[m] \in ImagesOf(w, h)
          /\ after[m].data = [old.data EXCEPT ![Place(w, pts[m])] = N[pts[m]]]
      <4>1. PICK i \in 0 .. NumPixels(w, h) - 1 : i = Place(w, pts[m])
        BY <3>1, <3>4
      <4>2. PICK c \in Color : c = N[pts[m]]
        BY <3>1
      <4>3. /\ Written(old, i, c) \in ImagesOf(w, h)
            /\ Written(old, i, c).data = [old.data EXCEPT ![i] = c]
        BY <2>1, WrittenIs
      <4> QED
        BY <2>3, <2>6, <4>1, <4>2, <4>3
    <3>6. old.data \in [0 .. NumPixels(w, h) - 1 -> Color]
      BY <2>1, ImageIs
    <3>7. ASSUME NEW p \in Grid(w, h)
          PROVE  after[m].data[Place(w, p)] = IF p = pts[m] THEN N[p] ELSE old.data[Place(w, p)]
      BY <3>1, <3>3, <3>4, <3>5, <3>6
    <3> QED
      BY <2>1, <2>4, <2>6, <3>5, <3>7
  <2> QED
    BY <2>5, <2>6
<1> DEFINE G == {m \in 0 .. n : Done(m)}
<1>3. 0 \in G /\ \A i \in 1 .. n : i - 1 \in G => i \in G
  <2>1. 0 \in 0 .. n
    OBVIOUS
  <2> HIDE DEF Done
  <2> QED
    BY <1>1, <1>2, <2>1
<1>4. n \in G
  <2> HIDE DEF G
  <2>1. \A i \in 0 .. n : i \in G
    BY <1>3, UpTo
  <2> QED
    BY <2>1
<1> QED
  BY <1>p, <1>4 DEF PaintDone

(* An image shows a picture when it has its size and its colours. *)
LEMMA ShowsIs ==
  ASSUME NEW w \in Color, NEW h \in Color, NEW img \in ImagesOf(w, h), NEW pic
  PROVE  Shows(img, pic) <=>
           /\ DOMAIN pic = Grid(w, h)
           /\ \A p \in Grid(w, h) : Components(img.data[Place(w, p)]) = pic[p]
<1>1. img.width = w /\ img.height = h
  BY ImageIs
<1> QED
  BY <1>1 DEF Shows, Grid, Place

BlendSteps(after, img, w, h, pts, R, C) ==
  /\ after[0] = img
  /\ \A k \in 1 .. Len(pts) : after[k - 1] \in ImagesOf(w, h) =>
       after[k] = IF pts[k] \in R
                  THEN Written(after[k - 1], Place(w, pts[k]),
                               blend_colors(C[pts[k]], after[k - 1].data[Place(w, pts[k])]))
                  ELSE after[k - 1]
BlendDone(img2, w, h, pic, R, C) ==
  /\ img2 \in ImagesOf(w, h)
  /\ DOMAIN pic = Grid(w, h)
  /\ \A p \in Grid(w, h) :
       Components(img2.data[Place(w, p)]) =
         IF p \in R THEN Over(Components(C[p]), pic[p]) ELSE pic[p]
IsBrush(C, R) == C \in [R -> Color]

(* A pixel is a colour. *)
LEMMA PixelTyped ==
  ASSUME NEW w \in Color, NEW h \in Color, Countable(w, h), NEW img \in ImagesOf(w, h),
         NEW p \in Grid(w, h)
  PROVE  img.data[Place(w, p)] \in Color
<1>1. w \in Nat /\ h \in Nat
  BY WordIs DEF Color
<1>2. NumPixels(w, h) = w * h
  BY <1>1, CountableIs
<1>3. Place(w, p) \in 0 .. NumPixels(w, h) - 1
  BY <1>1, <1>2, PlaceIs
<1>4. img.data \in [0 .. NumPixels(w, h) - 1 -> Color]
  BY ImageIs
<1> QED
  BY <1>3, <1>4

(* The same for a brush that blends its colours into what it finds. *)
LEMMA Blends ==
  ASSUME NEW w \in Color, NEW h \in Color, Countable(w, h), NEW img \in ImagesOf(w, h),
         NEW pic, Shows(img, pic),
         NEW pts, NEW columns, NEW rows, Path(pts, columns, rows),
         NEW R, R \subseteq Grid(w, h), R \subseteq columns \X rows, NEW C, IsBrush(C, R),
         NEW after, BlendSteps(after, img, w, h, pts, R, C)
  PROVE  BlendDone(after[Len(pts)], w, h, pic, R, C)
<1> DEFINE Old(p) == img.data[Place(w, p)]
           N == [p \in Grid(w, h) |-> IF p \in R THEN blend_colors(C[p], Old(p)) ELSE 0]
<1>1. ASSUME NEW p \in Grid(w, h) PROVE Old(p) \in Color
  BY PixelTyped
<1> HIDE DEF Old
<1>c. \A p \in R : C[p] \in Color
  BY DEF IsBrush
<1>2. N \in [Grid(w, h) -> Color]
  <2>1. \A p \in R : blend_colors(C[p], Old(p)) \in Color
    BY <1>1, <1>c, BlendIs
  <2>2. 0 \in Color
    BY WordIs, BaseIs DEF Color
  <2> QED
    BY <2>1, <2>2
<1>3. \A p \in R : N[p] = blend_colors(C[p], Old(p))
  OBVIOUS
<1> HIDE DEF N
<1>4. PaintSteps(after, img, w, h, pts, R, N)
  BY <1>3 DEF PaintSteps, BlendSteps, Old
<1>5. PaintDone(after[Len(pts)], img, w, h, pts, R, N)
  BY <1>2, <1>4, Paints
<1>6. /\ DOMAIN pic = Grid(w, h)
      /\ \A p \in Grid(w, h) : Components(Old(p)) = pic[p]
  BY ShowsIs DEF Old
<1>7. \A p \in R : Components(N[p]) = Over(Components(C[p]), pic[p])
  BY <1>1, <1>c, <1>3, <1>6, BlendIs
<1>8. \A p \in R : \E k \in 1 .. Len(pts) : pts[k] = p
  BY DEF Path
<1>9. ASSUME NEW p \in Grid(w, h)
      PROVE  Components(after[Len(pts)].data[Place(w, p)]) =
               IF p \in R THEN Over(Components(C[p]), pic[p]) ELSE pic[p]
  <2>1. after[Len(pts)].data[Place(w, p)] = IF p \in R THEN N[p] ELSE Old(p)
    BY <1>5, <1>8 DEF PaintDone, Old
  <2> QED
    BY <1>6, <1>7, <2>1
<1>10. after[Len(pts)] \in ImagesOf(w, h)
  BY <1>5 DEF PaintDone
<1> QED
  BY <1>6, <1>9, <1>10 DEF BlendDone

-----------------------------------------------------------------------------
(* Ints is an interval. *)
LEMMA IntsAre ==
  /\ \A v \in Ints : v \in Int
  /\ \A a, b \in Ints : \A v \in Int : a <= v /\ v <= b => v \in Ints
  /\ \A v \in Ints : v < Word /\ v >= 0 => v \in Color
<1>1. PICK half \in Nat : half = Word \div 2
  BY WordIs, Quotient
<1>2. Word \in Nat
  BY WordIs
<1> QED
  BY <1>1, <1>2 DEF Ints, Color

(* An image after either program drew a point, and after some points. *)
IsDrawn(img2, img, p, color) ==
  \/ img2 = draw_pixel(img, p[1], p[2], color)
  \/ img2 = asm_draw_pixel(img, p[1], p[2], color)
RectSteps(after, img, w, h, pts, color) ==
  /\ after[0] = img
  /\ \A k \in 1 .. Len(pts) : after[k - 1] \in ImagesOf(w, h) =>
       IsDrawn(after[k], after[k - 1], pts[k], color)

(* draw_pixel on an image whose bytes can be counted. *)
LEMMA PixelStep ==
  ASSUME NEW w \in Color, NEW h \in Color, Countable(w, h), NEW img \in ImagesOf(w, h),
         NEW p \in Ints \X Ints, NEW color \in Color, NEW img2, IsDrawn(img2, img, p, color)
  PROVE  img2 = IF p \in Grid(w, h)
                THEN Written(img, Place(w, p), blend_colors(color, img.data[Place(w, p)]))
                ELSE img
<1>1. PICK x \in Ints, y \in Ints : p = <<x, y>>
  OBVIOUS
<1>2. x \in Int /\ y \in Int /\ p[1] = x /\ p[2] = y
  BY <1>1, IntsAre
<1>3. /\ draw_pixel(img, x, y, color) =
           IF <<x, y>> \in Grid(w, h)
           THEN Written(img, Place(w, <<x, y>>), blend_colors(color, img.data[Place(w, <<x, y>>)]))
           ELSE img
      /\ asm_draw_pixel(img, x, y, color) = draw_pixel(img, x, y, color)
  BY <1>2, PixelIs
<1> QED
  BY <1>1, <1>2, <1>3 DEF IsDrawn

(* The corners of a rectangle. *)
LEMMA RectIs ==
  ASSUME NEW rect, IsRect(rect)
  PROVE  \E left, right, top, bottom \in Ints :
           /\ left = rect.x /\ right = rect.x + rect.width
           /\ top = rect.y /\ bottom = rect.y + rect.height
           /\ left \in Int /\ right \in Int /\ top \in Int /\ bottom \in Int
           /\ rect.x .. rect.x + rect.width - 1 = left .. right - 1
           /\ rect.y .. rect.y + rect.height - 1 = top .. bottom - 1
<1>1. PICK left \in Ints, right \in Ints, top \in Ints, bottom \in Ints :
        /\ left = rect.x /\ right = rect.x + rect.width
        /\ top = rect.y /\ bottom = rect.y + rect.height
  BY DEF IsRect
<1>2. PICK width \in Ints, height \in Ints : width = rect.width /\ height = rect.height
  BY DEF IsRect
<1>3. /\ left \in Int /\ right \in Int /\ top \in Int /\ bottom \in Int
      /\ width \in Int /\ height \in Int
  BY IntsAre
<1>4. right - 1 = left + (width - 1) /\ bottom - 1 = top + (height - 1)
  BY <1>1, <1>2, <1>3
<1>5. /\ rect.x .. rect.x + rect.width - 1 = left .. right - 1
      /\ rect.y .. rect.y + rect.height - 1 = top .. bottom - 1
  BY <1>1, <1>2, <1>4
<1> QED
  BY <1>1, <1>3, <1>5

(* The loop of draw_rect. *)
LEMMA RectRest ==
  ASSUME NEW w \in Color, NEW h \in Color, NEW img \in ImagesOf(w, h),
         NEW rect, IsRect(rect), NEW color \in Color,
         NEW pts, Path(pts, rect.x .. rect.x + rect.width - 1, rect.y .. rect.y + rect.height - 1),
         NEW after, RectSteps(after, img, w, h, pts, color),
         Countable(w, h), NEW pic, Shows(img, pic)
  PROVE  /\ after[Len(pts)] \in ImagesOf(w, h)
         /\ Shows(after[Len(pts)], PaintRect(pic, rect, color))
<1>1. PICK columns, rows : /\ columns = rect.x .. rect.x + rect.width - 1
                           /\ rows = rect.y .. rect.y + rect.height - 1
  OBVIOUS
<1>2. columns \subseteq Ints /\ rows \subseteq Ints
  <2>1. PICK left \in Ints, right \in Ints, top \in Ints, bottom \in Ints :
          /\ columns = left .. right - 1 /\ rows = top .. bottom - 1
    BY <1>1, RectIs
  <2>2. /\ \A v \in Ints : v \in Int
        /\ \A a, b \in Ints : \A v \in Int : a <= v /\ v <= b => v \in Ints
    BY IntsAre
  <2>5. ASSUME NEW a \in Ints, NEW b \in Ints, NEW v \in a .. b - 1 PROVE v \in Ints
    <3>1. a \in Int /\ b \in Int
      BY <2>2
    <3>2. v \in Int /\ a <= v /\ v <= b
      BY <3>1
    <3> QED
      BY <2>2, <3>2
  <2> QED
    BY <2>1, <2>5
<1>3. Path(pts, columns, rows)
  BY <1>1
<1>4. InRect(rect) = columns \X rows
  BY <1>1 DEF InRect
<1> DEFINE R == InRect(rect) \cap Grid(w, h)
           C == [p \in R |-> color]
<1>8. /\ R \subseteq Grid(w, h) /\ R \subseteq columns \X rows
      /\ IsBrush(C, R) /\ \A p \in R : C[p] = color
  BY <1>4 DEF IsBrush
<1>r. \A p \in Grid(w, h) : p \in R <=> p \in InRect(rect)
  OBVIOUS
<1>s. \A p : p \in R <=> p \in columns \X rows /\ p \in Grid(w, h)
  BY <1>4
<1> HIDE DEF R, C
<1>7. BlendSteps(after, img, w, h, pts, R, C)
  <2>1. ASSUME NEW k \in 1 .. Len(pts), after[k - 1] \in ImagesOf(w, h)
        PROVE  after[k] = IF pts[k] \in R
                          THEN Written(after[k - 1], Place(w, pts[k]),
                                       blend_colors(C[pts[k]], after[k - 1].data[Place(w, pts[k])]))
                          ELSE after[k - 1]
    <3>1. pts[k] \in columns \X rows
      BY <1>3 DEF Path
    <3>2. pts[k] \in Ints \X Ints
      BY <1>2, <3>1
    <3>3. IsDrawn(after[k], after[k - 1], pts[k], color)
      BY <2>1 DEF RectSteps
    <3>4. after[k] = IF pts[k] \in Grid(w, h)
                     THEN Written(after[k - 1], Place(w, pts[k]),
                                  blend_colors(color, after[k - 1].data[Place(w, pts[k])]))
                     ELSE after[k - 1]
      BY <2>1, <3>2, <3>3, PixelStep
    <3>5. pts[k] \in R <=> pts[k] \in Grid(w, h)
      BY <1>s, <3>1
    <3> QED
      BY <1>8, <3>4, <3>5
  <2> QED
    BY <2>1 DEF BlendSteps, RectSteps
<1>10. BlendDone(after[Len(pts)], w, h, pic, R, C)
  BY <1>3, <1>7, <1>8, Blends
<1>11. PaintRect(pic, rect, color) =
         [p \in DOMAIN pic |-> IF p \in InRect(rect) THEN Over(Components(color), pic[p]) ELSE pic[p]]
  BY DEF PaintRect, Painted
<1>12. /\ DOMAIN PaintRect(pic, rect, color) = Grid(w, h)
       /\ \A p \in Grid(w, h) : Components(after[Len(pts)].data[Place(w, p)])
                                  = PaintRect(pic, rect, color)[p]
  BY <1>8, <1>10, <1>11, <1>r DEF BlendDone
<1>13. after[Len(pts)] \in ImagesOf(w, h)
  BY <1>10 DEF BlendDone
<1>14. Shows(after[Len(pts)], PaintRect(pic, rect, color))
  BY <1>12, <1>13, ShowsIs
<1> QED
  BY <1>13, <1>14

(* draw_rect paints the rectangle, in C... *)
LEMMA DrawRectIs ==
  ASSUME NEW w \in Color, NEW h \in Color, NEW img \in ImagesOf(w, h),
         NEW rect, IsRect(rect), NEW color \in Color
  PROVE  /\ draw_rect(img, rect, color) \in ImagesOf(w, h) \cup {Undefined}
         /\ \A pic : Countable(w, h) /\ Shows(img, pic) =>
              /\ draw_rect(img, rect, color) \in ImagesOf(w, h)
              /\ Shows(draw_rect(img, rect, color), PaintRect(pic, rect, color))
<1> DEFINE S == ImagesOf(w, h) \cup {Undefined}
           pts == Points(rect.x, rect.x + rect.width, rect.y, rect.y + rect.height)
           Draw(k, im) == draw_pixel(im, pts[k][1], pts[k][2], color)
           after == CHOOSE f : f = [k \in 0 .. Len(pts) |->
                      IF k = 0 THEN img
                      ELSE IF f[k - 1] = Undefined THEN Undefined ELSE Draw(k, f[k - 1])]
<1>1. draw_rect(img, rect, color) = after[Len(pts)]
  BY DEF draw_rect, ForEach
<1>2. Path(pts, rect.x .. rect.x + rect.width - 1, rect.y .. rect.y + rect.height - 1)
  <2>1. PICK left, right, top, bottom \in Ints :
          /\ left = rect.x /\ right = rect.x + rect.width
          /\ top = rect.y /\ bottom = rect.y + rect.height
          /\ left \in Int /\ right \in Int /\ top \in Int /\ bottom \in Int
          /\ rect.x .. rect.x + rect.width - 1 = left .. right - 1
          /\ rect.y .. rect.y + rect.height - 1 = top .. bottom - 1
    BY RectIs
  <2>2. pts = Points(left, right, top, bottom)
    BY <2>1
  <2> HIDE DEF pts
  <2>3. Path(pts, left .. right - 1, top .. bottom - 1)
    BY <2>1, <2>2, PointsAre
  <2> QED
    BY <2>1, <2>3
<1> HIDE DEF pts
<1>3. PICK n \in Nat : n = Len(pts)
  BY <1>2 DEF Path
<1>4. \A k \in 1 .. n : \A im \in ImagesOf(w, h) : Draw(k, im) \in S
  <2>1. \A k \in 1 .. n : pts[k][1] \in Int /\ pts[k][2] \in Int
    BY <1>2, <1>3 DEF Path
  <2> QED
    BY <2>1, PixelIs
<1>5. img \in S /\ img # Undefined /\ Undefined \in S /\ \A im \in S : im # Undefined => im \in ImagesOf(w, h)
  BY ImageIs
<1> DEFINE T == [k \in 1 .. n |-> [im \in S |->
                   IF im = Undefined THEN Undefined ELSE Draw(k, im)]]
<1> HIDE DEF S, Draw
<1>6. Steps(T, n, S)
  BY <1>4, <1>5 DEF Steps
<1>7. \A k \in 1 .. n : \A im \in S : T[k][im] = IF im = Undefined THEN Undefined ELSE Draw(k, im)
  OBVIOUS
<1> HIDE DEF T
<1>8. PICK f : Run(f, img, T, n, S)
  BY <1>5, <1>6, Loop
<1>9. f = [k \in 0 .. n |-> IF k = 0 THEN img
                            ELSE IF f[k - 1] = Undefined THEN Undefined ELSE Draw(k, f[k - 1])]
  <2>1. ASSUME NEW k \in 0 .. n
        PROVE  f[k] = IF k = 0 THEN img
                      ELSE IF f[k - 1] = Undefined THEN Undefined ELSE Draw(k, f[k - 1])
    <3>1. k # 0 => k \in 1 .. n /\ k - 1 \in 0 .. n
      OBVIOUS
    <3> QED
      BY <1>7, <1>8, <3>1 DEF Run
  <2> QED
    BY <1>8, <2>1 DEF Run
<1>10. after = [k \in 0 .. n |-> IF k = 0 THEN img
                                 ELSE IF after[k - 1] = Undefined THEN Undefined
                                      ELSE Draw(k, after[k - 1])]
  BY <1>3, <1>9
<1> HIDE DEF after
<1>11. after[0] = img /\ \A k \in 1 .. n : after[k] = IF after[k - 1] = Undefined THEN Undefined
                                                     ELSE Draw(k, after[k - 1])
  BY <1>10
<1>12. after[n] \in S
  <2> DEFINE G == {m \in 0 .. n : after[m] \in S}
  <2>1. 0 \in G /\ \A i \in 1 .. n : i - 1 \in G => i \in G
    BY <1>4, <1>5, <1>11
  <2> HIDE DEF G
  <2>2. \A i \in 0 .. n : i \in G
    BY <2>1, UpTo
  <2> QED
    BY <2>2 DEF G
<1>13. ASSUME NEW pic, Countable(w, h), Shows(img, pic)
       PROVE  /\ after[n] \in ImagesOf(w, h)
              /\ Shows(after[n], PaintRect(pic, rect, color))
  <2>1. RectSteps(after, img, w, h, pts, color)
    BY <1>3, <1>11, ImageIs DEF Draw, RectSteps, IsDrawn
  <2> QED
    BY <1>2, <1>3, <1>13, <2>1, RectRest
<1> QED
  BY <1>1, <1>3, <1>12, <1>13 DEF S

(* ... and in assembly. *)
LEMMA AsmDrawRectIs ==
  ASSUME NEW w \in Color, NEW h \in Color, NEW img \in ImagesOf(w, h),
         NEW rect, IsRect(rect), NEW color \in Color
  PROVE  /\ asm_draw_rect(img, rect, color) \in ImagesOf(w, h) \cup {Undefined}
         /\ \A pic : Countable(w, h) /\ Shows(img, pic) =>
              /\ asm_draw_rect(img, rect, color) \in ImagesOf(w, h)
              /\ Shows(asm_draw_rect(img, rect, color), PaintRect(pic, rect, color))
<1> DEFINE S == ImagesOf(w, h) \cup {Undefined}
           pts == Points(rect.x, Int32(rect.x + rect.width), rect.y, Int32(rect.y + rect.height))
           Draw(k, im) == asm_draw_pixel(im, pts[k][1], pts[k][2], color)
           after == CHOOSE f : f = [k \in 0 .. Len(pts) |->
                      IF k = 0 THEN img
                      ELSE IF f[k - 1] = Undefined THEN Undefined ELSE Draw(k, f[k - 1])]
<1>1. asm_draw_rect(img, rect, color) = after[Len(pts)]
  BY DEF asm_draw_rect, ForEach
<1>2. Path(pts, rect.x .. rect.x + rect.width - 1, rect.y .. rect.y + rect.height - 1)
  <2>1. PICK left, right, top, bottom \in Ints :
          /\ left = rect.x /\ right = rect.x + rect.width
          /\ top = rect.y /\ bottom = rect.y + rect.height
          /\ left \in Int /\ right \in Int /\ top \in Int /\ bottom \in Int
          /\ rect.x .. rect.x + rect.width - 1 = left .. right - 1
          /\ rect.y .. rect.y + rect.height - 1 = top .. bottom - 1
    BY RectIs
  <2>2. pts = Points(left, right, top, bottom)
    BY <2>1, Int32Is
  <2> HIDE DEF pts
  <2>3. Path(pts, left .. right - 1, top .. bottom - 1)
    BY <2>1, <2>2, PointsAre
  <2> QED
    BY <2>1, <2>3
<1> HIDE DEF pts
<1>3. PICK n \in Nat : n = Len(pts)
  BY <1>2 DEF Path
<1>4. \A k \in 1 .. n : \A im \in ImagesOf(w, h) : Draw(k, im) \in S
  <2>1. \A k \in 1 .. n : pts[k][1] \in Int /\ pts[k][2] \in Int
    BY <1>2, <1>3 DEF Path
  <2> QED
    BY <2>1, PixelIs
<1>5. img \in S /\ img # Undefined /\ Undefined \in S /\ \A im \in S : im # Undefined => im \in ImagesOf(w, h)
  BY ImageIs
<1> DEFINE T == [k \in 1 .. n |-> [im \in S |->
                   IF im = Undefined THEN Undefined ELSE Draw(k, im)]]
<1> HIDE DEF S, Draw
<1>6. Steps(T, n, S)
  BY <1>4, <1>5 DEF Steps
<1>7. \A k \in 1 .. n : \A im \in S : T[k][im] = IF im = Undefined THEN Undefined ELSE Draw(k, im)
  OBVIOUS
<1> HIDE DEF T
<1>8. PICK f : Run(f, img, T, n, S)
  BY <1>5, <1>6, Loop
<1>9. f = [k \in 0 .. n |-> IF k = 0 THEN img
                            ELSE IF f[k - 1] = Undefined THEN Undefined ELSE Draw(k, f[k - 1])]
  <2>1. ASSUME NEW k \in 0 .. n
        PROVE  f[k] = IF k = 0 THEN img
                      ELSE IF f[k - 1] = Undefined THEN Undefined ELSE Draw(k, f[k - 1])
    <3>1. k # 0 => k \in 1 .. n /\ k - 1 \in 0 .. n
      OBVIOUS
    <3> QED
      BY <1>7, <1>8, <3>1 DEF Run
  <2> QED
    BY <1>8, <2>1 DEF Run
<1>10. after = [k \in 0 .. n |-> IF k = 0 THEN img
                                 ELSE IF after[k - 1] = Undefined THEN Undefined
                                      ELSE Draw(k, after[k - 1])]
  BY <1>3, <1>9
<1> HIDE DEF after
<1>11. after[0] = img /\ \A k \in 1 .. n : after[k] = IF after[k - 1] = Undefined THEN Undefined
                                                     ELSE Draw(k, after[k - 1])
  BY <1>10
<1>12. after[n] \in S
  <2> DEFINE G == {m \in 0 .. n : after[m] \in S}
  <2>1. 0 \in G /\ \A i \in 1 .. n : i - 1 \in G => i \in G
    BY <1>4, <1>5, <1>11
  <2> HIDE DEF G
  <2>2. \A i \in 0 .. n : i \in G
    BY <2>1, UpTo
  <2> QED
    BY <2>2 DEF G
<1>13. ASSUME NEW pic, Countable(w, h), Shows(img, pic)
       PROVE  /\ after[n] \in ImagesOf(w, h)
              /\ Shows(after[n], PaintRect(pic, rect, color))
  <2>1. RectSteps(after, img, w, h, pts, color)
    BY <1>3, <1>11, ImageIs DEF Draw, RectSteps, IsDrawn
  <2> QED
    BY <1>2, <1>3, <1>13, <2>1, RectRest
<1> QED
  BY <1>1, <1>3, <1>12, <1>13 DEF S

-----------------------------------------------------------------------------
(* Circles. *)
IsCircle(x, y, r) ==
  /\ x \in Ints /\ y \in Ints /\ r \in Ints
  /\ x - r \in Ints /\ x + r \in Ints /\ y - r \in Ints /\ y + r \in Ints

IsDrawnInCircle(img2, img, p, x, y, r, color) ==
  \/ img2 = IF square_dist(p[1], p[2], x, y) <= square(r)
            THEN draw_pixel(img, p[1], p[2], color) ELSE img
  \/ /\ x >= 0 /\ y >= 0
     /\ img2 = IF InCircle(p[1], p[2], x, y, r)
               THEN asm_draw_pixel(img, p[1], p[2], color) ELSE img
CircleSteps(after, img, w, h, pts, x, y, r, color) ==
  /\ after[0] = img
  /\ \A k \in 1 .. Len(pts) : after[k - 1] \in ImagesOf(w, h) =>
       IsDrawnInCircle(after[k], after[k - 1], pts[k], x, y, r, color)

(* Squares grow with their roots. *)
LEMMA SquareIs ==
  ASSUME NEW a \in Int, NEW m \in Nat
  PROVE  /\ a * a \in Nat
         /\ -m <= a /\ a <= m => a * a <= m * m
         /\ a * a <= m * m => -m <= a /\ a <= m
<1>1. PICK b \in Nat : (b = a \/ b = -a)
  <2>1. CASE a >= 0
    BY <2>1
  <2>2. CASE a < 0
    <3>1. -a \in Nat
      BY <2>2
    <3> QED
      BY <3>1
  <2> QED
    BY <2>1, <2>2
<1>2. a * a = b * b
  BY <1>1
<1>3. b <= m => b * b <= m * m
  BY Product
<1>4. m < b => m * m < b * b
  <2>1. m < b => (m + 1) * (m + 1) <= b * b
    BY Product
  <2>2. (m + 1) * (m + 1) = m * m + m + m + 1 /\ m * m \in Nat /\ b * b \in Nat
    OBVIOUS
  <2> QED
    BY <2>1, <2>2
<1>5. b * b \in Nat /\ m * m \in Nat
  OBVIOUS
<1> QED
  BY <1>1, <1>2, <1>3, <1>4, <1>5

(* Half a word. *)
LEMMA HalfIs ==
  \E half, m \in Nat :
    /\ half = Word \div 2 /\ m = Word - half - 1 /\ m <= half /\ half <= m + 1 /\ half >= 1
    /\ half + m + 1 = Word
    /\ \A v \in Ints : v >= 0 => v <= m
<1>1. Word \in Nat /\ Word > 2
  BY WordIs, FullAssumption DEF Base
<1>2. PICK half \in Nat : half = Word \div 2
  BY <1>1, Quotient
<1>3. Word % 2 \in Nat /\ Word % 2 < 2 /\ Word = 2 * half + (Word % 2)
  BY <1>1, <1>2, Quotient
<1>4. PICK m \in Nat : m = Word - half - 1
  BY <1>1, <1>2, <1>3
<1>5. m <= half /\ half <= m + 1 /\ half >= 1 /\ half + m + 1 = Word
  BY <1>1, <1>3, <1>4
<1>6. \A v \in Ints : v <= m
  BY <1>1, <1>2, <1>4 DEF Ints
<1> QED
  BY <1>2, <1>4, <1>5, <1>6

(* Numbers of 64 bits that are small enough. *)
LEMMA Int64Is ==
  ASSUME NEW m \in Nat, m = Word - (Word \div 2) - 1, NEW v \in Int, -m <= v, v <= Word * m
  PROVE  Int64(v) = v
<1>1. PICK half \in Nat : half = Word \div 2 /\ m <= half /\ half + m + 1 = Word
  BY HalfIs
<1>2. Word \in Nat /\ Word > 0
  BY WordIs, BaseIs
<1>3. PICK g \in Nat : g = half * Word
  BY <1>2
<1>4. PICK q \in Nat : q = Word * Word
  BY <1>2
<1>5. PICK e \in Nat : e = Word * m
  BY <1>2
<1>6. g + e + Word = q
  <2>1. half * Word + Word * m + Word = Word * (half + m + 1)
    BY <1>2
  <2> QED
    BY <1>1, <1>3, <1>4, <1>5, <2>1
<1>7. half <= g
  <2>1. half * 1 <= half * Word
    BY <1>2, Product
  <2> QED
    BY <1>3, <2>1
<1>8. v + g \in Nat /\ v + g < q /\ q \in Nat \ {0}
  BY <1>1, <1>2, <1>5, <1>6, <1>7
<1>9. (v + g) % q = v + g
  BY <1>8, Small
<1>10. Int64(v) = ((v + g) % q) - g
  BY <1>1, <1>3, <1>4 DEF Int64
<1> QED
  BY <1>9, <1>10

(* In the assembly, too, the points of a circle are those that are near    *)
(* enough, if its centre is not left of or above the image.                *)
LEMMA InCircleIs ==
  ASSUME NEW w \in Color, NEW h \in Color, Countable(w, h), NEW j \in Int, NEW i \in Int,
         <<j, i>> \in Grid(w, h), NEW x \in Ints, NEW y \in Ints, NEW r \in Ints,
         x >= 0, y >= 0, r >= 0
  PROVE  InCircle(j, i, x, y, r) <=> (j - x) * (j - x) + (i - y) * (i - y) <= r * r
<1>1. PICK half \in Nat, m \in Nat :
        /\ half = Word \div 2 /\ m = Word - half - 1 /\ m <= half /\ half <= m + 1 /\ half >= 1
        /\ half + m + 1 = Word
        /\ \A v \in Ints : v >= 0 => v <= m
  BY HalfIs
<1>2. Word \in Nat \ {0} /\ w \in Nat /\ h \in Nat
  BY WordIs, BaseIs DEF Color
<1>3. j \in Nat /\ i \in Nat /\ j < w /\ i < h
  BY <1>2 DEF Grid
<1>4. j <= m /\ i <= m
  <2>1. 4 * w < Word /\ 4 * h < Word
    BY <1>2, <1>3, CountableIs
  <2> QED
    BY <1>1, <1>2, <1>3, <2>1
<1>5. x \in Nat /\ y \in Nat /\ r \in Nat /\ x <= m /\ y <= m /\ r <= m
  BY <1>1, IntsAre
<1>6. m < Word
  BY <1>1
<1>7. Movl(j) = j /\ Movl(i) = i /\ Movl(x) = x /\ Movl(y) = y /\ Movl(r) = r
  <2>1. \A v \in Nat : v <= m => Movl(v) = v
    BY <1>2, <1>6, Small DEF Movl
  <2> QED
    BY <1>3, <1>4, <1>5, <2>1
<1>8. \A v \in Int : -m <= v /\ v <= Word * m => Int64(v) = v
  BY <1>1, Int64Is
<1>9. PICK e \in Nat : e = Word * m
  BY <1>2
<1>10. PICK s \in Nat : s = m * m
  OBVIOUS
<1>11. s + s <= e /\ m <= e
  <2>1. (m + m) * m <= Word * m
    <3>1. m + m <= Word /\ m + m \in Nat
      BY <1>1, <1>2
    <3> QED
      BY <1>2, <3>1, Product
  <2>2. (m + m) * m = m * m + m * m
    OBVIOUS
  <2>3. 1 * m <= Word * m
    BY <1>2, Product
  <2> QED
    BY <1>9, <1>10, <2>1, <2>2, <2>3
<1>12. ASSUME NEW v \in Int, -m <= v, v <= m
       PROVE  asm_square(v) = v * v /\ v * v \in Nat /\ v * v <= s /\ Int64(v) = v
  <2>1. Int64(v) = v
    BY <1>8, <1>9, <1>11, <1>12
  <2>2. v * v \in Nat /\ v * v <= s
    BY <1>10, <1>12, SquareIs
  <2>3. Int64(v * v) = v * v
    <3>1. PICK u \in Nat : u = v * v
      BY <2>2
    <3>2. -m <= u /\ u <= e
      BY <1>11, <2>2, <3>1
    <3> QED
      BY <1>8, <1>9, <3>1, <3>2
  <2> QED
    BY <2>1, <2>2, <2>3 DEF asm_square
<1>13. PICK a \in Int : a = x - j
  BY <1>3, <1>5
<1>14. PICK b \in Int : b = y - i
  BY <1>3, <1>5
<1>15. -m <= a /\ a <= m /\ -m <= b /\ b <= m
  BY <1>3, <1>4, <1>5, <1>13, <1>14
<1>16. /\ asm_square(a) = a * a /\ a * a \in Nat /\ a * a <= s /\ Int64(a) = a
       /\ asm_square(b) = b * b /\ b * b \in Nat /\ b * b <= s /\ Int64(b) = b
  BY <1>12, <1>15
<1>17. asm_square_dist(j, i, x, y) = a * a + b * b
  <2>1. PICK u \in Nat : u = a * a + b * b
    BY <1>16
  <2>2. -m <= u /\ u <= e
    BY <1>11, <1>16, <2>1
  <2>3. Int64(u) = u
    BY <1>8, <1>9, <2>2
  <2> QED
    BY <1>13, <1>14, <1>16, <2>1, <2>3 DEF asm_square_dist
<1>18. asm_square(r) = r * r
  BY <1>5, <1>12
<1>19. a * a = (j - x) * (j - x) /\ b * b = (i - y) * (i - y)
  BY <1>3, <1>5, <1>13, <1>14
<1>20. r * r \in Nat /\ a * a + b * b \in Nat
  BY <1>5, <1>16
<1> QED
  BY <1>7, <1>17, <1>18, <1>19, <1>20 DEF InCircle

InDisc(p, x, y, r) == r >= 0 /\ (p[1] - x) * (p[1] - x) + (p[2] - y) * (p[2] - y) <= r * r

(* One point of the square around a circle. *)
LEMMA CircleStep ==
  ASSUME NEW w \in Color, NEW h \in Color, Countable(w, h), NEW img \in ImagesOf(w, h),
         NEW x, NEW y, NEW r, IsCircle(x, y, r), NEW color \in Color,
         NEW p \in (x - r .. x + r) \X (y - r .. y + r),
         NEW img2, IsDrawnInCircle(img2, img, p, x, y, r, color)
  PROVE  img2 = IF p \in Grid(w, h) /\ InDisc(p, x, y, r)
                THEN Written(img, Place(w, p), blend_colors(color, img.data[Place(w, p)]))
                ELSE img
<1>1. x \in Int /\ y \in Int /\ r \in Int /\ x \in Ints /\ y \in Ints /\ r \in Ints
  BY IntsAre DEF IsCircle
<1>2. PICK j \in x - r .. x + r, i \in y - r .. y + r : p = <<j, i>>
  OBVIOUS
<1>3. j \in Int /\ i \in Int /\ r >= 0 /\ p[1] = j /\ p[2] = i
  BY <1>1, <1>2
<1>4. j \in Ints /\ i \in Ints
  <2>1. \A a, b \in Ints : \A v \in a .. b : v \in Int /\ a <= v /\ v <= b => v \in Ints
    BY IntsAre
  <2>2. x - r <= j /\ j <= x + r /\ y - r <= i /\ i <= y + r
    BY <1>1
  <2> QED
    BY <1>3, <2>1, <2>2 DEF IsCircle
<1>5. /\ draw_pixel(img, j, i, color) =
           IF p \in Grid(w, h)
           THEN Written(img, Place(w, p), blend_colors(color, img.data[Place(w, p)]))
           ELSE img
      /\ asm_draw_pixel(img, j, i, color) = draw_pixel(img, j, i, color)
  BY <1>2, <1>3, <1>4, PixelIs
<1>6. square_dist(j, i, x, y) <= square(r) <=> InDisc(p, x, y, r)
  <2>1. square_dist(j, i, x, y) = (j - x) * (j - x) + (i - y) * (i - y)
    BY <1>1, <1>3 DEF square_dist, square
  <2> QED
    BY <1>3, <2>1 DEF InDisc, square
<1>7. p \in Grid(w, h) /\ x >= 0 /\ y >= 0 => (InCircle(j, i, x, y, r) <=> InDisc(p, x, y, r))
  BY <1>1, <1>2, <1>3, InCircleIs DEF InDisc
<1>8. CASE img2 = IF square_dist(p[1], p[2], x, y) <= square(r)
                  THEN draw_pixel(img, p[1], p[2], color) ELSE img
  BY <1>3, <1>5, <1>6, <1>8
<1>9. CASE /\ x >= 0 /\ y >= 0
           /\ img2 = IF InCircle(p[1], p[2], x, y, r)
                     THEN asm_draw_pixel(img, p[1], p[2], color) ELSE img
  BY <1>3, <1>5, <1>7, <1>9
<1> QED
  BY <1>8, <1>9 DEF IsDrawnInCircle

(* The loop of draw_circle. *)
LEMMA CircleRest ==
  ASSUME NEW w \in Color, NEW h \in Color, NEW img \in ImagesOf(w, h),
         NEW x, NEW y, NEW r, IsCircle(x, y, r), NEW color \in Color,
         NEW pts, Path(pts, x - r .. x + r, y - r .. y + r),
         NEW after, CircleSteps(after, img, w, h, pts, x, y, r, color),
         Countable(w, h), NEW pic, Shows(img, pic)
  PROVE  /\ after[Len(pts)] \in ImagesOf(w, h)
         /\ Shows(after[Len(pts)], PaintCircle(pic, x, y, r, color))
<1>1. PICK columns, rows : columns = x - r .. x + r /\ rows = y - r .. y + r
  OBVIOUS
<1>2. Path(pts, columns, rows)
  BY <1>1
<1>3. x \in Int /\ y \in Int /\ r \in Int
  BY IntsAre DEF IsCircle
<1> DEFINE R == {p \in Grid(w, h) : InDisc(p, x, y, r)}
           C == [p \in R |-> color]
<1>4. R \subseteq columns \X rows
  <2> SUFFICES ASSUME NEW p \in Grid(w, h), InDisc(p, x, y, r) PROVE p \in columns \X rows
    OBVIOUS
  <2>1. PICK j \in Int, i \in Int : p = <<j, i>>
    BY WordIs DEF Grid, Color
  <2>2. r \in Nat /\ (j - x) * (j - x) + (i - y) * (i - y) <= r * r
    BY <1>3, <2>1 DEF InDisc
  <2>3. PICK a \in Int, b \in Int : a = j - x /\ b = i - y
    BY <1>3
  <2>4. a * a \in Nat /\ b * b \in Nat /\ r * r \in Nat
    BY <2>2, SquareIs
  <2>5. a * a <= r * r /\ b * b <= r * r
    <3>1. a * a = (j - x) * (j - x) /\ b * b = (i - y) * (i - y)
      BY <2>3
    <3>2. a * a + b * b <= r * r
      BY <2>2, <3>1
    <3> QED
      BY <2>4, <3>2
  <2>6. -r <= a /\ a <= r /\ -r <= b /\ b <= r
    BY <2>2, <2>5, SquareIs
  <2>7. j \in x - r .. x + r /\ i \in y - r .. y + r
    BY <1>3, <2>3, <2>6
  <2> QED
    BY <1>1, <2>1, <2>7
<1>5. /\ R \subseteq Grid(w, h) /\ IsBrush(C, R) /\ \A p \in R : C[p] = color
  BY DEF IsBrush
<1>r. \A p : p \in R <=> p \in Grid(w, h) /\ InDisc(p, x, y, r)
  OBVIOUS
<1> HIDE DEF R, C
<1>7. BlendSteps(after, img, w, h, pts, R, C)
  <2>1. ASSUME NEW k \in 1 .. Len(pts), after[k - 1] \in ImagesOf(w, h)
        PROVE  after[k] = IF pts[k] \in R
                          THEN Written(after[k - 1], Place(w, pts[k]),
                                       blend_colors(C[pts[k]], after[k - 1].data[Place(w, pts[k])]))
                          ELSE after[k - 1]
    <3>1. pts[k] \in columns \X rows
      BY <1>2 DEF Path
    <3>2. pts[k] \in (x - r .. x + r) \X (y - r .. y + r)
      BY <1>1, <3>1
    <3>3. IsDrawnInCircle(after[k], after[k - 1], pts[k], x, y, r, color)
      BY <2>1 DEF CircleSteps
    <3>4. after[k] = IF pts[k] \in Grid(w, h) /\ InDisc(pts[k], x, y, r)
                     THEN Written(after[k - 1], Place(w, pts[k]),
                                  blend_colors(color, after[k - 1].data[Place(w, pts[k])]))
                     ELSE after[k - 1]
      BY <2>1, <3>2, <3>3, CircleStep
    <3> QED
      BY <1>5, <1>r, <3>4
  <2> QED
    BY <2>1 DEF BlendSteps, CircleSteps
<1>10. BlendDone(after[Len(pts)], w, h, pic, R, C)
  BY <1>2, <1>4, <1>5, <1>7, Blends
<1>11. DOMAIN pic = Grid(w, h)
  BY <1>10 DEF BlendDone
<1>12. PaintCircle(pic, x, y, r, color) =
         [p \in DOMAIN pic |-> IF p \in R THEN Over(Components(color), pic[p]) ELSE pic[p]]
  <2>1. {p \in DOMAIN pic : /\ r >= 0
                            /\ (p[1] - x) * (p[1] - x) + (p[2] - y) * (p[2] - y) <= r * r} = R
    BY <1>11, <1>r DEF InDisc
  <2> QED
    BY <2>1 DEF PaintCircle, Painted
<1>13. /\ DOMAIN PaintCircle(pic, x, y, r, color) = Grid(w, h)
       /\ \A p \in Grid(w, h) : Components(after[Len(pts)].data[Place(w, p)])
                                  = PaintCircle(pic, x, y, r, color)[p]
  BY <1>5, <1>10, <1>12 DEF BlendDone
<1>14. after[Len(pts)] \in ImagesOf(w, h)
  BY <1>10 DEF BlendDone
<1>15. Shows(after[Len(pts)], PaintCircle(pic, x, y, r, color))
  BY <1>13, <1>14, ShowsIs
<1> QED
  BY <1>14, <1>15

(* draw_circle paints the disc, in C... *)
LEMMA DrawCircleIs ==
  ASSUME NEW w \in Color, NEW h \in Color, NEW img \in ImagesOf(w, h),
         NEW x, NEW y, NEW r, IsCircle(x, y, r), NEW color \in Color
  PROVE  /\ draw_circle(img, x, y, r, color) \in ImagesOf(w, h) \cup {Undefined}
         /\ \A pic : Countable(w, h) /\ Shows(img, pic) =>
              /\ draw_circle(img, x, y, r, color) \in ImagesOf(w, h)
              /\ Shows(draw_circle(img, x, y, r, color), PaintCircle(pic, x, y, r, color))
<1> DEFINE S == ImagesOf(w, h) \cup {Undefined}
           pts == Points(x - r, x + r + 1, y - r, y + r + 1)
           Draw(k, im) == IF square_dist(pts[k][1], pts[k][2], x, y) <= square(r)
                          THEN draw_pixel(im, pts[k][1], pts[k][2], color) ELSE im
           after == CHOOSE f : f = [k \in 0 .. Len(pts) |->
                      IF k = 0 THEN img
                      ELSE IF f[k - 1] = Undefined THEN Undefined ELSE Draw(k, f[k - 1])]
<1>1. draw_circle(img, x, y, r, color) = after[Len(pts)]
  BY DEF draw_circle, ForEach
<1>2. Path(pts, x - r .. x + r, y - r .. y + r)
  <2>1. PICK left \in Int, right \in Int, top \in Int, bottom \in Int :
          left = x - r /\ right = x + r + 1 /\ top = y - r /\ bottom = y + r + 1
    BY IntsAre DEF IsCircle
  <2>2. pts = Points(left, right, top, bottom)
    BY <2>1
  <2> HIDE DEF pts
  <2>3. Path(pts, left .. right - 1, top .. bottom - 1)
    BY <2>1, <2>2, PointsAre
  <2>4. right - 1 = x + r /\ bottom - 1 = y + r
    BY <2>1, IntsAre DEF IsCircle
  <2> QED
    BY <2>1, <2>3, <2>4
<1> HIDE DEF pts
<1>3. PICK n \in Nat : n = Len(pts)
  BY <1>2 DEF Path
<1>4. \A k \in 1 .. n : \A im \in ImagesOf(w, h) : Draw(k, im) \in S
  <2>1. \A k \in 1 .. n : pts[k][1] \in Int /\ pts[k][2] \in Int
    BY <1>2, <1>3 DEF Path
  <2> QED
    BY <2>1, PixelIs
<1>5. img \in S /\ img # Undefined /\ Undefined \in S /\ \A im \in S : im # Undefined => im \in ImagesOf(w, h)
  BY ImageIs
<1> DEFINE T == [k \in 1 .. n |-> [im \in S |->
                   IF im = Undefined THEN Undefined ELSE Draw(k, im)]]
<1> HIDE DEF S, Draw
<1>6. Steps(T, n, S)
  BY <1>4, <1>5 DEF Steps
<1>7. \A k \in 1 .. n : \A im \in S : T[k][im] = IF im = Undefined THEN Undefined ELSE Draw(k, im)
  OBVIOUS
<1> HIDE DEF T
<1>8. PICK f : Run(f, img, T, n, S)
  BY <1>5, <1>6, Loop
<1>9. f = [k \in 0 .. n |-> IF k = 0 THEN img
                            ELSE IF f[k - 1] = Undefined THEN Undefined ELSE Draw(k, f[k - 1])]
  <2>1. ASSUME NEW k \in 0 .. n
        PROVE  f[k] = IF k = 0 THEN img
                      ELSE IF f[k - 1] = Undefined THEN Undefined ELSE Draw(k, f[k - 1])
    <3>1. k # 0 => k \in 1 .. n /\ k - 1 \in 0 .. n
      OBVIOUS
    <3> QED
      BY <1>7, <1>8, <3>1 DEF Run
  <2> QED
    BY <1>8, <2>1 DEF Run
<1>10. after = [k \in 0 .. n |-> IF k = 0 THEN img
                                 ELSE IF after[k - 1] = Undefined THEN Undefined
                                      ELSE Draw(k, after[k - 1])]
  BY <1>3, <1>9
<1> HIDE DEF after
<1>11. after[0] = img /\ \A k \in 1 .. n : after[k] = IF after[k - 1] = Undefined THEN Undefined
                                                     ELSE Draw(k, after[k - 1])
  BY <1>10
<1>12. after[n] \in S
  <2> DEFINE G == {m \in 0 .. n : after[m] \in S}
  <2>1. 0 \in G /\ \A i \in 1 .. n : i - 1 \in G => i \in G
    BY <1>4, <1>5, <1>11
  <2> HIDE DEF G
  <2>2. \A i \in 0 .. n : i \in G
    BY <2>1, UpTo
  <2> QED
    BY <2>2 DEF G
<1>13. ASSUME NEW pic, Countable(w, h), Shows(img, pic)
       PROVE  /\ after[n] \in ImagesOf(w, h)
              /\ Shows(after[n], PaintCircle(pic, x, y, r, color))
  <2>1. CircleSteps(after, img, w, h, pts, x, y, r, color)
    BY <1>3, <1>11, ImageIs DEF Draw, CircleSteps, IsDrawnInCircle
  <2> QED
    BY <1>2, <1>3, <1>13, <2>1, CircleRest
<1> QED
  BY <1>1, <1>3, <1>12, <1>13 DEF S

(* ... and in assembly if its centre is not left of or above the image. *)
LEMMA AsmDrawCircleIs ==
  ASSUME NEW w \in Color, NEW h \in Color, NEW img \in ImagesOf(w, h),
         NEW x, NEW y, NEW r, IsCircle(x, y, r), NEW color \in Color
  PROVE  /\ asm_draw_circle(img, x, y, r, color) \in ImagesOf(w, h) \cup {Undefined}
         /\ \A pic : x >= 0 /\ y >= 0 /\ Countable(w, h) /\ Shows(img, pic) =>
              /\ asm_draw_circle(img, x, y, r, color) \in ImagesOf(w, h)
              /\ Shows(asm_draw_circle(img, x, y, r, color), PaintCircle(pic, x, y, r, color))
<1> DEFINE S == ImagesOf(w, h) \cup {Undefined}
           pts == Points(Int32(x - r), Int32(x + r) + 1, Int32(y - r), Int32(y + r) + 1)
           Draw(k, im) == IF InCircle(pts[k][1], pts[k][2], x, y, r)
                          THEN asm_draw_pixel(im, pts[k][1], pts[k][2], color) ELSE im
           after == CHOOSE f : f = [k \in 0 .. Len(pts) |->
                      IF k = 0 THEN img
                      ELSE IF f[k - 1] = Undefined THEN Undefined ELSE Draw(k, f[k - 1])]
<1>1. asm_draw_circle(img, x, y, r, color) = after[Len(pts)]
  BY DEF asm_draw_circle, ForEach
<1>2. Path(pts, x - r .. x + r, y - r .. y + r)
  <2>1. PICK left \in Int, right \in Int, top \in Int, bottom \in Int :
          left = x - r /\ right = x + r + 1 /\ top = y - r /\ bottom = y + r + 1
    BY IntsAre DEF IsCircle
  <2>2. pts = Points(left, right, top, bottom)
    BY <2>1, Int32Is DEF IsCircle
  <2> HIDE DEF pts
  <2>3. Path(pts, left .. right - 1, top .. bottom - 1)
    BY <2>1, <2>2, PointsAre
  <2>4. right - 1 = x + r /\ bottom - 1 = y + r
    BY <2>1, IntsAre DEF IsCircle
  <2> QED
    BY <2>1, <2>3, <2>4
<1> HIDE DEF pts
<1>3. PICK n \in Nat : n = Len(pts)
  BY <1>2 DEF Path
<1>4. \A k \in 1 .. n : \A im \in ImagesOf(w, h) : Draw(k, im) \in S
  <2>1. \A k \in 1 .. n : pts[k][1] \in Int /\ pts[k][2] \in Int
    BY <1>2, <1>3 DEF Path
  <2> QED
    BY <2>1, PixelIs
<1>5. img \in S /\ img # Undefined /\ Undefined \in S /\ \A im \in S : im # Undefined => im \in ImagesOf(w, h)
  BY ImageIs
<1> DEFINE T == [k \in 1 .. n |-> [im \in S |->
                   IF im = Undefined THEN Undefined ELSE Draw(k, im)]]
<1> HIDE DEF S, Draw
<1>6. Steps(T, n, S)
  BY <1>4, <1>5 DEF Steps
<1>7. \A k \in 1 .. n : \A im \in S : T[k][im] = IF im = Undefined THEN Undefined ELSE Draw(k, im)
  OBVIOUS
<1> HIDE DEF T
<1>8. PICK f : Run(f, img, T, n, S)
  BY <1>5, <1>6, Loop
<1>9. f = [k \in 0 .. n |-> IF k = 0 THEN img
                            ELSE IF f[k - 1] = Undefined THEN Undefined ELSE Draw(k, f[k - 1])]
  <2>1. ASSUME NEW k \in 0 .. n
        PROVE  f[k] = IF k = 0 THEN img
                      ELSE IF f[k - 1] = Undefined THEN Undefined ELSE Draw(k, f[k - 1])
    <3>1. k # 0 => k \in 1 .. n /\ k - 1 \in 0 .. n
      OBVIOUS
    <3> QED
      BY <1>7, <1>8, <3>1 DEF Run
  <2> QED
    BY <1>8, <2>1 DEF Run
<1>10. after = [k \in 0 .. n |-> IF k = 0 THEN img
                                 ELSE IF after[k - 1] = Undefined THEN Undefined
                                      ELSE Draw(k, after[k - 1])]
  BY <1>3, <1>9
<1> HIDE DEF after
<1>11. after[0] = img /\ \A k \in 1 .. n : after[k] = IF after[k - 1] = Undefined THEN Undefined
                                                     ELSE Draw(k, after[k - 1])
  BY <1>10
<1>12. after[n] \in S
  <2> DEFINE G == {m \in 0 .. n : after[m] \in S}
  <2>1. 0 \in G /\ \A i \in 1 .. n : i - 1 \in G => i \in G
    BY <1>4, <1>5, <1>11
  <2> HIDE DEF G
  <2>2. \A i \in 0 .. n : i \in G
    BY <2>1, UpTo
  <2> QED
    BY <2>2 DEF G
<1>13. ASSUME NEW pic, x >= 0, y >= 0, Countable(w, h), Shows(img, pic)
       PROVE  /\ after[n] \in ImagesOf(w, h)
              /\ Shows(after[n], PaintCircle(pic, x, y, r, color))
  <2>1. CircleSteps(after, img, w, h, pts, x, y, r, color)
    BY <1>3, <1>11, <1>13, ImageIs DEF Draw, CircleSteps, IsDrawnInCircle
  <2> QED
    BY <1>2, <1>3, <1>13, <2>1, CircleRest
<1> QED
  BY <1>1, <1>3, <1>12, <1>13 DEF S

-----------------------------------------------------------------------------
(* Tiles and sprites: a part of a map is copied. *)

(* The numbers of a rectangle. *)
LEMMA RectTyped ==
  ASSUME NEW part, IsRect(part)
  PROVE  /\ part.x \in Int /\ part.y \in Int /\ part.width \in Int /\ part.height \in Int
         /\ part.x + part.width \in Ints /\ part.y + part.height \in Ints
BY IntsAre DEF IsRect

(* A part that is not empty is in the map if Outside says so. *)
LEMMA OutsideIs ==
  ASSUME NEW part, IsRect(part), part.width > 0, part.height > 0,
         NEW map, NEW mw \in Nat, NEW mh \in Nat, map.width = mw, map.height = mh
  PROVE  ~Outside(map, part) <=> /\ part.x >= 0 /\ part.y >= 0
                                 /\ part.x + part.width <= mw /\ part.y + part.height <= mh
<1>1. PICK s \in Int, t \in Int : /\ s = part.x + part.width /\ t = part.y + part.height
                                  /\ s \in Ints /\ t \in Ints
  BY RectTyped, IntsAre
<1>2. Word \in Nat \ {0}
  BY WordIs, BaseIs
<1>3. \A v \in Ints : v \in Int /\ v < Word
  BY <1>2, HalfIs, IntsAre
<1>4. part.x >= 0 => s % Word = s
  <2>1. part.x >= 0 => s \in Nat /\ s < Word
    BY <1>1, <1>3, RectTyped
  <2> QED
    BY <1>2, <2>1, Small
<1>5. part.y >= 0 => t % Word = t
  <2>1. part.y >= 0 => t \in Nat /\ t < Word
    BY <1>1, <1>3, RectTyped
  <2> QED
    BY <1>2, <2>1, Small
<1> QED
  BY <1>1, <1>4, <1>5, RectTyped DEF Outside

(* Where the comments put a part. *)
LEMMA TargetIs ==
  ASSUME NEW part, IsRect(part), NEW x \in Int, NEW y \in Int,
         NEW mw \in Nat, NEW mh \in Nat, NEW mpic, DOMAIN mpic = Grid(mw, mh),
         NEW j \in Int, NEW i \in Int
  PROVE  <<j + x, i + y>> \in Target(mpic, part, x, y) <=>
           /\ part.x >= 0 /\ part.y >= 0
           /\ part.x + part.width <= mw /\ part.y + part.height <= mh
           /\ j >= 0 /\ j < part.width /\ i >= 0 /\ i < part.height
<1> DEFINE moved == [part EXCEPT !.x = x, !.y = y]
<1>1. moved.x = x /\ moved.y = y /\ moved.width = part.width /\ moved.height = part.height
  BY DEF IsRect
<1> HIDE DEF moved
<1>2. PICK u \in Int, v \in Int, a \in Int, b \in Int :
        u = part.x /\ v = part.y /\ a = part.width /\ b = part.height
  BY RectTyped
<1>3. InRect(moved) = (x .. x + (a - 1)) \X (y .. y + (b - 1))
  BY <1>1, <1>2 DEF InRect
<1>4. <<j + x, i + y>> \in InRect(moved) <=> j >= 0 /\ j < a /\ i >= 0 /\ i < b
  BY <1>3
<1>5. InRect(part) = (u .. u + (a - 1)) \X (v .. v + (b - 1))
  BY <1>2 DEF InRect
<1>6. ASSUME a > 0, b > 0
      PROVE  InRect(part) \subseteq Grid(mw, mh) /\ u >= 0 /\ v >= 0
               <=> u >= 0 /\ v >= 0 /\ u + a <= mw /\ v + b <= mh
  <2>1. <<u + (a - 1), v + (b - 1)>> \in InRect(part)
    BY <1>5, <1>6
  <2>2. <<u + (a - 1), v + (b - 1)>> \in Grid(mw, mh) => u + a <= mw /\ v + b <= mh
    BY DEF Grid
  <2>3. ASSUME u >= 0, v >= 0, u + a <= mw, v + b <= mh, NEW p \in InRect(part)
        PROVE  p \in Grid(mw, mh)
    <3>1. PICK c \in u .. u + (a - 1), d \in v .. v + (b - 1) : p = <<c, d>>
      BY <1>5
    <3>2. c \in 0 .. mw - 1 /\ d \in 0 .. mh - 1
      BY <2>3
    <3> QED
      BY <3>1, <3>2 DEF Grid
  <2> QED
    BY <2>1, <2>2, <2>3
<1>7. Target(mpic, part, x, y) =
        IF InRect(part) \subseteq Grid(mw, mh) /\ u >= 0 /\ v >= 0 THEN InRect(moved) ELSE {}
  BY <1>2 DEF Target, moved
<1>8. CASE a > 0 /\ b > 0
  BY <1>2, <1>4, <1>6, <1>7, <1>8
<1>9. CASE ~(a > 0 /\ b > 0)
  <2>1. ~(j >= 0 /\ j < a /\ i >= 0 /\ i < b)
    BY <1>9
  <2> QED
    BY <1>2, <1>4, <1>7, <2>1
<1> QED
  BY <1>8, <1>9

(* The points of the part that are copied: those that have a column and a  *)
(* row of the image to go to.                                              *)
InPart(t, size, at, room) == t >= 0 /\ t < size /\ t < Int32(room - at)
Part(size, at, room) == {t \in Int : InPart(t, size, at, room)}

(* The room there is, as a number of 32 bits. *)
LEMMA RoomIs ==
  /\ \A v \in Int : Int32(v) \in Int
  /\ \A v \in Int : v >= 0 /\ 2 * v < Word => Int32(v) = v
  /\ \A v \in Nat, at \in Ints : at >= 0 /\ 2 * v < Word => Int32(v - at) = v - at
<1>1. PICK half \in Nat, m \in Nat :
        /\ half = Word \div 2 /\ m = Word - half - 1 /\ m <= half /\ half <= m + 1
        /\ half + m + 1 = Word /\ \A v \in Ints : v >= 0 => v <= m
  BY HalfIs
<1>2. Ints = -half .. m
  BY <1>1 DEF Ints
<1>3. ASSUME NEW v \in Int PROVE Int32(v) \in Int
  <2>1. Word \in Nat \ {0}
    BY WordIs, BaseIs
  <2>2. (v + half) % Word \in Int
    BY <1>1, <2>1
  <2> QED
    BY <1>1, <2>2 DEF Int32
<1>4. ASSUME NEW v \in Int, v >= 0, 2 * v < Word PROVE Int32(v) = v
  <2>1. v <= m
    BY <1>1, <1>4
  <2>2. v \in Ints
    BY <1>2, <1>4, <2>1
  <2> QED
    BY <2>2, Int32Is
<1>5. ASSUME NEW v \in Nat, NEW at \in Ints, at >= 0, 2 * v < Word PROVE Int32(v - at) = v - at
  <2>1. at \in Int /\ at <= m
    BY <1>1, <1>5, IntsAre
  <2>2. v <= m
    BY <1>1, <1>5
  <2>3. PICK d \in Int : d = v - at
    BY <2>1
  <2>4. -half <= d /\ d <= m
    BY <1>1, <1>5, <2>1, <2>2, <2>3
  <2>5. d \in Ints
    BY <1>2, <2>4
  <2> QED
    BY <2>3, <2>5, Int32Is
<1> QED
  BY <1>3, <1>4, <1>5

(* What is not left of or above an image that can be counted goes inside.  *)
LEMMA RoomInside ==
  ASSUME NEW w \in Nat, NEW h \in Nat, Countable(w, h),
         NEW x \in Ints, NEW y \in Ints, x >= 0, y >= 0, NEW pw \in Int, NEW ph \in Int,
         NEW j \in Part(pw, x, w), NEW i \in Part(ph, y, h)
  PROVE  j + x < w /\ i + y < h
<1>1. j \in Int /\ i \in Int /\ j >= 0 /\ i >= 0 /\ j < Int32(w - x) /\ i < Int32(h - y)
  BY DEF Part, InPart
<1>2. x \in Int /\ y \in Int /\ Word \in Nat /\ 0 < Word
  BY IntsAre, WordIs, BaseIs
<1>3. CASE w = 0
  <2>0. 2 * w < Word
    BY <1>2, <1>3
  <2>1. Int32(w - x) = w - x
    BY <2>0, RoomIs
  <2> QED
    BY <1>1, <1>2, <1>3, <2>1
<1>4. CASE h = 0
  <2>0. 2 * h < Word
    BY <1>2, <1>4
  <2>1. Int32(h - y) = h - y
    BY <2>0, RoomIs
  <2> QED
    BY <1>1, <1>2, <1>4, <2>1
<1>5. CASE w > 0 /\ h > 0
  <2>1. 4 * w < Word /\ 4 * h < Word
    BY <1>5, CountableIs
  <2>2. 2 * w < Word /\ 2 * h < Word
    BY <1>2, <2>1
  <2>3. Int32(w - x) = w - x /\ Int32(h - y) = h - y
    BY <2>2, RoomIs
  <2> QED
    BY <1>1, <1>2, <2>3
<1> QED
  BY <1>3, <1>4, <1>5

(* The loops of draw_tile and draw_sprite come to the part that fits. *)
LEMMA CopiedIs ==
  ASSUME NEW img, NEW iw \in Nat, NEW ih \in Nat, img.width = iw, img.height = ih,
         NEW x \in Int, NEW y \in Int, NEW part, IsRect(part),
         NEW pts, pts = Copied(img, x, y, part)
  PROVE  Path(pts, Part(part.width, x, iw), Part(part.height, y, ih))
<1>1. PICK u \in Int, v \in Int : u = part.width /\ v = part.height
  BY RectTyped
<1>r. PICK columns \in Int, rows \in Int : columns = Int32(iw - x) /\ rows = Int32(ih - y)
  BY RoomIs
<1>2. PICK a \in Int : a = clamp(u, 0, columns)
  BY DEF clamp
<1>3. PICK b \in Int : b = clamp(v, 0, rows)
  BY DEF clamp
<1>4. pts = Points(0, a, 0, b)
  BY <1>1, <1>r, <1>2, <1>3 DEF Copied
<1>5. Path(pts, 0 .. a - 1, 0 .. b - 1)
  BY <1>4, PointsAre
<1>6. 0 .. a - 1 = Part(u, x, iw)
  BY <1>r, <1>2 DEF clamp, Part, InPart
<1>7. 0 .. b - 1 = Part(v, y, ih)
  BY <1>r, <1>3 DEF clamp, Part, InPart
<1> QED
  BY <1>1, <1>5, <1>6, <1>7

(* The points of the map, for the points of the part. *)
LEMMA SourceIs ==
  ASSUME NEW x \in Int, NEW y \in Int, NEW iw \in Nat, NEW ih \in Nat, NEW part, IsRect(part),
         NEW map, NEW mw \in Color, NEW mh \in Color, Countable(mw, mh), map \in ImagesOf(mw, mh),
         ~Outside(map, part),
         NEW j \in Part(part.width, x, iw), NEW i \in Part(part.height, y, ih)
  PROVE  /\ part.x >= 0 /\ part.y >= 0
         /\ part.x + part.width <= mw /\ part.y + part.height <= mh
         /\ <<j + part.x, i + part.y>> \in Grid(mw, mh)
         /\ compute_index(map, j + part.x, i + part.y) = Place(mw, <<j + part.x, i + part.y>>)
         /\ map.data[compute_index(map, j + part.x, i + part.y)] \in Color
<1>1. map.width = mw /\ map.height = mh /\ mw \in Nat /\ mh \in Nat
  BY ImageIs, WordIs DEF Color
<1>2. j \in Int /\ i \in Int /\ j >= 0 /\ i >= 0 /\ j < part.width /\ i < part.height
  BY DEF Part, InPart
<1>3. part.width > 0 /\ part.height > 0
  BY <1>2, RectTyped
<1>4. /\ part.x >= 0 /\ part.y >= 0
      /\ part.x + part.width <= mw /\ part.y + part.height <= mh
  BY <1>1, <1>3, OutsideIs
<1>5. PICK p : p = <<j + part.x, i + part.y>>
  OBVIOUS
<1>6. p \in Grid(mw, mh) /\ p[1] = j + part.x /\ p[2] = i + part.y
  BY <1>1, <1>2, <1>4, <1>5, RectTyped DEF Grid
<1>7. compute_index(map, p[1], p[2]) = Place(mw, p)
  BY <1>1, <1>6, IndexIs
<1>8. map.data[Place(mw, p)] \in Color
  BY <1>6, PixelTyped
<1> QED
  BY <1>4, <1>5, <1>6, <1>7, <1>8

(* The same points, where they go to. *)
Moved(pts, x, y) == [k \in 1 .. Len(pts) |-> <<pts[k][1] + x, pts[k][2] + y>>]

(* A path moved is a path. *)
LEMMA MovedIs ==
  ASSUME NEW pts, NEW A, NEW B, A \subseteq Int, B \subseteq Int, Path(pts, A, B),
         NEW x \in Int, NEW y \in Int
  PROVE  /\ Len(Moved(pts, x, y)) = Len(pts)
         /\ Path(Moved(pts, x, y), {t + x : t \in A}, {t + y : t \in B})
<1> DEFINE q == Moved(pts, x, y)
<1>1. PICK n \in Nat : n = Len(pts)
  BY DEF Path
<1>2. /\ \A k \in 1 .. n : /\ pts[k] \in Int \X Int /\ pts[k][1] \in A /\ pts[k][2] \in B
                           /\ pts[k][1] \in Int /\ pts[k][2] \in Int
                           /\ pts[k] = <<pts[k][1], pts[k][2]>>
      /\ \A k, l \in 1 .. n : pts[k] = pts[l] => k = l
      /\ \A p \in A \X B : \E k \in 1 .. n : pts[k] = p
  <2>1. \A k \in 1 .. n : pts[k] \in Int \X Int
    BY <1>1 DEF Path
  <2>2. \A p \in Int \X Int : p[1] \in Int /\ p[2] \in Int /\ p = <<p[1], p[2]>>
    OBVIOUS
  <2> QED
    BY <1>1, <2>1, <2>2 DEF Path
<1>3. q = [k \in 1 .. n |-> <<pts[k][1] + x, pts[k][2] + y>>]
  BY <1>1 DEF Moved
<1> HIDE DEF q
<1>4. \A k \in 1 .. n : q[k] = <<pts[k][1] + x, pts[k][2] + y>>
  BY <1>3
<1>5. \A k \in 1 .. n : q[k][1] = pts[k][1] + x /\ q[k][2] = pts[k][2] + y
  BY <1>4
<1>6. q \in [1 .. n -> Int \X Int] /\ Len(q) = n
  <2>1. \A k \in 1 .. n : <<pts[k][1] + x, pts[k][2] + y>> \in Int \X Int
    BY <1>2
  <2>2. q \in [1 .. n -> Int \X Int]
    BY <1>3, <2>1
  <2> QED
    BY <1>3, <2>2
<1>7. ASSUME NEW k \in 1 .. n, NEW l \in 1 .. n, q[k] = q[l] PROVE k = l
  <2>1. pts[k][1] + x = pts[l][1] + x /\ pts[k][2] + y = pts[l][2] + y
    BY <1>5, <1>7
  <2>2. pts[k][1] = pts[l][1] /\ pts[k][2] = pts[l][2]
    BY <1>2, <2>1
  <2>3. pts[k] = pts[l]
    BY <1>2, <2>2
  <2> QED
    BY <1>2, <2>3
<1>8. ASSUME NEW p \in {t + x : t \in A} \X {t + y : t \in B} PROVE \E k \in 1 .. n : q[k] = p
  <2>1. PICK a \in A, b \in B : p = <<a + x, b + y>>
    OBVIOUS
  <2>2. PICK k \in 1 .. n : pts[k] = <<a, b>>
    BY <1>2
  <2>3. q[k] = <<a + x, b + y>>
    <3>1. pts[k][1] = a /\ pts[k][2] = b
      BY <2>2
    <3> QED
      BY <1>4, <3>1
  <2> QED
    BY <2>1, <2>3
<1>9. Path(q, {t + x : t \in A}, {t + y : t \in B})
  <2>1. \A k \in 1 .. n : q[k][1] \in {t + x : t \in A} /\ q[k][2] \in {t + y : t \in B}
    BY <1>2, <1>5
  <2>2. \A k, l \in 1 .. n : q[k] = q[l] => k = l
    BY <1>7
  <2>3. PICK X, Y : X = {t + x : t \in A} /\ Y = {t + y : t \in B}
    OBVIOUS
  <2>4. /\ \A k \in 1 .. n : q[k][1] \in X /\ q[k][2] \in Y
        /\ \A p \in X \X Y : \E k \in 1 .. n : q[k] = p
    BY <1>8, <2>1, <2>3
  <2>5. Path(q, X, Y)
    BY <1>6, <2>2, <2>4 DEF Path
  <2> QED
    BY <2>3, <2>5
<1> QED
  BY <1>1, <1>6, <1>9 DEF q

(* A picture of a map, and a part of it that is not outside. *)
IsMap(map, mw, mh, part) ==
  /\ mw \in Color /\ mh \in Color /\ Countable(mw, mh) /\ map \in ImagesOf(mw, mh)
  /\ IsRect(part) /\ ~Outside(map, part)
MapColor(map, mw, part, p, x, y) == map.data[Place(mw, Source(p, part, x, y))]
Region(w, h, mpic, part, x, y) == Target(mpic, part, x, y) \cap Grid(w, h)

(* The pixel of the map that is put at p. *)
LEMMA PlacedIs ==
  ASSUME NEW w \in Nat, NEW h \in Nat, NEW x \in Int, NEW y \in Int,
         NEW part, NEW map, NEW mw, NEW mh, IsMap(map, mw, mh, part),
         NEW mpic, Shows(map, mpic),
         NEW j \in Part(part.width, x, w), NEW i \in Part(part.height, y, h),
         NEW p, p = <<j + x, i + y>>
  PROVE  /\ p \in Region(w, h, mpic, part, x, y) <=> p \in Grid(w, h)
         /\ map.data[compute_index(map, j + part.x, i + part.y)] = MapColor(map, mw, part, p, x, y)
         /\ MapColor(map, mw, part, p, x, y) \in Color
         /\ Components(MapColor(map, mw, part, p, x, y)) = mpic[Source(p, part, x, y)]
<1>1. /\ mw \in Color /\ mh \in Color /\ Countable(mw, mh) /\ map \in ImagesOf(mw, mh)
      /\ IsRect(part) /\ ~Outside(map, part)
  BY DEF IsMap
<1>2. /\ part.x >= 0 /\ part.y >= 0
      /\ part.x + part.width <= mw /\ part.y + part.height <= mh
      /\ <<j + part.x, i + part.y>> \in Grid(mw, mh)
      /\ compute_index(map, j + part.x, i + part.y) = Place(mw, <<j + part.x, i + part.y>>)
      /\ map.data[compute_index(map, j + part.x, i + part.y)] \in Color
  BY <1>1, SourceIs
<1>3. j \in Int /\ i \in Int /\ j >= 0 /\ i >= 0 /\ j < part.width /\ i < part.height
  BY DEF Part, InPart
<1>4. Source(p, part, x, y) = <<j + part.x, i + part.y>>
  <2>1. p[1] - x = j /\ p[2] - y = i
    BY <1>3
  <2> QED
    BY <2>1 DEF Source
<1>5. /\ DOMAIN mpic = Grid(mw, mh)
      /\ \A q \in Grid(mw, mh) : Components(map.data[Place(mw, q)]) = mpic[q]
  BY <1>1, ShowsIs
<1>6. p \in Target(mpic, part, x, y)
  <2>1. mw \in Nat /\ mh \in Nat
    BY <1>1, WordIs DEF Color
  <2> QED
    BY <1>1, <1>2, <1>3, <1>5, <2>1, TargetIs
<1> QED
  BY <1>2, <1>4, <1>5, <1>6 DEF MapColor, Region

(* The loops come to every point that is to be painted. *)
LEMMA RegionIs ==
  ASSUME NEW w \in Nat, NEW h \in Nat, Countable(w, h), NEW x \in Int, NEW y \in Int,
         NEW part, IsRect(part), NEW mw \in Nat, NEW mh \in Nat, Countable(mw, mh),
         NEW mpic, DOMAIN mpic = Grid(mw, mh),
         NEW p \in Region(w, h, mpic, part, x, y)
  PROVE  /\ p \in {t + x : t \in Part(part.width, x, w)} \X {t + y : t \in Part(part.height, y, h)}
         /\ p \in Grid(w, h)
<1>1. PICK a \in 0 .. w - 1, b \in 0 .. h - 1 : p = <<a, b>>
  BY DEF Region, Grid
<1>2. PICK j \in Int, i \in Int : j = a - x /\ i = b - y
  OBVIOUS
<1>3. a = j + x /\ b = i + y
  BY <1>2
<1>4. /\ j >= 0 /\ j < part.width /\ i >= 0 /\ i < part.height
      /\ part.x >= 0 /\ part.y >= 0
      /\ part.x + part.width <= mw /\ part.y + part.height <= mh
  BY <1>1, <1>3, TargetIs DEF Region
<1>5. j \in Part(part.width, x, w) /\ i \in Part(part.height, y, h)
  <2>1. j < mw /\ i < mh
    BY <1>4, RectTyped
  <2>2. w > 0 /\ h > 0 /\ mw > 0 /\ mh > 0
    BY <1>1, <1>4, <2>1
  <2>3. 4 * w < Word /\ 4 * h < Word
    BY <2>2, CountableIs
  <2>4. 4 * mw < Word /\ 4 * mh < Word
    BY <2>2, CountableIs
  <2>5. PICK u \in Int, v \in Int : u = w - x /\ v = h - y
    OBVIOUS
  <2>6. u = (w - a) + j /\ v = (h - b) + i
    BY <1>2, <2>5
  <2>7. j < u /\ i < v /\ u <= w + mw /\ v <= h + mh
    BY <1>1, <1>4, <2>1, <2>6
  <2>8. u >= 0 /\ v >= 0 /\ 2 * u < Word /\ 2 * v < Word
    BY <1>4, <2>3, <2>4, <2>7, WordIs
  <2>9. Int32(u) = u /\ Int32(v) = v
    BY <2>8, RoomIs
  <2> QED
    BY <1>4, <2>5, <2>7, <2>9 DEF Part, InPart
<1> QED
  BY <1>1, <1>3, <1>5 DEF Region

(* A part that is outside goes nowhere. *)
LEMMA NowhereIs ==
  ASSUME NEW x \in Int, NEW y \in Int, NEW part, IsRect(part),
         NEW map, NEW mw \in Color, NEW mh \in Color, map \in ImagesOf(mw, mh),
         Outside(map, part), NEW mpic, DOMAIN mpic = Grid(mw, mh), NEW p \in Int \X Int
  PROVE  p \notin Target(mpic, part, x, y)
<1> SUFFICES ASSUME p \in Target(mpic, part, x, y) PROVE FALSE
  OBVIOUS
<1>1. PICK a \in Int, b \in Int : p = <<a, b>>
  OBVIOUS
<1>2. PICK j \in Int, i \in Int : j = a - x /\ i = b - y
  OBVIOUS
<1>3. p = <<j + x, i + y>>
  BY <1>1, <1>2
<1>4. map.width = mw /\ map.height = mh /\ mw \in Nat /\ mh \in Nat
  BY ImageIs, WordIs DEF Color
<1>5. /\ part.x >= 0 /\ part.y >= 0
      /\ part.x + part.width <= mw /\ part.y + part.height <= mh
      /\ j >= 0 /\ j < part.width /\ i >= 0 /\ i < part.height
  BY <1>3, <1>4, TargetIs
<1>6. part.width > 0 /\ part.height > 0
  BY <1>5, RectTyped
<1> QED
  BY <1>4, <1>5, <1>6, OutsideIs

-----------------------------------------------------------------------------
SpriteSteps(after, img, w, h, pts, x, y, map, part) ==
  /\ after[0] = img
  /\ \A k \in 1 .. Len(pts) : after[k - 1] \in ImagesOf(w, h) =>
       after[k] = draw_pixel(after[k - 1], pts[k][1] + x, pts[k][2] + y,
                    map.data[compute_index(map, pts[k][1] + part.x, pts[k][2] + part.y)])

(* The loop of draw_sprite. *)
LEMMA SpriteRest ==
  ASSUME NEW w \in Color, NEW h \in Color, NEW img \in ImagesOf(w, h),
         NEW x \in Int, NEW y \in Int,
         NEW part, NEW map, NEW mw, NEW mh, IsMap(map, mw, mh, part),
         NEW pts, Path(pts, Part(part.width, x, w), Part(part.height, y, h)),
         NEW after, SpriteSteps(after, img, w, h, pts, x, y, map, part),
         Countable(w, h), NEW pic, Shows(img, pic), NEW mpic, Shows(map, mpic)
  PROVE  /\ after[Len(pts)] \in ImagesOf(w, h)
         /\ Shows(after[Len(pts)], PaintSprite(pic, x, y, mpic, part))
<1> DEFINE A == Part(part.width, x, w)
           B == Part(part.height, y, h)
           q == Moved(pts, x, y)
           R == Region(w, h, mpic, part, x, y)
           C == [p \in R |-> MapColor(map, mw, part, p, x, y)]
<1>1. A \subseteq Int /\ B \subseteq Int
  BY DEF Part
<1>2. PICK X, Y : X = {t + x : t \in A} /\ Y = {t + y : t \in B}
  OBVIOUS
<1>3. w \in Nat /\ h \in Nat
  BY WordIs DEF Color
<1>4. /\ DOMAIN mpic = Grid(mw, mh) /\ IsRect(part) /\ mw \in Nat /\ mh \in Nat
      /\ Countable(mw, mh)
  <2>1. /\ mw \in Color /\ mh \in Color /\ map \in ImagesOf(mw, mh) /\ IsRect(part)
        /\ Countable(mw, mh)
    BY DEF IsMap
  <2> QED
    BY <2>1, ShowsIs, WordIs DEF Color
<1>5. R \subseteq Grid(w, h) /\ R \subseteq X \X Y
  <2> SUFFICES ASSUME NEW p \in R PROVE p \in Grid(w, h) /\ p \in X \X Y
    OBVIOUS
  <2>1. p \in {t + x : t \in A} \X {t + y : t \in B} /\ p \in Grid(w, h)
    BY <1>3, <1>4, RegionIs
  <2> QED
    BY <1>2, <2>1
<1>6. ASSUME NEW k \in 1 .. Len(pts)
      PROVE  \E j \in A, i \in B : pts[k][1] = j /\ pts[k][2] = i /\ q[k] = <<j + x, i + y>>
  <2>1. pts[k][1] \in A /\ pts[k][2] \in B
    BY DEF Path
  <2>2. q[k] = <<pts[k][1] + x, pts[k][2] + y>>
    BY DEF Moved
  <2> HIDE DEF q, A, B
  <2> QED
    BY <2>1, <2>2
<1>7. Len(q) = Len(pts) /\ Path(q, X, Y)
  BY <1>1, <1>2, MovedIs
<1>8. IsBrush(C, R)
  <2>1. ASSUME NEW p \in R PROVE MapColor(map, mw, part, p, x, y) \in Color
    <3>1. p \in X \X Y
      BY <1>5
    <3>2. PICK j \in A, i \in B : p = <<j + x, i + y>>
      BY <1>2, <3>1
    <3> QED
      BY <1>3, <3>2, PlacedIs
  <2> QED
    BY <2>1 DEF IsBrush
<1>9. \A p \in R : C[p] = MapColor(map, mw, part, p, x, y)
  OBVIOUS
<1>10. \A p \in R : Components(C[p]) = mpic[Source(p, part, x, y)]
  <2> SUFFICES ASSUME NEW p \in R PROVE Components(C[p]) = mpic[Source(p, part, x, y)]
    OBVIOUS
  <2>1. p \in X \X Y
    BY <1>5
  <2>2. PICK j \in A, i \in B : p = <<j + x, i + y>>
    BY <1>2, <2>1
  <2>3. Components(MapColor(map, mw, part, p, x, y)) = mpic[Source(p, part, x, y)]
    BY <1>3, <2>2, PlacedIs
  <2> QED
    BY <1>9, <2>3
<1> HIDE DEF C
<1>11. BlendSteps(after, img, w, h, q, R, C)
  <2>1. ASSUME NEW k \in 1 .. Len(q), after[k - 1] \in ImagesOf(w, h)
        PROVE  after[k] = IF q[k] \in R
                          THEN Written(after[k - 1], Place(w, q[k]),
                                       blend_colors(C[q[k]], after[k - 1].data[Place(w, q[k])]))
                          ELSE after[k - 1]
    <3>1. PICK j \in A, i \in B : pts[k][1] = j /\ pts[k][2] = i /\ q[k] = <<j + x, i + y>>
      BY <1>6, <1>7
    <3>2. /\ q[k] \in R <=> q[k] \in Grid(w, h)
          /\ map.data[compute_index(map, j + part.x, i + part.y)]
               = MapColor(map, mw, part, q[k], x, y)
          /\ MapColor(map, mw, part, q[k], x, y) \in Color
      BY <1>3, <3>1, PlacedIs
    <3>3. PICK c \in Color : c = MapColor(map, mw, part, q[k], x, y)
      BY <3>2
    <3>4. after[k] = draw_pixel(after[k - 1], j + x, i + y, c)
      BY <1>7, <2>1, <3>1, <3>2, <3>3 DEF SpriteSteps
    <3>5. PICK a \in Int, b \in Int : a = j + x /\ b = i + y
      BY <1>1
    <3>6. draw_pixel(after[k - 1], a, b, c) =
            IF <<a, b>> \in Grid(w, h)
            THEN Written(after[k - 1], Place(w, <<a, b>>),
                         blend_colors(c, after[k - 1].data[Place(w, <<a, b>>)]))
            ELSE after[k - 1]
      BY <2>1, PixelIs
    <3>7. q[k] \in R => C[q[k]] = c
      BY <1>9, <3>3
    <3> HIDE DEF q, R
    <3> QED
      BY <3>1, <3>2, <3>4, <3>5, <3>6, <3>7
  <2> QED
    BY <2>1 DEF BlendSteps, SpriteSteps
<1>12. BlendDone(after[Len(q)], w, h, pic, R, C)
  <2> HIDE DEF q, R
  <2> QED
    BY <1>5, <1>7, <1>8, <1>11, Blends
<1>13. DOMAIN pic = Grid(w, h)
  BY <1>12 DEF BlendDone
<1>14. PaintSprite(pic, x, y, mpic, part) =
         [p \in DOMAIN pic |-> IF p \in Target(mpic, part, x, y)
                               THEN Over(mpic[Source(p, part, x, y)], pic[p]) ELSE pic[p]]
  BY DEF PaintSprite, Painted
<1>15. \A p \in Grid(w, h) : p \in R <=> p \in Target(mpic, part, x, y)
  BY DEF Region
<1>16. /\ DOMAIN PaintSprite(pic, x, y, mpic, part) = Grid(w, h)
       /\ \A p \in Grid(w, h) : Components(after[Len(q)].data[Place(w, p)])
                                  = PaintSprite(pic, x, y, mpic, part)[p]
  <2> HIDE DEF q, R
  <2> QED
    BY <1>10, <1>12, <1>13, <1>14, <1>15 DEF BlendDone
<1>17. after[Len(q)] \in ImagesOf(w, h)
  BY <1>12 DEF BlendDone
<1>18. Shows(after[Len(q)], PaintSprite(pic, x, y, mpic, part))
  <2> HIDE DEF q
  <2> QED
    BY <1>16, <1>17, ShowsIs
<1> QED
  BY <1>7, <1>17, <1>18

-----------------------------------------------------------------------------
TileSteps(after, img, w, h, pts, x, y, map, part) ==
  /\ after[0] = img
  /\ \A k \in 1 .. Len(pts) : after[k - 1] \in ImagesOf(w, h) =>
       after[k] = Store(after[k - 1], compute_index(after[k - 1], pts[k][1] + x, pts[k][2] + y),
                    map.data[compute_index(map, pts[k][1] + part.x, pts[k][2] + part.y)])

(* The loop of draw_tile, of a tile that is not left of or above the image. *)
LEMMA TileRest ==
  ASSUME NEW w \in Color, NEW h \in Color, NEW img \in ImagesOf(w, h),
         NEW x \in Ints, NEW y \in Ints, x >= 0, y >= 0,
         NEW part, NEW map, NEW mw, NEW mh, IsMap(map, mw, mh, part),
         NEW pts, Path(pts, Part(part.width, x, w), Part(part.height, y, h)),
         NEW after, TileSteps(after, img, w, h, pts, x, y, map, part),
         Countable(w, h), NEW pic, Shows(img, pic), NEW mpic, Shows(map, mpic)
  PROVE  /\ after[Len(pts)] \in ImagesOf(w, h)
         /\ Shows(after[Len(pts)], PaintTile(pic, x, y, mpic, part))
<1> DEFINE A == Part(part.width, x, w)
           B == Part(part.height, y, h)
           q == Moved(pts, x, y)
           R == Region(w, h, mpic, part, x, y)
           N == [p \in Grid(w, h) |-> IF p \in R THEN MapColor(map, mw, part, p, x, y) ELSE 0]
<1>0. x \in Int /\ y \in Int
  BY IntsAre
<1>1. A \subseteq Int /\ B \subseteq Int
  BY DEF Part
<1>2. PICK X, Y : X = {t + x : t \in A} /\ Y = {t + y : t \in B}
  OBVIOUS
<1>3. w \in Nat /\ h \in Nat
  BY WordIs DEF Color
<1>4. /\ DOMAIN mpic = Grid(mw, mh) /\ IsRect(part) /\ mw \in Nat /\ mh \in Nat
      /\ Countable(mw, mh)
  <2>1. /\ mw \in Color /\ mh \in Color /\ map \in ImagesOf(mw, mh) /\ IsRect(part)
        /\ Countable(mw, mh)
    BY DEF IsMap
  <2> QED
    BY <2>1, ShowsIs, WordIs DEF Color
<1>5. R \subseteq Grid(w, h) /\ R \subseteq X \X Y
  <2> SUFFICES ASSUME NEW p \in R PROVE p \in Grid(w, h) /\ p \in X \X Y
    OBVIOUS
  <2>1. p \in {t + x : t \in A} \X {t + y : t \in B} /\ p \in Grid(w, h)
    BY <1>0, <1>3, <1>4, RegionIs
  <2> QED
    BY <1>2, <2>1
<1>6. ASSUME NEW k \in 1 .. Len(pts)
      PROVE  \E j \in A, i \in B : pts[k][1] = j /\ pts[k][2] = i /\ q[k] = <<j + x, i + y>>
  <2>1. pts[k][1] \in A /\ pts[k][2] \in B
    BY DEF Path
  <2>2. q[k] = <<pts[k][1] + x, pts[k][2] + y>>
    BY DEF Moved
  <2> HIDE DEF q, A, B
  <2> QED
    BY <2>1, <2>2
<1>7. Len(q) = Len(pts) /\ Path(q, X, Y)
  BY <1>0, <1>1, <1>2, MovedIs
<1>8. \A p \in R : /\ MapColor(map, mw, part, p, x, y) \in Color
                   /\ Components(MapColor(map, mw, part, p, x, y)) = mpic[Source(p, part, x, y)]
  <2> SUFFICES ASSUME NEW p \in R
               PROVE  /\ MapColor(map, mw, part, p, x, y) \in Color
                      /\ Components(MapColor(map, mw, part, p, x, y)) = mpic[Source(p, part, x, y)]
    OBVIOUS
  <2>1. p \in X \X Y
    BY <1>5
  <2>2. PICK j \in A, i \in B : p = <<j + x, i + y>>
    BY <1>2, <2>1
  <2> QED
    BY <1>0, <1>3, <2>2, PlacedIs
<1>9. N \in [Grid(w, h) -> Color] /\ \A p \in R : N[p] = MapColor(map, mw, part, p, x, y)
  <2>1. 0 \in Color
    BY WordIs, BaseIs DEF Color
  <2> HIDE DEF R
  <2> QED
    BY <1>5, <1>8, <2>1
<1> HIDE DEF N
<1>11. PaintSteps(after, img, w, h, q, R, N)
  <2>1. ASSUME NEW k \in 1 .. Len(q), after[k - 1] \in ImagesOf(w, h)
        PROVE  after[k] = IF q[k] \in R
                          THEN Written(after[k - 1], Place(w, q[k]), N[q[k]])
                          ELSE after[k - 1]
    <3>1. PICK j \in A, i \in B : pts[k][1] = j /\ pts[k][2] = i /\ q[k] = <<j + x, i + y>>
      BY <1>6, <1>7
    <3>2. /\ q[k] \in R <=> q[k] \in Grid(w, h)
          /\ map.data[compute_index(map, j + part.x, i + part.y)]
               = MapColor(map, mw, part, q[k], x, y)
          /\ MapColor(map, mw, part, q[k], x, y) \in Color
      BY <1>0, <1>3, <3>1, PlacedIs
    <3>3. PICK c \in Color : c = MapColor(map, mw, part, q[k], x, y)
      BY <3>2
    <3>4. after[k] = Store(after[k - 1], compute_index(after[k - 1], j + x, i + y), c)
      BY <1>7, <2>1, <3>1, <3>2, <3>3 DEF TileSteps
    <3>5. q[k] \in Grid(w, h)
      <4>1. j \in Int /\ i \in Int /\ j >= 0 /\ i >= 0
        BY DEF Part, InPart
      <4>2. j + x < w /\ i + y < h
        BY <1>3, <1>4, RectTyped, RoomInside
      <4> QED
        BY <1>0, <1>3, <3>1, <4>1, <4>2 DEF Grid
    <3>6. PICK p \in Grid(w, h) : p = q[k] /\ p[1] = j + x /\ p[2] = i + y
      BY <3>1, <3>5
    <3>7. after[k - 1].width = w
      BY <2>1, ImageIs
    <3>8. /\ compute_index(after[k - 1], p[1], p[2]) = Place(w, p)
          /\ Place(w, p) \in 0 .. NumPixels(w, h) - 1
      BY <3>7, IndexIs
    <3>9. Store(after[k - 1], Place(w, p), c) = Written(after[k - 1], Place(w, p), c)
      BY <2>1, <3>8, StoreInside
    <3>10. N[q[k]] = c /\ q[k] \in R
      BY <1>9, <3>2, <3>3, <3>5
    <3> HIDE DEF q, R
    <3> QED
      BY <3>4, <3>6, <3>8, <3>9, <3>10
  <2> QED
    BY <2>1 DEF PaintSteps, TileSteps
<1>12. PaintDone(after[Len(q)], img, w, h, q, R, N)
  <2> HIDE DEF q, R
  <2> QED
    BY <1>5, <1>7, <1>9, <1>11, Paints
<1>13. /\ DOMAIN pic = Grid(w, h)
       /\ \A p \in Grid(w, h) : Components(img.data[Place(w, p)]) = pic[p]
  BY ShowsIs
<1>14. PaintTile(pic, x, y, mpic, part) =
         [p \in DOMAIN pic |-> IF p \in Target(mpic, part, x, y)
                               THEN mpic[Source(p, part, x, y)] ELSE pic[p]]
  BY DEF PaintTile
<1>15. \A p \in Grid(w, h) : p \in R <=> p \in Target(mpic, part, x, y)
  BY DEF Region
<1>16. /\ DOMAIN PaintTile(pic, x, y, mpic, part) = Grid(w, h)
       /\ \A p \in Grid(w, h) : Components(after[Len(q)].data[Place(w, p)])
                                  = PaintTile(pic, x, y, mpic, part)[p]
  <2>1. \A p \in R : \E k \in 1 .. Len(q) : q[k] = p
    BY <1>5, <1>7 DEF Path
  <2> HIDE DEF q, R
  <2> QED
    BY <1>8, <1>9, <1>12, <1>13, <1>14, <1>15, <2>1 DEF PaintDone
<1>17. after[Len(q)] \in ImagesOf(w, h)
  BY <1>12 DEF PaintDone
<1>18. Shows(after[Len(q)], PaintTile(pic, x, y, mpic, part))
  <2> HIDE DEF q
  <2> QED
    BY <1>16, <1>17, ShowsIs
<1> QED
  BY <1>7, <1>17, <1>18

(* There may be no canvas: then nothing is in bounds, and a write is one   *)
(* outside of it.                                                          *)
Kin(img) ==
  IF img = NoImage THEN {NoImage, Undefined}
  ELSE ImagesOf(img.width, img.height) \cup {Undefined}

(* A canvas is no image, or one of its size. *)
LEMMA ImageCases ==
  ASSUME NEW img, IsImage(img)
  PROVE  /\ img \in Kin(img) /\ img # Undefined /\ Undefined \in Kin(img)
         /\ img.width \in Color /\ img.height \in Color
         /\ \/ img = NoImage /\ img.width = 0 /\ img.height = 0 /\ Kin(img) = {NoImage, Undefined}
            \/ /\ img \in ImagesOf(img.width, img.height) /\ img.data # NULL
               /\ Kin(img) = ImagesOf(img.width, img.height) \cup {Undefined}
<1>1. CASE img = NoImage
  <2>1. 0 \in Color
    BY WordIs, BaseIs DEF Color
  <2>2. img.width = 0 /\ img.height = 0
    BY <1>1 DEF NoImage
  <2> QED
    BY <1>1, <2>1, <2>2, NoImageIs DEF Kin
<1>2. CASE img # NoImage
  <2>1. PICK w \in Color, h \in Color : img \in ImagesOf(w, h)
    BY <1>2 DEF IsImage
  <2>2. img.width = w /\ img.height = h /\ img # Undefined /\ img.data # NULL
    BY <2>1, ImageIs
  <2> QED
    BY <1>2, <2>1, <2>2 DEF Kin
<1> QED
  BY <1>1, <1>2

(* Drawing keeps the size, and draws nothing on no image. *)
LEMMA KinDraw ==
  ASSUME NEW img, IsImage(img), NEW im \in Kin(img), im # Undefined, NEW c \in Color
  PROVE  /\ \A i : Store(im, i, c) \in Kin(img)
         /\ \A x, y \in Int : draw_pixel(im, x, y, c) \in Kin(img)
         /\ img = NoImage => \A x, y \in Int : draw_pixel(im, x, y, c) = NoImage
<1>1. CASE img = NoImage
  <2>1. im = NoImage /\ Kin(img) = {NoImage, Undefined}
    BY <1>1 DEF Kin
  <2>2. NoImage.width = 0 /\ NoImage.data = NULL
    BY DEF NoImage
  <2>3. \A i : Store(im, i, c) = Undefined
    BY <2>1, <2>2 DEF Store
  <2>4. ASSUME NEW x \in Int, NEW y \in Int PROVE draw_pixel(im, x, y, c) = NoImage
    <3>1. ~in_bounds(im, x, y)
      BY <2>1, <2>2 DEF in_bounds
    <3> QED
      BY <2>1, <3>1 DEF draw_pixel
  <2> QED
    BY <2>1, <2>3, <2>4
<1>2. CASE img # NoImage
  <2>1. PICK w \in Color, h \in Color : w = img.width /\ h = img.height
    BY ImageCases
  <2>2. Kin(img) = ImagesOf(w, h) \cup {Undefined} /\ im \in ImagesOf(w, h)
    BY <1>2, <2>1 DEF Kin
  <2>3. \A i : Store(im, i, c) \in Kin(img)
    BY <2>2, StoreIs
  <2>4. \A x, y \in Int : draw_pixel(im, x, y, c) \in Kin(img)
    BY <2>2, PixelIs
  <2> QED
    BY <1>2, <2>3, <2>4
<1> QED
  BY <1>1, <1>2

(* draw_sprite and draw_tile of a part that is inside of the map. *)
LEMMA CopySpriteIs ==
  ASSUME NEW img, IsImage(img), NEW x \in Int, NEW y \in Int,
         NEW part, NEW map, NEW mw, NEW mh, IsMap(map, mw, mh, part)
  PROVE  /\ draw_sprite(img, x, y, map, part) \in Kin(img)
         /\ img = NoImage => draw_sprite(img, x, y, map, part) = NoImage
         /\ \A pic, mpic :
              img # NoImage /\ ~TooLarge(img) /\ Shows(img, pic) /\ Shows(map, mpic) =>
                /\ draw_sprite(img, x, y, map, part) # Undefined
                /\ Shows(draw_sprite(img, x, y, map, part), PaintSprite(pic, x, y, mpic, part))
<1> DEFINE S == Kin(img)
           pts == Copied(img, x, y, part)
           Draw(k, im) == draw_pixel(im, pts[k][1] + x, pts[k][2] + y,
                          map.data[compute_index(map, pts[k][1] + part.x, pts[k][2] + part.y)])
           after == CHOOSE f : f = [k \in 0 .. Len(pts) |->
                      IF k = 0 THEN img
                      ELSE IF f[k - 1] = Undefined THEN Undefined ELSE Draw(k, f[k - 1])]
<1>1. draw_sprite(img, x, y, map, part) = after[Len(pts)]
  BY DEF IsMap, draw_sprite, ForEach
<1>0. PICK w \in Color, h \in Color : w = img.width /\ h = img.height /\ w \in Nat /\ h \in Nat
  BY ImageCases, WordIs DEF Color
<1>m. IsRect(part) /\ mw \in Color /\ mh \in Color /\ Countable(mw, mh) /\ map \in ImagesOf(mw, mh)
      /\ ~Outside(map, part)
  BY DEF IsMap
<1>2. Path(pts, Part(part.width, x, w), Part(part.height, y, h))
  BY <1>0, <1>m, CopiedIs
<1> HIDE DEF pts
<1>3. PICK n \in Nat : n = Len(pts)
  BY <1>2 DEF Path
<1>4. \A k \in 1 .. n : \A im \in S : im # Undefined => Draw(k, im) \in S
  <2> SUFFICES ASSUME NEW k \in 1 .. n, NEW im \in S, im # Undefined PROVE Draw(k, im) \in S
    OBVIOUS
  <2>1. pts[k][1] \in Part(part.width, x, w) /\ pts[k][2] \in Part(part.height, y, h)
    BY <1>2, <1>3 DEF Path
  <2>2. PICK j \in Int, i \in Int : j = pts[k][1] /\ i = pts[k][2]
    BY <2>1 DEF Part
  <2>3. map.data[compute_index(map, pts[k][1] + part.x, pts[k][2] + part.y)] \in Color
    BY <1>0, <1>m, <2>1, SourceIs
  <2> QED
    BY <2>2, <2>3, KinDraw
<1>5. img \in S /\ img # Undefined /\ Undefined \in S
  BY ImageCases
<1> DEFINE T == [k \in 1 .. n |-> [im \in S |->
                   IF im = Undefined THEN Undefined ELSE Draw(k, im)]]
<1> HIDE DEF S, Draw
<1>6. Steps(T, n, S)
  BY <1>4, <1>5 DEF Steps
<1>7. \A k \in 1 .. n : \A im \in S : T[k][im] = IF im = Undefined THEN Undefined ELSE Draw(k, im)
  OBVIOUS
<1> HIDE DEF T
<1>8. PICK f : Run(f, img, T, n, S)
  BY <1>5, <1>6, Loop
<1>9. f = [k \in 0 .. n |-> IF k = 0 THEN img
                            ELSE IF f[k - 1] = Undefined THEN Undefined ELSE Draw(k, f[k - 1])]
  <2>1. ASSUME NEW k \in 0 .. n
        PROVE  f[k] = IF k = 0 THEN img
                      ELSE IF f[k - 1] = Undefined THEN Undefined ELSE Draw(k, f[k - 1])
    <3>1. k # 0 => k \in 1 .. n /\ k - 1 \in 0 .. n
      OBVIOUS
    <3> QED
      BY <1>7, <1>8, <3>1 DEF Run
  <2> QED
    BY <1>8, <2>1 DEF Run
<1>10. after = [k \in 0 .. n |-> IF k = 0 THEN img
                                 ELSE IF after[k - 1] = Undefined THEN Undefined
                                      ELSE Draw(k, after[k - 1])]
  BY <1>3, <1>9
<1> HIDE DEF after
<1>11. after[0] = img /\ \A k \in 1 .. n : after[k] = IF after[k - 1] = Undefined THEN Undefined
                                                     ELSE Draw(k, after[k - 1])
  BY <1>10
<1>12. after[n] \in S
  <2> DEFINE G == {m \in 0 .. n : after[m] \in S}
  <2>1. 0 \in G /\ \A i \in 1 .. n : i - 1 \in G => i \in G
    BY <1>4, <1>5, <1>11
  <2> HIDE DEF G
  <2>2. \A i \in 0 .. n : i \in G
    BY <2>1, UpTo
  <2> QED
    BY <2>2 DEF G
<1>13. ASSUME img = NoImage PROVE after[n] = NoImage
  <2> DEFINE G == {m \in 0 .. n : after[m] = NoImage}
  <2>1. ASSUME NEW k \in 1 .. n, after[k - 1] = NoImage PROVE after[k] = NoImage
    <3>1. pts[k][1] \in Part(part.width, x, w) /\ pts[k][2] \in Part(part.height, y, h)
      BY <1>2, <1>3 DEF Path
    <3>2. PICK j \in Int, i \in Int : j = pts[k][1] /\ i = pts[k][2]
      BY <3>1 DEF Part
    <3>3. map.data[compute_index(map, pts[k][1] + part.x, pts[k][2] + part.y)] \in Color
      BY <1>0, <1>m, <3>1, SourceIs
    <3>4. Draw(k, NoImage) = NoImage
      BY <1>5, <1>13, <3>2, <3>3, KinDraw DEF Draw, S
    <3> QED
      BY <1>5, <1>11, <1>13, <2>1, <3>4
  <2>2. 0 \in G /\ \A i \in 1 .. n : i - 1 \in G => i \in G
    BY <1>11, <1>13, <2>1
  <2> HIDE DEF G
  <2>3. \A i \in 0 .. n : i \in G
    BY <2>2, UpTo
  <2> QED
    BY <2>3 DEF G
<1>14. ASSUME NEW pic, NEW mpic, img # NoImage, ~TooLarge(img), Shows(img, pic), Shows(map, mpic)
       PROVE  after[n] # Undefined /\ Shows(after[n], PaintSprite(pic, x, y, mpic, part))
  <2>1. Countable(w, h) /\ img \in ImagesOf(w, h)
    BY <1>0, <1>14, ImageCases DEF TooLarge
  <2>2. SpriteSteps(after, img, w, h, pts, x, y, map, part)
    BY <1>3, <1>11, ImageIs DEF Draw, SpriteSteps
  <2>3. after[n] \in ImagesOf(w, h) /\ Shows(after[n], PaintSprite(pic, x, y, mpic, part))
    BY <1>2, <1>3, <1>14, <2>1, <2>2, SpriteRest
  <2> QED
    BY <2>3, ImageIs
<1> QED
  BY <1>1, <1>3, <1>12, <1>13, <1>14 DEF S

LEMMA CopyTileIs ==
  ASSUME NEW img, IsImage(img), NEW x \in Ints, NEW y \in Ints,
         NEW part, NEW map, NEW mw, NEW mh, IsMap(map, mw, mh, part)
  PROVE  /\ draw_tile(img, x, y, map, part) \in Kin(img)
         /\ x >= 0 /\ y >= 0 /\ img = NoImage => draw_tile(img, x, y, map, part) = NoImage
         /\ \A pic, mpic :
              x >= 0 /\ y >= 0 /\ img # NoImage /\ ~TooLarge(img) /\ Shows(img, pic) /\ Shows(map, mpic) =>
                /\ draw_tile(img, x, y, map, part) # Undefined
                /\ Shows(draw_tile(img, x, y, map, part), PaintTile(pic, x, y, mpic, part))
<1> DEFINE S == Kin(img)
           pts == Copied(img, x, y, part)
           Draw(k, im) == Store(im, compute_index(im, pts[k][1] + x, pts[k][2] + y),
                          map.data[compute_index(map, pts[k][1] + part.x, pts[k][2] + part.y)])
           after == CHOOSE f : f = [k \in 0 .. Len(pts) |->
                      IF k = 0 THEN img
                      ELSE IF f[k - 1] = Undefined THEN Undefined ELSE Draw(k, f[k - 1])]
<1>i. x \in Int /\ y \in Int
  BY IntsAre
<1>1. draw_tile(img, x, y, map, part) = after[Len(pts)]
  BY DEF IsMap, draw_tile, ForEach
<1>0. PICK w \in Color, h \in Color : w = img.width /\ h = img.height /\ w \in Nat /\ h \in Nat
  BY ImageCases, WordIs DEF Color
<1>m. IsRect(part) /\ mw \in Color /\ mh \in Color /\ Countable(mw, mh) /\ map \in ImagesOf(mw, mh)
      /\ ~Outside(map, part)
  BY DEF IsMap
<1>2. Path(pts, Part(part.width, x, w), Part(part.height, y, h))
  BY <1>0, <1>i, <1>m, CopiedIs
<1> HIDE DEF pts
<1>3. PICK n \in Nat : n = Len(pts)
  BY <1>2 DEF Path
<1>4. \A k \in 1 .. n : \A im \in S : im # Undefined => Draw(k, im) \in S
  <2> SUFFICES ASSUME NEW k \in 1 .. n, NEW im \in S, im # Undefined PROVE Draw(k, im) \in S
    OBVIOUS
  <2>1. pts[k][1] \in Part(part.width, x, w) /\ pts[k][2] \in Part(part.height, y, h)
    BY <1>2, <1>3 DEF Path
  <2>2. PICK j \in Int, i \in Int : j = pts[k][1] /\ i = pts[k][2]
    BY <2>1 DEF Part
  <2>3. map.data[compute_index(map, pts[k][1] + part.x, pts[k][2] + part.y)] \in Color
    BY <1>0, <1>i, <1>m, <2>1, SourceIs
  <2> QED
    BY <1>i, <2>2, <2>3, KinDraw
<1>5. img \in S /\ img # Undefined /\ Undefined \in S
  BY ImageCases
<1> DEFINE T == [k \in 1 .. n |-> [im \in S |->
                   IF im = Undefined THEN Undefined ELSE Draw(k, im)]]
<1> HIDE DEF S, Draw
<1>6. Steps(T, n, S)
  BY <1>4, <1>5 DEF Steps
<1>7. \A k \in 1 .. n : \A im \in S : T[k][im] = IF im = Undefined THEN Undefined ELSE Draw(k, im)
  OBVIOUS
<1> HIDE DEF T
<1>8. PICK f : Run(f, img, T, n, S)
  BY <1>5, <1>6, Loop
<1>9. f = [k \in 0 .. n |-> IF k = 0 THEN img
                            ELSE IF f[k - 1] = Undefined THEN Undefined ELSE Draw(k, f[k - 1])]
  <2>1. ASSUME NEW k \in 0 .. n
        PROVE  f[k] = IF k = 0 THEN img
                      ELSE IF f[k - 1] = Undefined THEN Undefined ELSE Draw(k, f[k - 1])
    <3>1. k # 0 => k \in 1 .. n /\ k - 1 \in 0 .. n
      OBVIOUS
    <3> QED
      BY <1>7, <1>8, <3>1 DEF Run
  <2> QED
    BY <1>8, <2>1 DEF Run
<1>10. after = [k \in 0 .. n |-> IF k = 0 THEN img
                                 ELSE IF after[k - 1] = Undefined THEN Undefined
                                      ELSE Draw(k, after[k - 1])]
  BY <1>3, <1>9
<1> HIDE DEF after
<1>11. after[0] = img /\ \A k \in 1 .. n : after[k] = IF after[k - 1] = Undefined THEN Undefined
                                                     ELSE Draw(k, after[k - 1])
  BY <1>10
<1>12. after[n] \in S
  <2> DEFINE G == {m \in 0 .. n : after[m] \in S}
  <2>1. 0 \in G /\ \A i \in 1 .. n : i - 1 \in G => i \in G
    BY <1>4, <1>5, <1>11
  <2> HIDE DEF G
  <2>2. \A i \in 0 .. n : i \in G
    BY <2>1, UpTo
  <2> QED
    BY <2>2 DEF G
<1>13. ASSUME x >= 0, y >= 0, img = NoImage PROVE after[n] = NoImage
  <2>1. w = 0
    BY <1>0, <1>13 DEF NoImage
  <2>2. Part(part.width, x, w) = {}
    <3>1. 0 < Word
      BY WordIs, BaseIs
    <3>2. Int32(w - x) = w - x
      BY <1>0, <1>13, <2>1, <3>1, RoomIs
    <3> QED
      BY <1>i, <1>13, <2>1, <3>2 DEF Part, InPart
  <2>3. n = 0
    BY <1>2, <1>3, <2>2 DEF Path
  <2> QED
    BY <1>11, <1>13, <2>3
<1>14. ASSUME NEW pic, NEW mpic, x >= 0, y >= 0, img # NoImage, ~TooLarge(img),
              Shows(img, pic), Shows(map, mpic)
       PROVE  after[n] # Undefined /\ Shows(after[n], PaintTile(pic, x, y, mpic, part))
  <2>1. Countable(w, h) /\ img \in ImagesOf(w, h)
    BY <1>0, <1>14, ImageCases DEF TooLarge
  <2>2. TileSteps(after, img, w, h, pts, x, y, map, part)
    BY <1>3, <1>11, ImageIs DEF Draw, TileSteps
  <2>3. after[n] \in ImagesOf(w, h) /\ Shows(after[n], PaintTile(pic, x, y, mpic, part))
    BY <1>2, <1>3, <1>14, <2>1, <2>2, TileRest
  <2> QED
    BY <2>3, ImageIs
<1> QED
  BY <1>1, <1>3, <1>12, <1>13, <1>14 DEF S

-----------------------------------------------------------------------------
(* What was drawn where the part is outside is nothing, too. *)
IsLoaded(map, mw, mh) ==
  mw \in Color /\ mh \in Color /\ Countable(mw, mh) /\ map \in ImagesOf(mw, mh)

(* draw_sprite and draw_tile of any part. *)
LEMMA DrawSpriteIs ==
  ASSUME NEW img, IsImage(img), NEW x \in Int, NEW y \in Int,
         NEW part, IsRect(part), NEW map, NEW mw, NEW mh, IsLoaded(map, mw, mh)
  PROVE  /\ draw_sprite(img, x, y, map, part) \in Kin(img)
         /\ img = NoImage => draw_sprite(img, x, y, map, part) = NoImage
         /\ \A pic, mpic :
              img # NoImage /\ ~TooLarge(img) /\ Shows(img, pic) /\ Shows(map, mpic) =>
                /\ draw_sprite(img, x, y, map, part) # Undefined
                /\ Shows(draw_sprite(img, x, y, map, part), PaintSprite(pic, x, y, mpic, part))
<1>m. mw \in Color /\ mh \in Color /\ Countable(mw, mh) /\ map \in ImagesOf(mw, mh)
  BY DEF IsLoaded
<1>1. CASE ~Outside(map, part)
  <2>1. IsMap(map, mw, mh, part)
    BY <1>m, <1>1 DEF IsMap
  <2> QED
    BY <2>1, CopySpriteIs
<1>2. CASE Outside(map, part)
  <2>1. draw_sprite(img, x, y, map, part) = img
    BY <1>2 DEF draw_sprite
  <2>2. img \in Kin(img) /\ img # Undefined
    BY ImageCases
  <2>3. ASSUME NEW pic, NEW mpic, img # NoImage, Shows(img, pic), Shows(map, mpic)
        PROVE  Shows(img, PaintSprite(pic, x, y, mpic, part))
    <3>1. PICK w \in Color, h \in Color : img \in ImagesOf(w, h)
      BY <2>3, ImageCases
    <3>2. /\ DOMAIN pic = Grid(w, h)
          /\ \A p \in Grid(w, h) : Components(img.data[Place(w, p)]) = pic[p]
      BY <2>3, <3>1, ShowsIs
    <3>3. DOMAIN mpic = Grid(mw, mh)
      BY <1>m, <2>3, ShowsIs
    <3>4. \A p \in Grid(w, h) : p \in Int \X Int
      BY WordIs DEF Grid, Color
    <3>5. \A p \in Grid(w, h) : p \notin Target(mpic, part, x, y)
      BY <1>m, <1>2, <3>3, <3>4, NowhereIs
    <3>6. PaintSprite(pic, x, y, mpic, part) =
            [p \in DOMAIN pic |-> IF p \in Target(mpic, part, x, y)
                                  THEN Over(mpic[Source(p, part, x, y)], pic[p]) ELSE pic[p]]
      BY DEF PaintSprite, Painted
    <3>7. /\ DOMAIN PaintSprite(pic, x, y, mpic, part) = Grid(w, h)
          /\ \A p \in Grid(w, h) : Components(img.data[Place(w, p)])
                                     = PaintSprite(pic, x, y, mpic, part)[p]
      BY <3>2, <3>5, <3>6
    <3> QED
      BY <3>1, <3>7, ShowsIs
  <2> QED
    BY <2>1, <2>2, <2>3
<1> QED
  BY <1>1, <1>2

LEMMA DrawTileIs ==
  ASSUME NEW img, IsImage(img), NEW x \in Ints, NEW y \in Ints,
         NEW part, IsRect(part), NEW map, NEW mw, NEW mh, IsLoaded(map, mw, mh)
  PROVE  /\ draw_tile(img, x, y, map, part) \in Kin(img)
         /\ x >= 0 /\ y >= 0 /\ img = NoImage => draw_tile(img, x, y, map, part) = NoImage
         /\ \A pic, mpic :
              x >= 0 /\ y >= 0 /\ img # NoImage /\ ~TooLarge(img) /\ Shows(img, pic) /\ Shows(map, mpic) =>
                /\ draw_tile(img, x, y, map, part) # Undefined
                /\ Shows(draw_tile(img, x, y, map, part), PaintTile(pic, x, y, mpic, part))
<1>m. mw \in Color /\ mh \in Color /\ Countable(mw, mh) /\ map \in ImagesOf(mw, mh)
  BY DEF IsLoaded
<1>1. CASE ~Outside(map, part)
  <2>1. IsMap(map, mw, mh, part)
    BY <1>m, <1>1 DEF IsMap
  <2> QED
    BY <2>1, CopyTileIs
<1>2. CASE Outside(map, part)
  <2>1. draw_tile(img, x, y, map, part) = img
    BY <1>2 DEF draw_tile
  <2>2. img \in Kin(img) /\ img # Undefined
    BY ImageCases
  <2>3. ASSUME NEW pic, NEW mpic, img # NoImage, Shows(img, pic), Shows(map, mpic)
        PROVE  Shows(img, PaintTile(pic, x, y, mpic, part))
    <3>1. PICK w \in Color, h \in Color : img \in ImagesOf(w, h)
      BY <2>3, ImageCases
    <3>2. /\ DOMAIN pic = Grid(w, h)
          /\ \A p \in Grid(w, h) : Components(img.data[Place(w, p)]) = pic[p]
      BY <2>3, <3>1, ShowsIs
    <3>3. DOMAIN mpic = Grid(mw, mh)
      BY <1>m, <2>3, ShowsIs
    <3>4. \A p \in Grid(w, h) : p \in Int \X Int
      BY WordIs DEF Grid, Color
    <3>5. \A p \in Grid(w, h) : p \notin Target(mpic, part, x, y)
      BY IntsAre, <1>m, <1>2, <3>3, <3>4, NowhereIs
    <3>6. PaintTile(pic, x, y, mpic, part) =
            [p \in DOMAIN pic |-> IF p \in Target(mpic, part, x, y)
                                  THEN mpic[Source(p, part, x, y)] ELSE pic[p]]
      BY DEF PaintTile
    <3>7. /\ DOMAIN PaintTile(pic, x, y, mpic, part) = Grid(w, h)
          /\ \A p \in Grid(w, h) : Components(img.data[Place(w, p)])
                                     = PaintTile(pic, x, y, mpic, part)[p]
      BY <3>2, <3>5, <3>6
    <3> QED
      BY <3>1, <3>7, ShowsIs
  <2> QED
    BY <2>1, <2>2, <2>3
<1> QED
  BY <1>1, <1>2

-----------------------------------------------------------------------------
(* Sequences of bytes. *)

(* Sequences and functions on 1 .. n are the same. *)
LEMMA FunctionIsSeq ==
  ASSUME NEW S, NEW n \in Nat, NEW f \in [1 .. n -> S]
  PROVE  f \in Seq(S) /\ Len(f) = n
OBVIOUS

LEMMA SeqIsFunction ==
  ASSUME NEW S, NEW s \in Seq(S)
  PROVE  Len(s) \in Nat /\ s \in [1 .. Len(s) -> S]
OBVIOUS

Sized(a, p, S) == a \in [1 .. p -> S]

IsJoined(c, a, b, p, q, S) ==
  /\ c \in [1 .. p + q -> S]
  /\ \A i \in 1 .. p : c[i] = a[i]
  /\ \A i \in 1 .. q : c[p + i] = b[i]

(* Two sequences, one after the other. *)
LEMMA Joined ==
  ASSUME NEW S, NEW p \in Nat, NEW q \in Nat, NEW a, NEW b, Sized(a, p, S), Sized(b, q, S)
  PROVE  IsJoined(a \o b, a, b, p, q, S)
<1>1. a \in Seq(S) /\ Len(a) = p /\ b \in Seq(S) /\ Len(b) = q
  BY FunctionIsSeq DEF Sized
<1>2. /\ a \o b \in Seq(S) /\ Len(a \o b) = p + q
      /\ \A i \in 1 .. p + q : (a \o b)[i] = IF i <= p THEN a[i] ELSE b[i - p]
  BY <1>1, ConcatProperties
<1>3. a \o b \in [1 .. p + q -> S]
  BY <1>2, SeqIsFunction
<1>4. \A i \in 1 .. q : (a \o b)[p + i] = b[i]
  <2> SUFFICES ASSUME NEW i \in 1 .. q PROVE (a \o b)[p + i] = b[i]
    OBVIOUS
  <2>1. p + i \in 1 .. p + q /\ ~(p + i <= p) /\ (p + i) - p = i
    OBVIOUS
  <2> QED
    BY <1>2, <2>1
<1>5. \A i \in 1 .. p : (a \o b)[i] = a[i]
  <2> SUFFICES ASSUME NEW i \in 1 .. p PROVE (a \o b)[i] = a[i]
    OBVIOUS
  <2>1. i \in 1 .. p + q /\ i <= p
    OBVIOUS
  <2> QED
    BY <1>2, <2>1
<1> QED
  BY <1>3, <1>4, <1>5 DEF IsJoined

(* Sequences of one length, one after the other. *)
Rows(s, n, L, S) == s \in [1 .. n -> [1 .. L -> S]]
Joins(d, s, n, L, S) ==
  /\ d \in [1 .. n * L -> S]
  /\ \A k \in 1 .. n : \A i \in 1 .. L : d[(k - 1) * L + i] = s[k][i]

(* Rows of one length, one after the other: FlattenSeq by its definition. *)
LEMMA Flattened ==
  ASSUME NEW S, NEW n \in Nat, NEW L \in Nat, NEW s, Rows(s, n, L, S)
  PROVE  Joins(FlattenSeq(s), s, n, L, S)
<1>0. s \in [1 .. n -> [1 .. L -> S]] /\ Len(s) = n
  <2>1. s \in [1 .. n -> [1 .. L -> S]]
    BY DEF Rows
  <2> QED
    BY <2>1, FunctionIsSeq
<1>1. CASE n = 0
  <2>1. FlattenSeq(s) = s
    BY <1>0, <1>1 DEF FlattenSeq
  <2>2. 1 .. n = {} /\ n * L = 0 /\ 1 .. n * L = 1 .. n
    BY <1>1
  <2>3. s \in [1 .. n * L -> S]
    <3>1. DOMAIN s = {} /\ s = [k \in DOMAIN s |-> s[k]]
      BY <1>0, <2>2
    <3>2. s = [k \in 1 .. n * L |-> s[k]] /\ 1 .. n * L = {}
      BY <2>2, <3>1
    <3> QED
      BY <3>2
  <2> QED
    BY <2>1, <2>2, <2>3 DEF Joins
<1>2. CASE n > 0
  <2> DEFINE T == [k \in 1 .. n - 1 |-> [v \in Seq(S) |-> v \o s[k + 1]]]
             flatten == CHOOSE f : f = [i \in 1 .. n |-> IF i = 1 THEN s[i] ELSE f[i - 1] \o s[i]]
  <2>1. FlattenSeq(s) = flatten[n]
    BY <1>0, <1>2 DEF FlattenSeq
  <2>2. \A k \in 1 .. n : s[k] \in [1 .. L -> S] /\ s[k] \in Seq(S)
    BY <1>0, FunctionIsSeq
  <2>3. PICK m \in Nat : m = n - 1
    BY <1>2
  <2>4. Steps(T, m, Seq(S)) /\ s[1] \in Seq(S)
    <3>1. \A k \in 1 .. m : k + 1 \in 1 .. n
      BY <2>3
    <3>2. \A k \in 1 .. m : \A v \in Seq(S) : v \o s[k + 1] \in Seq(S)
      BY <2>2, <3>1, ConcatProperties
    <3>3. T \in [1 .. m -> [Seq(S) -> Seq(S)]]
      BY <2>3, <3>2
    <3>4. 1 \in 1 .. n
      BY <1>2
    <3> HIDE DEF T
    <3> QED
      BY <2>2, <3>3, <3>4 DEF Steps
  <2>5. \A k \in 1 .. m : \A v \in Seq(S) : T[k][v] = v \o s[k + 1]
    BY <2>3
  <2> HIDE DEF T
  <2>6. PICK f : Run(f, s[1], T, m, Seq(S))
    BY <2>4, Loop
  <2>7. /\ f[0] = s[1]
        /\ \A k \in 0 .. m : f[k] \in Seq(S)
        /\ \A k \in 1 .. m : f[k] = f[k - 1] \o s[k + 1]
    <3>1. f \in [0 .. m -> Seq(S)] /\ f[0] = s[1] /\ \A k \in 1 .. m : f[k] = T[k][f[k - 1]]
      BY <2>6 DEF Run
    <3>2. \A k \in 1 .. m : f[k - 1] \in Seq(S)
      BY <3>1
    <3> QED
      BY <2>5, <3>1, <3>2
  <2> DEFINE g == [i \in 1 .. n |-> f[i - 1]]
  <2>8. g = [i \in 1 .. n |-> IF i = 1 THEN s[i] ELSE g[i - 1] \o s[i]]
    <3>1. ASSUME NEW i \in 1 .. n
          PROVE  f[i - 1] = IF i = 1 THEN s[i] ELSE g[i - 1] \o s[i]
      <4>1. CASE i = 1
        BY <2>7, <4>1
      <4>2. CASE i # 1
        <5>1. i - 1 \in 1 .. m /\ i - 1 \in 1 .. n /\ (i - 1) + 1 = i
          BY <2>3, <4>2
        <5>2. g[i - 1] = f[(i - 1) - 1]
          BY <5>1
        <5> HIDE DEF g
        <5> QED
          BY <2>7, <4>2, <5>1, <5>2
      <4> QED
        BY <4>1, <4>2
    <3> QED
      BY <3>1
  <2>9. flatten = [i \in 1 .. n |-> IF i = 1 THEN s[i] ELSE flatten[i - 1] \o s[i]]
    <3> HIDE DEF g
    <3> QED
      BY <2>8
  <2> HIDE DEF g, flatten
  <2> DEFINE Ok(i) == Joins(flatten[i], s, i, L, S)
             G == {i \in 0 .. m : Ok(i + 1)}
  <2>10. Ok(1)
    <3>1. flatten[1] = s[1] /\ s[1] \in [1 .. L -> S]
      BY <1>2, <2>2, <2>9
    <3>2. 1 * L = L /\ \A k \in 1 .. 1 : k = 1 /\ \A i \in 1 .. L : (k - 1) * L + i = i
      OBVIOUS
    <3> QED
      BY <3>1, <3>2 DEF Joins
  <2>11. ASSUME NEW i \in 1 .. m, Ok(i) PROVE Ok(i + 1)
    <3>1. flatten[i + 1] = flatten[i] \o s[i + 1]
      <4>1. i + 1 \in 1 .. n /\ i + 1 # 1 /\ (i + 1) - 1 = i
        BY <2>3
      <4>2. flatten[i + 1] = IF i + 1 = 1 THEN s[i + 1] ELSE flatten[(i + 1) - 1] \o s[i + 1]
        BY <2>9, <4>1
      <4> QED
        BY <4>1, <4>2
    <3>2. PICK p \in Nat : p = i * L
      OBVIOUS
    <3>3. flatten[i] \in [1 .. p -> S] /\ s[i + 1] \in [1 .. L -> S]
      BY <2>2, <2>3, <2>11, <3>2 DEF Joins
    <3>4. /\ flatten[i + 1] \in [1 .. p + L -> S]
          /\ \A j \in 1 .. p : flatten[i + 1][j] = flatten[i][j]
          /\ \A j \in 1 .. L : flatten[i + 1][p + j] = s[i + 1][j]
      <4>1. PICK a, b : a = flatten[i] /\ b = s[i + 1]
        OBVIOUS
      <4>2. Sized(a, p, S) /\ Sized(b, L, S)
        BY <3>3, <4>1 DEF Sized
      <4>3. IsJoined(a \o b, a, b, p, L, S)
        BY <4>2, Joined
      <4>4. flatten[i + 1] = a \o b
        BY <3>1, <4>1
      <4> HIDE DEF flatten
      <4> QED
        BY <4>1, <4>3, <4>4 DEF IsJoined
    <3>5. (i + 1) * L = p + L
      BY <3>2
    <3>6. ASSUME NEW k \in 1 .. i + 1, NEW j \in 1 .. L
          PROVE  flatten[i + 1][(k - 1) * L + j] = s[k][j]
      <4>1. CASE k = i + 1
        <5>1. (k - 1) * L + j = p + j
          BY <3>2, <4>1
        <5> QED
          BY <3>4, <4>1, <5>1
      <4>2. CASE k # i + 1
        <5>1. k \in 1 .. i
          BY <4>2
        <5>2. (k - 1) * L + j \in 1 .. p
          <6>1. PICK d \in Nat : d = k - 1
            BY <5>1
          <6>2. L * d + L <= L * i
            BY <5>1, <6>1, Multiples
          <6>3. d * L = L * d /\ d * L \in Nat /\ L * i = p
            BY <3>2, <6>1
          <6> QED
            BY <6>1, <6>2, <6>3
        <5>3. flatten[i][(k - 1) * L + j] = s[k][j]
          BY <2>11, <5>1 DEF Joins
        <5> QED
          BY <3>4, <5>2, <5>3
      <4> QED
        BY <4>1, <4>2
    <3> QED
      BY <3>4, <3>5, <3>6 DEF Joins
  <2>12. 0 \in G /\ \A i \in 1 .. m : i - 1 \in G => i \in G
    <3> HIDE DEF Ok
    <3>1. \A i \in 1 .. m : (i - 1) + 1 = i /\ i - 1 \in 0 .. m /\ i \in 0 .. m
      OBVIOUS
    <3>2. 0 + 1 = 1 /\ 0 \in 0 .. m
      OBVIOUS
    <3> QED
      BY <2>10, <2>11, <3>1, <3>2
  <2> HIDE DEF Ok
  <2>13. m \in G
    <3> HIDE DEF G
    <3>1. \A i \in 0 .. m : i \in G
      BY <2>12, UpTo
    <3> QED
      BY <3>1
  <2> QED
    BY <2>1, <2>3, <2>13 DEF Ok
<1> QED
  BY <1>1, <1>2

-----------------------------------------------------------------------------
(* Filters. *)

(* The predictor of the code is the one of the standard. *)
LEMMA PaethIs ==
  ASSUME NEW a \in Byte, NEW b \in Byte, NEW c \in Byte
  PROVE  png_paeth(a, b, c) = Nearest(a, b, c) /\ png_paeth(a, b, c) \in Byte
<1>1. a \in Int /\ b \in Int /\ c \in Int /\ a \in Nat /\ b \in Nat /\ c \in Nat
  BY BaseIs DEF Byte
<1> DEFINE v == <<a, b, c>>
           e == a + b - c
           Dist(u) == IF u > e THEN u - e ELSE e - u
           d == [i \in 1 .. 3 |-> IF v[i] > e THEN v[i] - e ELSE e - v[i]]
           Best(i) == \A j \in 1 .. 3 : d[i] < d[j] \/ (d[i] = d[j] /\ i <= j)
<1>2. Nearest(a, b, c) = v[CHOOSE i \in 1 .. 3 : Best(i)]
  BY DEF Nearest
<1>3. PICK x \in Nat, y \in Nat, z \in Nat : x = Dist(a) /\ y = Dist(b) /\ z = Dist(c)
  <2>1. Dist(a) \in Nat /\ Dist(b) \in Nat /\ Dist(c) \in Nat
    BY <1>1
  <2> QED
    BY <2>1
<1>4. d[1] = x /\ d[2] = y /\ d[3] = z /\ v[1] = a /\ v[2] = b /\ v[3] = c
  <2>1. v[1] = a /\ v[2] = b /\ v[3] = c /\ 1 \in 1 .. 3 /\ 2 \in 1 .. 3 /\ 3 \in 1 .. 3
    OBVIOUS
  <2>2. \A i \in 1 .. 3 : d[i] = Dist(v[i])
    OBVIOUS
  <2> HIDE DEF v, d, Dist
  <2> QED
    BY <1>3, <2>1, <2>2
<1>5. png_paeth(a, b, c) = IF x <= y /\ x <= z THEN a ELSE IF y <= z THEN b ELSE c
  BY <1>1, <1>3 DEF png_paeth
<1> HIDE DEF d, v, e, Dist
<1>6. \A i \in 1 .. 3 : i = 1 \/ i = 2 \/ i = 3
  OBVIOUS
<1>7. /\ Best(1) <=> x <= y /\ x <= z
      /\ Best(2) <=> y < x /\ y <= z
      /\ Best(3) <=> z < x /\ z < y
  BY <1>4, <1>6
<1> HIDE DEF Best
<1>8. ASSUME NEW i \in 1 .. 3, Best(i), \A j \in 1 .. 3 : Best(j) => j = i
      PROVE  (CHOOSE j \in 1 .. 3 : Best(j)) = i
  BY <1>8
<1>9. CASE x <= y /\ x <= z
  <2>1. (CHOOSE j \in 1 .. 3 : Best(j)) = 1
    <3>1. Best(1) /\ \A j \in 1 .. 3 : Best(j) => j = 1
      BY <1>6, <1>7, <1>9
    <3> QED
      BY <1>8, <3>1
  <2> QED
    BY <1>2, <1>4, <1>5, <1>9, <2>1
<1>10. CASE ~(x <= y /\ x <= z) /\ y <= z
  <2>1. (CHOOSE j \in 1 .. 3 : Best(j)) = 2
    <3>1. Best(2) /\ \A j \in 1 .. 3 : Best(j) => j = 2
      BY <1>6, <1>7, <1>10
    <3> QED
      BY <1>8, <3>1
  <2> QED
    BY <1>2, <1>4, <1>5, <1>10, <2>1
<1>11. CASE ~(x <= y /\ x <= z) /\ ~(y <= z)
  <2>1. (CHOOSE j \in 1 .. 3 : Best(j)) = 3
    <3>1. Best(3) /\ \A j \in 1 .. 3 : Best(j) => j = 3
      BY <1>6, <1>7, <1>11
    <3> QED
      BY <1>8, <3>1
  <2> QED
    BY <1>2, <1>4, <1>5, <1>11, <2>1
<1> QED
  BY <1>9, <1>10, <1>11

(* The reader predicts a byte as the standard does. *)
LEMMA PredictionIs ==
  ASSUME NEW filter \in 0 .. 4, NEW a \in Byte, NEW b \in Byte, NEW c \in Byte
  PROVE  /\ Prediction(filter, a, b, c) \in Byte
         /\ <<0, a, b, (a + b) \div 2, Nearest(a, b, c)>>[filter + 1] = Prediction(filter, a, b, c)
<1>1. PICK m : m = (a + b) \div 2
  OBVIOUS
<1>2. m \in Byte /\ 0 \in Byte
  <2>1. a \in Nat /\ b \in Nat /\ a <= Full /\ b <= Full /\ Full \in Nat
    BY BaseIs DEF Byte
  <2>2. PICK n \in Nat : n = a + b
    BY <2>1
  <2>3. n \div 2 \in Nat /\ n % 2 \in Nat /\ n = 2 * (n \div 2) + (n % 2)
    BY Quotient
  <2> QED
    BY <1>1, <2>1, <2>2, <2>3 DEF Byte
<1>3. PICK o : o = Nearest(a, b, c)
  OBVIOUS
<1>4. o = png_paeth(a, b, c) /\ o \in Byte
  BY <1>3, PaethIs
<1>5. filter = 0 \/ filter = 1 \/ filter = 2 \/ filter = 3 \/ filter = 4
  OBVIOUS
<1>6. /\ Prediction(0, a, b, c) = 0 /\ Prediction(1, a, b, c) = a /\ Prediction(2, a, b, c) = b
      /\ Prediction(3, a, b, c) = m /\ Prediction(4, a, b, c) = o
  BY <1>1, <1>4 DEF Prediction
<1>7. /\ <<0, a, b, m, o>>[1] = 0 /\ <<0, a, b, m, o>>[2] = a /\ <<0, a, b, m, o>>[3] = b
      /\ <<0, a, b, m, o>>[4] = m /\ <<0, a, b, m, o>>[5] = o
  OBVIOUS
<1> QED
  BY <1>1, <1>2, <1>3, <1>4, <1>5, <1>6, <1>7

(* What was taken away from a byte is added again. *)
LEMMA AddedBack ==
  ASSUME NEW v \in Byte, NEW p \in Byte
  PROVE  /\ (v - p) % Base \in Byte
         /\ (((v - p) % Base) + p) % Base = v
         /\ (v + p) % Base \in Byte
<1>1. Base \in Nat \ {0} /\ v \in Nat /\ p \in Nat /\ v < Base /\ p < Base
  BY BaseIs DEF Byte, Base
<1>2. \A n \in Nat : n < Base => n \in Byte
  BY BaseIs DEF Byte, Base
<1>3. CASE p <= v
  <2>1. PICK n \in Nat : n = v - p
    BY <1>1, <1>3
  <2>2. n < Base /\ n + p = v
    BY <1>1, <2>1
  <2>3. n % Base = n /\ v % Base = v
    BY <1>1, <2>2, Small
  <2> QED
    BY <1>1, <1>2, <2>1, <2>2, <2>3, Quotient
<1>4. CASE v < p
  <2>1. PICK n \in Nat : n = Base + (v - p)
    BY <1>1
  <2>2. n < Base /\ n + p = 1 * Base + v
    BY <1>1, <1>4, <2>1
  <2>3. (v - p) % Base = n
    <3>1. PICK m \in Int : m = v - p
      BY <1>1
    <3>2. m = n - Base /\ -Base <= m /\ m < 0
      BY <1>1, <1>4, <2>1, <3>1
    <3>3. m % Base = n
      <4>1. m % Base \in 0 .. Base - 1 /\ m = Base * (m \div Base) + (m % Base) /\ m \div Base \in Int
        BY <1>1
      <4>2. PICK q \in Int, u \in Int : q = m \div Base /\ u = m % Base
        BY <4>1
      <4>3. m = Base * q + u /\ u >= 0 /\ u < Base
        BY <1>1, <4>1, <4>2
      <4>4. q = -1
        <5>1. CASE q >= 0
          <6>1. Base * q \in Nat
            BY <1>1, <5>1
          <6> QED
            BY <3>2, <4>3, <6>1
        <5>2. CASE q <= -2
          <6>1. PICK t \in Nat : q = -2 - t
            <7>1. -2 - q \in Nat /\ q = -2 - (-2 - q)
              BY <5>2
            <7> QED
              BY <7>1
          <6>2. Base * q = -(2 * Base) - Base * t /\ Base * t \in Nat
            BY <1>1, <6>1
          <6> QED
            BY <1>1, <3>2, <4>3, <6>2
        <5> QED
          BY <5>1, <5>2
      <4>5. u = m + Base
        BY <1>1, <4>3, <4>4
      <4> QED
        BY <1>1, <3>2, <4>2, <4>5
    <3> QED
      BY <3>1, <3>3
  <2>4. (1 * Base + v) % Base = v
    BY <1>1, DivMod
  <2> QED
    BY <1>1, <1>2, <2>2, <2>3, <2>4, Quotient
<1> QED
  BY <1>1, <1>3, <1>4

(* What the code takes for the byte at i of a line, of which out has the   *)
(* bytes before i.                                                         *)
Expected(filter, stride, prev, out, i) ==
  Prediction(filter, IF i > stride THEN out[i - stride] ELSE 0, prev[i],
             IF i > stride THEN prev[i - stride] ELSE 0)

(* out is the line in, unfiltered. *)
IsUnfiltered(out, filter, stride, in, prev, n) ==
  /\ out \in [1 .. n -> Byte]
  /\ \A i \in 1 .. n : out[i] = (in[i] + Expected(filter, stride, prev, out, i)) % Base

(* What is expected of a byte depends only on the bytes before it. *)
LEMMA ExpectedIs ==
  ASSUME NEW filter \in 0 .. 4, NEW stride \in Nat \ {0}, NEW n \in Nat, NEW prev, Sized(prev, n, Byte),
         NEW m \in Nat, NEW out, Sized(out, m, Byte), NEW i \in 1 .. n, i <= m + 1
  PROVE  /\ Expected(filter, stride, prev, out, i) \in Byte
         /\ \A u : (\A j \in 1 .. m : u[j] = out[j]) =>
              Expected(filter, stride, prev, u, i) = Expected(filter, stride, prev, out, i)
<1> DEFINE a == IF i > stride THEN out[i - stride] ELSE 0
           c == IF i > stride THEN prev[i - stride] ELSE 0
<1>1. 0 \in Byte
  BY BaseIs DEF Byte
<1>2. i > stride => i - stride \in 1 .. m /\ i - stride \in 1 .. n
  OBVIOUS
<1>3. a \in Byte /\ c \in Byte /\ prev[i] \in Byte
  BY <1>1, <1>2 DEF Sized
<1>4. Expected(filter, stride, prev, out, i) = Prediction(filter, a, prev[i], c)
  BY DEF Expected
<1>5. ASSUME NEW u, \A j \in 1 .. m : u[j] = out[j]
      PROVE  Expected(filter, stride, prev, u, i) = Expected(filter, stride, prev, out, i)
  <2>1. (IF i > stride THEN u[i - stride] ELSE 0) = a
    BY <1>2, <1>5
  <2> HIDE DEF a
  <2> QED
    BY <1>4, <2>1 DEF Expected
<1> HIDE DEF a, c
<1>6. Prediction(filter, a, prev[i], c) \in Byte
  <2>1. PICK b \in Byte : b = prev[i]
    BY <1>3
  <2>2. Prediction(filter, a, b, c) \in Byte
    BY <1>3, PredictionIs
  <2> QED
    BY <2>1, <2>2
<1> QED
  BY <1>4, <1>5, <1>6

(* Unfiltered is the function its recursion asks for. *)
LEMMA UnfilteredIs ==
  ASSUME NEW filter \in 0 .. 4, NEW stride \in Nat \ {0}, NEW n \in Nat,
         NEW in, Sized(in, n, Byte), NEW prev, Sized(prev, n, Byte)
  PROVE  IsUnfiltered(Unfiltered(filter, stride, in, prev), filter, stride, in, prev, n)
<1> DEFINE Byt(u, i) == (in[i] + Expected(filter, stride, prev, u, i)) % Base
           Good(m) == \E g : IsUnfiltered(g, filter, stride, in, prev, m)
           G == {m \in 0 .. n : Good(m)}
           out == CHOOSE u : u = [i \in 1 .. Len(in) |-> Byt(u, i)]
<1>1. Unfiltered(filter, stride, in, prev) = out
  BY DEF Unfiltered, Expected
<1>2. Len(in) = n /\ \A i \in 1 .. n : in[i] \in Byte
  BY FunctionIsSeq DEF Sized
<1>3. Good(0)
  <2>1. [i \in 1 .. 0 |-> 0] \in [1 .. 0 -> Byte] /\ 1 .. 0 = {}
    OBVIOUS
  <2>2. IsUnfiltered([i \in 1 .. 0 |-> 0], filter, stride, in, prev, 0)
    BY <2>1 DEF IsUnfiltered
  <2> QED
    BY <2>2
<1>4. ASSUME NEW i \in 1 .. n, Good(i - 1) PROVE Good(i)
  <2>1. PICK m \in Nat : m = i - 1
    OBVIOUS
  <2>2. PICK g : IsUnfiltered(g, filter, stride, in, prev, m)
    BY <1>4, <2>1
  <2>3. Sized(g, m, Byte) /\ \A j \in 1 .. m : g[j] = Byt(g, j)
    BY <2>2 DEF IsUnfiltered, Sized
  <2> DEFINE u == [j \in 1 .. i |-> IF j <= m THEN g[j] ELSE Byt(g, i)]
  <2>4. u \in [1 .. i -> Byte] /\ (\A j \in 1 .. m : u[j] = g[j]) /\ u[i] = Byt(g, i)
    <3>1. Expected(filter, stride, prev, g, i) \in Byte
      BY <2>1, <2>3, ExpectedIs
    <3>2. PICK e \in Byte, v \in Byte : e = Expected(filter, stride, prev, g, i) /\ v = in[i]
      BY <1>2, <3>1
    <3>3. (v + e) % Base \in Byte
      BY AddedBack
    <3>4. Byt(g, i) \in Byte
      BY <3>2, <3>3
    <3>5. \A j \in 1 .. m : g[j] \in Byte
      BY <2>3 DEF Sized
    <3> HIDE DEF Byt
    <3> QED
      BY <2>1, <3>4, <3>5
  <2>5. ASSUME NEW j \in 1 .. i PROVE u[j] = Byt(u, j)
    <3> HIDE DEF u
    <3>1. j <= m + 1 /\ j \in 1 .. n
      BY <2>1
    <3>2. Expected(filter, stride, prev, u, j) = Expected(filter, stride, prev, g, j)
      BY <2>3, <2>4, <3>1, ExpectedIs
    <3>3. j \in 1 .. m \/ j = i
      BY <2>1
    <3> QED
      BY <2>3, <2>4, <3>2, <3>3
  <2> HIDE DEF u
  <2>6. IsUnfiltered(u, filter, stride, in, prev, i)
    BY <2>4, <2>5 DEF IsUnfiltered
  <2> QED
    BY <2>6
<1> HIDE DEF Good
<1>5. 0 \in G /\ \A i \in 1 .. n : i - 1 \in G => i \in G
  BY <1>3, <1>4
<1> HIDE DEF G
<1>6. \A i \in 0 .. n : i \in G
  BY <1>5, UpTo
<1>7. Good(n)
  BY <1>6 DEF G
<1>8. PICK g : IsUnfiltered(g, filter, stride, in, prev, n)
  BY <1>7 DEF Good
<1>9. g = [i \in 1 .. Len(in) |-> Byt(g, i)]
  BY <1>2, <1>8 DEF IsUnfiltered
<1> HIDE DEF Byt
<1>10. out = [i \in 1 .. Len(in) |-> Byt(out, i)]
  BY <1>9
<1> HIDE DEF out
<1>11. out = [i \in 1 .. n |-> Byt(out, i)] /\ \A i \in 1 .. n : out[i] = Byt(out, i)
  BY <1>2, <1>10
<1>12. \A i \in 0 .. n : \A j \in 1 .. i : out[j] \in Byte
  <2> DEFINE H == {m \in 0 .. n : \A j \in 1 .. m : out[j] \in Byte}
  <2>1. ASSUME NEW i \in 1 .. n, i - 1 \in H PROVE i \in H
    <3>1. PICK m \in Nat : m = i - 1
      OBVIOUS
    <3> DEFINE u == [j \in 1 .. m |-> out[j]]
    <3>2. Sized(u, m, Byte) /\ \A j \in 1 .. m : out[j] = u[j]
      BY <2>1, <3>1 DEF Sized
    <3> HIDE DEF u
    <3>3. Expected(filter, stride, prev, u, i) \in Byte
          /\ Expected(filter, stride, prev, out, i) = Expected(filter, stride, prev, u, i)
      BY <3>1, <3>2, ExpectedIs
    <3>4. PICK e \in Byte, v \in Byte : e = Expected(filter, stride, prev, out, i) /\ v = in[i]
      BY <1>2, <3>3
    <3>5. (v + e) % Base \in Byte
      BY AddedBack
    <3>6. out[i] \in Byte
      BY <1>11, <3>4, <3>5 DEF Byt
    <3>7. \A j \in 1 .. i : j = i \/ j \in 1 .. i - 1
      OBVIOUS
    <3> QED
      BY <2>1, <3>6, <3>7
  <2>2. 0 \in H
    OBVIOUS
  <2> HIDE DEF H
  <2>3. \A i \in 0 .. n : i \in H
    BY <2>1, <2>2, UpTo
  <2> QED
    BY <2>3 DEF H
<1>13. out \in [1 .. n -> Byte]
  BY <1>11, <1>12
<1> QED
  BY <1>1, <1>11, <1>13 DEF IsUnfiltered, Byt

(* A line that was filtered by the standard is had back. *)
LEMMA HadBack ==
  ASSUME NEW filter \in 0 .. 4, NEW stride \in Nat \ {0}, NEW n \in Nat,
         NEW line, Sized(line, n, Byte), NEW prev, Sized(prev, n, Byte),
         NEW in, \A i \in 1 .. n : in[i] = Filtered(filter, line, prev, stride)[i],
         NEW out, IsUnfiltered(out, filter, stride, in, prev, n)
  PROVE  out = line
<1>1. /\ out \in [1 .. n -> Byte] /\ line \in [1 .. n -> Byte]
      /\ \A i \in 1 .. n : out[i] = (in[i] + Expected(filter, stride, prev, out, i)) % Base
  BY DEF IsUnfiltered, Sized
<1> DEFINE G == {m \in 0 .. n : \A j \in 1 .. m : out[j] = line[j]}
<1>2. 0 \in G
  OBVIOUS
<1>3. ASSUME NEW i \in 1 .. n, i - 1 \in G PROVE i \in G
  <2>1. PICK m \in Nat : m = i - 1
    OBVIOUS
  <2>2. \A j \in 1 .. m : out[j] = line[j]
    BY <1>3, <2>1
  <2> DEFINE a == IF i > stride THEN line[i - stride] ELSE 0
             c == IF i > stride THEN prev[i - stride] ELSE 0
             b == prev[i]
  <2>3. Expected(filter, stride, prev, out, i) = Prediction(filter, a, b, c)
    <3>1. (IF i > stride THEN out[i - stride] ELSE 0) = a
      <4>1. i > stride => i - stride \in 1 .. m
        BY <2>1
      <4> QED
        BY <2>2, <4>1
    <3> HIDE DEF a
    <3> QED
      BY <3>1 DEF Expected
  <2>4. in[i] = (line[i] - <<0, a, b, (a + b) \div 2, Nearest(a, b, c)>>[filter + 1]) % Base
    <3>1. DOMAIN line = 1 .. n
      BY <1>1
    <3>2. Filtered(filter, line, prev, stride)[i]
            = (line[i] - <<0, a, b, (a + b) \div 2, Nearest(a, b, c)>>[filter + 1]) % Base
      BY <3>1 DEF Filtered
    <3> QED
      BY <3>2
  <2>5. a \in Byte /\ b \in Byte /\ c \in Byte /\ line[i] \in Byte
    <3>1. i > stride => i - stride \in 1 .. n
      OBVIOUS
    <3>2. 0 \in Byte
      BY BaseIs DEF Byte
    <3> QED
      BY <1>1, <3>1, <3>2 DEF Sized
  <2> HIDE DEF a, b, c
  <2>6. /\ Prediction(filter, a, b, c) \in Byte
        /\ <<0, a, b, (a + b) \div 2, Nearest(a, b, c)>>[filter + 1] = Prediction(filter, a, b, c)
    BY <2>5, PredictionIs
  <2>7. PICK v \in Byte, p \in Byte : v = line[i] /\ p = Prediction(filter, a, b, c)
    BY <2>5, <2>6
  <2>8. (((v - p) % Base) + p) % Base = v
    BY AddedBack
  <2>9. in[i] = (v - p) % Base
    BY <2>4, <2>6, <2>7
  <2>10. out[i] = (in[i] + p) % Base
    BY <1>1, <2>3, <2>7
  <2>11. out[i] = line[i]
    BY <2>7, <2>8, <2>9, <2>10
  <2>12. \A j \in 1 .. i : j = i \/ j \in 1 .. m
    BY <2>1
  <2> QED
    BY <2>2, <2>11, <2>12
<1> HIDE DEF G
<1>4. \A i \in 0 .. n : i \in G
  BY <1>2, <1>3, UpTo
<1>5. \A i \in 1 .. n : out[i] = line[i]
  BY <1>4 DEF G
<1> QED
  BY <1>1, <1>5

(* The bytes of the lines of an image, k the number of a line from 1. *)
At(data, junk, i) == IF i <= Len(data) THEN data[i] ELSE junk
TypeAt(data, junk, line, k) == At(data, junk, (k - 1) * (line + 1) + 1)
InAt(data, junk, line, k) == [i \in 1 .. line |-> At(data, junk, (k - 1) * (line + 1) + 1 + i)]

Inputs(data, junk, line, h) ==
  \A k \in 1 .. h : TypeAt(data, junk, line, k) \in 0 .. 4 /\ Sized(InAt(data, junk, line, k), line, Byte)

(* The lines of png_unfilter. *)
IsLines(lines, data, junk, stride, line, h) ==
  /\ lines \in [0 .. h -> [1 .. line -> Byte]]
  /\ lines[0] = [i \in 1 .. line |-> 0]
  /\ \A k \in 1 .. h :
       IsUnfiltered(lines[k], TypeAt(data, junk, line, k), stride, InAt(data, junk, line, k),
                    lines[k - 1], line)

UnfilterDone(d, data, junk, stride, line, h) ==
  \E lines : /\ IsLines(lines, data, junk, stride, line, h)
             /\ d = FlattenSeq([k \in 1 .. h |-> lines[k]])

(* The numbers of a header: bytes per pixel, bytes per line, lines. *)
IsHeader(ihdr, stride, line, h) ==
  /\ stride \in Nat \ {0} /\ line \in Nat /\ h \in Nat
  /\ bpp(ihdr) = stride /\ ihdr.width * bpp(ihdr) = line /\ ihdr.height = h

(* The lines are unfiltered one after the other. *)
LEMMA LinesAre ==
  ASSUME NEW ihdr, NEW data, NEW junk,
         IsHeader(ihdr, bpp(ihdr), ihdr.width * bpp(ihdr), ihdr.height),
         Inputs(data, junk, ihdr.width * bpp(ihdr), ihdr.height)
  PROVE  UnfilterDone(png_unfilter(ihdr, data, junk), data, junk,
                      bpp(ihdr), ihdr.width * bpp(ihdr), ihdr.height)
<1> DEFINE stride == bpp(ihdr)
           line == ihdr.width * bpp(ihdr)
           h == ihdr.height
<1> DEFINE S == [1 .. line -> Byte]
           start == [i \in 1 .. line |-> 0]
           Ty(k) == TypeAt(data, junk, line, k)
           In(k) == InAt(data, junk, line, k)
           lines == CHOOSE f : f = [k \in 0 .. h |-> IF k = 0 THEN start
                                     ELSE Unfiltered(Ty(k), stride, In(k), f[k - 1])]
           T == [k \in 1 .. h |-> [v \in S |-> Unfiltered(Ty(k), stride, In(k), v)]]
<1>1. \A k \in 1 .. h : Ty(k) \in 0 .. 4 /\ Sized(In(k), line, Byte)
  BY DEF Inputs
<1>0. stride \in Nat \ {0} /\ line \in Nat /\ h \in Nat
  BY DEF IsHeader
<1>2. png_unfilter(ihdr, data, junk) = FlattenSeq([k \in 1 .. h |-> lines[k]])
  <2>1. png_unfilter(ihdr, data, junk) = IF \E k \in 1 .. h : Ty(k) > 4 THEN NULL
                                         ELSE FlattenSeq([k \in 1 .. h |-> lines[k]])
    BY DEF png_unfilter, TypeAt, InAt, At
  <2>2. ~ \E k \in 1 .. h : Ty(k) > 4
    <3> HIDE DEF Ty
    <3> QED
      BY <1>1
  <2> HIDE DEF lines, Ty
  <2> QED
    BY <2>1, <2>2
<1>17. SUFFICES \E u : IsLines(u, data, junk, stride, line, h) /\ u = lines
  <2> HIDE DEF stride, line, h, lines
  <2> QED
    BY <1>2 DEF UnfilterDone, stride, line, h
<1> HIDE DEF Ty, In, stride, line, h
<1>3. ASSUME NEW k \in 1 .. h, NEW v \in S
      PROVE  /\ IsUnfiltered(Unfiltered(Ty(k), stride, In(k), v), Ty(k), stride, In(k), v, line)
             /\ Unfiltered(Ty(k), stride, In(k), v) \in S
  <2>1. Sized(v, line, Byte)
    BY <1>3 DEF Sized
  <2>2. PICK filter, in : filter \in 0 .. 4 /\ filter = Ty(k) /\ in = In(k) /\ Sized(in, line, Byte)
    BY <1>1
  <2>3. IsUnfiltered(Unfiltered(filter, stride, in, v), filter, stride, in, v, line)
    BY <1>0, <2>1, <2>2, UnfilteredIs
  <2> QED
    BY <2>2, <2>3 DEF IsUnfiltered
<1>4. start \in S
  BY BaseIs DEF Byte
<1> HIDE DEF S
<1>5. Steps(T, h, S)
  BY <1>0, <1>3 DEF Steps
<1>6. \A k \in 1 .. h : \A v \in S : T[k][v] = Unfiltered(Ty(k), stride, In(k), v)
  OBVIOUS
<1> HIDE DEF T, start
<1>7. PICK f : Run(f, start, T, h, S)
  BY <1>0, <1>4, <1>5, Loop
<1>8. /\ f \in [0 .. h -> S] /\ f[0] = start
      /\ \A k \in 1 .. h : f[k - 1] \in S /\ f[k] = Unfiltered(Ty(k), stride, In(k), f[k - 1])
  <2>1. f \in [0 .. h -> S] /\ f[0] = start /\ \A k \in 1 .. h : f[k] = T[k][f[k - 1]]
    BY <1>7 DEF Run
  <2>2. \A k \in 1 .. h : f[k - 1] \in S
    BY <1>0, <2>1
  <2> QED
    BY <1>0, <1>6, <2>1, <2>2
<1>9. f = [k \in 0 .. h |-> IF k = 0 THEN start ELSE Unfiltered(Ty(k), stride, In(k), f[k - 1])]
  <2>1. ASSUME NEW k \in 0 .. h
        PROVE  f[k] = IF k = 0 THEN start ELSE Unfiltered(Ty(k), stride, In(k), f[k - 1])
    <3>1. k # 0 => k \in 1 .. h
      BY <1>0
    <3> QED
      BY <1>0, <1>8, <3>1
  <2> QED
    BY <1>8, <2>1
<1>10. lines = [k \in 0 .. h |-> IF k = 0 THEN start
                                 ELSE Unfiltered(Ty(k), stride, In(k), lines[k - 1])]
  BY <1>9
<1> HIDE DEF lines
<1>11. /\ DOMAIN lines = 0 .. h /\ lines = [k \in 0 .. h |-> lines[k]]
       /\ lines[0] = start
       /\ \A k \in 1 .. h : lines[k] = Unfiltered(Ty(k), stride, In(k), lines[k - 1])
  <2>1. DOMAIN lines = 0 .. h /\ lines = [k \in 0 .. h |-> lines[k]]
    BY <1>10
  <2>2. lines[0] = start
    BY <1>0, <1>10
  <2>3. ASSUME NEW k \in 1 .. h
        PROVE  lines[k] = Unfiltered(Ty(k), stride, In(k), lines[k - 1])
    <3>1. k \in 0 .. h /\ k # 0
      BY <1>0
    <3> QED
      BY <1>0, <1>10, <3>1
  <2> QED
    BY <2>1, <2>2, <2>3
<1> DEFINE G == {k \in 0 .. h : lines[k] \in S}
<1>12. 0 \in G /\ \A k \in 1 .. h : k - 1 \in G => k \in G
  <2>1. 0 \in G
    BY <1>0, <1>4, <1>11
  <2>2. ASSUME NEW k \in 1 .. h, lines[k - 1] \in S PROVE lines[k] \in S
    BY <1>3, <1>11, <2>2
  <2> QED
    BY <1>0, <2>1, <2>2
<1> HIDE DEF G
<1>13. \A k \in 0 .. h : k \in G
  BY <1>0, <1>12, UpTo
<1>14. \A k \in 0 .. h : lines[k] \in S
  BY <1>13 DEF G
<1>15. lines \in [0 .. h -> S]
  BY <1>11, <1>14
<1>16. ASSUME NEW k \in 1 .. h
       PROVE  IsUnfiltered(lines[k], Ty(k), stride, In(k), lines[k - 1], line)
  <2>1. lines[k - 1] \in S
    BY <1>0, <1>14
  <2> QED
    BY <1>0, <1>3, <1>11, <2>1
<1>18. IsLines(lines, data, junk, stride, line, h)
  BY <1>11, <1>15, <1>16 DEF IsLines, S, start, Ty, In
<1> QED
  BY <1>18

(* Data, or junk behind its end, are bytes. *)
LEMMA AtIs ==
  ASSUME NEW data \in Seq(Byte), NEW junk \in Byte, NEW line \in Nat, NEW k \in Nat \ {0}
  PROVE  TypeAt(data, junk, line, k) \in Byte /\ Sized(InAt(data, junk, line, k), line, Byte)
<1>1. \A i \in Nat \ {0} : At(data, junk, i) \in Byte
  BY DEF At
<1>2. PICK p \in Nat : p = (k - 1) * (line + 1)
  <2>1. PICK d \in Nat : d = k - 1
    OBVIOUS
  <2>2. d * (line + 1) \in Nat
    BY <2>1
  <2> QED
    BY <2>1, <2>2
<1>3. p + 1 \in Nat \ {0} /\ \A i \in 1 .. line : p + 1 + i \in Nat \ {0}
  OBVIOUS
<1>4. TypeAt(data, junk, line, k) \in Byte
  BY <1>1, <1>2, <1>3 DEF TypeAt
<1>5. ASSUME NEW i \in 1 .. line PROVE At(data, junk, (k - 1) * (line + 1) + 1 + i) \in Byte
  BY <1>1, <1>2, <1>3
<1>6. InAt(data, junk, line, k) \in [1 .. line -> Byte]
  BY <1>5 DEF InAt
<1> QED
  BY <1>4, <1>6 DEF Sized

(* Whatever the bytes are: an error, or the bytes of the lines. *)
LEMMA UnfilterTyped ==
  ASSUME NEW ihdr, NEW stride, NEW line, NEW h, IsHeader(ihdr, stride, line, h),
         NEW data \in Seq(Byte), NEW junk \in Byte
  PROVE  png_unfilter(ihdr, data, junk) \in [1 .. h * line -> Byte] \cup {NULL}
<1>0. /\ stride \in Nat \ {0} /\ line \in Nat /\ h \in Nat
      /\ bpp(ihdr) = stride /\ ihdr.width * bpp(ihdr) = line /\ ihdr.height = h
  BY DEF IsHeader
<1>1. CASE \E k \in 1 .. h : TypeAt(data, junk, line, k) > 4
  BY <1>0, <1>1 DEF png_unfilter, TypeAt, At
<1>2. CASE ~ \E k \in 1 .. h : TypeAt(data, junk, line, k) > 4
  <2>1. Inputs(data, junk, line, h)
    <3>1. ASSUME NEW k \in 1 .. h
          PROVE  TypeAt(data, junk, line, k) \in 0 .. 4 /\ Sized(InAt(data, junk, line, k), line, Byte)
      <4>1. TypeAt(data, junk, line, k) \in Byte /\ Sized(InAt(data, junk, line, k), line, Byte)
        BY <1>0, AtIs
      <4>2. PICK b \in Byte : b = TypeAt(data, junk, line, k)
        BY <4>1
      <4>3. b \in 0 .. 4
        BY <1>2, <4>2, BaseIs DEF Byte
      <4> QED
        BY <4>1, <4>2, <4>3
    <3> QED
      BY <3>1 DEF Inputs
  <2>2. PICK lines : /\ IsLines(lines, data, junk, stride, line, h)
                     /\ png_unfilter(ihdr, data, junk) = FlattenSeq([k \in 1 .. h |-> lines[k]])
    <3>1. UnfilterDone(png_unfilter(ihdr, data, junk), data, junk, stride, line, h)
      BY <1>0, <2>1, LinesAre
    <3> QED
      BY <3>1 DEF UnfilterDone
  <2> DEFINE s == [k \in 1 .. h |-> lines[k]]
  <2>3. Rows(s, h, line, Byte)
    BY <1>0, <2>2 DEF Rows, IsLines
  <2> HIDE DEF s
  <2>4. Joins(FlattenSeq(s), s, h, line, Byte)
    BY <1>0, <2>3, Flattened
  <2> QED
    BY <2>2, <2>4 DEF Joins, s
<1> QED
  BY <1>1, <1>2

-----------------------------------------------------------------------------
(* Chunks. *)

(* The states of the reader; what inflate is given. *)
Png == [rc : {"no error", "error", "done"}, data : Seq(Byte), zs : {"none", "open", "ended"}]
Input == Seq(Byte \cup {StreamEnd})

(* e is where the stream ends, 0 if it does not. *)
EndsAt(in, e) ==
  /\ e \in 0 .. Len(in)
  /\ e = 0 => \A i \in 1 .. Len(in) : in[i] # StreamEnd
  /\ e # 0 => in[e] = StreamEnd /\ \A i \in 1 .. e - 1 : in[i] # StreamEnd

FirstEnd(in) == SelectInSeq(in, LAMBDA b : b = StreamEnd)

(* SelectInSeq finds the first end. *)
LEMMA SelectIs ==
  ASSUME NEW in, Len(in) \in Nat, NEW e, e = FirstEnd(in)
  PROVE  EndsAt(in, e)
<1> DEFINE I == {i \in 1 .. Len(in) : in[i] = StreamEnd}
<1>1. e = IF I # {} THEN CHOOSE x \in I : \A y \in I : x <= y ELSE 0
  BY DEF FirstEnd, SelectInSeq, Min
<1>2. CASE I = {}
  BY <1>1, <1>2 DEF EndsAt
<1>3. CASE I # {}
  <2>1. I \subseteq Nat
    OBVIOUS
  <2> DEFINE Least(x) == \A y \in I : x <= y
  <2>2. \E x \in I : Least(x)
    BY <1>3, <2>1, Smallest
  <2>3. e = CHOOSE x \in I : Least(x)
    BY <1>1, <1>3
  <2> HIDE DEF Least
  <2>4. e \in I /\ Least(e)
    BY <2>2, <2>3
  <2>5. e \in 1 .. Len(in) /\ in[e] = StreamEnd
    BY <2>4
  <2>6. ASSUME NEW i \in 1 .. e - 1, in[i] = StreamEnd PROVE FALSE
    <3>1. i \in I /\ i < e
      BY <2>5, <2>6
    <3>2. e <= i
      BY <2>4, <3>1 DEF Least
    <3> QED
      BY <2>5, <3>1, <3>2
  <2> QED
    BY <2>5, <2>6 DEF EndsAt
<1> QED
  BY <1>2, <1>3

(* The bytes before the end of the stream. *)
Body(in, e) == IF e = 0 THEN in ELSE SubSeq(in, 1, e - 1)

(* What stands before the end. *)
LEMMA BodyIs ==
  ASSUME NEW in \in Input, NEW e, EndsAt(in, e)
  PROVE  /\ Body(in, e) \in Seq(Byte)
         /\ Len(Body(in, e)) = IF e = 0 THEN Len(in) ELSE e - 1
         /\ \A i \in 1 .. Len(Body(in, e)) : Body(in, e)[i] = in[i]
<1>1. Len(in) \in Nat /\ \A i \in 1 .. Len(in) : in[i] \in Byte \cup {StreamEnd}
  BY DEF Input
<1>2. CASE e = 0
  <2>1. \A i \in 1 .. Len(in) : in[i] \in Byte
    BY <1>1, <1>2 DEF EndsAt
  <2>2. in \in [1 .. Len(in) -> Byte]
    BY <2>1 DEF Input
  <2>3. in \in Seq(Byte)
    BY <1>1, <2>2, FunctionIsSeq
  <2> QED
    BY <1>2, <2>3 DEF Body
<1>3. CASE e # 0
  <2>1. e \in 1 .. Len(in) /\ \A i \in 1 .. e - 1 : in[i] \in Byte
    <3>1. e \in 1 .. Len(in)
      BY <1>1, <1>3 DEF EndsAt
    <3>2. ASSUME NEW i \in 1 .. e - 1 PROVE in[i] \in Byte
      <4>1. i \in 1 .. Len(in) /\ in[i] # StreamEnd
        BY <1>1, <1>3, <3>1 DEF EndsAt
      <4> QED
        BY <1>1, <4>1
    <3> QED
      BY <3>1, <3>2
  <2>2. PICK m \in Int : m = e - 1 /\ m >= 0
    BY <2>1
  <2>3. /\ SubSeq(in, 1, m) \in Seq(Byte)
        /\ Len(SubSeq(in, 1, m)) = IF 1 <= m THEN m - 1 + 1 ELSE 0
        /\ \A i \in 1 .. m - 1 + 1 : SubSeq(in, 1, m)[i] = in[1 + i - 1]
    BY <2>1, <2>2, SubSeqProperties
  <2>4. Len(SubSeq(in, 1, m)) = m /\ \A i \in 1 .. m : SubSeq(in, 1, m)[i] = in[i]
    <3>1. (m - 1) + 1 = m /\ \A i \in 1 .. m : (1 + i) - 1 = i
      BY <2>2
    <3> QED
      BY <2>2, <2>3, <3>1
  <2>5. Body(in, e) = SubSeq(in, 1, m)
    BY <1>3, <2>2 DEF Body
  <2> QED
    BY <1>3, <2>2, <2>3, <2>4, <2>5
<1> QED
  BY <1>2, <1>3

(* The three outcomes of png_inflate. *)
IsInflated(png2, png, datalen, in, e) ==
  png2 = IF png.zs = "ended" THEN IF in = <<>> THEN png ELSE Failed(png)
         ELSE IF \/ in = <<>> \/ e \notin {0, Len(in)}
                 \/ Len(png.data) + Len(Body(in, e)) > datalen
         THEN Failed(png)
         ELSE [png EXCEPT !.data = png.data \o Body(in, e),
                          !.zs = IF e = 0 THEN "open" ELSE "ended"]

(* png_inflate, with the place of the end as a parameter. *)
LEMMA InflateIs ==
  ASSUME NEW png \in Png, NEW datalen, NEW in \in Input
  PROVE  \E e : /\ EndsAt(in, e)
                /\ IsInflated(png_inflate(png, datalen, in), png, datalen, in, e)
                /\ png_inflate(png, datalen, in) \in Png
                /\ png_inflate(png, datalen, in).rc \in {png.rc, "error"}
<1> DEFINE e == FirstEnd(in)
<1>1. png_inflate(png, datalen, in) =
        IF png.zs = "ended" THEN IF in = <<>> THEN png ELSE Failed(png)
        ELSE IF \/ in = <<>> \/ e \notin {0, Len(in)}
                \/ Len(png.data) + Len(Body(in, e)) > datalen
        THEN Failed(png)
        ELSE [png EXCEPT !.data = png.data \o Body(in, e),
                         !.zs = IF e = 0 THEN "open" ELSE "ended"]
  BY DEF png_inflate, Body, FirstEnd
<1>2. EndsAt(in, e)
  BY SelectIs DEF Input
<1> HIDE DEF e
<1>3. Body(in, e) \in Seq(Byte)
  BY <1>2, BodyIs
<1>4. png.data \o Body(in, e) \in Seq(Byte)
  BY <1>3, ConcatProperties DEF Png
<1>5. Failed(png) \in Png /\ Failed(png).rc = "error"
  BY DEF Png, Failed
<1>6. /\ [png EXCEPT !.data = png.data \o Body(in, e), !.zs = IF e = 0 THEN "open" ELSE "ended"] \in Png
      /\ [png EXCEPT !.data = png.data \o Body(in, e), !.zs = IF e = 0 THEN "open" ELSE "ended"].rc = png.rc
  BY <1>4 DEF Png
<1>7. png_inflate(png, datalen, in) \in Png /\ png_inflate(png, datalen, in).rc \in {png.rc, "error"}
  BY <1>1, <1>5, <1>6
<1>8. IsInflated(png_inflate(png, datalen, in), png, datalen, in, e)
  BY <1>1 DEF IsInflated
<1> QED
  BY <1>2, <1>7, <1>8

(* What a chunk does to the reader. *)
LEMMA ChunkTyped ==
  ASSUME NEW png \in Png, NEW ihdr, NEW chunk \in Chunk
  PROVE  /\ png_process_chunk(png, ihdr, chunk) \in Png
         /\ chunk.type # "IEND" => png_process_chunk(png, ihdr, chunk).rc \in {png.rc, "error"}
         /\ chunk.type = "IEND" => png_process_chunk(png, ihdr, chunk) = [png EXCEPT !.rc = "done"]
         /\ chunk.type = "IDAT" /\ chunk.crc =>
              png_process_chunk(png, ihdr, chunk) = png_inflate(png, png_datalen(ihdr), chunk.data)
         /\ chunk.type \notin {"IDAT", "IEND"} => png_process_chunk(png, ihdr, chunk) = png
<1>1. chunk.data \in Input /\ chunk.crc \in BOOLEAN
  BY DEF Chunk, Input
<1>2. CASE chunk.type = "IDAT" /\ chunk.crc
  <2>1. png_process_chunk(png, ihdr, chunk) = png_inflate(png, png_datalen(ihdr), chunk.data)
    BY <1>2 DEF png_process_chunk
  <2>2. PICK datalen, in : datalen = png_datalen(ihdr) /\ in = chunk.data
    OBVIOUS
  <2>3. in \in Input
    BY <1>1, <2>2
  <2>4. /\ png_inflate(png, datalen, in) \in Png
        /\ png_inflate(png, datalen, in).rc \in {png.rc, "error"}
    BY <2>3, InflateIs
  <2> QED
    BY <1>2, <2>1, <2>2, <2>4
<1>3. CASE chunk.type = "IDAT" /\ ~chunk.crc
  <2>1. png_process_chunk(png, ihdr, chunk) = Failed(png)
    BY <1>3 DEF png_process_chunk
  <2> QED
    BY <1>3, <2>1 DEF Failed, Png
<1>4. CASE chunk.type = "IEND"
  <2>1. png_process_chunk(png, ihdr, chunk) = [png EXCEPT !.rc = "done"]
    BY <1>4 DEF png_process_chunk
  <2> QED
    BY <1>4, <2>1 DEF Png
<1>5. CASE chunk.type \notin {"IDAT", "IEND"}
  <2>1. png_process_chunk(png, ihdr, chunk) = png
    BY <1>5 DEF png_process_chunk
  <2> QED
    BY <1>5, <2>1
<1> QED
  BY <1>2, <1>3, <1>4, <1>5

(* The reader after each chunk. *)
IsRead(f, file, n) ==
  /\ f \in [0 .. n -> Png]
  /\ f[0] = NoData
  /\ \A k \in 1 .. n :
       f[k] = IF f[k - 1].rc # "no error" THEN f[k - 1]
              ELSE png_process_chunk(f[k - 1], file.ihdr, file.chunks[k])

(* AllChunks is a loop over the chunks. *)
LEMMA AllChunksAre ==
  ASSUME NEW file, file.chunks \in Seq(Chunk), NEW n, n = Len(file.chunks)
  PROVE  \E f : IsRead(f, file, n) /\ AllChunks(file) = f[n]
<1> DEFINE Step(k, v) == IF v.rc # "no error" THEN v
                         ELSE png_process_chunk(v, file.ihdr, file.chunks[k])
           after == CHOOSE f : f = [k \in 0 .. Len(file.chunks) |->
                                      IF k = 0 THEN NoData ELSE Step(k, f[k - 1])]
           T == [k \in 1 .. n |-> [v \in Png |-> Step(k, v)]]
<1>1. AllChunks(file) = after[Len(file.chunks)]
  BY DEF AllChunks
<1>2. n \in Nat /\ \A k \in 1 .. n : file.chunks[k] \in Chunk
  OBVIOUS
<1>3. NoData \in Png
  <2>1. <<>> \in Seq(Byte)
    OBVIOUS
  <2> QED
    BY <2>1 DEF NoData, Png
<1>4. ASSUME NEW k \in 1 .. n, NEW v \in Png PROVE Step(k, v) \in Png
  <2>1. PICK c \in Chunk : c = file.chunks[k]
    BY <1>2
  <2>2. png_process_chunk(v, file.ihdr, c) \in Png
    BY ChunkTyped
  <2> QED
    BY <2>1, <2>2
<1> HIDE DEF Step
<1>5. Steps(T, n, Png)
  BY <1>4 DEF Steps
<1>6. \A k \in 1 .. n : \A v \in Png : T[k][v] = Step(k, v)
  OBVIOUS
<1> HIDE DEF T
<1>7. PICK f : Run(f, NoData, T, n, Png)
  BY <1>2, <1>3, <1>5, Loop
<1>8. /\ f \in [0 .. n -> Png] /\ f[0] = NoData
      /\ \A k \in 1 .. n : f[k] = Step(k, f[k - 1])
  <2>1. f \in [0 .. n -> Png] /\ f[0] = NoData /\ \A k \in 1 .. n : f[k] = T[k][f[k - 1]]
    BY <1>7 DEF Run
  <2>2. \A k \in 1 .. n : f[k - 1] \in Png
    BY <1>2, <2>1
  <2> QED
    BY <1>6, <2>1, <2>2
<1>9. f = [k \in 0 .. Len(file.chunks) |-> IF k = 0 THEN NoData ELSE Step(k, f[k - 1])]
  <2>1. ASSUME NEW k \in 0 .. n PROVE f[k] = IF k = 0 THEN NoData ELSE Step(k, f[k - 1])
    <3>1. k # 0 => k \in 1 .. n
      BY <1>2
    <3> QED
      BY <1>8, <3>1
  <2> QED
    BY <1>8, <2>1
<1>10. after = [k \in 0 .. Len(file.chunks) |-> IF k = 0 THEN NoData ELSE Step(k, after[k - 1])]
  BY <1>9
<1> HIDE DEF after
<1>11. /\ DOMAIN after = 0 .. n /\ after = [k \in 0 .. n |-> after[k]] /\ after[0] = NoData
       /\ \A k \in 1 .. n : after[k] = Step(k, after[k - 1])
  <2>1. DOMAIN after = 0 .. n /\ after = [k \in 0 .. n |-> after[k]]
    BY <1>10
  <2>2. after[0] = NoData
    BY <1>2, <1>10
  <2>3. ASSUME NEW k \in 1 .. n PROVE after[k] = Step(k, after[k - 1])
    <3>1. k \in 0 .. n /\ k # 0
      BY <1>2
    <3> QED
      BY <1>10, <3>1
  <2> QED
    BY <2>1, <2>2, <2>3
<1> DEFINE G == {k \in 0 .. n : after[k] \in Png}
<1>12. 0 \in G /\ \A k \in 1 .. n : k - 1 \in G => k \in G
  <2>1. 0 \in G
    BY <1>2, <1>3, <1>11
  <2>2. ASSUME NEW k \in 1 .. n, after[k - 1] \in Png PROVE after[k] \in Png
    BY <1>4, <1>11, <2>2
  <2> QED
    BY <1>2, <2>1, <2>2
<1> HIDE DEF G
<1>13. \A k \in 0 .. n : k \in G
  BY <1>2, <1>12, UpTo
<1>14. after \in [0 .. n -> Png]
  BY <1>11, <1>13 DEF G
<1>15. IsRead(after, file, n)
  BY <1>11, <1>14 DEF IsRead, Step
<1> QED
  BY <1>1, <1>15

(* Bytes per pixel. *)
LEMMA ChannelsAre == Channels[PNG_TRUECOLOR] = 3 /\ Channels[PNG_TRUECOLOR_ALPHA] = 4
BY DEF Channels, PNG_GREYSCALE, PNG_TRUECOLOR, PNG_INDEXED, PNG_GREYSCALE_ALPHA, PNG_TRUECOLOR_ALPHA

(* The header of a file that read_image accepts. *)
IsAccepted(file, w, h, n) ==
  /\ w \in Color /\ h \in Color /\ Countable(w, h)
  /\ file.ihdr.width = w /\ file.ihdr.height = h
  /\ \/ n = 3 /\ file.ihdr.color_type = PNG_TRUECOLOR
     \/ n = 4 /\ file.ihdr.color_type = PNG_TRUECOLOR_ALPHA

(* A file that gets past read_image's tests has one of two colour types. *)
LEMMA AcceptedIs ==
  ASSUME NEW file, IsFile(file), Opens(file), IsTruecolor(file.ihdr)
  PROVE  \E w, h, n : IsAccepted(file, w, h, n)
BY DEF IsFile, IsTruecolor, IsAccepted

(* The sizes that follow from the header; none wraps around. *)
LEMMA HeaderIs ==
  ASSUME NEW file, NEW w, NEW h, NEW n, IsAccepted(file, w, h, n)
  PROVE  /\ n \in Nat \ {0} /\ w \in Nat /\ h \in Nat /\ w * n \in Nat
         /\ IsHeader(file.ihdr, n, w * n, h)
         /\ bpp(file.ihdr) = n
         /\ w * h \in Nat /\ (w * h) * n = h * (w * n) /\ NumPixels(w, h) = w * h
         /\ png_datalen(file.ihdr) = h * (w * n + 1)
<1>1. w \in Nat /\ h \in Nat /\ (n = 3 \/ n = 4)
  BY WordIs DEF IsAccepted, Color
<1>2. bpp(file.ihdr) = n
  BY ChannelsAre DEF IsAccepted, bpp
<1>3. w * h \in Nat /\ NumPixels(w, h) = w * h /\ 4 * (w * h) + h < Word
  BY <1>1, CountableIs DEF IsAccepted
<1>4. n \in Nat /\ w * n \in Nat /\ (w * h) * n = h * (w * n)
  <2>1. n \in Nat /\ w * n \in Nat
    BY <1>1
  <2>2. (h * w) * n = h * (w * n)
    BY <1>1, <2>1, Associates
  <2>3. h * w = w * h
    BY <1>1
  <2> QED
    BY <2>1, <2>2, <2>3
<1>5. png_datalen(file.ihdr) = h * (w * n + 1)
  <2>1. PICK m \in Nat : m = w * h
    BY <1>3
  <2>2. m * n <= 4 * m /\ m * n \in Nat
    BY <1>1
  <2>3. m * n + h < Word /\ m * n + h \in Nat
    BY <1>1, <1>3, <2>1, <2>2, WordIs
  <2>4. (m * n + h) % Word = m * n + h
    BY <2>3, WordIs, Small
  <2>5. png_datalen(file.ihdr) = ((w * h) * n + h) % Word
    BY <1>2 DEF png_datalen, IsAccepted
  <2>6. PICK l \in Nat : l = w * n
    BY <1>4
  <2>7. h * (l + 1) = h * l + h
    BY <1>1
  <2> QED
    BY <1>4, <2>1, <2>4, <2>5, <2>6, <2>7
<1>6. file.ihdr.width * bpp(file.ihdr) = w * n /\ file.ihdr.height = h
  BY <1>2 DEF IsAccepted
<1> QED
  BY <1>1, <1>2, <1>3, <1>4, <1>5, <1>6 DEF IsHeader

(* What png_get_data leaves are the bytes of the pixels. *)
LEMMA GetDataTyped ==
  ASSUME NEW file, IsFile(file), NEW w, NEW h, NEW n, IsAccepted(file, w, h, n), NEW junk \in Byte
  PROVE  png_get_data(file, junk) \in [1 .. (w * h) * n -> Byte] \cup {NULL}
<1>1. file.chunks \in Seq(Chunk)
  BY DEF IsFile
<1>2. PICK k \in Nat : k = Len(file.chunks)
  BY <1>1
<1>3. PICK f : IsRead(f, file, k) /\ AllChunks(file) = f[k]
  BY <1>1, <1>2, AllChunksAre
<1>4. PICK png \in Png : png = AllChunks(file)
  <2>1. f \in [0 .. k -> Png] /\ k \in 0 .. k
    <3>1. f \in [0 .. k -> Png]
      BY <1>3 DEF IsRead
    <3>2. k \in 0 .. k
      BY <1>2
    <3> QED
      BY <3>1, <3>2
  <2>2. f[k] \in Png
    BY <2>1
  <2> QED
    BY <1>3, <2>2
<1>5. CASE png.rc # "done"
  BY <1>4, <1>5 DEF png_get_data
<1>6. CASE png.rc = "done" /\ png.zs = "none"
  <2>1. file.ihdr.width * file.ihdr.height * bpp(file.ihdr) = (w * h) * n
    BY HeaderIs DEF IsAccepted
  <2> QED
    BY <1>4, <1>6, <2>1 DEF png_get_data
<1>7. CASE png.rc = "done" /\ png.zs # "none"
  <2>1. png_get_data(file, junk) = png_unfilter(file.ihdr, png.data, junk)
    BY <1>4, <1>7 DEF png_get_data
  <2>2. PICK line, data : line = w * n /\ data = png.data
    OBVIOUS
  <2>3. IsHeader(file.ihdr, n, line, h) /\ (w * h) * n = h * line
    BY <2>2, HeaderIs
  <2>4. data \in Seq(Byte)
    BY <2>2 DEF Png
  <2>5. png_unfilter(file.ihdr, data, junk) \in [1 .. h * line -> Byte] \cup {NULL}
    BY <2>3, <2>4, UnfilterTyped
  <2> QED
    BY <2>1, <2>2, <2>3, <2>5
<1> QED
  BY <1>5, <1>6, <1>7

BytesAt(data, n, i) == \A c \in 1 .. n : data[n * i + c] \in Byte

(* The pixel made of the bytes of a pixel, with alpha or without. *)
LEMMA PixelOfIs ==
  ASSUME NEW file, NEW w, NEW h, NEW n, IsAccepted(file, w, h, n),
         NEW data, NEW i \in Nat, BytesAt(data, n, i)
  PROVE  /\ PixelOf(file.ihdr, data, i) \in Color
         /\ Components(PixelOf(file.ihdr, data, i))
              = <<data[n * i + 1], data[n * i + 2], data[n * i + 3],
                  IF n = 3 THEN Full ELSE data[n * i + 4]>>
<1>0. Full \in Byte
  BY BaseIs DEF Byte
<1>1. CASE n = 3
  <2>1. PICK m \in Nat : m = 3 * i
    OBVIOUS
  <2>2. PICK r \in Byte, g \in Byte, b \in Byte : r = data[m + 1] /\ g = data[m + 2] /\ b = data[m + 3]
    <3>1. \A c \in 1 .. 3 : data[m + c] \in Byte
      BY <1>1, <2>1 DEF BytesAt
    <3>2. 1 \in 1 .. 3 /\ 2 \in 1 .. 3 /\ 3 \in 1 .. 3
      OBVIOUS
    <3> QED
      BY <3>1, <3>2
  <2>3. PixelOf(file.ihdr, data, i) = Packed(r, g, b, Full)
    <3>1. file.ihdr.color_type = PNG_TRUECOLOR
      BY <1>1 DEF IsAccepted
    <3> QED
      BY <2>1, <2>2, <3>1 DEF PixelOf
  <2>4. Packed(r, g, b, Full) \in Color /\ Components(Packed(r, g, b, Full)) = <<r, g, b, Full>>
    BY <1>0, PackedIs DEF Components
  <2> QED
    BY <1>1, <2>1, <2>2, <2>3, <2>4
<1>2. CASE n = 4
  <2>1. PICK m \in Nat : m = 4 * i
    OBVIOUS
  <2>2. \A c \in 1 .. 4 : data[m + c] \in Byte
    BY <1>2, <2>1 DEF BytesAt
  <2>3. PICK r \in Byte, g \in Byte, b \in Byte, a \in Byte :
          r = data[m + 1] /\ g = data[m + 2] /\ b = data[m + 3] /\ a = data[m + 4]
    <3>1. 1 \in 1 .. 4 /\ 2 \in 1 .. 4 /\ 3 \in 1 .. 4 /\ 4 \in 1 .. 4
      OBVIOUS
    <3> QED
      BY <2>2, <3>1
  <2> DEFINE s == SubSeq(data, m + 1, m + 4)
  <2>4. s[1] = r /\ s[2] = g /\ s[3] = b /\ s[4] = a
    <3>1. PICK p \in Int, q \in Int : p = m + 1 /\ q = m + 4
      OBVIOUS
    <3>2. \A j \in p .. q : data[j] \in Byte
      <4>1. \A j \in p .. q : j - m \in 1 .. 4 /\ m + (j - m) = j
        BY <3>1
      <4> QED
        BY <2>2, <4>1
    <3>3. \A j \in 1 .. q - p + 1 : SubSeq(data, p, q)[j] = data[p + j - 1]
      BY <3>2, SubSeqProperties
    <3>4. \A j \in 1 .. 4 : j \in 1 .. q - p + 1 /\ p + j - 1 = m + j
      BY <3>1
    <3>5. \A j \in 1 .. 4 : s[j] = data[m + j]
      BY <3>1, <3>3, <3>4
    <3> HIDE DEF s
    <3>6. 1 \in 1 .. 4 /\ 2 \in 1 .. 4 /\ 3 \in 1 .. 4 /\ 4 \in 1 .. 4
      OBVIOUS
    <3> QED
      BY <2>3, <3>5, <3>6
  <2>5. PixelOf(file.ihdr, data, i) = byteswap(FromBytes(s))
    <3>1. file.ihdr.color_type # PNG_TRUECOLOR
      BY <1>2 DEF IsAccepted, PNG_TRUECOLOR, PNG_TRUECOLOR_ALPHA
    <3> QED
      BY <2>1, <3>1 DEF PixelOf
  <2> HIDE DEF s
  <2>6. FromBytes(s) = FromBytes(<<r, g, b, a>>)
    BY <2>4 DEF FromBytes
  <2>7. byteswap(FromBytes(<<r, g, b, a>>)) = Packed(r, g, b, a)
    BY SwapIs
  <2>8. Packed(r, g, b, a) \in Color /\ Components(Packed(r, g, b, a)) = <<r, g, b, a>>
    BY PackedIs DEF Components
  <2> QED
    BY <1>2, <2>1, <2>3, <2>5, <2>6, <2>7, <2>8
<1> QED
  BY <1>1, <1>2 DEF IsAccepted

(* A file is read as an image of its size, or not at all. *)
LEMMA ReadTyped ==
  ASSUME NEW file, IsFile(file), NEW junk \in Byte
  PROVE  \/ read_image(file, junk) = NoImage
         \/ \E w, h : IsLoaded(read_image(file, junk), w, h)
<1>1. CASE ~Opens(file) \/ ~IsTruecolor(file.ihdr)
  BY <1>1 DEF read_image
<1>2. CASE Opens(file) /\ IsTruecolor(file.ihdr)
  <2>1. PICK w, h, n : IsAccepted(file, w, h, n)
    BY <1>2, AcceptedIs
  <2>2. PICK data : data = png_get_data(file, junk)
    OBVIOUS
  <2>3. CASE data = NULL
    BY <1>2, <2>2, <2>3 DEF read_image
  <2>4. CASE data # NULL
    <3>1. read_image(file, junk) =
            [width |-> w, height |-> h,
             data |-> [i \in 0 .. NumPixels(w, h) - 1 |-> PixelOf(file.ihdr, data, i)]]
      BY <1>2, <2>1, <2>2, <2>4 DEF read_image, IsAccepted
    <3>2. data \in [1 .. (w * h) * n -> Byte]
      BY <2>1, <2>2, <2>4, GetDataTyped
    <3>3. PICK m \in Nat : m = w * h /\ NumPixels(w, h) = m /\ n \in Nat \ {0}
      BY <2>1, HeaderIs
    <3>4. ASSUME NEW i \in 0 .. m - 1 PROVE PixelOf(file.ihdr, data, i) \in Color
      <4>1. BytesAt(data, n, i)
        <5>1. n * i + n <= n * m /\ n * m = m * n /\ n * i \in Nat
          BY <3>3, Multiples
        <5>2. ASSUME NEW c \in 1 .. n PROVE n * i + c \in 1 .. m * n
          BY <3>3, <5>1
        <5> QED
          BY <3>2, <3>3, <5>2 DEF BytesAt
      <4>2. i \in Nat
        BY <3>3
      <4> QED
        BY <2>1, <4>1, <4>2, PixelOfIs
    <3>5. [i \in 0 .. m - 1 |-> PixelOf(file.ihdr, data, i)] \in [0 .. m - 1 -> Color]
      BY <3>4
    <3>6. read_image(file, junk) \in ImagesOf(w, h)
      BY <3>1, <3>3, <3>5 DEF ImagesOf
    <3>7. IsLoaded(read_image(file, junk), w, h)
      BY <2>1, <3>6 DEF IsLoaded, IsAccepted
    <3> QED
      BY <3>7
  <2> QED
    BY <2>3, <2>4
<1> QED
  BY <1>1, <1>2

-----------------------------------------------------------------------------
(* A stream that came in chunks. *)

(* A stream of N bytes, and its end. *)
IsStream(s, N) ==
  /\ N \in Nat
  /\ s \in [1 .. N + 1 -> Byte \cup {StreamEnd}]
  /\ \A i \in 1 .. N : s[i] \in Byte
  /\ s[N + 1] = StreamEnd

(* The reader has had the first t items of the stream. *)
HasRead(png, s, N, t) ==
  /\ png \in Png /\ t \in 0 .. N + 1
  /\ png.zs = IF t = 0 THEN "none" ELSE IF t <= N THEN "open" ELSE "ended"
  /\ Len(png.data) = IF t <= N THEN t ELSE N
  /\ \A i \in 1 .. Len(png.data) : png.data[i] = s[i]

LEMMA NoByte == \A b \in Byte : b # StreamEnd
BY BaseIs DEF Byte, StreamEnd

(* A part of a stream. *)
LEMMA PartIs ==
  ASSUME NEW s, NEW N, IsStream(s, N), NEW t \in Nat, NEW u \in Nat, t < u, u <= N + 1
  PROVE  /\ SubSeq(s, t + 1, u) \in Input
         /\ Len(SubSeq(s, t + 1, u)) = u - t
         /\ \A i \in 1 .. u - t : SubSeq(s, t + 1, u)[i] = s[t + i]
<1>1. PICK p \in Int, q \in Int : p = t + 1 /\ q = u
  OBVIOUS
<1>2. \A i \in p .. q : s[i] \in Byte \cup {StreamEnd}
  BY <1>1 DEF IsStream
<1>3. /\ SubSeq(s, p, q) \in Seq(Byte \cup {StreamEnd})
      /\ Len(SubSeq(s, p, q)) = IF p <= q THEN q - p + 1 ELSE 0
      /\ \A i \in 1 .. q - p + 1 : SubSeq(s, p, q)[i] = s[p + i - 1]
  BY <1>2, SubSeqProperties
<1>4. p <= q /\ q - p + 1 = u - t /\ \A i \in 1 .. u - t : p + i - 1 = t + i
  BY <1>1
<1> QED
  BY <1>1, <1>3, <1>4 DEF Input

(* The items t + 1 .. u come to a reader that has had t. *)
Comes(in, s, N, png, t, u) ==
  /\ IsStream(s, N) /\ HasRead(png, s, N, t)
  /\ t \in Nat /\ u \in Nat /\ t < u /\ u <= N + 1
  /\ in = SubSeq(s, t + 1, u)

(* One chunk of data takes the reader to its end. *)
LEMMA DataStep ==
  ASSUME NEW s, NEW N, NEW png, NEW t, NEW u, NEW in, Comes(in, s, N, png, t, u)
  PROVE  /\ HasRead(png_inflate(png, N, in), s, N, u)
         /\ png_inflate(png, N, in).rc = png.rc
<1> SUFFICES ASSUME IsStream(s, N), HasRead(png, s, N, t),
                    t \in Nat, u \in Nat, t < u, u <= N + 1, in = SubSeq(s, t + 1, u)
             PROVE  /\ HasRead(png_inflate(png, N, in), s, N, u)
                    /\ png_inflate(png, N, in).rc = png.rc
  BY DEF Comes
<1>0. N \in Nat /\ (\A i \in 1 .. N : s[i] # StreamEnd) /\ s[N + 1] = StreamEnd
  BY NoByte DEF IsStream
<1>1. in \in Input /\ Len(in) = u - t /\ \A i \in 1 .. u - t : in[i] = s[t + i]
  BY PartIs
<1>2. /\ png \in Png /\ t <= N
      /\ png.zs \in {"none", "open"} /\ Len(png.data) = t
      /\ \A i \in 1 .. t : png.data[i] = s[i]
  BY <1>0 DEF HasRead
<1>3. PICK e : /\ EndsAt(in, e)
               /\ IsInflated(png_inflate(png, N, in), png, N, in, e)
               /\ png_inflate(png, N, in) \in Png
  <2>1. png \in Png /\ in \in Input
    BY <1>1, <1>2
  <2> QED
    BY <2>1, InflateIs
<1>4. e = IF u <= N THEN 0 ELSE u - t
  <2>1. e \in 0 .. u - t
    BY <1>1, <1>3 DEF EndsAt
  <2>2. e # 0 => in[e] = StreamEnd /\ in[e] = s[t + e]
    BY <1>1, <1>3, <2>1 DEF EndsAt
  <2>3. CASE u <= N
    <3>1. e # 0 => t + e \in 1 .. N
      BY <1>0, <2>1, <2>3
    <3> QED
      BY <1>0, <2>2, <2>3, <3>1
  <2>4. CASE u = N + 1
    <3>1. e # 0
      <4>1. u - t \in 1 .. u - t /\ t + (u - t) = N + 1
        BY <2>4
      <4>2. in[u - t] = StreamEnd
        BY <1>0, <1>1, <4>1
      <4> QED
        BY <1>1, <1>3, <4>1, <4>2 DEF EndsAt
    <3>2. ASSUME e # u - t PROVE FALSE
      <4>1. t + e \in 1 .. N
        BY <1>0, <2>1, <2>4, <3>1, <3>2
      <4>2. s[t + e] = StreamEnd
        BY <2>2, <3>1
      <4> QED
        BY <1>0, <4>1, <4>2
    <3>3. ~(u <= N)
      BY <1>0, <2>4
    <3> QED
      BY <3>2, <3>3
  <2> QED
    BY <1>0, <2>3, <2>4
<1>5. PICK b \in Nat : t + b = IF u <= N THEN u ELSE N
  <2>1. CASE u <= N
    <3>1. u - t \in Nat /\ t + (u - t) = u
      OBVIOUS
    <3> QED
      BY <2>1, <3>1
  <2>2. CASE ~(u <= N)
    <3>1. N - t \in Nat /\ t + (N - t) = N
      BY <1>0, <1>2
    <3> QED
      BY <2>2, <3>1
  <2> QED
    BY <2>1, <2>2
<1>6. /\ Body(in, e) \in Seq(Byte) /\ Len(Body(in, e)) = b
      /\ \A i \in 1 .. b : Body(in, e)[i] = s[t + i]
  <2>1. /\ Body(in, e) \in Seq(Byte)
        /\ Len(Body(in, e)) = IF e = 0 THEN Len(in) ELSE e - 1
        /\ \A i \in 1 .. Len(Body(in, e)) : Body(in, e)[i] = in[i]
    <3>1. in \in Input /\ EndsAt(in, e)
      BY <1>1, <1>3
    <3> QED
      BY <3>1, BodyIs
  <2>2. Len(Body(in, e)) = b /\ b <= u - t
    BY <1>0, <1>1, <1>4, <1>5, <2>1
  <2> QED
    BY <1>1, <2>1, <2>2
<1>7. PICK x, y : x = png.data /\ y = Body(in, e)
  OBVIOUS
<1>8. IsJoined(x \o y, x, y, t, b, Byte)
  <2>1. x \in Seq(Byte) /\ y \in Seq(Byte) /\ Len(x) = t /\ Len(y) = b
    BY <1>2, <1>6, <1>7 DEF Png
  <2>2. Sized(x, t, Byte) /\ Sized(y, b, Byte)
    BY <2>1 DEF Sized
  <2> QED
    BY <2>2, Joined
<1>9. x \o y \in [1 .. t + b -> Byte] /\ \A i \in 1 .. t + b : (x \o y)[i] = s[i]
  <2>1. PICK z : z = x \o y
    OBVIOUS
  <2>2. /\ z \in [1 .. t + b -> Byte]
        /\ \A i \in 1 .. t : z[i] = x[i]
        /\ \A i \in 1 .. b : z[t + i] = y[i]
    BY <1>8, <2>1 DEF IsJoined
  <2>3. ASSUME NEW i \in 1 .. t + b PROVE z[i] = s[i]
    <3>1. CASE i <= t
      BY <1>2, <1>7, <2>2, <3>1
    <3>2. CASE i > t
      <4>1. i - t \in 1 .. b /\ t + (i - t) = i
        BY <3>2
      <4> QED
        BY <1>6, <1>7, <2>2, <4>1
    <3> QED
      BY <3>1, <3>2
  <2> QED
    BY <2>1, <2>2, <2>3
<1>10. png_inflate(png, N, in) = [png EXCEPT !.data = x \o y, !.zs = IF e = 0 THEN "open" ELSE "ended"]
  <2>1. in # <<>> /\ e \in {0, Len(in)} /\ ~(Len(png.data) + Len(Body(in, e)) > N)
    <3>1. in # <<>>
      <4>1. Len(in) # 0
        BY <1>1
      <4>2. ASSUME in = <<>> PROVE FALSE
        <5>1. Len(in) = 0
          BY <4>2
        <5> QED
          BY <4>1, <5>1
      <4> QED
        BY <4>2
    <3>2. e \in {0, Len(in)}
      BY <1>1, <1>4
    <3>3. Len(png.data) + Len(Body(in, e)) = t + b
      BY <1>2, <1>6
    <3>4. ~(t + b > N)
      BY <1>0, <1>5
    <3>5. ~(Len(png.data) + Len(Body(in, e)) > N)
      BY <3>3, <3>4
    <3> QED
      BY <3>1, <3>2, <3>5
  <2>2. png.zs # "ended"
    BY <1>2
  <2> QED
    BY <1>3, <1>7, <2>1, <2>2 DEF IsInflated
<1>11. x \o y \in Seq(Byte) /\ Len(x \o y) = t + b
  <2>0. PICK m \in Nat : m = t + b
    OBVIOUS
  <2>1. PICK z : z = x \o y
    OBVIOUS
  <2>2. z \in [1 .. m -> Byte]
    BY <1>9, <2>0, <2>1
  <2>3. z \in Seq(Byte) /\ Len(z) = m
    BY <2>2, FunctionIsSeq
  <2> QED
    BY <2>0, <2>1, <2>3
<1>12. /\ png_inflate(png, N, in).data = x \o y /\ png_inflate(png, N, in).rc = png.rc
       /\ png_inflate(png, N, in).zs = IF e = 0 THEN "open" ELSE "ended"
  <2>1. PICK z, o : z = x \o y /\ o = IF e = 0 THEN "open" ELSE "ended"
    OBVIOUS
  <2>2. png_inflate(png, N, in) = [png EXCEPT !.data = z, !.zs = o]
    BY <1>10, <2>1
  <2> QED
    BY <1>2, <2>1, <2>2 DEF Png
<1>13. u # 0 /\ u \in 0 .. N + 1 /\ (e = 0 <=> u <= N)
  BY <1>0, <1>4
<1>14. Len(x \o y) = IF u <= N THEN u ELSE N
  BY <1>5, <1>11
<1>15. HasRead(png_inflate(png, N, in), s, N, u)
  BY <1>3, <1>9, <1>11, <1>12, <1>13, <1>14 DEF HasRead
<1> QED
  BY <1>12, <1>15

(* How much of the stream came in the first chunks. *)
IsSent(sent, chunks, K) ==
  /\ sent \in [0 .. K -> Nat] /\ sent[0] = 0
  /\ \A k \in 1 .. K : sent[k] = sent[k - 1] + DataLength(chunks[k])

(* The ends of the chunks in the stream. *)
LEMMA SentIs ==
  ASSUME NEW chunks \in Seq(Chunk), NEW K, K = Len(chunks), NEW s, Carries(chunks, s)
  PROVE  \E sent : /\ IsSent(sent, chunks, K) /\ sent[K] = Len(s)
                   /\ \A k \in 1 .. K : chunks[k].type = "IDAT" =>
                        chunks[k].data = SubSeq(s, sent[k - 1] + 1, sent[k])
<1> DEFINE D(k) == DataLength(chunks[k])
           sent == CHOOSE f : f = [k \in 0 .. Len(chunks) |-> IF k = 0 THEN 0 ELSE f[k - 1] + D(k)]
           T == [k \in 1 .. K |-> [v \in Nat |-> v + D(k)]]
<1>1. K \in Nat /\ DOMAIN chunks = 1 .. K /\ \A k \in 1 .. K : D(k) \in Nat
  BY DEF DataLength, Chunk
<1>2. /\ sent[Len(chunks)] = Len(s)
      /\ \A k \in DOMAIN chunks : chunks[k].type = "IDAT" =>
           chunks[k].data = SubSeq(s, sent[k - 1] + 1, sent[k])
  BY DEF Carries
<1> HIDE DEF D
<1>3. Steps(T, K, Nat) /\ \A k \in 1 .. K : \A v \in Nat : T[k][v] = v + D(k)
  <2>1. \A k \in 1 .. K : \A v \in Nat : v + D(k) \in Nat
    BY <1>1
  <2> QED
    BY <2>1 DEF Steps
<1> HIDE DEF T
<1>4. PICK f : Run(f, 0, T, K, Nat)
  BY <1>1, <1>3, Loop
<1>5. f \in [0 .. K -> Nat] /\ f[0] = 0 /\ \A k \in 1 .. K : f[k] = f[k - 1] + D(k)
  <2>1. f \in [0 .. K -> Nat] /\ f[0] = 0 /\ \A k \in 1 .. K : f[k] = T[k][f[k - 1]]
    BY <1>4 DEF Run
  <2>2. ASSUME NEW k \in 1 .. K PROVE f[k - 1] \in Nat
    <3>1. k - 1 \in 0 .. K
      BY <1>1
    <3> QED
      BY <2>1, <3>1
  <2> QED
    BY <1>3, <2>1, <2>2
<1>6. f = [k \in 0 .. Len(chunks) |-> IF k = 0 THEN 0 ELSE f[k - 1] + D(k)]
  <2>1. ASSUME NEW k \in 0 .. K PROVE f[k] = IF k = 0 THEN 0 ELSE f[k - 1] + D(k)
    <3>1. k # 0 => k \in 1 .. K
      BY <1>1
    <3> QED
      BY <1>5, <3>1
  <2> QED
    BY <1>5, <2>1
<1>7. sent = [k \in 0 .. Len(chunks) |-> IF k = 0 THEN 0 ELSE sent[k - 1] + D(k)]
  BY <1>6
<1> HIDE DEF sent
<1>8. /\ DOMAIN sent = 0 .. K /\ sent = [k \in 0 .. K |-> sent[k]] /\ sent[0] = 0
      /\ \A k \in 1 .. K : sent[k] = sent[k - 1] + D(k)
  <2>1. DOMAIN sent = 0 .. K /\ sent = [k \in 0 .. K |-> sent[k]]
    BY <1>7
  <2>2. sent[0] = 0
    BY <1>1, <1>7
  <2>3. ASSUME NEW k \in 1 .. K PROVE sent[k] = sent[k - 1] + D(k)
    <3>1. k \in 0 .. K /\ k # 0
      BY <1>1
    <3> QED
      BY <1>7, <3>1
  <2> QED
    BY <2>1, <2>2, <2>3
<1> DEFINE G == {k \in 0 .. K : sent[k] \in Nat}
<1>9. 0 \in G /\ \A k \in 1 .. K : k - 1 \in G => k \in G
  <2>1. 0 \in G
    BY <1>1, <1>8
  <2>2. ASSUME NEW k \in 1 .. K, sent[k - 1] \in Nat PROVE sent[k] \in Nat
    <3>1. D(k) \in Nat /\ sent[k] = sent[k - 1] + D(k)
      BY <1>1, <1>8
    <3> QED
      BY <2>2, <3>1
  <2> QED
    BY <1>1, <2>1, <2>2
<1> HIDE DEF G
<1>10. \A k \in 0 .. K : k \in G
  BY <1>1, <1>9, UpTo
<1>11. sent \in [0 .. K -> Nat]
  BY <1>8, <1>10 DEF G
<1>12. IsSent(sent, chunks, K)
  BY <1>8, <1>11 DEF IsSent, D
<1> QED
  BY <1>1, <1>2, <1>12

(* A stream that came whole was read. *)
LEMMA AllCarried ==
  ASSUME NEW file, IsFile(file), ChunksInOrder(file.chunks), NEW s, NEW N, IsStream(s, N),
         png_datalen(file.ihdr) = N, Carries(file.chunks, s)
  PROVE  AllChunks(file).rc = "done" /\ HasRead(AllChunks(file), s, N, N + 1)
<1>1. PICK chunks, ihdr : chunks = file.chunks /\ ihdr = file.ihdr
  OBVIOUS
<1>2. PICK K \in Nat : K = Len(chunks) /\ chunks \in Seq(Chunk) /\ DOMAIN chunks = 1 .. K
  BY <1>1 DEF IsFile
<1>3. /\ K > 0
      /\ \A k \in 1 .. K : /\ chunks[k] \in Chunk
                           /\ chunks[k].type = "IEND" <=> k = K
                           /\ chunks[k].type = "IDAT" => chunks[k].crc /\ chunks[k].data # <<>>
  <2>1. chunks # <<>>
    BY <1>1 DEF ChunksInOrder
  <2>2. K # 0
    BY <1>2, <2>1
  <2> QED
    BY <1>1, <1>2, <2>2 DEF ChunksInOrder
<1>4. N \in Nat /\ Len(s) = N + 1
  <2>1. N \in Nat /\ s \in [1 .. N + 1 -> Byte \cup {StreamEnd}]
    BY DEF IsStream
  <2>2. PICK m \in Nat : m = N + 1
    BY <2>1
  <2>3. s \in [1 .. m -> Byte \cup {StreamEnd}]
    BY <2>1, <2>2
  <2>4. Len(s) = m
    BY <2>2, <2>3, FunctionIsSeq
  <2> QED
    BY <2>1, <2>2, <2>4
<1>5. PICK f : IsRead(f, file, K) /\ AllChunks(file) = f[K]
  BY <1>1, <1>2, AllChunksAre
<1>6. /\ f \in [0 .. K -> Png] /\ f[0] = NoData
      /\ \A k \in 1 .. K : f[k] = IF f[k - 1].rc # "no error" THEN f[k - 1]
                                  ELSE png_process_chunk(f[k - 1], ihdr, chunks[k])
  BY <1>1, <1>5 DEF IsRead
<1>7. PICK sent : /\ IsSent(sent, chunks, K) /\ sent[K] = Len(s)
                  /\ \A k \in 1 .. K : chunks[k].type = "IDAT" =>
                       chunks[k].data = SubSeq(s, sent[k - 1] + 1, sent[k])
  BY <1>1, <1>2, SentIs
<1>8. \A k \in 0 .. K : sent[k] \in Nat
  BY <1>7 DEF IsSent
<1>9. sent[0] = 0 /\ \A k \in 1 .. K : sent[k] = sent[k - 1] + DataLength(chunks[k])
  BY <1>7 DEF IsSent
<1>10. \A k \in 1 .. K : DataLength(chunks[k]) \in Nat
  BY <1>3 DEF DataLength, Chunk
<1>11. \A k \in 0 .. K : sent[k] <= N + 1
  <2> DEFINE H == {k \in 0 .. K : \A j \in 0 .. k : sent[j] <= sent[k]}
  <2>1. 0 \in H
    BY <1>2, <1>9
  <2>2. ASSUME NEW k \in 1 .. K, k - 1 \in H PROVE k \in H
    <3>1. k - 1 \in 0 .. K /\ k \in 0 .. K
      OBVIOUS
    <3>2. PICK a \in Nat, b \in Nat : a = sent[k - 1] /\ b = sent[k]
      BY <1>8, <3>1
    <3>3. a <= b
      <4>1. PICK d \in Nat : d = DataLength(chunks[k])
        BY <1>10
      <4> QED
        BY <1>9, <3>2, <4>1
    <3>4. ASSUME NEW j \in 0 .. k PROVE sent[j] <= b
      <4>1. CASE j = k
        BY <3>2, <4>1
      <4>2. CASE j # k
        <5>1. j \in 0 .. k - 1 /\ j \in 0 .. K
          BY <4>2
        <5>2. sent[j] <= a /\ sent[j] \in Nat
          BY <1>8, <2>2, <3>2, <5>1
        <5> QED
          BY <3>3, <5>2
      <4> QED
        BY <4>1, <4>2
    <3> QED
      BY <3>1, <3>2, <3>4
  <2> HIDE DEF H
  <2>3. \A k \in 0 .. K : k \in H
    BY <2>1, <2>2, UpTo
  <2>4. K \in H
    BY <2>3
  <2> QED
    BY <1>4, <1>7, <2>4 DEF H
<1> DEFINE Ok(k) == /\ HasRead(f[k], s, N, sent[k])
                    /\ f[k].rc = IF k < K THEN "no error" ELSE "done"
           G == {k \in 0 .. K : Ok(k)}
<1>12. Ok(0)
  <2>1. NoData \in Png /\ Len(NoData.data) = 0 /\ NoData.zs = "none" /\ NoData.rc = "no error"
    <3>1. <<>> \in Seq(Byte) /\ Len(<<>>) = 0
      OBVIOUS
    <3> QED
      BY <3>1 DEF NoData, Png
  <2>2. 0 \in 0 .. N + 1 /\ 0 <= N /\ 0 < K /\ 1 .. 0 = {}
    BY <1>3, <1>4
  <2>3. HasRead(NoData, s, N, 0)
    BY <2>1, <2>2 DEF HasRead
  <2> QED
    BY <1>6, <1>9, <2>1, <2>2, <2>3
<1>13. ASSUME NEW k \in 1 .. K, Ok(k - 1) PROVE Ok(k)
  <2>0. k - 1 \in 0 .. K /\ k \in 0 .. K /\ k - 1 < K
    OBVIOUS
  <2>1. PICK png, c, t, u : png = f[k - 1] /\ c = chunks[k] /\ t = sent[k - 1] /\ u = sent[k]
    OBVIOUS
  <2>2. HasRead(png, s, N, t) /\ png.rc = "no error" /\ png \in Png
    BY <1>13, <2>0, <2>1 DEF HasRead
  <2>3. f[k] = png_process_chunk(png, ihdr, c)
    BY <1>6, <2>1, <2>2
  <2>4. /\ c \in Chunk /\ (c.type = "IEND" <=> k = K)
        /\ c.type = "IDAT" => c.crc /\ c.data # <<>> /\ c.data = SubSeq(s, t + 1, u)
        /\ t \in Nat /\ u \in Nat /\ u <= N + 1 /\ u = t + DataLength(c)
    BY <1>3, <1>7, <1>8, <1>9, <1>11, <2>0, <2>1
  <2>5. CASE c.type = "IDAT"
    <3>1. t < u
      <4>1. DataLength(c) = Len(c.data) /\ Len(c.data) \in Nat /\ c.data \in Input
        BY <2>4, <2>5 DEF DataLength, Chunk, Input
      <4>2. Len(c.data) # 0
        BY <2>4, <2>5, <4>1 DEF Input
      <4> QED
        BY <2>4, <4>1, <4>2
    <3>2. PICK in : in = c.data /\ in = SubSeq(s, t + 1, u)
      BY <2>4, <2>5
    <3>3. f[k] = png_inflate(png, N, in)
      <4>1. png \in Png /\ c \in Chunk
        BY <2>2, <2>4
      <4>2. c.type = "IDAT" /\ c.crc =>
              png_process_chunk(png, ihdr, c) = png_inflate(png, png_datalen(ihdr), c.data)
        BY <4>1, ChunkTyped
      <4> QED
        BY <1>1, <2>3, <2>4, <2>5, <3>2, <4>2
    <3>4. HasRead(png_inflate(png, N, in), s, N, u) /\ png_inflate(png, N, in).rc = png.rc
      <4>1. Comes(in, s, N, png, t, u)
        BY <2>2, <2>4, <3>1, <3>2 DEF Comes
      <4> QED
        BY <4>1, DataStep
    <3>5. k < K
      BY <2>4, <2>5
    <3> QED
      BY <2>1, <2>2, <3>3, <3>4, <3>5
  <2>6. CASE c.type # "IDAT"
    <3>1. u = t
      BY <2>4, <2>6 DEF DataLength
    <3>2. CASE c.type = "IEND"
      <4>1. f[k] = [png EXCEPT !.rc = "done"]
        BY <2>2, <2>3, <2>4, <3>2, ChunkTyped
      <4>2. f[k].data = png.data /\ f[k].zs = png.zs /\ f[k].rc = "done" /\ f[k] \in Png
        BY <2>2, <4>1 DEF Png
      <4>3. HasRead(f[k], s, N, t)
        BY <2>2, <4>2 DEF HasRead
      <4>4. ~(k < K)
        BY <2>4, <3>2
      <4> QED
        BY <2>1, <3>1, <4>2, <4>3, <4>4
    <3>3. CASE c.type # "IEND"
      <4>1. f[k] = png
        <5>1. png \in Png /\ c \in Chunk
          BY <2>2, <2>4
        <5>2. c.type \notin {"IDAT", "IEND"} => png_process_chunk(png, ihdr, c) = png
          BY <5>1, ChunkTyped
        <5> QED
          BY <2>3, <2>6, <3>3, <5>2
      <4>2. k < K
        BY <2>4, <3>3
      <4> QED
        BY <2>1, <2>2, <3>1, <4>1, <4>2
    <3> QED
      BY <3>2, <3>3
  <2> QED
    BY <2>5, <2>6
<1> HIDE DEF Ok
<1>14. 0 \in G /\ \A k \in 1 .. K : k - 1 \in G => k \in G
  BY <1>2, <1>12, <1>13
<1> HIDE DEF G
<1>15. \A k \in 0 .. K : k \in G
  BY <1>14, UpTo
<1>16. Ok(K)
  BY <1>15 DEF G
<1>17. HasRead(f[K], s, N, sent[K]) /\ f[K].rc = "done" /\ sent[K] = N + 1
  <2>1. ~(K < K)
    BY <1>2
  <2>2. HasRead(f[K], s, N, sent[K]) /\ f[K].rc = "done"
    BY <1>16, <2>1 DEF Ok
  <2> QED
    BY <1>4, <1>7, <2>2
<1> QED
  BY <1>5, <1>17

-----------------------------------------------------------------------------
(* The stream of a picture. *)

(* One of a file, as IsAccepted says. *)
IsPictureOf(pic, file, w, h, n) ==
  IsAccepted(file, w, h, n) /\ IsPicture(pic, file.ihdr)

(* A line has the components of its points. *)
HasPoints(line, pic, y, w, n) ==
  \A x \in 0 .. w - 1 : \A c \in 1 .. n :
    n * x + c \in 1 .. w * n /\ line[n * x + c] = pic[<<x, y>>][c]

(* A line of a picture, or the zeros above it. *)
LEMMA LineIs ==
  ASSUME NEW pic, NEW file, NEW w, NEW h, NEW n, IsPictureOf(pic, file, w, h, n),
         NEW y \in -1 .. h - 1
  PROVE  /\ Sized(Line(file.ihdr, pic, y), w * n, Byte)
         /\ y = -1 => Line(file.ihdr, pic, y) = [i \in 1 .. w * n |-> 0]
         /\ y # -1 => HasPoints(Line(file.ihdr, pic, y), pic, y, w, n)
<1>0. /\ IsAccepted(file, w, h, n) /\ n \in Nat \ {0} /\ w \in Nat /\ h \in Nat /\ w * n \in Nat
      /\ LineLength(file.ihdr) = w * n /\ bpp(file.ihdr) = n /\ n <= 4
  BY HeaderIs DEF IsPictureOf, LineLength, IsAccepted
<1>1. \A p \in (0 .. w - 1) \X (0 .. h - 1) : pic[p] \in Byte \X Byte \X Byte \X Byte
  BY DEF IsPictureOf, IsPicture, IsAccepted
<1>2. Line(file.ihdr, pic, y) =
        [i \in 1 .. w * n |-> IF y < 0 THEN 0 ELSE pic[<<(i - 1) \div n, y>>][1 + ((i - 1) % n)]]
  BY <1>0 DEF Line
<1>3. 0 \in Byte
  BY BaseIs DEF Byte
<1>4. CASE y = -1
  <2>1. Line(file.ihdr, pic, y) = [i \in 1 .. w * n |-> 0]
    BY <1>2, <1>4
  <2> QED
    BY <1>3, <1>4, <2>1 DEF Sized
<1>5. CASE y # -1
  <2>1. y \in 0 .. h - 1 /\ ~(y < 0)
    BY <1>0, <1>5
  <2>2. ASSUME NEW i \in 1 .. w * n
        PROVE  pic[<<(i - 1) \div n, y>>][1 + ((i - 1) % n)] \in Byte
    <3>1. PICK j \in Nat : j = i - 1
      BY <1>0
    <3>2. PICK q \in Nat, r \in Nat : q = j \div n /\ r = j % n
      BY <1>0, Quotient
    <3>3. r < n /\ j = n * q + r
      BY <1>0, <3>2, Quotient
    <3>4. q < w
      <4>1. CASE w <= q
        <5>1. n * w <= n * q
          BY <1>0, <4>1, Product
        <5>2. n * w = w * n
          BY <1>0
        <5> QED
          BY <1>0, <3>1, <3>3, <5>1, <5>2
      <4> QED
        BY <1>0, <4>1
    <3>5. PICK v : v = pic[<<q, y>>]
      OBVIOUS
    <3>6. v \in Byte \X Byte \X Byte \X Byte
      BY <1>0, <1>1, <2>1, <3>4, <3>5
    <3>7. 1 + r \in {1, 2, 3, 4}
      BY <1>0, <3>3
    <3>8. v[1 + r] \in Byte
      BY <3>6, <3>7
    <3> QED
      BY <3>1, <3>2, <3>5, <3>8
  <2>3. Line(file.ihdr, pic, y) \in [1 .. w * n -> Byte]
    BY <1>2, <2>1, <2>2
  <2>4. ASSUME NEW x \in 0 .. w - 1, NEW c \in 1 .. n
        PROVE  /\ n * x + c \in 1 .. w * n
               /\ Line(file.ihdr, pic, y)[n * x + c] = pic[<<x, y>>][c]
    <3>1. n * x + n <= n * w /\ n * w = w * n /\ n * x \in Nat
      BY <1>0, Multiples
    <3>2. n * x + c \in 1 .. w * n
      BY <1>0, <3>1
    <3>3. PICK d \in Nat : d = c - 1 /\ d < n
      BY <1>0
    <3>4. (x * n + d) \div n = x /\ (x * n + d) % n = d
      BY <1>0, <3>3, DivMod
    <3>5. PICK i \in 1 .. w * n : i = n * x + c
      BY <3>2
    <3>6. i - 1 = x * n + d
      BY <1>0, <3>1, <3>3, <3>5
    <3>7. (i - 1) \div n = x /\ 1 + ((i - 1) % n) = c
      BY <3>3, <3>4, <3>6
    <3>8. Line(file.ihdr, pic, y)[i] = pic[<<x, y>>][c]
      BY <1>2, <2>1, <3>7
    <3> QED
      BY <3>2, <3>5, <3>8
  <2> QED
    BY <1>5, <2>3, <2>4 DEF Sized, HasPoints
<1> QED
  BY <1>4, <1>5

(* Filtered bytes are bytes; without a filter they are the line. *)
LEMMA FilteredIs ==
  ASSUME NEW filter \in 0 .. 4, NEW stride \in Nat \ {0}, NEW m \in Nat,
         NEW line, Sized(line, m, Byte), NEW above, Sized(above, m, Byte), NEW x \in 1 .. m
  PROVE  /\ Filtered(filter, line, above, stride)[x] \in Byte
         /\ filter = 0 => Filtered(filter, line, above, stride)[x] = line[x]
<1>1. line \in [1 .. m -> Byte] /\ above \in [1 .. m -> Byte] /\ 0 \in Byte
  BY BaseIs DEF Sized, Byte
<1>2. x > stride => x - stride \in 1 .. m
  OBVIOUS
<1>3. PICK a, b, c, v : /\ a = IF x > stride THEN line[x - stride] ELSE 0
                        /\ b = above[x]
                        /\ c = IF x > stride THEN above[x - stride] ELSE 0
                        /\ v = line[x]
  OBVIOUS
<1>4. a \in Byte /\ b \in Byte /\ c \in Byte /\ v \in Byte
  BY <1>1, <1>2, <1>3
<1>5. Filtered(filter, line, above, stride)[x]
        = (v - <<0, a, b, (a + b) \div 2, Nearest(a, b, c)>>[filter + 1]) % Base
  <2>1. x \in DOMAIN line
    BY <1>1
  <2> QED
    BY <1>3, <2>1 DEF Filtered
<1>6. PICK p : p = Prediction(filter, a, b, c)
  OBVIOUS
<1>7. p \in Byte /\ <<0, a, b, (a + b) \div 2, Nearest(a, b, c)>>[filter + 1] = p
  BY <1>4, <1>6, PredictionIs
<1>8. (v - p) % Base \in Byte
  BY <1>4, <1>7, AddedBack
<1>9. filter = 0 => (v - p) % Base = v
  <2>1. filter = 0 => p = 0
    BY <1>6 DEF Prediction
  <2>2. v - 0 = v /\ v % Base = v
    <3>1. v \in Nat /\ v < Base /\ Base \in Nat \ {0}
      BY <1>4, BaseIs DEF Byte, Base
    <3>2. v % Base = v
      BY <3>1, Small
    <3> QED
      BY <3>1, <3>2
  <2> QED
    BY <2>1, <2>2
<1> QED
  BY <1>3, <1>5, <1>7, <1>8, <1>9

AreFilters(filters, h) == filters \in [0 .. h - 1 -> 0 .. 4]

(* Line y of a stream: the filter, then the bytes. *)
HasLine(s, L, y, filters, file, pic, n) ==
  /\ s[y * L + 1] = filters[y]
  /\ \A x \in 1 .. L - 1 :
       s[y * L + 1 + x] = Filtered(filters[y], Line(file.ihdr, pic, y), Line(file.ihdr, pic, y - 1), n)[x]

(* A stream is its lines and the end. *)
LEMMA StreamIs ==
  ASSUME NEW pic, NEW file, NEW w, NEW h, NEW n, IsPictureOf(pic, file, w, h, n),
         NEW filters, AreFilters(filters, h), NEW L, L = w * n + 1,
         NEW s, s = Stream(file.ihdr, pic, filters)
  PROVE  /\ L \in Nat \ {0} /\ h * L \in Nat
         /\ IsStream(s, h * L)
         /\ \A y \in 0 .. h - 1 : HasLine(s, L, y, filters, file, pic, n)
<1>0. /\ IsAccepted(file, w, h, n) /\ n \in Nat \ {0} /\ w \in Nat /\ h \in Nat /\ w * n \in Nat
      /\ LineLength(file.ihdr) = w * n /\ bpp(file.ihdr) = n /\ file.ihdr.height = h
  BY HeaderIs DEF IsPictureOf, LineLength, IsAccepted
<1>1. L \in Nat \ {0} /\ L - 1 = w * n
  BY <1>0
<1>2. PICK N \in Nat : N = h * L
  BY <1>0, <1>1
<1> DEFINE F(y) == Filtered(filters[y], Line(file.ihdr, pic, y), Line(file.ihdr, pic, y - 1), n)
           Item(y, x) == IF y = h THEN StreamEnd ELSE IF x = 0 THEN filters[y] ELSE F(y)[x]
<1>3. s = [i \in 1 .. N + 1 |-> Item((i - 1) \div L, (i - 1) % L)]
  <2>1. s = [i \in 1 .. h * L + 1 |-> Item((i - 1) \div L, (i - 1) % L)]
    BY <1>0 DEF Stream
  <2> HIDE DEF Item
  <2> QED
    BY <1>2, <2>1
<1>4. ASSUME NEW y \in 0 .. h - 1
      PROVE  /\ filters[y] \in 0 .. 4
             /\ \A x \in 1 .. L - 1 : F(y)[x] \in Byte
  <2>1. filters[y] \in 0 .. 4
    BY DEF AreFilters
  <2>2. Sized(Line(file.ihdr, pic, y), w * n, Byte) /\ Sized(Line(file.ihdr, pic, y - 1), w * n, Byte)
    <3>1. PICK z \in -1 .. h - 1 : z = y - 1
      BY <1>0
    <3>2. y \in -1 .. h - 1
      BY <1>0
    <3> QED
      BY <3>1, <3>2, LineIs
  <2>3. PICK m, filter, line, above :
          /\ m = w * n /\ m \in Nat /\ filter = filters[y] /\ filter \in 0 .. 4
          /\ line = Line(file.ihdr, pic, y) /\ above = Line(file.ihdr, pic, y - 1)
    BY <1>0, <2>1
  <2>4. \A x \in 1 .. m : Filtered(filter, line, above, n)[x] \in Byte
    BY <1>0, <2>2, <2>3, FilteredIs
  <2> QED
    BY <1>1, <2>1, <2>3, <2>4
<1> HIDE DEF F
<1>5. ASSUME NEW y \in 0 .. h, NEW x \in 0 .. L - 1, y * L + x <= N
      PROVE  y * L + x + 1 \in 1 .. N + 1 /\ s[y * L + x + 1] = Item(y, x)
  <2>1. (y * L + x) \div L = y /\ (y * L + x) % L = x /\ y * L + x \in Nat
    <3>1. y \in Nat /\ x \in Nat /\ x < L
      BY <1>0, <1>1
    <3> QED
      BY <1>1, <3>1, DivMod
  <2>2. PICK j \in Nat : j = y * L + x
    BY <2>1
  <2>3. j + 1 \in 1 .. N + 1 /\ (j + 1) - 1 = j
    BY <1>2, <1>5, <2>2
  <2>4. s[j + 1] = Item(j \div L, j % L)
    <3> HIDE DEF Item
    <3> QED
      BY <1>3, <2>3
  <2> QED
    BY <2>1, <2>2, <2>3, <2>4
<1>6. ASSUME NEW i \in 1 .. N + 1
      PROVE  \E y \in 0 .. h, x \in 0 .. L - 1 :
               /\ i = y * L + x + 1 /\ y * L + x <= N
               /\ i <= N => y \in 0 .. h - 1
               /\ i = N + 1 => y = h
  <2>1. PICK j \in Nat : j = i - 1
    OBVIOUS
  <2>2. PICK q \in Nat, r \in Nat : q = j \div L /\ r = j % L
    BY <1>1, Quotient
  <2>3. r < L /\ j = L * q + r /\ j <= N
    <3>1. L \in Nat \ {0}
      BY <1>1
    <3>2. j % L < L /\ j = L * (j \div L) + (j % L)
      BY <3>1, Quotient
    <3>3. j <= N
      BY <2>1
    <3> QED
      BY <2>2, <3>2, <3>3
  <2>4. L * h = N /\ L * q = q * L /\ L * q \in Nat
    BY <1>0, <1>1, <1>2
  <2>5. CASE q < h
    <3>1. L * q + L <= L * h
      BY <1>0, <1>1, <2>5, Multiples
    <3>2. i <= N
      BY <1>1, <1>2, <2>1, <2>3, <2>4, <3>1
    <3> QED
      BY <1>0, <1>1, <1>2, <2>1, <2>3, <2>4, <2>5, <3>2
  <2>6. CASE q = h
    <3>1. r = 0 /\ j = N
      BY <1>2, <2>3, <2>4, <2>6
    <3> QED
      BY <1>0, <1>1, <1>2, <2>1, <2>3, <2>4, <2>6, <3>1
  <2>7. CASE q > h
    <3>1. L * h + L <= L * q
      BY <1>0, <1>1, <2>7, Multiples
    <3> QED
      BY <1>1, <1>2, <2>3, <2>4, <3>1
  <2> QED
    BY <1>0, <2>5, <2>6, <2>7
<1>7. \A y \in 0 .. h - 1 : \A x \in 0 .. L - 1 : Item(y, x) \in Byte
  <2>1. ASSUME NEW y \in 0 .. h - 1, NEW x \in 0 .. L - 1 PROVE Item(y, x) \in Byte
    <3>1. y # h
      BY <1>0
    <3>2. filters[y] \in Byte
      BY <1>4, FilterAssumption
    <3>3. x # 0 => F(y)[x] \in Byte
      BY <1>1, <1>4
    <3> QED
      BY <3>1, <3>2, <3>3
  <2> QED
    BY <2>1
<1>8. IsStream(s, N)
  <2>1. ASSUME NEW i \in 1 .. N PROVE s[i] \in Byte
    <3>1. i \in 1 .. N + 1 /\ i <= N
      BY <1>2
    <3>2. PICK y \in 0 .. h, x \in 0 .. L - 1 : i = y * L + x + 1 /\ y * L + x <= N /\ y \in 0 .. h - 1
      BY <1>6, <3>1
    <3>3. s[i] = Item(y, x)
      BY <1>5, <3>2
    <3> QED
      BY <1>7, <3>2, <3>3
  <2>2. s[N + 1] = StreamEnd
    <3>1. N + 1 \in 1 .. N + 1
      BY <1>2
    <3>2. PICK y \in 0 .. h, x \in 0 .. L - 1 : N + 1 = y * L + x + 1 /\ y * L + x <= N /\ y = h
      BY <1>6, <3>1
    <3>3. s[N + 1] = Item(y, x)
      BY <1>5, <3>2
    <3> QED
      BY <3>2, <3>3
  <2>3. ASSUME NEW i \in 1 .. N + 1 PROVE s[i] \in Byte \cup {StreamEnd}
    <3>1. i \in 1 .. N \/ i = N + 1
      BY <1>2
    <3> QED
      BY <2>1, <2>2, <3>1
  <2>4. s \in [1 .. N + 1 -> Byte \cup {StreamEnd}]
    <3>1. s = [i \in 1 .. N + 1 |-> s[i]]
      <4> HIDE DEF Item
      <4> QED
        BY <1>3
    <3> QED
      BY <2>3, <3>1
  <2> QED
    BY <1>2, <2>1, <2>2, <2>4 DEF IsStream
<1>9. ASSUME NEW y \in 0 .. h - 1 PROVE HasLine(s, L, y, filters, file, pic, n)
  <2>1. L * y + L <= L * h /\ L * h = N /\ L * y = y * L /\ y * L \in Nat /\ y \in 0 .. h /\ y # h
    BY <1>0, <1>1, <1>2, Multiples
  <2>2. s[y * L + 1] = filters[y]
    <3>1. 0 \in 0 .. L - 1 /\ y * L + 0 <= N /\ y * L + 0 + 1 = y * L + 1
      BY <1>1, <1>2, <2>1
    <3>2. s[y * L + 0 + 1] = Item(y, 0)
      BY <1>5, <2>1, <3>1
    <3> QED
      BY <2>1, <3>1, <3>2
  <2>3. ASSUME NEW x \in 1 .. L - 1 PROVE s[y * L + 1 + x] = F(y)[x]
    <3>1. x \in 0 .. L - 1 /\ y * L + x <= N /\ y * L + x + 1 = y * L + 1 + x /\ x # 0
      BY <1>1, <1>2, <2>1
    <3>2. s[y * L + x + 1] = Item(y, x)
      BY <1>5, <2>1, <3>1
    <3> QED
      BY <2>1, <3>1, <3>2
  <2> QED
    BY <2>2, <2>3 DEF HasLine, F
<1> QED
  BY <1>1, <1>2, <1>8, <1>9

(* The bytes of a picture, line after line. *)
IsPictureData(d, pic, w, h, n) ==
  /\ d \in [1 .. h * (w * n) -> Byte]
  /\ \A p \in Grid(w, h) : \A c \in 1 .. n : d[n * Place(w, p) + c] = pic[p][c]

(* The lines of a stream are those of the picture. *)
LEMMA LinesHad ==
  ASSUME NEW pic, NEW file, NEW w, NEW h, NEW n, IsPictureOf(pic, file, w, h, n),
         NEW filters, AreFilters(filters, h), NEW L, L = w * n + 1,
         NEW s, s = Stream(file.ihdr, pic, filters),
         NEW data \in Seq(Byte), Len(data) = h * L, \A i \in 1 .. h * L : data[i] = s[i],
         NEW junk \in Byte
  PROVE  IsPictureData(png_unfilter(file.ihdr, data, junk), pic, w, h, n)
<1>0. PICK line \in Nat, N \in Nat : /\ line = w * n /\ N = h * L /\ L = line + 1
                                      /\ n \in Nat \ {0} /\ w \in Nat /\ h \in Nat
                                      /\ IsHeader(file.ihdr, n, line, h) /\ bpp(file.ihdr) = n
                                      /\ file.ihdr.width * bpp(file.ihdr) = line /\ file.ihdr.height = h
                                      /\ n <= 4
  <2>1. /\ n \in Nat \ {0} /\ w \in Nat /\ h \in Nat /\ w * n \in Nat
        /\ IsHeader(file.ihdr, n, w * n, h) /\ bpp(file.ihdr) = n /\ n <= 4
    <3>1. IsAccepted(file, w, h, n)
      BY DEF IsPictureOf
    <3>2. n <= 4
      BY <3>1 DEF IsAccepted
    <3> QED
      BY <3>1, <3>2, HeaderIs
  <2>2. h * L \in Nat
    BY <2>1
  <2> QED
    BY <2>1, <2>2 DEF IsHeader
<1>1. \A y \in 0 .. h - 1 : HasLine(s, L, y, filters, file, pic, n)
  BY StreamIs
<1>2. \A y \in 0 .. h - 1 : filters[y] \in 0 .. 4
  BY DEF AreFilters
<1> DEFINE Z(y) == Line(file.ihdr, pic, y)
<1>3. \A y \in -1 .. h - 1 : Sized(Z(y), line, Byte)
  <2>1. ASSUME NEW y \in -1 .. h - 1 PROVE Sized(Line(file.ihdr, pic, y), w * n, Byte)
    BY LineIs
  <2> QED
    BY <1>0, <2>1
<1>4. ASSUME NEW y \in 0 .. h - 1
      PROVE  /\ TypeAt(data, junk, line, y + 1) = filters[y]
             /\ Sized(InAt(data, junk, line, y + 1), line, Byte)
             /\ \A x \in 1 .. line :
                  InAt(data, junk, line, y + 1)[x] = Filtered(filters[y], Z(y), Z(y - 1), n)[x]
  <2>1. PICK m \in Nat : m = y * L /\ m + L <= N
    <3>1. L * y + L <= L * h /\ L * y = y * L /\ L * h = N /\ y * L \in Nat
      BY <1>0, Multiples
    <3> QED
      BY <3>1
  <2>2. ((y + 1) - 1) * (line + 1) = m
    <3>1. (y + 1) - 1 = y
      BY <1>0
    <3> QED
      BY <1>0, <2>1, <3>1
  <2>3. \A i \in 1 .. L : m + i \in 1 .. N /\ At(data, junk, m + i) = s[m + i]
    <3>1. ASSUME NEW i \in 1 .. L PROVE m + i \in 1 .. N /\ At(data, junk, m + i) = s[m + i]
      <4>1. m + i \in 1 .. N
        BY <1>0, <2>1
      <4>2. data[m + i] = s[m + i] /\ m + i <= Len(data)
        BY <1>0, <4>1
      <4> QED
        BY <4>1, <4>2 DEF At
    <3> QED
      BY <3>1
  <2>4. /\ s[m + 1] = filters[y]
        /\ \A x \in 1 .. line : s[m + 1 + x] = Filtered(filters[y], Z(y), Z(y - 1), n)[x]
    <3>1. HasLine(s, L, y, filters, file, pic, n) /\ L - 1 = line
      BY <1>0, <1>1
    <3> QED
      BY <2>1, <3>1 DEF HasLine
  <2>5. TypeAt(data, junk, line, y + 1) = filters[y]
    <3>1. 1 \in 1 .. L
      BY <1>0
    <3>2. TypeAt(data, junk, line, y + 1) = At(data, junk, m + 1)
      BY <2>2 DEF TypeAt
    <3> QED
      BY <2>3, <2>4, <3>1, <3>2
  <2>6. ASSUME NEW x \in 1 .. line
        PROVE  InAt(data, junk, line, y + 1)[x] = Filtered(filters[y], Z(y), Z(y - 1), n)[x]
    <3>1. 1 + x \in 1 .. L /\ m + (1 + x) = m + 1 + x
      BY <1>0
    <3>2. InAt(data, junk, line, y + 1)[x] = At(data, junk, m + 1 + x)
      BY <2>2 DEF InAt
    <3> QED
      BY <2>3, <2>4, <3>1, <3>2
  <2>7. Sized(InAt(data, junk, line, y + 1), line, Byte)
    <3>1. PICK k \in Nat \ {0} : k = y + 1
      BY <1>0
    <3>2. Sized(InAt(data, junk, line, k), line, Byte)
      BY AtIs
    <3> QED
      BY <3>1, <3>2
  <2> QED
    BY <2>5, <2>6, <2>7
<1>5. \A k \in 1 .. h : k - 1 \in 0 .. h - 1 /\ (k - 1) + 1 = k
  BY <1>0
<1>6. Inputs(data, junk, line, h)
  <2>1. ASSUME NEW k \in 1 .. h
        PROVE  TypeAt(data, junk, line, k) \in 0 .. 4 /\ Sized(InAt(data, junk, line, k), line, Byte)
    <3>1. PICK y \in 0 .. h - 1 : k = y + 1
      BY <1>5
    <3> QED
      BY <1>2, <1>4, <3>1
  <2> QED
    BY <2>1 DEF Inputs
<1>7. PICK d : d = png_unfilter(file.ihdr, data, junk)
  OBVIOUS
<1>8. UnfilterDone(d, data, junk, n, line, h)
  BY <1>0, <1>6, <1>7, LinesAre
<1>9. PICK lines : /\ IsLines(lines, data, junk, n, line, h)
                   /\ d = FlattenSeq([k \in 1 .. h |-> lines[k]])
  BY <1>8 DEF UnfilterDone
<1>10. /\ lines \in [0 .. h -> [1 .. line -> Byte]]
       /\ lines[0] = [i \in 1 .. line |-> 0]
       /\ \A k \in 1 .. h :
            IsUnfiltered(lines[k], TypeAt(data, junk, line, k), n, InAt(data, junk, line, k),
                         lines[k - 1], line)
  BY <1>9 DEF IsLines
<1> DEFINE G == {k \in 0 .. h : lines[k] = Z(k - 1)}
<1>11. 0 \in G
  <2>1. -1 \in -1 .. h - 1 /\ 0 - 1 = -1 /\ 0 \in 0 .. h
    BY <1>0
  <2>2. Line(file.ihdr, pic, -1) = [i \in 1 .. w * n |-> 0]
    BY <2>1, LineIs
  <2> QED
    BY <1>0, <1>10, <2>1, <2>2
<1>12. ASSUME NEW k \in 1 .. h, k - 1 \in G PROVE k \in G
  <2>1. PICK y \in 0 .. h - 1 : k = y + 1 /\ y = k - 1
    BY <1>5
  <2>2. PICK filter \in 0 .. 4 : filter = filters[y]
    BY <1>2
  <2>3. PICK above, ln : above = Z(y - 1) /\ ln = Z(y)
    OBVIOUS
  <2>4. Sized(above, line, Byte) /\ Sized(ln, line, Byte)
    <3>1. y - 1 \in -1 .. h - 1 /\ y \in -1 .. h - 1
      BY <1>0
    <3> QED
      BY <1>3, <2>3, <3>1
  <2>5. lines[k - 1] = above
    BY <1>12, <2>1, <2>3
  <2>6. PICK in, out : in = InAt(data, junk, line, k) /\ out = lines[k]
    OBVIOUS
  <2>7. \A i \in 1 .. line : in[i] = Filtered(filter, ln, above, n)[i]
    BY <1>4, <2>1, <2>2, <2>3, <2>6
  <2>8. IsUnfiltered(out, filter, n, in, above, line)
    <3>1. IsUnfiltered(lines[k], TypeAt(data, junk, line, k), n, InAt(data, junk, line, k),
                       lines[k - 1], line)
      BY <1>10
    <3>2. TypeAt(data, junk, line, k) = filter
      BY <1>4, <2>1, <2>2
    <3> QED
      BY <2>5, <2>6, <3>1, <3>2
  <2>9. out = ln
    BY <1>0, <2>4, <2>7, <2>8, HadBack
  <2> QED
    BY <2>1, <2>3, <2>6, <2>9
<1> HIDE DEF G
<1>13. \A k \in 0 .. h : k \in G
  BY <1>0, <1>11, <1>12, UpTo
<1>14. \A k \in 1 .. h : lines[k] = Z(k - 1)
  BY <1>0, <1>13 DEF G
<1> DEFINE rows == [k \in 1 .. h |-> lines[k]]
<1>15. Rows(rows, h, line, Byte)
  <2>1. \A k \in 1 .. h : lines[k] \in [1 .. line -> Byte]
    BY <1>10
  <2> QED
    BY <2>1 DEF Rows
<1>16. \A k \in 1 .. h : rows[k] = Z(k - 1)
  BY <1>14
<1> HIDE DEF rows, Z
<1>17. Joins(d, rows, h, line, Byte)
  <2>1. Joins(FlattenSeq(rows), rows, h, line, Byte)
    BY <1>0, <1>15, Flattened
  <2> QED
    BY <1>9, <2>1 DEF rows
<1>18. /\ d \in [1 .. h * line -> Byte]
       /\ \A k \in 1 .. h : \A i \in 1 .. line : d[(k - 1) * line + i] = rows[k][i]
  BY <1>17 DEF Joins
<1>19. ASSUME NEW p \in Grid(w, h), NEW c \in 1 .. n
       PROVE  d[n * Place(w, p) + c] = pic[p][c]
  <2>1. PICK x \in 0 .. w - 1, y \in 0 .. h - 1 : p = <<x, y>> /\ Place(w, p) = y * w + x
    BY DEF Grid, Place
  <2>2. PICK i : i = n * x + c
    OBVIOUS
  <2>3. i \in 1 .. line /\ Z(y)[i] = pic[p][c]
    <3>1. y \in -1 .. h - 1 /\ y # -1
      BY <1>0
    <3>2. n * x + c \in 1 .. w * n /\ Line(file.ihdr, pic, y)[n * x + c] = pic[<<x, y>>][c]
      <4>1. HasPoints(Line(file.ihdr, pic, y), pic, y, w, n)
        BY <3>1, LineIs
      <4> QED
        BY <4>1 DEF HasPoints
    <3> QED
      BY <1>0, <2>1, <2>2, <3>2 DEF Z
  <2>4. n * Place(w, p) + c = y * line + i
    <3>1. x \in Nat /\ y \in Nat /\ y * w \in Nat
      BY <1>0
    <3>2. n * (y * w + x) = n * (y * w) + n * x
      BY <1>0, <3>1
    <3>3. (y * w) * n = y * (w * n) /\ n * (y * w) = (y * w) * n
      BY <1>0, <3>1, Associates
    <3>4. n * x \in Nat /\ y * line \in Nat
      BY <1>0, <3>1
    <3> QED
      BY <1>0, <2>1, <2>2, <3>1, <3>2, <3>3, <3>4
  <2>5. y + 1 \in 1 .. h /\ (y + 1) - 1 = y
    BY <1>0
  <2>6. d[y * line + i] = Z(y)[i]
    BY <1>16, <1>18, <2>3, <2>5
  <2> QED
    BY <2>3, <2>4, <2>6
<1>20. IsPictureData(d, pic, w, h, n)
  BY <1>0, <1>18, <1>19 DEF IsPictureData
<1> QED
  BY <1>7, <1>20

(* A place is a row and a column... *)
LEMMA SplitUp ==
  ASSUME NEW L \in Nat \ {0}, NEW h \in Nat, NEW i \in 1 .. h * L
  PROVE  \E y \in 0 .. h - 1, x \in 0 .. L - 1 : i = y * L + x + 1
<1>1. PICK j \in Nat : j = i - 1
  OBVIOUS
<1>2. PICK q \in Nat, r \in Nat : q = j \div L /\ r = j % L
  BY Quotient
<1>3. r < L /\ j = L * q + r
  BY <1>2, Quotient
<1>4. PICK N \in Nat : N = h * L /\ N = L * h
  OBVIOUS
<1>5. q < h
  <2>1. CASE h <= q
    <3>1. L * h <= L * q /\ L * q \in Nat
      BY <2>1, Product
    <3> QED
      BY <1>1, <1>3, <1>4, <3>1
  <2> QED
    BY <2>1
<1>6. q \in 0 .. h - 1 /\ r \in 0 .. L - 1
  BY <1>3, <1>5
<1>7. L * q = q * L /\ q * L \in Nat
  OBVIOUS
<1>8. i = q * L + r + 1
  BY <1>1, <1>3, <1>7
<1> QED
  BY <1>6, <1>8

(* ... and so a point of the grid. *)
LEMMA PlaceOf ==
  ASSUME NEW w \in Nat, NEW h \in Nat, NEW i \in 0 .. w * h - 1
  PROVE  \E p \in Grid(w, h) : Place(w, p) = i
<1>1. PICK m \in Nat : m = w * h /\ m = h * w
  OBVIOUS
<1>2. i \in Nat /\ i < m
  BY <1>1
<1>3. w # 0
  <2>1. w = 0 => m = 0
    BY <1>1
  <2> QED
    BY <1>2, <2>1
<1>4. i + 1 \in 1 .. h * w /\ w \in Nat \ {0}
  BY <1>1, <1>2, <1>3
<1>5. PICK j : j = i + 1
  OBVIOUS
<1>6. PICK y \in 0 .. h - 1, x \in 0 .. w - 1 : j = y * w + x + 1
  BY <1>4, <1>5, SplitUp
<1>7. PICK z \in Nat : z = y * w
  OBVIOUS
<1>8. <<x, y>> \in Grid(w, h) /\ Place(w, <<x, y>>) = i
  BY <1>2, <1>5, <1>6, <1>7 DEF Grid, Place
<1> QED
  BY <1>8

(* The pixels of a picture's bytes show the picture. *)
LEMMA DataShows ==
  ASSUME NEW pic, NEW file, NEW w, NEW h, NEW n, IsPictureOf(pic, file, w, h, n),
         NEW d, IsPictureData(d, pic, w, h, n), NEW img,
         img = [width |-> w, height |-> h,
                data |-> [i \in 0 .. NumPixels(w, h) - 1 |-> PixelOf(file.ihdr, d, i)]]
  PROVE  IsLoaded(img, w, h) /\ Shows(img, pic)
<1>0. /\ IsAccepted(file, w, h, n) /\ w \in Color /\ h \in Color /\ Countable(w, h)
      /\ n \in Nat \ {0} /\ w \in Nat /\ h \in Nat /\ w * h \in Nat /\ NumPixels(w, h) = w * h
      /\ n = 3 \/ n = 4
  <2>1. IsAccepted(file, w, h, n)
    BY DEF IsPictureOf
  <2>2. w \in Color /\ h \in Color /\ Countable(w, h) /\ (n = 3 \/ n = 4)
    BY <2>1 DEF IsAccepted
  <2> QED
    BY <2>1, <2>2, HeaderIs
<1>1. /\ DOMAIN pic = Grid(w, h)
      /\ \A p \in Grid(w, h) : /\ pic[p] \in Byte \X Byte \X Byte \X Byte
                               /\ n = 3 => pic[p][4] = Full
  <2>1. file.ihdr.width = w /\ file.ihdr.height = h /\ (n = 3 => file.ihdr.color_type = PNG_TRUECOLOR)
    BY <1>0 DEF IsAccepted
  <2> QED
    BY <2>1 DEF IsPictureOf, IsPicture, Grid
<1>2. \A p \in Grid(w, h) : \A c \in 1 .. n : d[n * Place(w, p) + c] = pic[p][c]
  BY DEF IsPictureData
<1>3. ASSUME NEW p \in Grid(w, h)
      PROVE  /\ PixelOf(file.ihdr, d, Place(w, p)) \in Color
             /\ Components(PixelOf(file.ihdr, d, Place(w, p))) = pic[p]
  <2>1. PICK i \in Nat : i = Place(w, p)
    BY <1>0, PlaceIs
  <2>2. PICK r \in Byte, g \in Byte, b \in Byte, a \in Byte : pic[p] = <<r, g, b, a>>
    BY <1>1
  <2>3. \A c \in 1 .. n : d[n * i + c] = pic[p][c]
    BY <1>2, <2>1
  <2>4. BytesAt(d, n, i)
    <3>1. \A c \in 1 .. n : c \in {1, 2, 3, 4}
      BY <1>0
    <3>2. \A c \in {1, 2, 3, 4} : pic[p][c] \in Byte
      BY <2>2
    <3> QED
      BY <2>3, <3>1, <3>2 DEF BytesAt
  <2>5. /\ PixelOf(file.ihdr, d, i) \in Color
        /\ Components(PixelOf(file.ihdr, d, i))
              = <<d[n * i + 1], d[n * i + 2], d[n * i + 3],
                  IF n = 3 THEN Full ELSE d[n * i + 4]>>
    BY <1>0, <2>4, PixelOfIs
  <2>6. PICK m \in Nat : m = n * i
    BY <1>0
  <2>7. d[m + 1] = r /\ d[m + 2] = g /\ d[m + 3] = b /\ (n = 4 => d[m + 4] = a) /\ (n = 3 => a = Full)
    <3>1. \A c \in 1 .. n : d[m + c] = <<r, g, b, a>>[c]
      BY <2>2, <2>3, <2>6
    <3>2. 1 \in 1 .. n /\ 2 \in 1 .. n /\ 3 \in 1 .. n /\ (n = 4 => 4 \in 1 .. n)
      BY <1>0
    <3>3. n = 3 => pic[p][4] = Full
      BY <1>1
    <3> QED
      BY <2>2, <3>1, <3>2, <3>3
  <2>8. <<d[m + 1], d[m + 2], d[m + 3], IF n = 3 THEN Full ELSE d[m + 4]>> = <<r, g, b, a>>
    BY <1>0, <2>7
  <2> QED
    BY <2>1, <2>2, <2>5, <2>6, <2>8
<1>4. \A i \in 0 .. w * h - 1 : \E p \in Grid(w, h) : Place(w, p) = i
  BY <1>0, PlaceOf
<1>5. PICK m : m = NumPixels(w, h)
  OBVIOUS
<1>6. \A i \in 0 .. m - 1 : PixelOf(file.ihdr, d, i) \in Color
  BY <1>0, <1>3, <1>4, <1>5
<1>7. img \in ImagesOf(w, h)
  BY <1>5, <1>6 DEF ImagesOf
<1>8. \A p \in Grid(w, h) : img.data[Place(w, p)] = PixelOf(file.ihdr, d, Place(w, p))
  <2>1. \A p \in Grid(w, h) : Place(w, p) \in 0 .. w * h - 1
    BY <1>0, PlaceIs
  <2> QED
    BY <1>0, <2>1
<1>9. Shows(img, pic)
  <2>1. \A p \in Grid(w, h) : Components(img.data[Place(w, p)]) = pic[p]
    BY <1>3, <1>8
  <2> QED
    BY <1>0, <1>1, <1>7, <2>1, ShowsIs
<1> QED
  BY <1>0, <1>7, <1>9 DEF IsLoaded

(* No file that holds a picture by the standard is refused: read_image     *)
(* gives an image of its size, with all its pixels, that shows it.         *)
THEOREM FilesAreRead ==
  ASSUME NEW file, IsFile(file), NEW pic, Holds(file, pic), NEW junk \in Byte
  PROVE  /\ IsLoaded(read_image(file, junk), file.ihdr.width, file.ihdr.height)
         /\ Shows(read_image(file, junk), pic)
<1>1. Opens(file) /\ IsTruecolor(file.ihdr) /\ IsPicture(pic, file.ihdr) /\ ChunksInOrder(file.chunks)
  BY DEF Holds
<1>2. PICK w, h, n : IsAccepted(file, w, h, n)
  BY <1>1, AcceptedIs
<1>3. file.ihdr.width = w /\ file.ihdr.height = h
  BY <1>2 DEF IsAccepted
<1>4. IsPictureOf(pic, file, w, h, n)
  BY <1>1, <1>2 DEF IsPictureOf
<1>5. PICK filters : /\ AreFilters(filters, h)
                     /\ Carries(file.chunks, Stream(file.ihdr, pic, filters))
  BY <1>3 DEF Holds, AreFilters
<1>6. PICK s, L : s = Stream(file.ihdr, pic, filters) /\ L = w * n + 1
  OBVIOUS
<1>7. PICK N \in Nat : N = h * L /\ IsStream(s, N)
  BY <1>4, <1>5, <1>6, StreamIs
<1>8. png_datalen(file.ihdr) = N
  BY <1>2, <1>6, <1>7, HeaderIs
<1>9. AllChunks(file).rc = "done" /\ HasRead(AllChunks(file), s, N, N + 1)
  BY <1>1, <1>5, <1>6, <1>7, <1>8, AllCarried
<1>10. PICK png \in Png : png = AllChunks(file)
  BY <1>9 DEF HasRead
<1>11. /\ png.zs = "ended" /\ Len(png.data) = N
       /\ \A i \in 1 .. N : png.data[i] = s[i]
  BY <1>7, <1>9, <1>10 DEF HasRead
<1>12. PICK data \in Seq(Byte) : data = png.data
  BY <1>10 DEF Png
<1>13. PICK d : d = png_unfilter(file.ihdr, data, junk)
  OBVIOUS
<1>14. png_get_data(file, junk) = d
  BY <1>9, <1>10, <1>11, <1>12, <1>13 DEF png_get_data
<1>15. IsPictureData(d, pic, w, h, n)
  <2>1. Len(data) = h * L /\ \A i \in 1 .. h * L : data[i] = s[i]
    BY <1>7, <1>11, <1>12
  <2> QED
    BY <1>4, <1>5, <1>6, <1>13, <2>1, LinesHad
<1>16. d # NULL
  <2>1. PICK m \in Nat : m = h * (w * n)
    <3>1. h \in Nat /\ w * n \in Nat
      BY <1>2, HeaderIs
    <3> QED
      BY <3>1
  <2>2. d \in [1 .. m -> Byte]
    BY <1>15, <2>1 DEF IsPictureData
  <2>3. d \in Seq(Byte)
    BY <2>2, FunctionIsSeq
  <2> QED
    BY <2>3, NullAssumption
<1>17. read_image(file, junk) =
         [width |-> w, height |-> h,
          data |-> [i \in 0 .. NumPixels(w, h) - 1 |-> PixelOf(file.ihdr, d, i)]]
  BY <1>1, <1>3, <1>14, <1>16 DEF read_image
<1>18. PICK img : img = read_image(file, junk)
  OBVIOUS
<1>19. IsLoaded(img, w, h) /\ Shows(img, pic)
  BY <1>4, <1>15, <1>17, <1>18, DataShows
<1> QED
  BY <1>3, <1>18, <1>19

-----------------------------------------------------------------------------
(* Writing. *)

(* An image, or none, of which the bytes can be counted. *)
HasPixels(img, w, h) ==
  /\ w \in Color /\ h \in Color /\ Countable(w, h)
  /\ img.width = w /\ img.height = h
  /\ \A i \in 0 .. w * h - 1 : img.data[i] \in Color

(* The picture an image shows. *)
PictureOf(img) ==
  [p \in Grid(img.width, img.height) |-> Components(img.data[Place(img.width, p)])]

(* An image that is not too large has its pixels. *)
LEMMA PixelsAre ==
  ASSUME NEW img, IsImage(img), ~TooLarge(img)
  PROVE  HasPixels(img, img.width, img.height)
<1>1. PICK w \in Color, h \in Color : w = img.width /\ h = img.height
  BY ImageCases
<1>2. Countable(w, h) /\ w \in Nat /\ h \in Nat
  BY <1>1, WordIs DEF TooLarge, Color
<1>3. w * h = NumPixels(w, h)
  BY <1>2, CountableIs
<1>4. CASE img = NoImage
  <2>1. w * h = 0
    BY <1>1, <1>4 DEF NoImage
  <2>2. \A i \in 0 .. w * h - 1 : FALSE
    BY <2>1
  <2>3. \A i \in 0 .. w * h - 1 : img.data[i] \in Color
    BY <2>2
  <2> QED
    BY <1>1, <1>2, <2>3 DEF HasPixels
<1>5. CASE img # NoImage
  <2>1. img \in ImagesOf(w, h)
    BY <1>1, <1>5, ImageCases
  <2>2. img.data \in [0 .. NumPixels(w, h) - 1 -> Color]
    BY <2>1, ImageIs
  <2>3. \A i \in 0 .. w * h - 1 : img.data[i] \in Color
    BY <1>3, <2>2
  <2> QED
    BY <1>1, <1>2, <2>3 DEF HasPixels
<1> QED
  BY <1>4, <1>5

(* What is written of a colour are its components. *)
LEMMA ComponentsAre ==
  ASSUME NEW c \in Color
  PROVE  /\ Components(c) \in Byte \X Byte \X Byte \X Byte
         /\ Components(c) \in [1 .. 4 -> Byte]
         /\ Bytes(byteswap(c)) = Components(c)
<1>1. PICK r \in Byte, g \in Byte, b \in Byte, a \in Byte :
        r = get_r(c) /\ g = get_g(c) /\ b = get_b(c) /\ a = get_a(c) /\ c = Packed(r, g, b, a)
  BY ComponentsPack
<1>2. Components(c) = <<r, g, b, a>>
  BY <1>1 DEF Components
<1>3. Bytes(byteswap(Packed(r, g, b, a))) = <<r, g, b, a>>
  BY SwapIs
<1>4. <<r, g, b, a>> \in [1 .. 4 -> Byte]
  <2>1. <<r, g, b, a>> \in Seq(Byte) /\ Len(<<r, g, b, a>>) = 4
    OBVIOUS
  <2> QED
    BY <2>1, SeqIsFunction
<1>5. <<r, g, b, a>> \in Byte \X Byte \X Byte \X Byte
  OBVIOUS
<1>6. PICK t : t = <<r, g, b, a>>
  OBVIOUS
<1>7. /\ t \in Byte \X Byte \X Byte \X Byte /\ t \in [1 .. 4 -> Byte]
      /\ Components(c) = t /\ Bytes(byteswap(c)) = t
  BY <1>1, <1>2, <1>3, <1>4, <1>5, <1>6
<1> QED
  BY <1>7

(* The bytes of the pixels, and of the lines. *)
HasBytes(d, img, m) ==
  /\ d \in [1 .. m * 4 -> Byte]
  /\ \A i \in 0 .. m - 1 : \A c \in 1 .. 4 : d[i * 4 + c] = Components(img.data[i])[c]

LEMMA DataToWriteIs ==
  ASSUME NEW img, NEW w, NEW h, HasPixels(img, w, h)
  PROVE  HasBytes(DataToWrite(img), img, w * h)
<1>1. /\ w \in Nat /\ h \in Nat /\ w * h \in Nat /\ NumPixels(w, h) = w * h
      /\ img.width = w /\ img.height = h
  <2>1. w \in Nat /\ h \in Nat /\ Countable(w, h) /\ img.width = w /\ img.height = h
    BY WordIs DEF HasPixels, Color
  <2> QED
    BY <2>1, CountableIs
<1>2. PICK m \in Nat : m = w * h
  BY <1>1
<1> DEFINE s == [k \in 1 .. m |-> Bytes(byteswap(img.data[k - 1]))]
<1>3. DataToWrite(img) = FlattenSeq(s)
  BY <1>1, <1>2 DEF DataToWrite
<1>4. ASSUME NEW k \in 1 .. m
      PROVE  /\ Bytes(byteswap(img.data[k - 1])) = Components(img.data[k - 1])
             /\ Components(img.data[k - 1]) \in [1 .. 4 -> Byte]
  <2>1. k - 1 \in 0 .. m - 1
    BY <1>2
  <2>2. PICK c \in Color : c = img.data[k - 1]
    BY <1>2, <2>1 DEF HasPixels
  <2> QED
    BY <2>2, ComponentsAre
<1>5. Rows(s, m, 4, Byte) /\ \A k \in 1 .. m : s[k] = Components(img.data[k - 1])
  BY <1>4 DEF Rows
<1> HIDE DEF s
<1>6. Joins(FlattenSeq(s), s, m, 4, Byte)
  BY <1>5, Flattened
<1>7. PICK d : d = FlattenSeq(s)
  OBVIOUS
<1>8. d \in [1 .. m * 4 -> Byte] /\ \A k \in 1 .. m : \A c \in 1 .. 4 : d[(k - 1) * 4 + c] = s[k][c]
  BY <1>6, <1>7 DEF Joins
<1>9. ASSUME NEW i \in 0 .. m - 1, NEW c \in 1 .. 4
      PROVE  d[i * 4 + c] = Components(img.data[i])[c]
  <2>1. PICK k \in 1 .. m : k = i + 1 /\ k - 1 = i
    BY <1>2
  <2>2. d[(k - 1) * 4 + c] = s[k][c]
    BY <1>8
  <2> QED
    BY <1>5, <2>1, <2>2
<1> QED
  BY <1>2, <1>3, <1>7, <1>8, <1>9 DEF HasBytes

(* The lines, each after a 0 for no filter. *)
LEMMA LinesToWriteAre ==
  ASSUME NEW img, NEW w, NEW h, HasPixels(img, w, h), NEW line, line = 4 * w
  PROVE  /\ Lines(img) \in [1 .. h * (line + 1) -> Byte]
         /\ \A y \in 0 .. h - 1 :
              /\ Lines(img)[y * (line + 1) + 1] = 0
              /\ \A x \in 1 .. line :
                   Lines(img)[y * (line + 1) + 1 + x] = DataToWrite(img)[y * line + x]
<1>1. /\ w \in Nat /\ h \in Nat /\ line \in Nat /\ img.width = w /\ img.height = h
  BY WordIs DEF HasPixels, Color
<1>2. PICK m \in Nat : m = h * line /\ m = (w * h) * 4
  <2>1. h * line \in Nat
    BY <1>1
  <2>2. (h * w) * 4 = h * (w * 4) /\ h * w = w * h /\ w * 4 = 4 * w
    BY <1>1, Associates
  <2> QED
    BY <2>1, <2>2
<1>3. PICK dw : dw = DataToWrite(img)
  OBVIOUS
<1>4. dw \in [1 .. m -> Byte]
  <2>1. PICK n \in Nat : n = w * h /\ n * 4 = m
    <3>1. w * h \in Nat
      BY <1>1
    <3> QED
      BY <1>2, <3>1
  <2>2. HasBytes(dw, img, n)
    BY <1>3, <2>1, DataToWriteIs
  <2> QED
    BY <2>1, <2>2 DEF HasBytes
<1> DEFINE Row(k) == <<0>> \o SubSeq(dw, (k - 1) * line + 1, k * line)
           s == [k \in 1 .. h |-> Row(k)]
<1>5. Lines(img) = FlattenSeq(s)
  BY <1>1, <1>3 DEF Lines
<1>6. ASSUME NEW k \in 1 .. h
      PROVE  /\ Row(k) \in [1 .. line + 1 -> Byte]
             /\ Row(k)[1] = 0
             /\ \A x \in 1 .. line : Row(k)[1 + x] = dw[(k - 1) * line + x]
  <2>1. PICK p \in Nat : p = (k - 1) * line /\ p + line = k * line /\ p + line <= m
    <3>1. PICK y \in Nat : y = k - 1 /\ y < h /\ k = y + 1
      BY <1>1
    <3>2. line * y + line <= line * h /\ line * h = m /\ line * y = y * line /\ y * line \in Nat
      BY <1>1, <1>2, <3>1, Multiples
    <3>3. k * line = y * line + line
      BY <1>1, <3>1
    <3> QED
      BY <3>1, <3>2, <3>3
  <2>2. PICK a \in Int, b \in Int : a = p + 1 /\ b = p + line
    BY <1>1
  <2>3. \A i \in a .. b : dw[i] \in Byte
    BY <1>1, <1>4, <2>1, <2>2
  <2>4. PICK v : v = SubSeq(dw, a, b)
    OBVIOUS
  <2>5. v \in Seq(Byte) /\ Len(v) = line /\ \A x \in 1 .. line : v[x] = dw[p + x]
    <3>1. /\ SubSeq(dw, a, b) \in Seq(Byte)
          /\ Len(SubSeq(dw, a, b)) = IF a <= b THEN b - a + 1 ELSE 0
          /\ \A i \in 1 .. b - a + 1 : SubSeq(dw, a, b)[i] = dw[a + i - 1]
      BY <2>3, SubSeqProperties
    <3>2. /\ b - a + 1 = line /\ (IF a <= b THEN b - a + 1 ELSE 0) = line
          /\ \A i \in 1 .. line : a + i - 1 = p + i
      BY <1>1, <2>2
    <3> QED
      BY <2>4, <3>1, <3>2
  <2>6. PICK u : u = <<0>>
    OBVIOUS
  <2>7. u \in Seq(Byte) /\ Len(u) = 1 /\ u[1] = 0
    <3>1. 0 \in Byte
      BY BaseIs DEF Byte
    <3> QED
      BY <2>6, <3>1
  <2>8. Sized(u, 1, Byte) /\ Sized(v, line, Byte)
    <3>1. u \in [1 .. 1 -> Byte]
      BY <2>7, SeqIsFunction
    <3>2. v \in [1 .. line -> Byte]
      BY <2>5, SeqIsFunction
    <3> QED
      BY <3>1, <3>2 DEF Sized
  <2>9. IsJoined(u \o v, u, v, 1, line, Byte)
    BY <1>1, <2>8, Joined
  <2>10. PICK z : z = u \o v
    OBVIOUS
  <2>11. /\ z \in [1 .. 1 + line -> Byte]
         /\ z[1] = u[1]
         /\ \A x \in 1 .. line : z[1 + x] = v[x]
    <3>1. 1 \in 1 .. 1
      OBVIOUS
    <3> QED
      BY <2>9, <2>10, <3>1 DEF IsJoined
  <2>12. Row(k) = z
    BY <2>1, <2>2, <2>4, <2>6, <2>10
  <2> HIDE DEF Row
  <2>13. 1 + line = line + 1
    BY <1>1
  <2> QED
    BY <2>1, <2>5, <2>7, <2>11, <2>12, <2>13
<1> HIDE DEF Row
<1>7. Rows(s, h, line + 1, Byte) /\ \A k \in 1 .. h : s[k] = Row(k)
  BY <1>6 DEF Rows
<1> HIDE DEF s
<1>8. PICK L \in Nat : L = line + 1
  BY <1>1
<1>9. PICK d : d = FlattenSeq(s)
  OBVIOUS
<1>10. Joins(d, s, h, L, Byte)
  BY <1>1, <1>7, <1>8, <1>9, Flattened
<1>11. d \in [1 .. h * L -> Byte] /\ \A k \in 1 .. h : \A i \in 1 .. L : d[(k - 1) * L + i] = s[k][i]
  BY <1>10 DEF Joins
<1>12. ASSUME NEW y \in 0 .. h - 1
       PROVE  /\ d[y * L + 1] = 0
              /\ \A x \in 1 .. line : d[y * L + 1 + x] = dw[y * line + x]
  <2>1. PICK k \in 1 .. h : k = y + 1 /\ k - 1 = y
    BY <1>1
  <2>2. \A i \in 1 .. L : d[y * L + i] = Row(k)[i]
    BY <1>7, <1>11, <2>1
  <2>3. 1 \in 1 .. L /\ \A x \in 1 .. line : 1 + x \in 1 .. L
    BY <1>1, <1>8
  <2>4. d[y * L + 1] = 0
    BY <1>6, <2>2, <2>3
  <2>5. ASSUME NEW x \in 1 .. line PROVE d[y * L + 1 + x] = dw[y * line + x]
    <3>1. y * L + (1 + x) = y * L + 1 + x
      <4>1. y * L \in Int
        BY <1>8
      <4> QED
        BY <4>1
    <3>2. d[y * L + (1 + x)] = Row(k)[1 + x]
      BY <2>2, <2>3
    <3> QED
      BY <1>6, <2>1, <3>1, <3>2
  <2> QED
    BY <2>4, <2>5
<1> QED
  BY <1>3, <1>5, <1>8, <1>9, <1>11, <1>12

(* The bytes that are written are the stream of the image's picture. *)
IsWritten(file, img, w, h) ==
  /\ HasPixels(img, w, h)
  /\ file = png_set_data(img)

(* The header that is written is one that is accepted. *)
LEMMA HeaderWritten ==
  ASSUME NEW file, NEW img, NEW w, NEW h, IsWritten(file, img, w, h)
  PROVE  /\ w \in Nat /\ h \in Nat /\ w * h \in Nat
         /\ img.width = w /\ img.height = h
         /\ IsAccepted(file, w, h, 4) /\ IsTruecolor(file.ihdr) /\ Opens(file)
         /\ file.ihdr.width = w /\ file.ihdr.height = h
<1>1. /\ w \in Color /\ h \in Color /\ Countable(w, h) /\ img.width = w /\ img.height = h
  BY DEF IsWritten, HasPixels
<1>2. PICK ihdr : ihdr = file.ihdr
  OBVIOUS
<1>3. ihdr = [length |-> 13, crc |-> TRUE, width |-> w, height |-> h, depth |-> 8,
              color_type |-> PNG_TRUECOLOR_ALPHA, interlace |-> FALSE]
  BY <1>1, <1>2 DEF IsWritten, png_set_data
<1>4. /\ ihdr.length = 13 /\ ihdr.crc = TRUE /\ ihdr.width = w /\ ihdr.height = h /\ ihdr.depth = 8
      /\ ihdr.color_type = PNG_TRUECOLOR_ALPHA /\ ihdr.interlace = FALSE
  BY <1>3
<1>5. file.signature
  BY DEF IsWritten, png_set_data
<1>6. IsTruecolor(file.ihdr) /\ Opens(file)
  BY <1>2, <1>4, <1>5 DEF IsTruecolor, Opens, PNG_TRUECOLOR_ALPHA, PNG_INDEXED
<1>7. IsAccepted(file, w, h, 4)
  BY <1>1, <1>2, <1>4 DEF IsAccepted
<1>8. w \in Nat /\ h \in Nat /\ w * h \in Nat
  <2>1. w \in Nat /\ h \in Nat
    BY <1>1, WordIs DEF Color
  <2> QED
    BY <2>1
<1> QED
  BY <1>1, <1>2, <1>4, <1>6, <1>7, <1>8

(* The picture of an image. *)
LEMMA PictureWritten ==
  ASSUME NEW file, NEW img, NEW w, NEW h, IsWritten(file, img, w, h), NEW pic, pic = PictureOf(img)
  PROVE  /\ IsPictureOf(pic, file, w, h, 4)
         /\ DOMAIN pic = Grid(w, h)
         /\ \A p \in Grid(w, h) :
              /\ Place(w, p) \in 0 .. w * h - 1
              /\ img.data[Place(w, p)] \in Color
              /\ pic[p] = Components(img.data[Place(w, p)])
<1>1. /\ w \in Nat /\ h \in Nat /\ w * h \in Nat /\ img.width = w /\ img.height = h
      /\ IsAccepted(file, w, h, 4) /\ file.ihdr.width = w /\ file.ihdr.height = h
  BY HeaderWritten
<1>2. DOMAIN pic = Grid(w, h) /\ \A p \in Grid(w, h) : pic[p] = Components(img.data[Place(w, p)])
  BY <1>1 DEF PictureOf
<1>3. ASSUME NEW p \in Grid(w, h)
      PROVE  /\ Place(w, p) \in 0 .. w * h - 1 /\ img.data[Place(w, p)] \in Color
             /\ pic[p] \in Byte \X Byte \X Byte \X Byte
  <2>1. PICK i \in 0 .. w * h - 1 : i = Place(w, p)
    BY <1>1, PlaceIs
  <2>2. PICK c \in Color : c = img.data[i]
    BY <2>1 DEF IsWritten, HasPixels
  <2> QED
    BY <1>2, <2>1, <2>2, ComponentsAre
<1>4. file.ihdr.color_type # PNG_TRUECOLOR
  BY <1>1 DEF IsAccepted, PNG_TRUECOLOR, PNG_TRUECOLOR_ALPHA
<1>5. IsPicture(pic, file.ihdr)
  BY <1>1, <1>2, <1>3, <1>4 DEF IsPicture, Grid
<1> QED
  BY <1>1, <1>2, <1>3, <1>5 DEF IsPictureOf

(* One byte of a line that is not filtered. *)
LEMMA ByteWritten ==
  ASSUME NEW file, NEW img, NEW w, NEW h, IsWritten(file, img, w, h), NEW pic, pic = PictureOf(img),
         NEW y \in 0 .. h - 1, NEW x \in 1 .. 4 * w
  PROVE  /\ Line(file.ihdr, pic, y)[x] = DataToWrite(img)[y * (4 * w) + x]
         /\ Filtered(0, Line(file.ihdr, pic, y), Line(file.ihdr, pic, y - 1), 4)[x]
              = Line(file.ihdr, pic, y)[x]
<1>1. w \in Nat /\ h \in Nat /\ w * 4 \in Nat /\ w * 4 = 4 * w
  <2>1. w \in Nat /\ h \in Nat
    BY HeaderWritten
  <2> QED
    BY <2>1
<1>2. IsPictureOf(pic, file, w, h, 4)
  BY PictureWritten
<1>3. PICK line, above : line = Line(file.ihdr, pic, y) /\ above = Line(file.ihdr, pic, y - 1)
  OBVIOUS
<1>4. y \in -1 .. h - 1 /\ y - 1 \in -1 .. h - 1 /\ y # -1
  BY <1>1
<1>5. /\ Sized(line, w * 4, Byte) /\ Sized(above, w * 4, Byte)
      /\ HasPoints(line, pic, y, w, 4)
  BY <1>2, <1>3, <1>4, LineIs
<1>6. Filtered(0, line, above, 4)[x] = line[x]
  <2>1. 0 \in 0 .. 4 /\ 4 \in Nat \ {0}
    OBVIOUS
  <2>2. PICK m \in Nat : m = w * 4
    BY <1>1
  <2>3. Sized(line, m, Byte) /\ Sized(above, m, Byte) /\ x \in 1 .. m
    BY <1>1, <1>5, <2>2
  <2> QED
    BY <2>1, <2>3, FilteredIs
<1>7. PICK u \in 0 .. w - 1, e \in 0 .. 3 : x = u * 4 + e + 1
  <2>1. PICK n \in Nat \ {0} : n = 4 /\ n - 1 = 3
    OBVIOUS
  <2>2. x \in 1 .. w * n
    BY <1>1, <2>1
  <2>3. \E a \in 0 .. w - 1, e \in 0 .. n - 1 : x = a * n + e + 1
    BY <1>1, <2>1, <2>2, SplitUp
  <2> QED
    BY <2>1, <2>3
<1>8. PICK c \in 1 .. 4 : c = e + 1 /\ x = 4 * u + c
  BY <1>7
<1>9. line[x] = pic[<<u, y>>][c]
  BY <1>5, <1>8 DEF HasPoints
<1>10. PICK p \in Grid(w, h) : p = <<u, y>>
  BY DEF Grid
<1>11. pic[p] = Components(img.data[Place(w, p)]) /\ Place(w, p) \in 0 .. w * h - 1
  BY PictureWritten
<1>12. PICK i \in 0 .. w * h - 1 : i = Place(w, p)
  BY <1>11
<1>13. i = y * w + u
  BY <1>10, <1>12 DEF Place
<1>14. DataToWrite(img)[i * 4 + c] = Components(img.data[i])[c]
  <2>1. HasPixels(img, w, h)
    BY DEF IsWritten
  <2>2. PICK m : m = w * h
    OBVIOUS
  <2>3. HasBytes(DataToWrite(img), img, m)
    BY <2>1, <2>2, DataToWriteIs
  <2> QED
    BY <1>8, <1>12, <2>2, <2>3 DEF HasBytes
<1>15. i * 4 + c = y * (4 * w) + x
  <2>1. PICK a \in Nat : a = y * w
    BY <1>1
  <2>2. y * (4 * w) = 4 * a
    <3>1. (y * w) * 4 = y * (w * 4)
      BY <1>1, Associates
    <3> QED
      BY <1>1, <2>1, <3>1
  <2> QED
    BY <1>8, <1>13, <2>1, <2>2
<1> QED
  BY <1>3, <1>6, <1>9, <1>10, <1>11, <1>12, <1>14, <1>15

(* The bytes written and the mark of their end are the picture's stream. *)
LEMMA StreamWritten ==
  ASSUME NEW file, NEW img, NEW w, NEW h, IsWritten(file, img, w, h), NEW pic, pic = PictureOf(img),
         NEW filters, filters = [y \in 0 .. h - 1 |-> 0]
  PROVE  /\ AreFilters(filters, h)
         /\ Append(Lines(img), StreamEnd) = Stream(file.ihdr, pic, filters)
         /\ IsStream(Append(Lines(img), StreamEnd), h * (w * 4 + 1))
<1>1. w \in Nat /\ h \in Nat /\ IsPictureOf(pic, file, w, h, 4)
  BY HeaderWritten, PictureWritten
<1>2. AreFilters(filters, h)
  BY DEF AreFilters
<1>3. PICK s, L, line : s = Stream(file.ihdr, pic, filters) /\ L = w * 4 + 1 /\ line = 4 * w
  OBVIOUS
<1>4. /\ L \in Nat \ {0} /\ h * L \in Nat /\ IsStream(s, h * L)
      /\ \A y \in 0 .. h - 1 : HasLine(s, L, y, filters, file, pic, 4)
  BY <1>1, <1>2, <1>3, StreamIs
<1>5. PICK N \in Nat : N = h * L
  BY <1>4
<1>6. line \in Nat /\ line + 1 = L
  BY <1>1, <1>3
<1>7. PICK b : b = Lines(img)
  OBVIOUS
<1>8. /\ b \in [1 .. N -> Byte]
      /\ \A y \in 0 .. h - 1 : b[y * L + 1] = 0
      /\ \A y \in 0 .. h - 1 : \A x \in 1 .. line :
           b[y * L + 1 + x] = DataToWrite(img)[y * line + x]
  <2>1. HasPixels(img, w, h)
    BY DEF IsWritten
  <2>2. /\ b \in [1 .. h * (line + 1) -> Byte]
        /\ \A y \in 0 .. h - 1 :
              /\ b[y * (line + 1) + 1] = 0
              /\ \A x \in 1 .. line : b[y * (line + 1) + 1 + x] = DataToWrite(img)[y * line + x]
    BY <1>3, <1>7, <2>1, LinesToWriteAre
  <2> QED
    BY <1>5, <1>6, <2>2
<1>9. ASSUME NEW i \in 1 .. N PROVE s[i] = b[i]
  <2>1. PICK y \in 0 .. h - 1, x \in 0 .. L - 1 : i = y * L + x + 1
    BY <1>1, <1>4, <1>5, SplitUp
  <2>2. PICK z \in Nat : z = y * L
    BY <1>4
  <2>3. HasLine(s, L, y, filters, file, pic, 4)
    BY <1>4
  <2>4. CASE x = 0
    <3>1. i = z + 1
      BY <2>1, <2>2, <2>4
    <3>2. s[z + 1] = 0
      BY <2>2, <2>3 DEF HasLine
    <3>3. b[z + 1] = 0
      BY <1>8, <2>2
    <3> QED
      BY <3>1, <3>2, <3>3
  <2>5. CASE x # 0
    <3>1. x \in 1 .. line /\ x \in 1 .. L - 1 /\ i = z + 1 + x
      BY <1>6, <2>1, <2>2, <2>5
    <3>2. s[z + 1 + x] = Filtered(filters[y], Line(file.ihdr, pic, y), Line(file.ihdr, pic, y - 1), 4)[x]
      BY <2>2, <2>3, <3>1 DEF HasLine
    <3>3. filters[y] = 0
      OBVIOUS
    <3>4. /\ Line(file.ihdr, pic, y)[x] = DataToWrite(img)[y * line + x]
          /\ Filtered(0, Line(file.ihdr, pic, y), Line(file.ihdr, pic, y - 1), 4)[x]
               = Line(file.ihdr, pic, y)[x]
      BY <1>3, <3>1, ByteWritten
    <3>5. b[z + 1 + x] = DataToWrite(img)[y * line + x]
      BY <1>8, <2>2, <3>1
    <3> QED
      BY <3>1, <3>2, <3>3, <3>4, <3>5
  <2> QED
    BY <2>4, <2>5
<1>10. PICK t : t = Append(b, StreamEnd)
  OBVIOUS
<1>11. /\ t \in [1 .. N + 1 -> Byte \cup {StreamEnd}]
       /\ \A i \in 1 .. N : t[i] = b[i]
       /\ t[N + 1] = StreamEnd
  <2>1. b \in Seq(Byte \cup {StreamEnd}) /\ Len(b) = N
    <3>1. b \in [1 .. N -> Byte \cup {StreamEnd}]
      BY <1>8
    <3> QED
      BY <3>1, FunctionIsSeq
  <2>2. StreamEnd \in Byte \cup {StreamEnd}
    OBVIOUS
  <2>3. /\ t \in Seq(Byte \cup {StreamEnd}) /\ Len(t) = N + 1
        /\ \A i \in 1 .. N : t[i] = b[i]
        /\ t[N + 1] = StreamEnd
    BY <1>10, <2>1, <2>2, AppendProperties
  <2>4. t \in [1 .. N + 1 -> Byte \cup {StreamEnd}]
    BY <2>3, SeqIsFunction
  <2> QED
    BY <2>3, <2>4
<1>12. s \in [1 .. N + 1 -> Byte \cup {StreamEnd}] /\ s[N + 1] = StreamEnd
  BY <1>4, <1>5 DEF IsStream
<1>13. t = s
  <2>1. \A i \in 1 .. N + 1 : i \in 1 .. N \/ i = N + 1
    OBVIOUS
  <2>2. \A i \in 1 .. N + 1 : t[i] = s[i]
    BY <1>9, <1>11, <1>12, <2>1
  <2> QED
    BY <1>11, <1>12, <2>2
<1> QED
  BY <1>2, <1>3, <1>4, <1>7, <1>10, <1>13

(* A stream in one chunk, before an IEND of whatever checksum. *)
InOneChunk(chunks, s) ==
  \E crc \in BOOLEAN :
    chunks = <<[type |-> "IDAT", crc |-> TRUE, data |-> s],
               [type |-> "IEND", crc |-> crc, data |-> <<>>]>>

(* It is carried in one chunk, IEND is the other. *)
LEMMA OneChunk ==
  ASSUME NEW s, NEW N, IsStream(s, N), NEW chunks, InOneChunk(chunks, s)
  PROVE  /\ chunks \in Seq(Chunk) /\ Len(chunks) = 2
         /\ ChunksInOrder(chunks) /\ Carries(chunks, s)
<1>1. /\ N \in Nat /\ s \in Seq(Byte \cup {StreamEnd}) /\ Len(s) = N + 1
      /\ s \in [1 .. N + 1 -> Byte \cup {StreamEnd}]
  <2>1. N \in Nat /\ s \in [1 .. N + 1 -> Byte \cup {StreamEnd}]
    BY DEF IsStream
  <2>2. PICK m \in Nat : m = N + 1
    BY <2>1
  <2> QED
    BY <2>1, <2>2, FunctionIsSeq
<1>0. PICK crc \in BOOLEAN :
        chunks = <<[type |-> "IDAT", crc |-> TRUE, data |-> s],
                   [type |-> "IEND", crc |-> crc, data |-> <<>>]>>
  BY DEF InOneChunk
<1>2. PICK c, d : /\ c = [type |-> "IDAT", crc |-> TRUE, data |-> s]
                  /\ d = [type |-> "IEND", crc |-> crc, data |-> <<>>]
  OBVIOUS
<1>3. /\ c \in Chunk /\ c.type = "IDAT" /\ c.crc = TRUE /\ c.data = s
      /\ d \in Chunk /\ d.type = "IEND" /\ d.data = <<>>
  <2>1. PICK none : none = <<>>
    OBVIOUS
  <2>2. none \in Seq(Byte \cup {StreamEnd})
    BY <2>1
  <2>3. c \in Chunk /\ c.type = "IDAT" /\ c.crc = TRUE /\ c.data = s
    BY <1>1, <1>2 DEF Chunk
  <2>4. d = [type |-> "IEND", crc |-> crc, data |-> none]
    BY <1>2, <2>1
  <2>5. d \in Chunk /\ d.type = "IEND" /\ d.data = none
    BY <2>2, <2>4 DEF Chunk
  <2> QED
    BY <2>1, <2>3, <2>5
<1>4. chunks = <<c, d>>
  BY <1>0, <1>2
<1>5. /\ chunks \in Seq(Chunk) /\ Len(chunks) = 2 /\ DOMAIN chunks = 1 .. 2
      /\ chunks[1] = c /\ chunks[2] = d /\ chunks # <<>>
  BY <1>3, <1>4
<1>6. s # <<>>
  BY <1>1
<1>7. \A k \in 1 .. 2 : k = 1 \/ k = 2
  OBVIOUS
<1>8. ChunksInOrder(chunks)
  <2>1. ASSUME NEW k \in 1 .. 2
        PROVE  /\ chunks[k].type = "IEND" <=> k = 2
               /\ chunks[k].type = "IDAT" => chunks[k].crc /\ chunks[k].data # <<>>
    <3>1. CASE k = 1
      BY <1>3, <1>5, <1>6, <3>1
    <3>2. CASE k = 2
      BY <1>3, <1>5, <3>2
    <3> QED
      BY <1>7, <3>1, <3>2
  <2> QED
    BY <1>5, <2>1 DEF ChunksInOrder
<1>9. Carries(chunks, s)
  <2> DEFINE D(k) == DataLength(chunks[k])
             sent == CHOOSE f : f = [k \in 0 .. Len(chunks) |-> IF k = 0 THEN 0 ELSE f[k - 1] + D(k)]
             f == [k \in 0 .. 2 |-> IF k = 0 THEN 0 ELSE N + 1]
  <2>1. D(1) = N + 1 /\ D(2) = 0
    BY <1>1, <1>3, <1>5 DEF DataLength
  <2>2. Carries(chunks, s) <=>
          /\ sent[Len(chunks)] = Len(s)
          /\ \A k \in DOMAIN chunks : chunks[k].type = "IDAT" =>
               chunks[k].data = SubSeq(s, sent[k - 1] + 1, sent[k])
    BY DEF Carries
  <2> HIDE DEF D
  <2>3. f = [k \in 0 .. Len(chunks) |-> IF k = 0 THEN 0 ELSE f[k - 1] + D(k)]
    <3>1. ASSUME NEW k \in 0 .. 2 PROVE f[k] = IF k = 0 THEN 0 ELSE f[k - 1] + D(k)
      <4>1. k = 0 \/ k = 1 \/ k = 2
        OBVIOUS
      <4> QED
        BY <1>1, <2>1, <4>1
    <3> QED
      BY <1>5, <3>1
  <2> HIDE DEF f
  <2>4. sent = [k \in 0 .. Len(chunks) |-> IF k = 0 THEN 0 ELSE sent[k - 1] + D(k)]
    BY <2>3
  <2> HIDE DEF sent
  <2>5. sent[0] = 0 /\ sent[1] = N + 1 /\ sent[2] = N + 1
    <3>1. sent[0] = 0
      BY <1>5, <2>4
    <3>2. sent[1] = sent[0] + D(1)
      BY <1>5, <2>4
    <3>3. sent[2] = sent[1] + D(2)
      BY <1>5, <2>4
    <3> QED
      BY <1>1, <2>1, <3>1, <3>2, <3>3
  <2>6. SubSeq(s, 0 + 1, N + 1) = s
    <3>1. PICK t, u : t = 0 /\ u = N + 1
      OBVIOUS
    <3>2. t \in Nat /\ u \in Nat /\ t < u /\ u <= N + 1 /\ u - t = u
      BY <1>1, <3>1
    <3>3. PICK p : p = SubSeq(s, t + 1, u)
      OBVIOUS
    <3>4. p \in Input /\ Len(p) = u - t /\ \A i \in 1 .. u - t : p[i] = s[t + i]
      BY <3>2, <3>3, PartIs
    <3>5. p \in [1 .. u -> Byte \cup {StreamEnd}]
      <4>1. p \in Seq(Byte \cup {StreamEnd}) /\ Len(p) = u
        BY <3>2, <3>4 DEF Input
      <4> QED
        BY <4>1, SeqIsFunction
    <3>6. \A i \in 1 .. u : p[i] = s[i]
      BY <3>1, <3>2, <3>4
    <3>7. p = s
      BY <1>1, <3>1, <3>5, <3>6
    <3> QED
      BY <3>1, <3>3, <3>7
  <2>7. ASSUME NEW k \in 1 .. 2, chunks[k].type = "IDAT"
        PROVE  chunks[k].data = SubSeq(s, sent[k - 1] + 1, sent[k])
    <3>1. k = 1
      BY <1>3, <1>5, <1>7, <2>7
    <3>2. k - 1 = 0
      BY <3>1
    <3> QED
      BY <1>3, <1>5, <2>5, <2>6, <3>1, <3>2
  <2> QED
    BY <1>1, <1>5, <2>2, <2>5, <2>7
<1> QED
  BY <1>5, <1>8, <1>9

(* A file that differs from the one written in the checksum of IEND only. *)
IsLike(out, file, img) ==
  /\ out.signature = file.signature /\ out.ihdr = file.ihdr
  /\ InOneChunk(out.chunks, Append(Lines(img), StreamEnd))

LEMMA LikeItself ==
  ASSUME NEW file, NEW img, NEW w, NEW h, IsWritten(file, img, w, h)
  PROVE  IsLike(file, file, img)
<1>1. PICK s : s = Append(Lines(img), StreamEnd)
  OBVIOUS
<1>2. InOneChunk(file.chunks, s)
  BY <1>1 DEF IsWritten, png_set_data, InOneChunk
<1> QED
  BY <1>1, <1>2 DEF IsLike

(* It is a file, and holds the picture of the image written. *)
LEMMA WrittenHolds ==
  ASSUME NEW file, NEW img, NEW w, NEW h, IsWritten(file, img, w, h),
         NEW out, IsLike(out, file, img)
  PROVE  IsFile(out) /\ Holds(out, PictureOf(img)) /\ Len(out.chunks) = 2
<1>1. /\ IsAccepted(file, w, h, 4) /\ IsTruecolor(file.ihdr) /\ Opens(file)
      /\ file.ihdr.width = w /\ file.ihdr.height = h
  BY HeaderWritten
<1>2. w \in Color /\ h \in Color /\ Countable(w, h)
  BY <1>1 DEF IsAccepted
<1>3. PICK pic, filters, s : /\ pic = PictureOf(img) /\ filters = [y \in 0 .. h - 1 |-> 0]
                             /\ s = Append(Lines(img), StreamEnd)
  OBVIOUS
<1>4. IsPicture(pic, file.ihdr)
  BY <1>3, PictureWritten DEF IsPictureOf
<1>5. /\ AreFilters(filters, h) /\ s = Stream(file.ihdr, pic, filters)
      /\ IsStream(s, h * (w * 4 + 1))
  BY <1>3, StreamWritten
<1>6. InOneChunk(out.chunks, s) /\ out.ihdr = file.ihdr
  BY <1>3 DEF IsLike
<1>7. PICK N, chunks : N = h * (w * 4 + 1) /\ chunks = out.chunks
  OBVIOUS
<1>8. /\ chunks \in Seq(Chunk) /\ Len(chunks) = 2
      /\ ChunksInOrder(chunks) /\ Carries(chunks, s)
  BY <1>5, <1>6, <1>7, OneChunk
<1>9. Opens(out)
  BY <1>1 DEF IsLike, Opens
<1>10. IsFile(out)
  BY <1>1, <1>2, <1>6, <1>7, <1>8 DEF IsFile
<1>11. Holds(out, pic)
  BY <1>1, <1>2, <1>4, <1>5, <1>6, <1>7, <1>8, <1>9 DEF Holds, AreFilters
<1> QED
  BY <1>3, <1>7, <1>8, <1>10, <1>11

(* A file without an IEND chunk is not read as an image. *)
LEMMA NoEndIs ==
  ASSUME NEW file, file.chunks \in Seq(Chunk),
         \A k \in DOMAIN file.chunks : file.chunks[k].type # "IEND", NEW junk
  PROVE  read_image(file, junk) = NoImage
<1>1. PICK n \in Nat : n = Len(file.chunks) /\ DOMAIN file.chunks = 1 .. n
  OBVIOUS
<1>2. PICK f : IsRead(f, file, n) /\ AllChunks(file) = f[n]
  BY <1>1, AllChunksAre
<1>3. /\ f \in [0 .. n -> Png] /\ f[0] = NoData
      /\ \A k \in 1 .. n : f[k] = IF f[k - 1].rc # "no error" THEN f[k - 1]
                                  ELSE png_process_chunk(f[k - 1], file.ihdr, file.chunks[k])
  BY <1>2 DEF IsRead
<1> DEFINE G == {k \in 0 .. n : f[k].rc # "done"}
<1>4. 0 \in G
  <2>1. NoData.rc = "no error"
    BY DEF NoData
  <2>2. PICK png : png = f[0]
    OBVIOUS
  <2>3. png.rc # "done"
    BY <1>3, <2>1, <2>2
  <2>4. 0 \in 0 .. n
    BY <1>1
  <2> QED
    BY <2>2, <2>3, <2>4
<1>5. ASSUME NEW k \in 1 .. n, k - 1 \in G PROVE k \in G
  <2>1. k - 1 \in 0 .. n /\ k \in 0 .. n
    BY <1>1
  <2>2. PICK png \in Png : png = f[k - 1]
    BY <1>3, <2>1
  <2>3. png.rc # "done"
    BY <1>5, <2>2
  <2>4. PICK chunk \in Chunk : chunk = file.chunks[k]
    BY <1>1
  <2>5. chunk.type # "IEND"
    BY <1>1, <2>4
  <2>6. png_process_chunk(png, file.ihdr, chunk).rc \in {png.rc, "error"}
    BY <2>5, ChunkTyped
  <2>7. f[k].rc # "done"
    BY <1>3, <2>2, <2>3, <2>4, <2>6
  <2> QED
    BY <2>1, <2>7
<1> HIDE DEF G
<1>6. n \in G
  <2>1. \A k \in 0 .. n : k \in G
    BY <1>1, <1>4, <1>5, UpTo
  <2> QED
    BY <1>1, <2>1
<1>7. AllChunks(file).rc # "done"
  BY <1>2, <1>6 DEF G
<1>8. png_get_data(file, junk) = NULL
  BY <1>7 DEF png_get_data
<1> QED
  BY <1>8 DEF read_image

(* What was written whole is read back; what was cut is not read. *)
LEMMA WholeReads ==
  ASSUME NEW file, NEW img, NEW w, NEW h, IsWritten(file, img, w, h), IsImage(img),
         NEW out, IsLike(out, file, img), NEW junk \in Byte
  PROVE  read_image(out, junk).data # NULL /\ Same(read_image(out, junk), img)
<1>1. w \in Nat /\ h \in Nat /\ w * h \in Nat /\ img.width = w /\ img.height = h
  BY HeaderWritten
<1>2. w \in Color /\ h \in Color /\ Countable(w, h) /\ NumPixels(w, h) = w * h
  <2>1. w \in Color /\ h \in Color /\ Countable(w, h)
    BY DEF IsWritten, HasPixels
  <2> QED
    BY <1>1, <2>1, CountableIs
<1>3. PICK pic : pic = PictureOf(img)
  OBVIOUS
<1>4. PICK im : im = read_image(out, junk)
  OBVIOUS
<1>5. IsLoaded(im, w, h) /\ Shows(im, pic)
  <2>1. IsFile(out) /\ Holds(out, pic)
    BY <1>3, WrittenHolds
  <2>2. out.ihdr.width = w /\ out.ihdr.height = h
    BY HeaderWritten DEF IsLike
  <2> QED
    BY <1>4, <2>1, <2>2, FilesAreRead
<1>6. im \in ImagesOf(w, h)
  BY <1>5 DEF IsLoaded
<1>7. im.width = w /\ im.height = h /\ im.data \in [0 .. NumPixels(w, h) - 1 -> Color] /\ im.data # NULL
  BY <1>2, <1>6, ImageIs
<1>8. \A p \in Grid(w, h) : Components(im.data[Place(w, p)]) = Components(img.data[Place(w, p)])
  <2>1. \A p \in Grid(w, h) : Components(im.data[Place(w, p)]) = pic[p]
    BY <1>2, <1>5, <1>6, ShowsIs
  <2>2. \A p \in Grid(w, h) : pic[p] = Components(img.data[Place(w, p)])
    BY <1>3, PictureWritten
  <2> QED
    BY <2>1, <2>2
<1>9. ASSUME NEW i \in 0 .. w * h - 1 PROVE im.data[i] = img.data[i]
  <2>1. PICK p \in Grid(w, h) : Place(w, p) = i
    BY <1>1, PlaceOf
  <2>2. img.data[i] \in Color
    BY DEF IsWritten, HasPixels
  <2>3. im.data[i] \in Color
    BY <1>2, <1>7
  <2>4. Components(im.data[i]) = Components(img.data[i])
    BY <1>8, <2>1
  <2> QED
    BY <2>2, <2>3, <2>4, ComponentsTell
<1>10. img.data # NULL => im.data = img.data
  <2>1. HAVE img.data # NULL
  <2>2. img # NoImage
    BY <2>1 DEF NoImage
  <2>3. img \in ImagesOf(w, h)
    BY <1>1, <2>2, ImageCases
  <2>4. img.data \in [0 .. NumPixels(w, h) - 1 -> Color]
    BY <1>2, <2>3, ImageIs
  <2>5. PICK D, a, b : D = 0 .. NumPixels(w, h) - 1 /\ a = im.data /\ b = img.data
    OBVIOUS
  <2>6. a \in [D -> Color] /\ b \in [D -> Color] /\ \A i \in D : a[i] = b[i]
    BY <1>2, <1>7, <1>9, <2>4, <2>5
  <2>7. a = b
    BY <2>6
  <2> QED
    BY <2>5, <2>7
<1> QED
  BY <1>1, <1>4, <1>7, <1>10 DEF Same

(* What is kept of a file that was written is read as the image it was     *)
(* written from if both chunks are there, and is refused otherwise.        *)
LEMMA KeptReads ==
  ASSUME NEW file, NEW img, NEW w, NEW h, IsWritten(file, img, w, h), IsImage(img),
         NEW out \in Kept(file), NEW junk \in Byte
  PROVE  IF Len(out.chunks) = 2
         THEN read_image(out, junk).data # NULL /\ Same(read_image(out, junk), img)
         ELSE read_image(out, junk) = NoImage
<1>0. IsLike(file, file, img)
  BY LikeItself
<1>1. PICK chunks : chunks = file.chunks
  OBVIOUS
<1>2. chunks \in Seq(Chunk) /\ Len(chunks) = 2 /\ ChunksInOrder(chunks)
  BY <1>0, <1>1, WrittenHolds DEF IsFile, Holds
<1>3. PICK keys : DOMAIN file = keys /\ "chunks" \in keys /\ file = [x \in keys |-> file[x]]
  BY DEF IsWritten, png_set_data
<1>4. CASE out = NoFile
  <2>1. Len(out.chunks) # 2
    BY <1>4 DEF NoFile
  <2>2. ~Opens(out)
    BY <1>4 DEF NoFile, Opens
  <2> QED
    BY <2>1, <2>2 DEF read_image
<1>5. CASE out = [file EXCEPT !.chunks[Len(chunks)].crc = FALSE]
  <2>1. PICK s : s = Append(Lines(img), StreamEnd)
    OBVIOUS
  <2>2. PICK c, d : c = [type |-> "IDAT", crc |-> TRUE, data |-> s]
                    /\ d = [type |-> "IEND", crc |-> TRUE, data |-> <<>>]
    OBVIOUS
  <2>3. chunks = <<c, d>>
    BY <1>1, <2>1, <2>2 DEF IsWritten, png_set_data
  <2>4. PICK lost : lost = [chunks EXCEPT ![2].crc = FALSE]
    OBVIOUS
  <2>5. PICK e : e = [type |-> "IEND", crc |-> FALSE, data |-> <<>>] /\ lost = <<c, e>>
    <3>1. PICK none : none = <<>>
      OBVIOUS
    <3>2. PICK e : e = [d EXCEPT !.crc = FALSE]
      OBVIOUS
    <3>3. e = [type |-> "IEND", crc |-> FALSE, data |-> none]
      BY <2>2, <3>1, <3>2
    <3>4. DOMAIN chunks = 1 .. 2 /\ chunks[1] = c /\ chunks[2] = d
      BY <2>3
    <3>5. lost = [chunks EXCEPT ![2] = e]
      BY <2>4, <3>2, <3>4
    <3>6. lost = <<c, e>>
      BY <2>3, <3>5
    <3> QED
      BY <3>1, <3>3, <3>6
  <2>6. out = [file EXCEPT !.chunks = lost]
    BY <1>1, <1>2, <1>5, <2>4
  <2>7. out.chunks = lost /\ out.ihdr = file.ihdr /\ out.signature = file.signature
    BY <1>3, <2>6
  <2>8. InOneChunk(lost, s)
    BY <2>2, <2>5 DEF InOneChunk
  <2>9. IsLike(out, file, img)
    BY <2>1, <2>7, <2>8 DEF IsLike
  <2>10. Len(out.chunks) = 2
    BY <2>9, WrittenHolds
  <2> QED
    BY <2>9, <2>10, WholeReads
<1>6. ASSUME NEW k \in 0 .. 2, out = [file EXCEPT !.chunks = SubSeq(chunks, 1, k)]
      PROVE  IF Len(out.chunks) = 2
             THEN read_image(out, junk).data # NULL /\ Same(read_image(out, junk), img)
             ELSE read_image(out, junk) = NoImage
  <2>2. PICK part : part = SubSeq(chunks, 1, k)
    OBVIOUS
  <2>3. /\ part \in Seq(Chunk) /\ Len(part) = k
        /\ \A i \in 1 .. k : part[i] = chunks[i]
    BY <1>2, <2>2
  <2>5. out.chunks = part
    BY <1>3, <1>6, <2>2
  <2>6. CASE k = 2
    <3>1. part = chunks
      BY <1>2, <2>3, <2>6
    <3>2. out = file
      BY <1>1, <1>3, <1>6, <2>2, <3>1
    <3> QED
      BY <1>0, <1>1, <1>2, <3>2, WholeReads
  <2>7. CASE k # 2
    <3>1. \A i \in DOMAIN part : part[i].type # "IEND"
      <4>1. \A i \in DOMAIN part : i \in 1 .. k /\ i \in DOMAIN chunks /\ i # Len(chunks)
        BY <1>2, <2>3, <2>7
      <4> QED
        BY <2>3, <4>1, <1>2 DEF ChunksInOrder
    <3>2. read_image(out, junk) = NoImage
      BY <2>3, <2>5, <3>1, NoEndIs
    <3> QED
      BY <2>3, <2>5, <2>7, <3>2
  <2> QED
    BY <2>6, <2>7
<1>7. \/ out = NoFile
      \/ out = [file EXCEPT !.chunks[Len(chunks)].crc = FALSE]
      \/ \E k \in 0 .. 2 : out = [file EXCEPT !.chunks = SubSeq(chunks, 1, k)]
  BY <1>1, <1>2 DEF Kept
<1> QED
  BY <1>4, <1>5, <1>6, <1>7

(* An image shows one picture only. *)
LEMMA ShownIs ==
  ASSUME NEW w \in Color, NEW h \in Color, NEW img \in ImagesOf(w, h), NEW pic, Shows(img, pic),
         pic = [p \in DOMAIN pic |-> pic[p]]
  PROVE  pic = PictureOf(img)
<1>1. img.width = w /\ img.height = h
  BY ImageIs
<1>2. DOMAIN pic = Grid(w, h) /\ \A p \in Grid(w, h) : Components(img.data[Place(w, p)]) = pic[p]
  BY ShowsIs
<1>3. PictureOf(img) = [p \in Grid(w, h) |-> Components(img.data[Place(w, p)])]
  BY <1>1 DEF PictureOf
<1> QED
  BY <1>2, <1>3

(* S makes an image that shows the blank picture. *)
LEMMA NewImageIs ==
  ASSUME NEW w \in Color, NEW h \in Color
  PROVE  /\ NewImage(w, h) \in ImagesOf(w, h)
         /\ Countable(w, h) => Shows(NewImage(w, h), Blank(w, h))
<1>1. PICK m : m = NumPixels(w, h)
  OBVIOUS
<1>2. PICK img : img = NewImage(w, h)
  OBVIOUS
<1>3. 0 \in Byte /\ Full \in Byte
  BY BaseIs DEF Byte
<1>4. Packed(0, 0, 0, Full) = OpaqueBlack
  BY BaseIs DEF Packed, OpaqueBlack
<1>5. OpaqueBlack \in Color /\ Components(OpaqueBlack) = <<0, 0, 0, Full>>
  <2>1. PICK f : f = Full
    OBVIOUS
  <2>2. /\ Packed(0, 0, 0, f) \in Color
        /\ get_r(Packed(0, 0, 0, f)) = 0 /\ get_g(Packed(0, 0, 0, f)) = 0
        /\ get_b(Packed(0, 0, 0, f)) = 0 /\ get_a(Packed(0, 0, 0, f)) = f
    BY <1>3, <2>1, PackedIs
  <2> QED
    BY <1>4, <2>1, <2>2 DEF Components
<1>6. img = [width |-> w, height |-> h, data |-> [i \in 0 .. m - 1 |-> OpaqueBlack]]
  BY <1>1, <1>2 DEF NewImage
<1>7. img \in ImagesOf(w, h)
  BY <1>1, <1>5, <1>6 DEF ImagesOf
<1>8. ASSUME Countable(w, h) PROVE Shows(img, Blank(w, h))
  <2>1. w \in Nat /\ h \in Nat
    BY WordIs DEF Color
  <2>2. m = w * h
    BY <1>1, <1>8, <2>1, CountableIs
  <2>3. PICK pic : pic = Blank(w, h)
    OBVIOUS
  <2>4. DOMAIN pic = Grid(w, h) /\ \A p \in Grid(w, h) : pic[p] = <<0, 0, 0, Full>>
    BY <2>3 DEF Blank, Grid
  <2>5. ASSUME NEW p \in Grid(w, h) PROVE Components(img.data[Place(w, p)]) = pic[p]
    <3>1. PICK i \in 0 .. m - 1 : i = Place(w, p)
      BY <2>1, <2>2, PlaceIs
    <3>2. img.data[i] = OpaqueBlack
      BY <1>6
    <3> QED
      BY <1>5, <2>4, <3>1, <3>2
  <2>6. Shows(img, pic)
    BY <1>7, <2>4, <2>5, ShowsIs
  <2> QED
    BY <2>3, <2>6
<1> QED
  BY <1>2, <1>7, <1>8

-----------------------------------------------------------------------------
(***************************************************************************)
(* The inductive invariant.                                                *)
(***************************************************************************)

(* A slot is empty or holds an image. *)
SlotTyped(img) == img = NoImage \/ IsLoaded(img, img.width, img.height)

(* Types: an image has as many pixels as its size asks for. *)
Typed ==
  /\ build \in {"c", "asm"}
  /\ IsImage(canvas)
  /\ DOMAIN loaded_images = Slots /\ DOMAIN held = Slots
  /\ \A n \in Slots : SlotTyped(loaded_images[n])

(* The canvas can be written and shows what was painted. *)
Good(img, pic) == img # NoImage => ~TooLarge(img) /\ Shows(img, pic)

(* If nothing odd was asked for, the canvas is as painted. *)
Plain == odd = {} => status # "undefined" /\ Good(canvas, picture)

(* A run that ended with success wrote the canvas. *)
WroteCanvas ==
  status = "exit" /\ ~error => ~TooLarge(canvas) /\ output \in Kept(png_set_data(canvas))

IInv == Typed /\ SlotsHoldPictures /\ Plain /\ WroteCanvas

(* A loaded image is of its own width and height. *)
LEMMA SlotTypedIs ==
  ASSUME NEW img, NEW w, NEW h, IsLoaded(img, w, h)
  PROVE  SlotTyped(img) /\ img.width = w /\ img.height = h /\ img.data # NULL
<1>1. w \in Color /\ h \in Color /\ img \in ImagesOf(w, h)
  BY DEF IsLoaded
<1>2. img.width = w /\ img.height = h /\ img.data # NULL
  BY <1>1, ImageIs
<1> QED
  BY <1>2 DEF SlotTyped

(* No image has no bytes. *)
LEMMA NoneTooLarge == ~TooLarge(NoImage)
<1>1. NoImage.width = 0 /\ NoImage.height = 0
  BY DEF NoImage
<1>2. 0 < Word
  BY WordIs, BaseIs
<1> QED
  BY <1>1, <1>2 DEF TooLarge, Countable

(* It holds before the first command. *)
LEMMA InitIsGood == Init => IInv
<1> SUFFICES ASSUME Init PROVE IInv
  OBVIOUS
<1>1. Typed
  BY BuildsAssumption DEF Init, Typed, IsImage, SlotTyped
<1>2. SlotsHoldPictures
  BY DEF Init, SlotsHoldPictures
<1>3. Plain
  BY DEF Init, Plain, Good
<1>4. WroteCanvas
  BY DEF Init, WroteCanvas
<1> QED
  BY <1>1, <1>2, <1>3, <1>4 DEF IInv

(* What the assumption says of one command. *)
LEMMA CommandIs ==
  ASSUME NEW c \in Commands
  PROVE  /\ c.op = "S" /\ c.ok => c.width \in Color /\ c.height \in Color
         /\ c.op = "R" /\ c.ok => IsRect(c.rect) /\ c.color \in Color
         /\ c.op = "C" /\ c.ok => IsCircle(c.x, c.y, c.r) /\ c.color \in Color
         /\ c.op = "L" /\ c.ok => IsFile(c.file) /\ (c.picture # NULL => Holds(c.file, c.picture))
         /\ c.op \in {"T", "P"} /\ c.ok => IsRect(c.rect) /\ c.x \in Ints /\ c.y \in Ints
<1>1. IsCommand(c)
  BY CommandsAssumption
<1> QED
  BY <1>1 DEF IsCommand, IsCircle

-----------------------------------------------------------------------------
(* Every step keeps it. *)

(* What is drawn on a canvas has its size. *)
LEMMA KinIs ==
  ASSUME NEW img, IsImage(img), NEW im \in Kin(img), im # Undefined
  PROVE  IsImage(im) /\ (TooLarge(im) <=> TooLarge(img))
<1>1. CASE img = NoImage
  BY <1>1 DEF Kin
<1>2. CASE img # NoImage
  <2>1. PICK w \in Color, h \in Color : w = img.width /\ h = img.height
    BY ImageCases
  <2>2. im \in ImagesOf(w, h)
    BY <1>2, <2>1 DEF Kin
  <2>3. im.width = w /\ im.height = h
    BY <2>2, ImageIs
  <2> QED
    BY <2>1, <2>2, <2>3 DEF IsImage, TooLarge
<1> QED
  BY <1>1, <1>2

(* A command that fails sets error and nothing else. *)
LEMMA FailStep ==
  ASSUME IInv, status = "run", UNCHANGED <<build, output>>, Fail
  PROVE  IInv'
<1>1. UNCHANGED <<build, output, canvas, loaded_images, status, picture, held, odd>>
  BY DEF Fail, history
<1>2. Typed' /\ SlotsHoldPictures' /\ Plain'
  BY <1>1 DEF IInv, Typed, SlotsHoldPictures, Slots, Plain
<1>3. WroteCanvas'
  BY <1>1 DEF WroteCanvas
<1> QED
  BY <1>2, <1>3 DEF IInv

(* What is drawn, and what was painted if nothing odd was asked for. *)
LEMMA DrawnStep ==
  ASSUME IInv, status = "run", UNCHANGED <<build, output, held>>,
         NEW img, img = Undefined \/ IsImage(img), Drawn(img),
         odd' = {} => img # Undefined /\ Good(img, picture')
  PROVE  IInv'
<1>1. UNCHANGED <<build, output, held, loaded_images>>
  BY DEF Drawn
<1>2. IF img = Undefined THEN status' = "undefined" /\ canvas' = canvas
      ELSE canvas' = img /\ status' = status
  BY DEF Drawn
<1>3. Typed'
  <2>1. IsImage(canvas')
    BY <1>2 DEF IInv, Typed
  <2> QED
    BY <1>1, <2>1 DEF IInv, Typed, Slots
<1>4. SlotsHoldPictures'
  BY <1>1 DEF IInv, SlotsHoldPictures, Slots
<1>5. Plain'
  BY <1>2 DEF Plain
<1>6. WroteCanvas'
  BY <1>2 DEF WroteCanvas
<1> QED
  BY <1>3, <1>4, <1>5, <1>6 DEF IInv

(* S *)
LEMMA SizeStep ==
  ASSUME IInv, NEW c \in Commands, Size(c)
  PROVE  IInv'
<1>1. status = "run" /\ c.op = "S" /\ UNCHANGED <<build, output>>
  BY DEF Size, Scan
<1>2. CASE Fail
  BY <1>1, <1>2, FailStep
<1>3. CASE /\ c.ok /\ Drawn(NewImage(c.width, c.height))
           /\ Note(c, IF TooLarge(c) THEN picture ELSE Blank(c.width, c.height))
  <2>1. PICK w \in Color, h \in Color : w = c.width /\ h = c.height
    BY <1>1, <1>3, CommandIs
  <2>2. PICK img : img = NewImage(w, h)
    OBVIOUS
  <2>3. img \in ImagesOf(w, h) /\ (Countable(w, h) => Shows(img, Blank(w, h)))
    BY <2>2, NewImageIs
  <2>4. IsImage(img)
    BY <2>3 DEF IsImage
  <2>5. img.width = w /\ img.height = h
    BY <2>3, ImageIs
  <2>6. ASSUME odd' = {} PROVE img # Undefined /\ Good(img, picture')
    <3>1. "size" \notin Oddities(c)
      BY <1>3, <2>6 DEF Note
    <3>2. ~TooLarge(c)
      BY <1>1, <3>1 DEF Oddities
    <3>3. picture' = Blank(w, h)
      BY <1>3, <2>1, <3>2 DEF Note
    <3>4. Countable(w, h)
      BY <2>1, <3>2 DEF TooLarge
    <3>5. ~TooLarge(img)
      BY <2>5, <3>4 DEF TooLarge
    <3>6. img # Undefined
      BY <2>3, ImageIs
    <3> QED
      BY <2>3, <3>3, <3>4, <3>5, <3>6 DEF Good
  <2>7. Drawn(img) /\ UNCHANGED held
    BY <1>3, <2>1, <2>2 DEF Note
  <2> QED
    BY <1>1, <2>4, <2>6, <2>7, DrawnStep
<1> QED
  BY <1>2, <1>3 DEF Size

(* There is a canvas, and it is as painted if nothing odd is asked for. *)
LEMMA CanvasIs ==
  ASSUME IInv, canvas # NoImage
  PROVE  /\ canvas.width \in Color /\ canvas.height \in Color
         /\ canvas \in ImagesOf(canvas.width, canvas.height)
         /\ odd = {} => Countable(canvas.width, canvas.height) /\ Shows(canvas, picture)
<1>1. IsImage(canvas)
  BY DEF IInv, Typed
<1>2. /\ canvas.width \in Color /\ canvas.height \in Color
      /\ canvas \in ImagesOf(canvas.width, canvas.height)
  BY <1>1, ImageCases
<1>3. odd = {} => Countable(canvas.width, canvas.height) /\ Shows(canvas, picture)
  BY DEF IInv, Plain, Good, TooLarge
<1> QED
  BY <1>2, <1>3

(* An image that is drawn on the canvas. *)
LEMMA OnCanvas ==
  ASSUME IInv, status = "run", UNCHANGED <<build, output>>, canvas # NoImage,
         NEW img, img \in ImagesOf(canvas.width, canvas.height) \cup {Undefined}, Drawn(img),
         NEW c, NEW painted, Note(c, painted),
         odd = {} /\ Oddities(c) = {} =>
           img \in ImagesOf(canvas.width, canvas.height) /\ Shows(img, painted)
  PROVE  IInv'
<1>1. PICK w \in Color, h \in Color : w = canvas.width /\ h = canvas.height
  BY CanvasIs
<1>2. img = Undefined \/ IsImage(img)
  BY <1>1 DEF IsImage
<1>3. picture' = painted /\ odd' = odd \cup Oddities(c) /\ UNCHANGED held
  BY DEF Note
<1>4. ASSUME odd' = {} PROVE img # Undefined /\ Good(img, picture')
  <2>1. odd = {} /\ Oddities(c) = {}
    BY <1>3, <1>4
  <2>2. img \in ImagesOf(w, h) /\ Shows(img, painted)
    BY <1>1, <2>1
  <2>3. img.width = w /\ img.height = h /\ img # Undefined
    BY <2>2, ImageIs
  <2>4. Countable(w, h)
    BY <1>1, <2>1, CanvasIs
  <2> QED
    BY <1>3, <2>2, <2>3, <2>4 DEF Good, TooLarge
<1> QED
  BY <1>2, <1>3, <1>4, DrawnStep

(* R *)
LEMMA RectangleStep ==
  ASSUME IInv, NEW c \in Commands, Rectangle(c)
  PROVE  IInv'
<1>1. status = "run" /\ c.op = "R" /\ UNCHANGED <<build, output>>
  BY DEF Rectangle, Scan
<1>2. CASE canvas.data = NULL \/ ~c.ok
  <2>1. Fail
    BY <1>2 DEF Rectangle
  <2> QED
    BY <1>1, <2>1, FailStep
<1>3. CASE canvas.data # NULL /\ c.ok
  <2>1. canvas # NoImage
    BY <1>3, NoImageIs
  <2>2. PICK w \in Color, h \in Color : w = canvas.width /\ h = canvas.height
    BY <2>1, CanvasIs
  <2>3. canvas \in ImagesOf(w, h) /\ (odd = {} => Countable(w, h) /\ Shows(canvas, picture))
    BY <2>1, <2>2, CanvasIs
  <2>4. PICK rect, color : rect = c.rect /\ color = c.color /\ IsRect(rect) /\ color \in Color
    <3>1. IsRect(c.rect) /\ c.color \in Color
      BY <1>1, <1>3, CommandIs
    <3> QED
      BY <3>1, Zenon
  <2>5. PICK img : img = IF build = "c" THEN draw_rect(canvas, rect, color)
                         ELSE asm_draw_rect(canvas, rect, color)
    OBVIOUS
  <2>6. Drawn(img) /\ Note(c, PaintRect(picture, rect, color))
    BY <1>3, <2>4, <2>5 DEF Rectangle
  <2>7. /\ img \in ImagesOf(w, h) \cup {Undefined}
        /\ odd = {} => img \in ImagesOf(w, h) /\ Shows(img, PaintRect(picture, rect, color))
    <3>1. CASE build = "c"
      BY <2>3, <2>4, <2>5, <3>1, DrawRectIs
    <3>2. CASE build # "c"
      BY <2>3, <2>4, <2>5, <3>2, AsmDrawRectIs
    <3> QED
      BY <3>1, <3>2
  <2> QED
    BY <1>1, <2>1, <2>2, <2>6, <2>7, OnCanvas
<1> QED
  BY <1>2, <1>3

(* C *)
LEMMA CircleStepIs ==
  ASSUME IInv, NEW c \in Commands, Circle(c)
  PROVE  IInv'
<1>1. status = "run" /\ c.op = "C" /\ UNCHANGED <<build, output>> /\ build \in {"c", "asm"}
  BY DEF Circle, Scan, IInv, Typed
<1>2. CASE canvas.data = NULL \/ ~c.ok
  <2>1. Fail
    BY <1>2 DEF Circle
  <2> QED
    BY <1>1, <2>1, FailStep
<1>3. CASE canvas.data # NULL /\ c.ok
  <2>1. canvas # NoImage
    BY <1>3, NoImageIs
  <2>2. PICK w \in Color, h \in Color : w = canvas.width /\ h = canvas.height
    BY <2>1, CanvasIs
  <2>3. canvas \in ImagesOf(w, h) /\ (odd = {} => Countable(w, h) /\ Shows(canvas, picture))
    BY <2>1, <2>2, CanvasIs
  <2>4. PICK x, y, r, color :
          x = c.x /\ y = c.y /\ r = c.r /\ color = c.color /\ color \in Color /\ IsCircle(x, y, r)
    <3>1. IsCircle(c.x, c.y, c.r) /\ c.color \in Color
      BY <1>1, <1>3, CommandIs
    <3> QED
      BY <3>1, Zenon
  <2>5. PICK img : img = IF build = "c" THEN draw_circle(canvas, x, y, r, color)
                         ELSE asm_draw_circle(canvas, x, y, r, color)
    OBVIOUS
  <2>6. Drawn(img) /\ Note(c, PaintCircle(picture, x, y, r, color))
    BY <1>3, <2>4, <2>5 DEF Circle
  <2>7. /\ img \in ImagesOf(w, h) \cup {Undefined}
        /\ odd = {} /\ Oddities(c) = {} =>
             img \in ImagesOf(w, h) /\ Shows(img, PaintCircle(picture, x, y, r, color))
    <3>1. CASE build = "c"
      BY <2>3, <2>4, <2>5, <3>1, DrawCircleIs
    <3>2. CASE build = "asm"
      <4>1. Oddities(c) = {} => ~(x < 0) /\ ~(y < 0)
        BY <1>1, <2>4, <3>2 DEF Oddities
      <4>2. Oddities(c) = {} => x >= 0 /\ y >= 0
        BY <2>4, <4>1, IntsAre DEF IsCircle
      <4> QED
        BY <2>3, <2>4, <2>5, <3>2, <4>2, AsmDrawCircleIs
    <3> QED
      BY <1>1, <3>1, <3>2
  <2> QED
    BY <1>1, <2>1, <2>2, <2>6, <2>7, OnCanvas
<1> QED
  BY <1>2, <1>3

(* L *)
LEMMA LoadStep ==
  ASSUME IInv, NEW c \in Commands, Load(c)
  PROVE  IInv'
<1>1. status = "run" /\ c.op = "L" /\ UNCHANGED <<build, output>>
  BY DEF Load, Scan
<1>2. CASE Fail
  BY <1>1, <1>2, FailStep
<1>4. CASE NoMemory /\ UNCHANGED <<canvas, loaded_images, error, picture, held>>
  <2>1. odd' # {} /\ status' = "undefined"
    BY <1>4 DEF NoMemory
  <2>2. Typed' /\ SlotsHoldPictures'
    BY <1>1, <1>4 DEF IInv, Typed, SlotsHoldPictures, Slots
  <2>3. Plain' /\ WroteCanvas'
    BY <2>1 DEF Plain, WroteCanvas
  <2> QED
    BY <2>2, <2>3 DEF IInv
<1>3. ASSUME c.ok, c.n \in Slots, NEW junk \in Byte,
             read_image(c.file, junk) # NoImage,
             loaded_images' = [loaded_images EXCEPT ![c.n] = read_image(c.file, junk)],
             held' = [held EXCEPT ![c.n] = c.picture],
             UNCHANGED <<canvas, error, status, picture, odd>>
      PROVE  IInv'
  <2>1. c.ok /\ c.n \in Slots
    BY <1>3
  <2>2. /\ read_image(c.file, junk) # NoImage
        /\ loaded_images' = [loaded_images EXCEPT ![c.n] = read_image(c.file, junk)]
        /\ held' = [held EXCEPT ![c.n] = c.picture]
        /\ UNCHANGED <<canvas, error, status, picture, odd>>
    BY <1>3
  <2>3. PICK img, pic, file : img = read_image(file, junk) /\ pic = c.picture /\ file = c.file
    OBVIOUS
  <2>4. IsFile(file) /\ (pic # NULL => Holds(file, pic))
    BY <1>1, <2>1, <2>3, CommandIs
  <2>5. SlotTyped(img)
    <3>1. PICK w, h : IsLoaded(img, w, h)
      BY <2>2, <2>3, <2>4, ReadTyped
    <3> QED
      BY <3>1, SlotTypedIs
  <2>6. pic # NULL => Shows(img, pic)
    BY <2>3, <2>4, FilesAreRead
  <2>7. /\ DOMAIN loaded_images = Slots /\ DOMAIN held = Slots
        /\ \A n \in Slots : SlotTyped(loaded_images[n])
        /\ \A n \in Slots : held[n] # NULL => Shows(loaded_images[n], held[n])
    BY DEF IInv, Typed, SlotsHoldPictures
  <2>8. /\ DOMAIN loaded_images' = Slots /\ DOMAIN held' = Slots
        /\ \A n \in Slots : loaded_images'[n] = IF n = c.n THEN img ELSE loaded_images[n]
        /\ \A n \in Slots : held'[n] = IF n = c.n THEN pic ELSE held[n]
    <3>1. /\ DOMAIN loaded_images' = Slots
          /\ \A n \in Slots : loaded_images'[n] = IF n = c.n THEN img ELSE loaded_images[n]
      BY <2>1, <2>2, <2>3, <2>7
    <3>2. DOMAIN held' = Slots /\ \A n \in Slots : held'[n] = IF n = c.n THEN pic ELSE held[n]
      BY <2>1, <2>2, <2>3, <2>7
    <3> QED
      BY <3>1, <3>2
  <2>9. \A n \in Slots : SlotTyped(loaded_images'[n])
    BY <2>5, <2>7, <2>8
  <2>10. ASSUME NEW n \in Slots, held'[n] # NULL PROVE Shows(loaded_images'[n], held'[n])
    <3>1. CASE n = c.n
      BY <2>6, <2>8, <2>10, <3>1
    <3>2. CASE n # c.n
      BY <2>7, <2>8, <2>10, <3>2
    <3> QED
      BY <3>1, <3>2
  <2>11. Typed'
    BY <1>1, <2>2, <2>8, <2>9 DEF IInv, Typed, Slots
  <2>12. SlotsHoldPictures'
    BY <2>10 DEF SlotsHoldPictures, Slots
  <2>13. Plain' /\ WroteCanvas'
    BY <1>1, <2>2 DEF IInv, Plain, WroteCanvas
  <2> QED
    BY <2>11, <2>12, <2>13 DEF IInv
<1> QED
  BY <1>2, <1>3, <1>4 DEF Load

(* An image drawn from a slot. *)
LEMMA SlotIs ==
  ASSUME IInv, NEW n \in Slots, loaded_images[n].data # NULL
  PROVE  /\ IsLoaded(loaded_images[n], loaded_images[n].width, loaded_images[n].height)
         /\ held[n] # NULL => Shows(loaded_images[n], held[n])
<1>1. loaded_images[n] # NoImage
  BY NoImageIs
<1>2. SlotTyped(loaded_images[n])
  BY DEF IInv, Typed
<1> QED
  BY <1>1, <1>2 DEF SlotTyped, IInv, SlotsHoldPictures

(* From a map onto a canvas or onto none: *)
IsCopy(img, n, painted, odds) ==
  /\ img \in Kin(canvas)
  /\ odd = {} /\ odds = {} =>
       /\ img # Undefined
       /\ canvas # NoImage => Shows(img, painted)

(* What T and P do to the canvas. *)
LEMMA CopyStep ==
  ASSUME IInv, status = "run", UNCHANGED <<build, output>>, NEW c,
         NEW img, Drawn(img), NEW painted, Note(c, painted), NEW n, IsCopy(img, n, painted, Oddities(c))
  PROVE  IInv'
<1>1. IsImage(canvas)
  BY DEF IInv, Typed
<1>2. img \in Kin(canvas)
  BY DEF IsCopy
<1>3. img = Undefined \/ (IsImage(img) /\ (TooLarge(img) <=> TooLarge(canvas)))
  BY <1>1, <1>2, KinIs
<1>4. picture' = painted /\ odd' = odd \cup Oddities(c) /\ UNCHANGED held
  BY DEF Note
<1>5. ASSUME odd' = {} PROVE img # Undefined /\ Good(img, picture')
  <2>1. odd = {} /\ Oddities(c) = {}
    BY <1>4, <1>5
  <2>2. img # Undefined /\ (canvas # NoImage => Shows(img, painted))
    BY <2>1 DEF IsCopy
  <2>3. CASE canvas = NoImage
    <3>1. img = NoImage
      BY <1>2, <2>2, <2>3 DEF Kin
    <3> QED
      BY <2>2, <3>1 DEF Good
  <2>4. CASE canvas # NoImage
    <3>1. ~TooLarge(canvas)
      BY <2>1, <2>4 DEF IInv, Plain, Good
    <3> QED
      BY <1>3, <1>4, <2>2, <2>4, <3>1 DEF Good
  <2> QED
    BY <2>3, <2>4
<1> QED
  BY <1>3, <1>4, <1>5, DrawnStep

(* P *)
LEMMA SpriteStep ==
  ASSUME IInv, NEW c \in Commands, Sprite(c)
  PROVE  IInv'
<1>1. /\ status = "run" /\ c.op = "P" /\ UNCHANGED <<build, output>> /\ IsImage(canvas)
      /\ odd = {} /\ canvas # NoImage => ~TooLarge(canvas) /\ Shows(canvas, picture)
  BY DEF Sprite, Scan, IInv, Typed, Plain, Good
<1>2. CASE ~HasImage(c)
  <2>1. Fail
    BY <1>2 DEF Sprite
  <2> QED
    BY <1>1, <2>1, FailStep
<1>3. CASE HasImage(c)
  <2>1. c.ok /\ c.n \in Slots /\ loaded_images[c.n].data # NULL
    BY <1>3 DEF HasImage
  <2>2. PICK n \in Slots : n = c.n
    BY <2>1
  <2>3. PICK map, mw, mh, mpic : map = loaded_images[n] /\ mw = map.width /\ mh = map.height /\ mpic = held[n]
    OBVIOUS
  <2>4. IsLoaded(map, mw, mh) /\ (mpic # NULL => Shows(map, mpic))
    BY <2>1, <2>2, <2>3, SlotIs
  <2>5. PICK part, x, y : part = c.rect /\ x = c.x /\ y = c.y
    OBVIOUS
  <2>6. IsRect(part) /\ x \in Int /\ y \in Int
    <3>1. IsRect(c.rect) /\ c.x \in Ints /\ c.y \in Ints
      BY <1>1, <2>1, CommandIs
    <3> QED
      BY <2>5, <3>1, IntsAre
  <2>7. PICK img, painted :
          /\ img = IF build = "c" THEN draw_sprite(canvas, x, y, map, part)
                   ELSE asm_draw_sprite(canvas, x, y, map, part)
          /\ painted = IF mpic = NULL THEN picture ELSE PaintSprite(picture, x, y, mpic, part)
    OBVIOUS
  <2>8. Drawn(img) /\ Note(c, painted)
    BY <1>3, <2>2, <2>3, <2>5, <2>7 DEF Sprite
  <2>9. build \in {"c", "asm"}
    BY DEF IInv, Typed
  <2>10. IsCopy(img, n, painted, Oddities(c))
    <3>1. CASE build = "asm"
      <4>1. img = canvas
        BY <2>7, <3>1 DEF asm_draw_sprite
      <4>2. canvas \in Kin(canvas)
        BY <1>1, ImageCases
      <4>3. "todo" \in Oddities(c)
        BY <1>1, <3>1 DEF Oddities
      <4> QED
        BY <4>1, <4>2, <4>3 DEF IsCopy
    <3>2. CASE build = "c"
      <4>1. img = draw_sprite(canvas, x, y, map, part)
        BY <2>7, <3>2
      <4>2. /\ img \in Kin(canvas) /\ (canvas = NoImage => img = NoImage)
            /\ \A pic, mp : canvas # NoImage /\ ~TooLarge(canvas) /\ Shows(canvas, pic) /\ Shows(map, mp) =>
                 img # Undefined /\ Shows(img, PaintSprite(pic, x, y, mp, part))
        BY <1>1, <2>4, <2>6, <4>1, DrawSpriteIs
      <4>3. Oddities(c) = {} => mpic # NULL
        <5>1. mpic = NULL => "source" \in Oddities(c)
          BY <1>1, <2>2, <2>3 DEF Oddities
        <5> QED
          BY <5>1
      <4>4. ASSUME odd = {}, Oddities(c) = {}, canvas # NoImage
            PROVE  img # Undefined /\ Shows(img, painted)
        <5>1. mpic # NULL /\ Shows(map, mpic) /\ ~TooLarge(canvas) /\ Shows(canvas, picture)
          BY <1>1, <2>4, <4>3, <4>4
        <5>2. painted = PaintSprite(picture, x, y, mpic, part)
          BY <2>7, <3>2, <5>1
        <5> QED
          BY <4>2, <4>4, <5>1, <5>2
      <4> QED
        BY <4>2, <4>4, NoImageIs DEF IsCopy
    <3> QED
      BY <2>9, <3>1, <3>2
  <2> QED
    BY <1>1, <2>8, <2>10, CopyStep
<1> QED
  BY <1>2, <1>3

(* T *)
LEMMA TileStep ==
  ASSUME IInv, NEW c \in Commands, Tile(c)
  PROVE  IInv'
<1>1. /\ status = "run" /\ c.op = "T" /\ UNCHANGED <<build, output>> /\ IsImage(canvas)
      /\ odd = {} /\ canvas # NoImage => ~TooLarge(canvas) /\ Shows(canvas, picture)
  BY DEF Tile, Scan, IInv, Typed, Plain, Good
<1>2. CASE ~HasImage(c)
  <2>1. Fail
    BY <1>2 DEF Tile
  <2> QED
    BY <1>1, <2>1, FailStep
<1>3. CASE HasImage(c)
  <2>1. c.ok /\ c.n \in Slots /\ loaded_images[c.n].data # NULL
    BY <1>3 DEF HasImage
  <2>2. PICK n \in Slots : n = c.n
    BY <2>1
  <2>3. PICK map, mw, mh, mpic : map = loaded_images[n] /\ mw = map.width /\ mh = map.height /\ mpic = held[n]
    OBVIOUS
  <2>4. IsLoaded(map, mw, mh) /\ (mpic # NULL => Shows(map, mpic))
    BY <2>1, <2>2, <2>3, SlotIs
  <2>5. PICK part, x, y : part = c.rect /\ x = c.x /\ y = c.y
    OBVIOUS
  <2>6. IsRect(part) /\ x \in Ints /\ y \in Ints /\ x \in Int /\ y \in Int
    <3>1. IsRect(c.rect) /\ c.x \in Ints /\ c.y \in Ints
      BY <1>1, <2>1, CommandIs
    <3> QED
      BY <2>5, <3>1, IntsAre
  <2>7. PICK img, painted :
          /\ img = IF build = "c" THEN draw_tile(canvas, x, y, map, part)
                   ELSE asm_draw_tile(canvas, x, y, map, part)
          /\ painted = IF mpic = NULL THEN picture ELSE PaintTile(picture, x, y, mpic, part)
    OBVIOUS
  <2>8. Drawn(img) /\ Note(c, painted)
    BY <1>3, <2>2, <2>3, <2>5, <2>7 DEF Tile
  <2>9. build \in {"c", "asm"}
    BY DEF IInv, Typed
  <2>10. IsCopy(img, n, painted, Oddities(c))
    <3>1. CASE build = "asm"
      <4>1. img = canvas
        BY <2>7, <3>1 DEF asm_draw_tile
      <4>2. canvas \in Kin(canvas)
        BY <1>1, ImageCases
      <4>3. "todo" \in Oddities(c)
        BY <1>1, <3>1 DEF Oddities
      <4> QED
        BY <4>1, <4>2, <4>3 DEF IsCopy
    <3>2. CASE build = "c"
      <4>1. img = draw_tile(canvas, x, y, map, part)
        BY <2>7, <3>2
      <4>2. /\ img \in Kin(canvas) /\ (x >= 0 /\ y >= 0 /\ canvas = NoImage => img = NoImage)
            /\ \A pic, mp : x >= 0 /\ y >= 0 /\ canvas # NoImage /\ ~TooLarge(canvas)
                 /\ Shows(canvas, pic) /\ Shows(map, mp) =>
                   img # Undefined /\ Shows(img, PaintTile(pic, x, y, mp, part))
        BY <1>1, <2>4, <2>6, <4>1, DrawTileIs
      <4>3. Oddities(c) = {} => mpic # NULL /\ x >= 0 /\ y >= 0
        <5>1. mpic = NULL => "source" \in Oddities(c)
          BY <1>1, <2>2, <2>3 DEF Oddities
        <5>2. x < 0 \/ y < 0 => "tile" \in Oddities(c)
          BY <1>1, <2>5, <3>2 DEF Oddities
        <5> QED
          BY <2>6, <5>1, <5>2
      <4>4. ASSUME odd = {}, Oddities(c) = {}, canvas # NoImage
            PROVE  img # Undefined /\ Shows(img, painted)
        <5>1. mpic # NULL /\ Shows(map, mpic) /\ ~TooLarge(canvas) /\ Shows(canvas, picture)
          BY <1>1, <2>4, <4>3, <4>4
        <5>2. painted = PaintTile(picture, x, y, mpic, part)
          BY <2>7, <3>2, <5>1
        <5> QED
          BY <4>2, <4>3, <4>4, <5>1, <5>2
      <4> QED
        BY <4>2, <4>3, <4>4, NoImageIs DEF IsCopy
    <3> QED
      BY <2>9, <3>1, <3>2
  <2> QED
    BY <1>1, <2>8, <2>10, CopyStep
<1> QED
  BY <1>2, <1>3

(* The end of the script. *)
LEMMA EndStep ==
  ASSUME IInv, End
  PROVE  IInv'
<1>1. /\ status = "run"
      /\ UNCHANGED <<build, read, canvas, loaded_images, picture, held>>
  BY DEF End
<1>2. Typed' /\ SlotsHoldPictures'
  BY <1>1 DEF IInv, Typed, SlotsHoldPictures, Slots
<1>3. CASE error
  <2>1. status' = "exit" /\ error' = error /\ odd' = odd
    BY <1>3 DEF End
  <2>2. Plain'
    BY <1>1, <2>1 DEF IInv, Plain
  <2>3. WroteCanvas'
    BY <1>3, <2>1 DEF WroteCanvas
  <2> QED
    BY <1>2, <2>2, <2>3 DEF IInv
<1>4. CASE ~error
  <2>1. Write
    BY <1>4 DEF End
  <2>2. odd = {} => ~TooLarge(canvas)
    BY NoneTooLarge DEF IInv, Plain, Good
  <2>3. odd' = {} => odd = {} /\ status' # "undefined"
    BY <2>1, <2>2 DEF Write, NoMemory
  <2>4. Plain'
    BY <1>1, <2>3 DEF IInv, Plain
  <2>5. WroteCanvas'
    BY <1>1, <2>1 DEF Write, WroteCanvas, NoMemory
  <2> QED
    BY <1>2, <2>4, <2>5 DEF IInv
<1> QED
  BY <1>3, <1>4

(* Every step keeps the invariant. *)
LEMMA StepIsGood == IInv /\ [Next]_vars => IInv'
<1> SUFFICES ASSUME IInv, [Next]_vars PROVE IInv'
  OBVIOUS
<1>1. CASE UNCHANGED vars
  BY <1>1 DEF vars, program, history, IInv, Typed, SlotsHoldPictures, Slots, Plain, WroteCanvas
<1>2. ASSUME NEW c \in Commands, Unrecognized(c) PROVE IInv'
  <2>1. status = "run" /\ UNCHANGED <<build, output>> /\ Fail
    BY <1>2 DEF Unrecognized, Scan
  <2> QED
    BY <2>1, FailStep
<1> QED
  BY <1>1, <1>2, SizeStep, RectangleStep, CircleStepIs, LoadStep, TileStep, SpriteStep, EndStep
     DEF Next

(* For any commands, slots and length of the script. *)
THEOREM Invariance == Spec => []IInv
BY InitIsGood, StepIsGood, PTL DEF Spec

(* Whatever images and files are loaded, and whatever is drawn: the canvas *)
(* and the images in the slots have the pixels their sizes ask for.        *)
THEOREM TypeCorrect == Spec => []Typed
<1>1. IInv => Typed
  BY DEF IInv
<1> QED
  BY <1>1, Invariance, PTL

(* The drawing functions paint what their comments say on canvases of      *)
(* every size: in C all four of them but for the tile left of or above the *)
(* canvas, in assembly rectangles and the circles whose centre is not      *)
(* there; of tiles and sprites the assembly has only the stubs.            *)
THEOREM CanvasIsPainted == Spec => []PictureIsPainted
<1>1. IInv => PictureIsPainted
  <2> SUFFICES ASSUME IInv, odd = {} PROVE AsPainted
    BY DEF PictureIsPainted
  <2>1. status # "undefined" /\ Good(canvas, picture)
    BY DEF IInv, Plain
  <2>2. canvas.data # NULL => canvas # NoImage
    BY NoImageIs
  <2> QED
    BY <2>1, <2>2 DEF AsPainted, Good
<1> QED
  BY <1>1, Invariance, PTL

(* A slot shows the picture that is in its file by the standard, of every  *)
(* size, with every choice of filters and every cut into chunks, whatever  *)
(* was drawn since it was loaded.                                          *)
THEOREM FilesAreDecoded == Spec => []SlotsHoldPictures
<1>1. IInv => SlotsHoldPictures
  BY DEF IInv
<1> QED
  BY <1>1, Invariance, PTL

(* A file written is read back as the canvas, or refused if more of it was *)
(* lost than the checksum at its end.                                      *)
THEOREM WrittenIsRead == Spec => []WrittenReadsBack
<1>1. IInv => WrittenReadsBack
  <2> SUFFICES ASSUME IInv, status = "exit", ~error, NEW junk \in Byte
               PROVE  IF Len(output.chunks) = 2
                      THEN read_image(output, junk).data # NULL /\ Same(read_image(output, junk), canvas)
                      ELSE read_image(output, junk) = NoImage
    BY DEF WrittenReadsBack
  <2>1. IsImage(canvas) /\ ~TooLarge(canvas) /\ output \in Kept(png_set_data(canvas))
    BY DEF IInv, Typed, WroteCanvas
  <2>2. PICK w, h, file : w = canvas.width /\ h = canvas.height /\ file = png_set_data(canvas)
    OBVIOUS
  <2>3. IsWritten(file, canvas, w, h)
    BY <2>1, <2>2, PixelsAre DEF IsWritten
  <2> QED
    BY <2>1, <2>2, <2>3, KeptReads
<1> QED
  BY <1>1, Invariance, PTL

-----------------------------------------------------------------------------
(* A picture is a function, whatever is painted on it. *)
IsFunction(pic) == pic = [p \in DOMAIN pic |-> pic[p]]

LEMMA PaintedAreFunctions ==
  /\ \A w, h : IsFunction(Blank(w, h))
  /\ \A pic, rect, color : IsFunction(PaintRect(pic, rect, color))
  /\ \A pic, x, y, r, color : IsFunction(PaintCircle(pic, x, y, r, color))
  /\ \A pic, x, y, map, part : IsFunction(PaintTile(pic, x, y, map, part))
  /\ \A pic, x, y, map, part : IsFunction(PaintSprite(pic, x, y, map, part))
<1>1. \A w, h : IsFunction(Blank(w, h))
  BY DEF IsFunction, Blank
<1>2. \A pic, rect, color : IsFunction(PaintRect(pic, rect, color))
  BY DEF IsFunction, PaintRect, Painted
<1>3. \A pic, x, y, r, color : IsFunction(PaintCircle(pic, x, y, r, color))
  BY DEF IsFunction, PaintCircle, Painted
<1>4. \A pic, x, y, map, part : IsFunction(PaintTile(pic, x, y, map, part))
  BY DEF IsFunction, PaintTile
<1>5. \A pic, x, y, map, part : IsFunction(PaintSprite(pic, x, y, map, part))
  BY DEF IsFunction, PaintSprite, Painted
<1> QED
  BY <1>1, <1>2, <1>3, <1>4, <1>5

LEMMA PictureStaysFunction == Spec => []IsFunction(picture)
<1>1. Init => IsFunction(picture)
  BY PaintedAreFunctions DEF Init
<1>2. IsFunction(picture) /\ [Next]_vars => IsFunction(picture)'
  <2> SUFFICES ASSUME IsFunction(picture), [Next]_vars PROVE IsFunction(picture')
    BY DEF IsFunction
  <2>1. CASE picture' = picture
    BY <2>1
  <2>2. CASE picture' # picture
    <3>1. PICK c \in Commands :
            Size(c) \/ Rectangle(c) \/ Circle(c) \/ Tile(c) \/ Sprite(c)
      BY <2>2 DEF Next, vars, program, history, Load, Unrecognized, End, Fail
    <3>2. ASSUME Size(c) PROVE IsFunction(picture')
      BY <2>2, <3>2, PaintedAreFunctions DEF Size, Fail, Note, history
    <3>3. ASSUME Rectangle(c) PROVE IsFunction(picture')
      BY <2>2, <3>3, PaintedAreFunctions DEF Rectangle, Fail, Note, history
    <3>4. ASSUME Circle(c) PROVE IsFunction(picture')
      BY <2>2, <3>4, PaintedAreFunctions DEF Circle, Fail, Note, history
    <3>5. ASSUME Tile(c) PROVE IsFunction(picture')
      BY <2>2, <3>5, PaintedAreFunctions DEF Tile, Fail, Note, history
    <3>6. ASSUME Sprite(c) PROVE IsFunction(picture')
      BY <2>2, <3>6, PaintedAreFunctions DEF Sprite, Fail, Note, history
    <3> QED
      BY <3>1, <3>2, <3>3, <3>4, <3>5, <3>6
  <2> QED
    BY <2>1, <2>2
<1> QED
  BY <1>1, <1>2, PTL DEF Spec

(* A run that ended with success and asked for nothing odd, and whose file *)
(* has all that was written to it, has written a file that holds, by the   *)
(* standard, the picture that the script painted: every reader of PNG      *)
(* files shows it.                                                         *)
FileHoldsPicture ==
  status = "exit" /\ ~error /\ odd = {} /\ canvas.data # NULL /\ output = png_set_data(canvas)
    => Holds(output, picture)

(* Every such file holds its painting. *)
THEOREM FilesHoldPaintings == Spec => []FileHoldsPicture
<1>1. IInv /\ IsFunction(picture) => FileHoldsPicture
  <2> SUFFICES ASSUME IInv, IsFunction(picture), status = "exit", ~error, odd = {},
                      canvas.data # NULL, output = png_set_data(canvas)
               PROVE  Holds(output, picture)
    BY DEF FileHoldsPicture
  <2>1. IsImage(canvas) /\ ~TooLarge(canvas) /\ canvas # NoImage
    BY NoImageIs DEF IInv, Typed, WroteCanvas
  <2>2. PICK w \in Color, h \in Color : w = canvas.width /\ h = canvas.height
    BY <2>1, ImageCases
  <2>3. PICK file : file = png_set_data(canvas)
    OBVIOUS
  <2>4. IsWritten(file, canvas, w, h)
    BY <2>1, <2>2, <2>3, PixelsAre DEF IsWritten
  <2>5. Holds(file, PictureOf(canvas))
    BY <2>4, LikeItself, WrittenHolds
  <2>6. output = file
    BY <2>3
  <2>7. picture = PictureOf(canvas)
    <3>1. Shows(canvas, picture) /\ canvas \in ImagesOf(w, h)
      BY <2>1, <2>2, CanvasIs
    <3> QED
      BY <2>2, <3>1, ShownIs DEF IsFunction
  <2> QED
    BY <2>5, <2>6, <2>7
<1> QED
  BY <1>1, Invariance, PictureStaysFunction, PTL
=============================================================================
