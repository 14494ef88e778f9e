------------------------------- MODULE Images -------------------------------
(***************************************************************************)
(* Colours and images in memory: image.c, image.h and the colour helpers   *)
(* of c_drawing_funcs.c.  A component of a colour is one byte, a colour    *)
(* four of them in one word, red highest.  Full is the greatest byte: 255  *)
(* in the code.                                                            *)
(***************************************************************************)
EXTENDS Integers, Sequences

CONSTANTS
  Full,       \* greatest value of a component, of a byte
  NULL,       \* the null pointer
  Undefined   \* stands for an image after a write outside of it

Base == Full + 1
Byte == 0 .. Full
Word == Base * Base * Base * Base      \* values of a uint32_t
Color == 0 .. Word - 1

ASSUME FullAssumption == Full \in Nat \ {0}
ASSUME NullAssumption ==
  NULL \notin Seq(Byte) /\ \A n \in Color : NULL \notin [0 .. n - 1 -> Color]
ASSUME UndefinedAssumption ==
  \A n \in Color : Undefined \notin
    [width : Color, height : Color, data : [0 .. n - 1 -> Color] \cup {NULL}]

get_r(color) == (color \div (Base * Base * Base)) % Base
get_g(color) == (color \div (Base * Base)) % Base
get_b(color) == (color \div Base) % Base
get_a(color) == color % Base

(* (r << 24) | (g << 16) | (b << 8) | a *)
Packed(r, g, b, a) == ((r * Base + g) * Base + b) * Base + a

(* The signed value of 32 bits. *)
Int32(v) == LET half == Word \div 2 IN ((v + half) % Word) - half

(* The bytes of a word of memory on a little endian system, first to last. *)
Bytes(val) == <<get_a(val), get_b(val), get_g(val), get_r(val)>>
FromBytes(p) == Packed(p[4], p[3], p[2], p[1])
byteswap(val) == LET p == Bytes(val) IN Packed(p[1], p[2], p[3], p[4])

OpaqueBlack == Full

(* width * height is an unsigned product. *)
NumPixels(width, height) == (width * height) % Word

(* The image made by init_image; data is NULL or the array of pixels. *)
NewImage(width, height) ==
  [width  |-> width,
   height |-> height,
   data   |-> [i \in 0 .. NumPixels(width, height) - 1 |-> OpaqueBlack]]

NoImage == [width |-> 0, height |-> 0, data |-> NULL]
=============================================================================
