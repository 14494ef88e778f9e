---------------------------- MODULE AsmDrawing -----------------------------
(***************************************************************************)
(* The drawing functions in assembly, asm_drawing_funcs.S.  A 32-bit       *)
(* register holds a word; writing one clears the upper half of the 64-bit  *)
(* register it is part of, so that a function with 64-bit parameters sees  *)
(* a negative int32_t as a large positive number.  What jl and jge compare *)
(* are signed values.                                                      *)
(***************************************************************************)
EXTENDS Drawing

(* The register after movl, and the signed value of 64 bits. *)
Movl(v) == v % Word
Int64(v) == LET half == (Word \div 2) * Word IN ((v + half) % (Word * Word)) - half

(* Like in_bounds in C but for the width and height, compared as signed. *)
asm_in_bounds(img, x, y) ==
  /\ Int32(x) >= 0 /\ Int32(y) >= 0
  /\ Int32(x) < Int32(img.width) /\ Int32(y) < Int32(img.height)

asm_compute_index(img, x, y) ==
  Movl(Movl(img.width * Movl(y)) + Movl(x))

(* All of eax is returned, not one byte. *)
asm_blend_components(fg, bg, alpha) ==
  Movl((Full - alpha) * bg + alpha * fg) \div Full

(* shl by one byte, or with the next component. *)
ShlOr(ebx, eax) == Movl(ebx * Base) + eax

asm_blend_colors(fg, bg) ==
  LET Blend(get(_)) == asm_blend_components(get(fg), get(bg), get_a(fg))
  IN  ShlOr(ShlOr(ShlOr(Blend(get_r), Blend(get_g)), Blend(get_b)), Full)

asm_set_pixel(img, index, color) ==
  IF img.data # NULL /\ index \in DOMAIN img.data
  THEN Store(img, index, asm_blend_colors(color, img.data[index]))
  ELSE Undefined

(* imulq and subq on 64-bit registers. *)
asm_square(rdi) == Int64(Int64(rdi) * Int64(rdi))
asm_square_dist(rdi, rsi, rdx, rcx) ==
  Int64(asm_square(Int64(rdx - rdi)) + asm_square(Int64(rcx - rsi)))

asm_draw_pixel(img, x, y, color) ==
  IF asm_in_bounds(img, x, y)
  THEN asm_set_pixel(img, asm_compute_index(img, x, y), color)
  ELSE img

asm_draw_rect(img, rect, color) ==
  ForEach(Points(rect.x, Int32(rect.x + rect.width),
                 rect.y, Int32(rect.y + rect.height)), img,
          LAMBDA im, j, i : asm_draw_pixel(im, j, i, color))

(* The four coordinates and r are moved to edi, esi, edx and ecx for the   *)
(* functions that take 64-bit parameters.                                  *)
InCircle(j, i, x, y, r) ==
  asm_square(Movl(r)) >= asm_square_dist(Movl(j), Movl(i), Movl(x), Movl(y))

asm_draw_circle(img, x, y, r, color) ==
  ForEach(Points(Int32(x - r), Int32(x + r) + 1,
                 Int32(y - r), Int32(y + r) + 1), img,
          LAMBDA im, j, i : IF InCircle(j, i, x, y, r)
                            THEN asm_draw_pixel(im, j, i, color)
                            ELSE im)

(* Both return at once: "TODO: implement". *)
asm_draw_tile(img, x, y, tilemap, tile) == img
asm_draw_sprite(img, x, y, spritemap, sprite) == img
=============================================================================
