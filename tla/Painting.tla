------------------------------ MODULE Painting -----------------------------
(***************************************************************************)
(* What the comments of drawing_funcs promise, on pictures: functions from *)
(* points <<x, y>> to colours, a colour being its four components.  Points *)
(* outside of a picture are not painted.                                   *)
(***************************************************************************)
EXTENDS Images

Blank(width, height) ==
  [p \in (0 .. width - 1) \X (0 .. height - 1) |-> <<0, 0, 0, Full>>]

Components(color) == <<get_r(color), get_g(color), get_b(color), get_a(color)>>

(* A colour over another one: opaque, each component a mixture of the two. *)
Over(fg, bg) ==
  [i \in 1 .. 4 |-> IF i = 4 THEN Full
                    ELSE (fg[4] * fg[i] + (Full - fg[4]) * bg[i]) \div Full]

Painted(picture, region, brush(_)) ==
  [p \in DOMAIN picture |-> IF p \in region THEN Over(brush(p), picture[p]) ELSE picture[p]]

InRect(rect) == (rect.x .. rect.x + rect.width - 1) \X (rect.y .. rect.y + rect.height - 1)

PaintRect(picture, rect, color) ==
  LET brush(p) == Components(color) IN Painted(picture, InRect(rect), brush)

PaintCircle(picture, x, y, r, color) ==
  LET brush(p) == Components(color)
      disc == {p \in DOMAIN picture :
                 /\ r >= 0
                 /\ (p[1] - x) * (p[1] - x) + (p[2] - y) * (p[2] - y) <= r * r}
  IN  Painted(picture, disc, brush)

(* Where a part of a map is put, and the point of the map that goes to p.  *)
(* A part that is not inside of the map is not drawn.                      *)
Target(map, part, x, y) ==
  IF InRect(part) \subseteq DOMAIN map /\ part.x >= 0 /\ part.y >= 0
  THEN InRect([part EXCEPT !.x = x, !.y = y]) ELSE {}
Source(p, part, x, y) == <<p[1] - x + part.x, p[2] - y + part.y>>

PaintTile(picture, x, y, map, tile) ==
  [p \in DOMAIN picture |-> IF p \in Target(map, tile, x, y)
                            THEN map[Source(p, tile, x, y)] ELSE picture[p]]

PaintSprite(picture, x, y, map, sprite) ==
  LET brush(p) == map[Source(p, sprite, x, y)]
  IN  Painted(picture, Target(map, sprite, x, y), brush)

(* An image shows a picture: same size, same colour at every point.        *)
Shows(img, picture) ==
  /\ DOMAIN picture = (0 .. img.width - 1) \X (0 .. img.height - 1)
  /\ \A p \in DOMAIN picture :
       Components(img.data[p[2] * img.width + p[1]]) = picture[p]
=============================================================================
