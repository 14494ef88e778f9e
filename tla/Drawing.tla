------------------------------ MODULE Drawing ------------------------------
(***************************************************************************)
(* The drawing functions in C, c_drawing_funcs.c.  Coordinates and sizes   *)
(* are int32_t, an index is a uint32_t.  A function that draws returns the *)
(* image after it, or Undefined if it wrote outside of the pixels.         *)
(***************************************************************************)
EXTENDS Images

(* Mutated form: a point behind the end of its row is not seen. *)
in_bounds_rows(img, x, y) == x >= 0 /\ y >= 0 /\ y < img.height

in_bounds(img, x, y) ==
  /\ x >= 0 /\ y >= 0
  /\ x < img.width /\ y < img.height

compute_index(img, x, y) == (y * img.width + x) % Word

clamp(val, min, max) ==
  IF val < min THEN min ELSE IF val > max THEN max ELSE val

blend_components(fg, bg, alpha) ==
  (((alpha * fg + (Full - alpha) * bg) % Word) \div Full) % Base

(* The result is opaque. *)
blend_colors(fg, bg) ==
  LET Blend(get(_)) == blend_components(get(fg), get(bg), get_a(fg))
  IN  Packed(Blend(get_r), Blend(get_g), Blend(get_b), Full)

(* An assignment to img->data[index]. *)
Store(img, index, color) ==
  IF img.data # NULL /\ index \in DOMAIN img.data
  THEN [img EXCEPT !.data[index] = color]
  ELSE Undefined

set_pixel(img, index, color) ==
  IF img.data # NULL /\ index \in DOMAIN img.data
  THEN Store(img, index, blend_colors(color, img.data[index]))
  ELSE Undefined

square(x) == x * x
square_dist(x1, y1, x2, y2) == square(x2 - x1) + square(y2 - y1)

draw_pixel(img, x, y, color) ==
  IF in_bounds(img, x, y)
  THEN set_pixel(img, compute_index(img, x, y), color)
  ELSE img

(* The points <<column, row>> of two nested loops, in their order. *)
Points(left, right, top, bottom) ==
  LET columns == right - left
      rows    == bottom - top
  IN  IF columns <= 0 \/ rows <= 0 THEN <<>>
      ELSE [k \in 1 .. columns * rows |->
              <<left + ((k - 1) % columns), top + ((k - 1) \div columns)>>]

(* The image after Draw(image, column, row) for each of the points in turn. *)
ForEach(points, img, Draw(_, _, _)) ==
  LET after[k \in 0 .. Len(points)] ==
        IF k = 0 THEN img
        ELSE LET im == after[k - 1]
             IN  IF im = Undefined THEN Undefined
                 ELSE Draw(im, points[k][1], points[k][2])
  IN  after[Len(points)]

draw_rect(img, rect, color) ==
  ForEach(Points(rect.x, rect.x + rect.width, rect.y, rect.y + rect.height), img,
          LAMBDA im, j, i : draw_pixel(im, j, i, color))

draw_circle(img, x, y, r, color) ==
  ForEach(Points(x - r, x + r + 1, y - r, y + r + 1), img,
          LAMBDA im, j, i : IF square_dist(j, i, x, y) <= square(r)
                            THEN draw_pixel(im, j, i, color)
                            ELSE im)

(* tile->x + tile->width is converted to unsigned for the comparison. *)
Outside(map, tile) ==
  \/ tile.x < 0 \/ tile.y < 0
  \/ (tile.x + tile.width) % Word > map.width
  \/ (tile.y + tile.height) % Word > map.height

(* The part of a tile that is copied: it is cut at the right and at the    *)
(* bottom of the image.  img->width - x is unsigned, clamp takes int32_t.  *)
Copied(img, x, y, tile) ==
  Points(0, clamp(tile.width, 0, Int32(img.width - x)),
         0, clamp(tile.height, 0, Int32(img.height - y)))

draw_tile(img, x, y, tilemap, tile) ==
  IF Outside(tilemap, tile) THEN img
  ELSE ForEach(Copied(img, x, y, tile), img,
         LAMBDA im, j, i :
           Store(im, compute_index(im, j + x, i + y),
                 tilemap.data[compute_index(tilemap, j + tile.x, i + tile.y)]))

draw_sprite(img, x, y, spritemap, sprite) ==
  IF Outside(spritemap, sprite) THEN img
  ELSE ForEach(Copied(img, x, y, sprite), img,
         LAMBDA im, j, i :
           draw_pixel(im, j + x, i + y,
                      spritemap.data[compute_index(spritemap, j + sprite.x, i + sprite.y)]))
=============================================================================
