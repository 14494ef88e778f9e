---------------------------- MODULE PngStandard ----------------------------
(***************************************************************************)
(* What the PNG standard says of files with one byte per component: which  *)
(* files hold a picture.  Nothing here is taken from pnglite.c but which   *)
(* headers it accepts, and that it refuses a chunk of no data.             *)
(***************************************************************************)
EXTENDS PngFiles, Painting

(* Of a width and height whose bytes, with a filter type before each line, *)
(* are as many as an unsigned can count.                                   *)
Countable(width, height) == 4 * width * height + height < Word

ASSUME FilterAssumption == 0 .. 4 \subseteq Byte

(* A picture of this size; without alpha, every point is opaque. *)
IsPicture(picture, ihdr) ==
  /\ DOMAIN picture = (0 .. ihdr.width - 1) \X (0 .. ihdr.height - 1)
  /\ \A p \in DOMAIN picture :
       /\ picture[p] \in Byte \X Byte \X Byte \X Byte
       /\ ihdr.color_type = PNG_TRUECOLOR => picture[p][4] = Full

LineLength(ihdr) == ihdr.width * bpp(ihdr)

(* The bytes of line y; above the first line are zeros. *)
Line(ihdr, picture, y) ==
  [i \in 1 .. LineLength(ihdr) |->
     IF y < 0 THEN 0
     ELSE picture[<<(i - 1) \div bpp(ihdr), y>>][1 + ((i - 1) % bpp(ihdr))]]

(* The nearest of a, b and c to a + b - c, in this order in a tie. *)
Nearest(a, b, c) ==
  LET v == <<a, b, c>>
      d == [i \in 1 .. 3 |-> IF v[i] > a + b - c THEN v[i] - (a + b - c)
                                                ELSE (a + b - c) - v[i]]
  IN  v[CHOOSE i \in 1 .. 3 : \A j \in 1 .. 3 : d[i] < d[j] \/ (d[i] = d[j] /\ i <= j)]

(* A byte as it is written: less what the filter expects it to be, from    *)
(* the bytes at the same place of the pixel to the left and of the line    *)
(* above.                                                                  *)
Filtered(filter, line, above, n) ==
  [i \in DOMAIN line |->
     LET a == IF i > n THEN line[i - n] ELSE 0
         b == above[i]
         c == IF i > n THEN above[i - n] ELSE 0
     IN  (line[i] - <<0, a, b, (a + b) \div 2, Nearest(a, b, c)>>[filter + 1]) % Base]

(* The stream of a picture: the filter and the bytes of every line. *)
Stream(ihdr, picture, filters) ==
  LET n == LineLength(ihdr) + 1
  IN  [i \in 1 .. ihdr.height * n + 1 |->
         LET y == (i - 1) \div n
             x == (i - 1) % n
         IN  IF y = ihdr.height THEN StreamEnd
             ELSE IF x = 0 THEN filters[y]
             ELSE Filtered(filters[y], Line(ihdr, picture, y),
                           Line(ihdr, picture, y - 1), bpp(ihdr))[x]]

(* The chunks of a file: others than IDAT do not matter, IEND is the last, *)
(* whatever its checksum.                                                  *)
DataLength(chunk) == IF chunk.type = "IDAT" THEN Len(chunk.data) ELSE 0
ChunksInOrder(chunks) ==
  /\ chunks # <<>>
  /\ \A k \in DOMAIN chunks :
       /\ chunks[k].type = "IEND" <=> k = Len(chunks)
       /\ chunks[k].type = "IDAT" => chunks[k].crc /\ chunks[k].data # <<>>

(* The IDAT chunks are the stream, wherever it was cut. *)
Carries(chunks, stream) ==
  LET sent[k \in 0 .. Len(chunks)] ==
        IF k = 0 THEN 0 ELSE sent[k - 1] + DataLength(chunks[k])
  IN  /\ sent[Len(chunks)] = Len(stream)
      /\ \A k \in DOMAIN chunks : chunks[k].type = "IDAT" =>
           chunks[k].data = SubSeq(stream, sent[k - 1] + 1, sent[k])

Holds(file, picture) ==
  /\ Opens(file) /\ IsTruecolor(file.ihdr)
  /\ Countable(file.ihdr.width, file.ihdr.height)
  /\ IsPicture(picture, file.ihdr)
  /\ ChunksInOrder(file.chunks)
  /\ \E filters \in [0 .. file.ihdr.height - 1 -> 0 .. 4] :
       Carries(file.chunks, Stream(file.ihdr, picture, filters))
=============================================================================
