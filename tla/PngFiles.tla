------------------------------ MODULE PngFiles -----------------------------
(***************************************************************************)
(* Reading and writing images as PNG files: image.c and the part of        *)
(* pnglite.c that it uses.  A file is its header and a sequence of chunks; *)
(* the data of its IDAT chunks, one after the other, are a compressed      *)
(* stream.  zlib is external: a stream is the bytes it stands for and a    *)
(* mark for its end.  Only images of one byte per component get past       *)
(* read_image, so that nothing here is about 16 bits.                      *)
(***************************************************************************)
EXTENDS Images, SequencesExt

(* Colour types. *)
PNG_GREYSCALE == 0
PNG_TRUECOLOR == 2
PNG_INDEXED == 3
PNG_GREYSCALE_ALPHA == 4
PNG_TRUECOLOR_ALPHA == 6

(* Bytes per pixel, for one byte per component. *)
Channels ==
  [type \in {PNG_GREYSCALE, PNG_TRUECOLOR, PNG_INDEXED, PNG_GREYSCALE_ALPHA, PNG_TRUECOLOR_ALPHA} |->
     CASE type \in {PNG_GREYSCALE, PNG_INDEXED} -> 1
       [] type = PNG_GREYSCALE_ALPHA -> 2
       [] type = PNG_TRUECOLOR -> 3
       [] type = PNG_TRUECOLOR_ALPHA -> 4]

StreamEnd == -1                 \* the end of a compressed stream
NoFile == [signature |-> FALSE, chunks |-> <<>>]    \* one that cannot be opened

(* png_open_file_read: signature, length, checksum and fields of IHDR. *)
Opens(file) ==
  /\ file.signature
  /\ file.ihdr.length = 13 /\ file.ihdr.crc
  /\ file.ihdr.color_type # PNG_INDEXED
  /\ file.ihdr.depth \in {8, 16}
  /\ ~file.ihdr.interlace

(* The two kinds of images that read_image accepts. *)
IsTruecolor(ihdr) ==
  /\ ihdr.color_type \in {PNG_TRUECOLOR, PNG_TRUECOLOR_ALPHA}
  /\ ihdr.depth = 8

bpp(ihdr) == Channels[ihdr.color_type]

(* The bytes of all lines, with the type of its filter before each. *)
png_datalen(ihdr) == (ihdr.width * ihdr.height * bpp(ihdr) + ihdr.height) % Word

(***************************************************************************)
(* The reader between two chunks: whether it goes on, is done or has       *)
(* failed, the inflated bytes, and how far the stream is.                  *)
(***************************************************************************)
NoData == [rc |-> "no error", data |-> <<>>, zs |-> "none"]
Failed(png) == [png EXCEPT !.rc = "error"]

(* inflate stops at the end of the stream and at the end of its buffer;    *)
(* input it leaves is an error, and so is input that is empty.             *)
png_inflate(png, datalen, in) ==
  LET end  == SelectInSeq(in, LAMBDA b : b = StreamEnd)
      body == IF end = 0 THEN in ELSE SubSeq(in, 1, end - 1)
  IN  IF png.zs = "ended" THEN IF in = <<>> THEN png ELSE Failed(png)
      ELSE IF \/ in = <<>> \/ end \notin {0, Len(in)}
              \/ Len(png.data) + Len(body) > datalen
      THEN Failed(png)
      ELSE [png EXCEPT !.data = @ \o body, !.zs = IF end = 0 THEN "open" ELSE "ended"]

png_process_chunk(png, ihdr, chunk) ==
  CASE chunk.type = "IDAT" -> IF chunk.crc
                              THEN png_inflate(png, png_datalen(ihdr), chunk.data)
                              ELSE Failed(png)
    [] chunk.type = "IEND" -> [png EXCEPT !.rc = "done"]
    [] OTHER -> png

(* png_get_data up to the filters: chunks until IEND, an error or the end  *)
(* of the file, which is an error too.                                     *)
AllChunks(file) ==
  LET after[k \in 0 .. Len(file.chunks)] ==
        IF k = 0 THEN NoData
        ELSE LET png == after[k - 1]
             IN  IF png.rc # "no error" THEN png
                 ELSE png_process_chunk(png, file.ihdr, file.chunks[k])
  IN  after[Len(file.chunks)]

(* Mutated form: c wins a tie. *)
png_paeth_ties(a, b, c) ==
  LET Distance(v) == LET d == a + b - c - v IN IF d < 0 THEN -d ELSE d
  IN  IF Distance(a) <= Distance(b) /\ Distance(a) < Distance(c) THEN a
      ELSE IF Distance(b) < Distance(c) THEN b ELSE c

png_paeth(a, b, c) ==
  LET Distance(v) == LET d == a + b - c - v IN IF d < 0 THEN -d ELSE d
  IN  IF Distance(a) <= Distance(b) /\ Distance(a) <= Distance(c) THEN a
      ELSE IF Distance(b) <= Distance(c) THEN b ELSE c

(* What a filter adds to a byte: a is the byte of the pixel to the left, b *)
(* the one above, c the one above a.                                       *)
Prediction(filter, a, b, c) ==
  CASE filter = 0 -> 0
    [] filter = 1 -> a
    [] filter = 2 -> b
    [] filter = 3 -> (a + b) \div 2
    [] filter = 4 -> png_paeth(a, b, c)

(* A line from its filtered bytes and the line before it. *)
Unfiltered(filter, stride, in, prev) ==
  LET out[i \in 1 .. Len(in)] ==
        LET a == IF i > stride THEN out[i - stride] ELSE 0
            c == IF i > stride THEN prev[i - stride] ELSE 0
        IN  (in[i] + Prediction(filter, a, prev[i], c)) % Base
  IN  out

(* The lines of an image, from the bytes inflated; before the first line   *)
(* stands one of zeros.  junk is what the bytes never written hold.        *)
png_unfilter(ihdr, data, junk) ==
  LET line  == ihdr.width * bpp(ihdr)
      At(i) == IF i <= Len(data) THEN data[i] ELSE junk
      Type(k) == At((k - 1) * (line + 1) + 1)
      In(k) == [i \in 1 .. line |-> At((k - 1) * (line + 1) + 1 + i)]
      lines[k \in 0 .. ihdr.height] ==
        IF k = 0 THEN [i \in 1 .. line |-> 0]
        ELSE Unfiltered(Type(k), bpp(ihdr), In(k), lines[k - 1])
  IN  IF \E k \in 1 .. ihdr.height : Type(k) > 4
      THEN NULL
      ELSE FlattenSeq([k \in 1 .. ihdr.height |-> lines[k]])

(* The bytes png_get_data leaves in its caller's buffer, or NULL for an    *)
(* error.  Without an IDAT chunk there are no lines and no error: the      *)
(* buffer is as it was allocated.                                          *)
png_get_data(file, junk) ==
  LET png == AllChunks(file)
  IN  IF png.rc # "done" THEN NULL
      ELSE IF png.zs = "none"
      THEN [i \in 1 .. file.ihdr.width * file.ihdr.height * bpp(file.ihdr) |-> junk]
      ELSE png_unfilter(file.ihdr, png.data, junk)

(* A pixel of a file without alpha, and one with it: its bytes are in the  *)
(* order of the file, and are swapped as a word.                           *)
PixelOf(ihdr, data, i) ==
  IF ihdr.color_type = PNG_TRUECOLOR
  THEN Packed(data[3 * i + 1], data[3 * i + 2], data[3 * i + 3], Full)
  ELSE byteswap(FromBytes(SubSeq(data, 4 * i + 1, 4 * i + 4)))

(* The image, or NoImage for an error. *)
read_image(file, junk) ==
  IF ~Opens(file) THEN NoImage
  ELSE IF ~IsTruecolor(file.ihdr) THEN NoImage
  ELSE LET data == png_get_data(file, junk)
       IN  IF data = NULL THEN NoImage
           ELSE [width  |-> file.ihdr.width,
                 height |-> file.ihdr.height,
                 data   |-> [i \in 0 .. NumPixels(file.ihdr.width, file.ihdr.height) - 1
                               |-> PixelOf(file.ihdr, data, i)]]

(* Whether read_image writes to the memory it asked for, with or without   *)
(* an error in the end; malloc(0) is taken to give a pointer.              *)
WritesPixels(file, junk) ==
  /\ Opens(file) /\ IsTruecolor(file.ihdr)
  /\ NumPixels(file.ihdr.width, file.ihdr.height) > 0
  /\ LET png    == AllChunks(file)
         filter == IF png.data = <<>> THEN junk ELSE png.data[1]
     IN  png.rc = "done" /\ (png.zs = "none" \/ filter <= 4)

(* Mutated form: the words are written as they are in memory. *)
DataUnswapped(img) ==
  FlattenSeq([k \in 1 .. NumPixels(img.width, img.height) |-> Bytes(img.data[k - 1])])

(* The pixels as bytes, swapped before they are written. *)
DataToWrite(img) ==
  FlattenSeq([k \in 1 .. NumPixels(img.width, img.height) |->
                Bytes(byteswap(img.data[k - 1]))])

(* png_set_data: the lines, each after a 0 for no filter. *)
Lines(img) ==
  LET line == 4 * img.width
  IN  FlattenSeq([k \in 1 .. img.height |->
        <<0>> \o SubSeq(DataToWrite(img), (k - 1) * line + 1, k * line)])

(* The file of png_write_ihdr and png_write_idats, all data in one chunk. *)
png_set_data(img) ==
  [signature |-> TRUE,
   ihdr   |-> [length |-> 13, crc |-> TRUE, width |-> img.width,
               height |-> img.height, depth |-> 8,
               color_type |-> PNG_TRUECOLOR_ALPHA, interlace |-> FALSE],
   chunks |-> <<[type |-> "IDAT", crc |-> TRUE,
                 data |-> Append(Lines(img), StreamEnd)],
                [type |-> "IEND", crc |-> TRUE, data |-> <<>>]>>]
=============================================================================
