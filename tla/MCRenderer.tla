---------------------------- MODULE MCRenderer -----------------------------
(***************************************************************************)
(* Scripts on a canvas of 3 by 2 pixels, and files of one picture of 2 by  *)
(* 2, in both kinds, with every choice of filters and several cuts of the  *)
(* stream; and files that are broken.  A byte has 8 values.                *)
(***************************************************************************)
EXTENDS Renderer

(* The components of the last pixel are predicted from c alone, from a in  *)
(* a tie with c, from b in a tie with c, and from a alone.                 *)
MCPicture ==
  (<<0, 0>> :> <<2, 2, 2, 7>>) @@ (<<1, 0>> :> <<1, 1, 4, 4>>) @@
  (<<0, 1>> :> <<3, 4, 1, 0>>) @@ (<<1, 1>> :> <<4, 4, 2, 7>>)

(* The same picture in a file without alpha. *)
MCOpaque == [p \in DOMAIN MCPicture |-> [MCPicture[p] EXCEPT ![4] = Full]]

Header(n) ==
  [length |-> 13, crc |-> TRUE, width |-> 2, height |-> 2, depth |-> 8,
   color_type |-> IF n = 4 THEN PNG_TRUECOLOR_ALPHA ELSE PNG_TRUECOLOR,
   interlace |-> FALSE]
MCStream(f1, f2, n) == Stream(Header(n), MCPicture, (0 :> f1) @@ (1 :> f2))

MCChunk(type, data) == [type |-> type, crc |-> TRUE, data |-> data]
IEND == MCChunk("IEND", <<>>)
Idats(stream, cut) ==
  <<MCChunk("IDAT", SubSeq(stream, 1, cut)), MCChunk("IDAT", SubSeq(stream, cut + 1, Len(stream)))>>

File(n, chunks) ==
  [signature |-> TRUE,
   ihdr |-> Header(n),
   chunks |-> chunks]

(* Whole files: with every pair of filters; cut after any byte; with a     *)
(* chunk that is skipped.                                                  *)
WholeAlpha ==
  {File(4, <<MCChunk("IDAT", MCStream(f[1], f[2], 4)), IEND>>) : f \in (0 .. 4) \X (0 .. 4)}
    \cup {File(4, Append(Idats(MCStream(1, 4, 4), cut), IEND)) : cut \in 1 .. 18}
WholeOpaque ==
  {File(3, <<MCChunk("IDAT", MCStream(f, 4 - f, 3)), IEND>>) : f \in 0 .. 4}
    \cup {File(3, <<MCChunk("other", <<>>)>> \o Idats(MCStream(4, 3, 3), 5) \o <<IEND>>)}

(* Without any data, and with half of it: read without an error. *)
Empty == {File(4, <<IEND>>), File(3, <<MCChunk("IDAT", SubSeq(MCStream(0, 0, 3), 1, 7)), IEND>>)}

(* Refused: no end; a bad checksum; data after the end of the stream, and  *)
(* more of it than the image has; an empty chunk of data; other kinds.     *)
Good == File(4, <<MCChunk("IDAT", MCStream(2, 3, 4)), IEND>>)
Broken ==
  {NoFile,
   [Good EXCEPT !.chunks = SubSeq(@, 1, 1)],
   [Good EXCEPT !.chunks[1].crc = FALSE],
   [Good EXCEPT !.chunks[1].data = Append(@, 0)],
   [Good EXCEPT !.chunks[1].data = <<0>> \o @],
   [Good EXCEPT !.chunks[1].data = <<7>> \o Tail(@)],
   [Good EXCEPT !.chunks = <<MCChunk("IDAT", <<>>)>> \o @],
   [Good EXCEPT !.ihdr.color_type = PNG_GREYSCALE],
   [Good EXCEPT !.ihdr.depth = 16],
   [Good EXCEPT !.ihdr.crc = FALSE]}

Loads(files, pic) ==
  {[op |-> "L", ok |-> TRUE, n |-> 0, file |-> f, picture |-> pic] : f \in files}

Rect(x, y, w, h) == [x |-> x, y |-> y, width |-> w, height |-> h]
Sizes == {[op |-> "S", ok |-> TRUE, width |-> 3, height |-> 2],
          [op |-> "S", ok |-> TRUE, width |-> 64, height |-> 64]}
(* Half transparent, and nearly opaque. *)
Red == Packed(7, 1, 2, 4)
Blue == Packed(0, 3, 7, 6)
Rects == {[op |-> "R", ok |-> TRUE, rect |-> Rect(-1, 0, 3, 4), color |-> Red],
          [op |-> "R", ok |-> TRUE, rect |-> Rect(1, 1, 5, 1), color |-> Blue],
          [op |-> "R", ok |-> FALSE]}
Circles == {[op |-> "C", ok |-> TRUE, x |-> 2, y |-> 1, r |-> 1, color |-> Blue],
            [op |-> "C", ok |-> TRUE, x |-> -1, y |-> 0, r |-> 2, color |-> Red],
            [op |-> "C", ok |-> FALSE]}
Copies(op, x, y) ==
  [op |-> op, ok |-> TRUE, n |-> 0, rect |-> Rect(0, 0, 2, 2), x |-> x, y |-> y]
Tiles == {Copies("T", 2, 0), Copies("T", 0, 1), Copies("T", -1, 1), Copies("T", -1, 0),
          [Copies("T", 0, 0) EXCEPT !.rect = Rect(1, 1, 2, 1)]}
Sprites == {Copies("P", -1, 1), Copies("P", 2, 0), [Copies("P", 1, 1) EXCEPT !.rect = Rect(1, 0, 1, 2)],
            [Copies("P", 0, 0) EXCEPT !.n = 1]}

MCCommands ==
  Sizes \cup Rects \cup Circles \cup Tiles \cup Sprites
    \cup Loads(WholeAlpha, MCPicture) \cup Loads(WholeOpaque, MCOpaque)
    \cup Loads(Empty, NULL) \cup Loads(Broken, NULL)
    \cup {[op |-> "other"]}
MCBuilds == {"c", "asm"}
=============================================================================
