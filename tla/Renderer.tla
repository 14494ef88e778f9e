------------------------------ MODULE Renderer -----------------------------
(***************************************************************************)
(* The program that renders an image from a script: c_driver.c, linked     *)
(* with the drawing functions in C (c_draw) or in assembly (asm_draw).     *)
(* One action is one command of the script.  A command has the fields its  *)
(* letter asks for; ok says that they can be scanned.                      *)
(***************************************************************************)
EXTENDS AsmDrawing, PngStandard, FiniteSets

CONSTANTS
  Builds,       \* the programs built: subset of {"c", "asm"}
  NumSlots,     \* NUM_IMAGE_SLOTS
  Commands,     \* the commands a script is made of
  MaxCommands   \* bound on the length of a script

(* What scanf stores in an int32_t.  The sums of two such numbers that the *)
(* drawing functions compute fit one, too, and so do the counters of their *)
(* loops behind the last point: where they do not, the C code is           *)
(* undefined, and a loop of the assembly does not end.                     *)
Ints == -(Word \div 2) .. Word - (Word \div 2) - 1
IsRect(rect) ==
  /\ rect \in [x : Ints, y : Ints, width : Ints, height : Ints]
  /\ {rect.x + rect.width, rect.y + rect.height} \subseteq Ints

(* A file, with an image of which an unsigned can count the bytes.  The    *)
(* chunks that are skipped are all alike, whatever their type is.          *)
Chunk == [type : {"IDAT", "IEND", "other"}, crc : BOOLEAN,
          data : Seq(Byte \cup {StreamEnd})]
IsFile(file) ==
  /\ file.chunks \in Seq(Chunk)
  /\ Opens(file) => /\ {file.ihdr.width, file.ihdr.height} \subseteq Color
                    /\ Countable(file.ihdr.width, file.ihdr.height)

IsCommand(c) ==
  /\ c.op = "S" /\ c.ok => {c.width, c.height} \subseteq Color
  /\ c.op = "R" /\ c.ok => IsRect(c.rect) /\ c.color \in Color
  /\ c.op = "C" /\ c.ok => /\ {c.x, c.y, c.r} \subseteq Ints /\ c.color \in Color
                           /\ {c.x - c.r, c.x + c.r, c.y - c.r, c.y + c.r} \subseteq Ints
                           /\ {c.x + c.r + 1, c.y + c.r + 1} \subseteq Ints
  /\ c.op = "L" /\ c.ok => IsFile(c.file) /\ (c.picture # NULL => Holds(c.file, c.picture))
  /\ c.op \in {"T", "P"} /\ c.ok => IsRect(c.rect) /\ {c.x, c.y} \subseteq Ints

ASSUME BuildsAssumption == Builds \subseteq {"c", "asm"}
ASSUME CommandsAssumption == \A c \in Commands : IsCommand(c)

VARIABLES
  build,           \* which of the programs runs
  canvas,
  loaded_images,   \* the image in each slot, NoImage if there is none
  error,
  status,          \* "run", "exit", or "undefined" after a write outside of an image
  output,          \* the file written
  read,            \* number of commands read
  \* history, of which the program knows nothing:
  picture,         \* what the script has painted
  held,            \* the picture in the file each slot was loaded from, NULL if none
  odd              \* the odd things the script has asked for, see Oddities,
                   \* and "memory" after an allocation that failed unseen

program == <<canvas, loaded_images, error, status, output>>
history == <<picture, held, odd>>
vars == <<build, read, program, history>>

Slots == 0 .. NumSlots - 1

Init ==
  /\ build \in Builds
  /\ canvas = NoImage
  /\ loaded_images = [n \in Slots |-> NoImage]
  /\ error = FALSE
  /\ status = "run"
  /\ output = NoFile
  /\ read = 0
  /\ picture = Blank(0, 0)
  /\ held = [n \in Slots |-> NULL]
  /\ odd = {}

(* The loop reads on as long as there was no error. *)
Scan(c, letter) ==
  /\ status = "run" /\ ~error
  /\ read < MaxCommands /\ read' = read + 1
  /\ c.op = letter
  /\ UNCHANGED <<build, output>>

Fail ==
  /\ error' = TRUE
  /\ UNCHANGED <<canvas, loaded_images, status, history>>

(* The canvas becomes img, unless that is undefined: then so is all that   *)
(* follows.                                                                *)
Drawn(img) ==
  /\ IF img = Undefined
     THEN status' = "undefined" /\ UNCHANGED canvas
     ELSE canvas' = img /\ UNCHANGED status
  /\ UNCHANGED <<loaded_images, error>>

(* Of so many pixels, or bytes of pixels and filter types, that their      *)
(* number does not fit an unsigned.                                        *)
TooLarge(img) == ~Countable(img.width, img.height)

(***************************************************************************)
(* What is asked for that the code does not do as its comments say: a      *)
(* canvas of more pixels than an unsigned holds; a tile left of or above   *)
(* the canvas; in the assembly, a circle whose centre is there, and all    *)
(* tiles and sprites, which are marked TODO there.  And a part of a file   *)
(* that held no picture.                                                   *)
(***************************************************************************)
Oddities(c) ==
  {o \in {"size", "tile", "circle", "todo", "source"} :
     \/ o = "size" /\ c.op = "S" /\ TooLarge(c)
     \/ o = "source" /\ c.op \in {"T", "P"} /\ held[c.n] = NULL
     \/ o = "tile" /\ c.op = "T" /\ build = "c" /\ (c.x < 0 \/ c.y < 0)
     \/ o = "circle" /\ c.op = "C" /\ build = "asm" /\ (c.x < 0 \/ c.y < 0)
     \/ o = "todo" /\ c.op \in {"T", "P"} /\ build = "asm"}

Note(c, painted) ==
  /\ picture' = painted
  /\ odd' = odd \cup Oddities(c)
  /\ UNCHANGED held

(* The code goes on without the memory it asked for, and writes there. *)
NoMemory ==
  /\ status' = "undefined"
  /\ odd' = odd \cup {"memory"}

(* malloc may fail.  A second S gives a new canvas. *)
Size(c) ==
  /\ Scan(c, "S")
  /\ \/ Fail
     \/ /\ c.ok
        /\ Drawn(NewImage(c.width, c.height))
        /\ Note(c, IF TooLarge(c) THEN picture ELSE Blank(c.width, c.height))

Rectangle(c) ==
  /\ Scan(c, "R")
  /\ IF canvas.data = NULL \/ ~c.ok THEN Fail
     ELSE /\ Drawn(IF build = "c" THEN draw_rect(canvas, c.rect, c.color)
                   ELSE asm_draw_rect(canvas, c.rect, c.color))
          /\ Note(c, PaintRect(picture, c.rect, c.color))

Circle(c) ==
  /\ Scan(c, "C")
  /\ IF canvas.data = NULL \/ ~c.ok THEN Fail
     ELSE /\ Drawn(IF build = "c" THEN draw_circle(canvas, c.x, c.y, c.r, c.color)
                   ELSE asm_draw_circle(canvas, c.x, c.y, c.r, c.color))
          /\ Note(c, PaintCircle(picture, c.x, c.y, c.r, c.color))

(* A slot can be loaded once.  Any file may be impossible to open, and so  *)
(* may the memory to inflate it be impossible to have; the two allocations *)
(* of read_image itself are not looked at.  c.picture is the picture in    *)
(* the file, NULL if it holds none.                                        *)
Load(c) ==
  /\ Scan(c, "L")
  /\ \/ Fail
     \/ /\ c.ok /\ c.n \in Slots
        /\ loaded_images[c.n].data = NULL
        /\ \E junk \in Byte :
             \/ LET img == read_image(c.file, junk)
                IN  /\ img # NoImage
                    /\ loaded_images' = [loaded_images EXCEPT ![c.n] = img]
                    /\ held' = [held EXCEPT ![c.n] = c.picture]
                    /\ UNCHANGED <<canvas, error, status, picture, odd>>
             \/ /\ WritesPixels(c.file, junk)
                /\ NoMemory
                /\ UNCHANGED <<canvas, loaded_images, error, picture, held>>

(* T and P: neither asks whether there is a canvas. *)
HasImage(c) == c.ok /\ c.n \in Slots /\ loaded_images[c.n].data # NULL

Tile(c) ==
  /\ Scan(c, "T")
  /\ IF ~HasImage(c) THEN Fail
     ELSE LET map == loaded_images[c.n]
          IN  /\ Drawn(IF build = "c" THEN draw_tile(canvas, c.x, c.y, map, c.rect)
                       ELSE asm_draw_tile(canvas, c.x, c.y, map, c.rect))
              /\ Note(c, IF held[c.n] = NULL THEN picture
                         ELSE PaintTile(picture, c.x, c.y, held[c.n], c.rect))

Sprite(c) ==
  /\ Scan(c, "P")
  /\ IF ~HasImage(c) THEN Fail
     ELSE LET map == loaded_images[c.n]
          IN  /\ Drawn(IF build = "c" THEN draw_sprite(canvas, c.x, c.y, map, c.rect)
                       ELSE asm_draw_sprite(canvas, c.x, c.y, map, c.rect))
              /\ Note(c, IF held[c.n] = NULL THEN picture
                         ELSE PaintSprite(picture, c.x, c.y, held[c.n], c.rect))

Unrecognized(c) ==
  /\ Scan(c, "other")
  /\ Fail

(* A disk that is full takes only a part of a file: nobody looks at what   *)
(* fwrite and fclose return.  The part may end in the last four bytes, the *)
(* checksum of IEND.                                                       *)
Kept(file) ==
  {NoFile, [file EXCEPT !.chunks[Len(file.chunks)].crc = FALSE]}
    \cup {[file EXCEPT !.chunks = SubSeq(@, 1, k)] : k \in 0 .. Len(file.chunks)}

(* write_image cannot create the file, or has no memory for the swapped    *)
(* pixels; or it writes; or it has no memory for the lines or the chunk,   *)
(* at which png_set_data does not look.                                    *)
Write ==
  \/ /\ error' = TRUE /\ status' = "exit"
     /\ UNCHANGED <<output, odd>>
  \/ /\ ~TooLarge(canvas)
     /\ output' \in Kept(png_set_data(canvas)) /\ status' = "exit"
     /\ UNCHANGED <<error, odd>>
  \/ /\ TooLarge(canvas)
     /\ status' = "undefined"
     /\ UNCHANGED <<output, error, odd>>
  \/ /\ NoMemory
     /\ UNCHANGED <<output, error>>

(* The end of the script, or the first error. *)
End ==
  /\ status = "run"
  /\ IF error
     THEN status' = "exit" /\ UNCHANGED <<output, error, odd>>
     ELSE Write
  /\ UNCHANGED <<build, read, canvas, loaded_images, picture, held>>

Next ==
  \/ \E c \in Commands :
       \/ Size(c) \/ Rectangle(c) \/ Circle(c)
       \/ Load(c) \/ Tile(c) \/ Sprite(c) \/ Unrecognized(c)
  \/ End

Spec == Init /\ [][Next]_vars

-----------------------------------------------------------------------------
(***************************************************************************)
(* Properties.                                                             *)
(***************************************************************************)

(* A canvas that was asked for nothing odd, by a program that had its      *)
(* memory, shows what the comments of the drawing functions say: clipped   *)
(* at all four sides, nothing in a wrong row or outside of the pixels,     *)
(* blended in the order of the script, from the loaded images as they are  *)
(* in their files.  In assembly that is about rectangles and circles.      *)
AsPainted ==
  /\ status # "undefined"
  /\ canvas.data # NULL => Shows(canvas, picture)
PictureIsPainted == odd = {} => AsPainted

(* c_drawing_funcs.c and asm_drawing_funcs.S say of draw_circle: "The      *)
(* circle has x,y as its center and has r as its radius."  Wherever its    *)
(* centre is, the canvas shows the part of it that is inside.              *)
CirclesAreRound == odd \subseteq {"circle"} => AsPainted

(* A file that was read without an error holds the picture the slot shows, *)
(* whatever filters its lines have and however its stream is cut into      *)
(* chunks; and no command changes a loaded image.                          *)
SlotsHoldPictures ==
  \A n \in Slots : held[n] # NULL => Shows(loaded_images[n], held[n])

(* A file written by a run that ended with success, when it is read again, *)
(* gives the canvas; one of which more was lost than the checksum at its   *)
(* end is not read as an image.                                            *)
Same(img1, img2) ==
  /\ img1.width = img2.width /\ img1.height = img2.height
  /\ img2.data # NULL => img1.data = img2.data
WrittenReadsBack ==
  status = "exit" /\ ~error =>
    \A junk \in Byte :
      LET img == read_image(output, junk)
      IN  IF Len(output.chunks) = 2
          THEN img.data # NULL /\ Same(img, canvas)
          ELSE img = NoImage
=============================================================================
