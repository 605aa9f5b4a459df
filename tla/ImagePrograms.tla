--------------------------- MODULE ImagePrograms ----------------------------
(***************************************************************************)
(* The image programs over the BMP library and the disk: negative,         *)
(* blur_sequential, blur_parallel and compare_bmp, run one after another   *)
(* by a user, each on the files that the ones before have left.            *)
(*                                                                         *)
(* The four go through the same calls: an image is read, a second one is   *)
(* created (compare_bmp reads it), the pixels are gone through, the second *)
(* image is written; after each call its status is looked at.  The threads *)
(* of blur_parallel are those of BlurParallel, whose `image` is what the   *)
(* input file shows: here they write bytes of the second image.            *)
(*                                                                         *)
(* The definitions called Wrong... are mistakes in the definition that     *)
(* follows each: nothing uses them.                                        *)
(***************************************************************************)
EXTENDS BlurParallel, BitMap

CONSTANTS
    Names,      \* of files
    In,         \* the one there is at first
    Inputs,     \* its possible contents: [picture, file, whole]
    Samples,    \* names -> [picture, file]: whole files there are too
    Sessions    \* sequences of commands: [program, in, out]

(* A picture whose file has numbers below 2^31, whatever its depth. *)
IsPicture(picture) ==
    LET w == picture.width  h == picture.height IN
    /\ picture = [width |-> w, height |-> h, pixels |-> picture.pixels]
    /\ w \in Nat \ {0} /\ h \in Nat \ {0}
    /\ (HeaderLength + PaletteSize + 4 * w * h) \div Weight[4] < 128
    /\ picture.pixels \in [(0..(w - 1)) \X (0..(h - 1)) -> Bytes \X Bytes \X Bytes]

Programs == {"negative", "blur_sequential", "blur_parallel", "compare_bmp"}

(* The image of blur_parallel is the one that its input shows: it comes    *)
(* first in a session, and reads the file there is at first.               *)
ASSUME ProgramsAssumption ==
    /\ In \in Names /\ DOMAIN Samples \subseteq Names \ {In}
    /\ Images = {input.picture : input \in Inputs}
    /\ \A input \in Inputs : IsPicture(input.picture) /\ input.whole \in BOOLEAN
    /\ \A n \in DOMAIN Samples : IsPicture(Samples[n].picture)
    /\ Colours = Bytes \X Bytes \X Bytes /\ Black = <<0, 0, 0>>
    /\ Sessions \subseteq Seq([program : Programs, in : Names, out : Names])
    /\ \A session \in Sessions : \A k \in DOMAIN session :
         session[k].program = "blur_parallel" => k = 1 /\ session[k].in = In

VARIABLES
    files,          \* the disk
    todo,           \* the commands from the running one on
    pc,             \* where the running program is
    first, second,  \* its two images
    error,          \* its BMP_LAST_ERROR_CODE
    drawn,          \* history: the picture that was put into each file
    meant,          \* history: the one the last writer should have put there
    lost,           \* history: the files whose last fclose lost data
    ended           \* history: how the programs so far have ended

progVars == <<files, todo, pc, first, second, error, drawn, meant, lost, ended>>

Command == Head(todo)

Runs(label, programs) == todo # << >> /\ pc = label /\ Command.program \in programs

Writers == Programs \ {"compare_bmp"}

ProgInit ==
    /\ Init
    /\ \E input \in Inputs :
         /\ image = input.picture
         /\ files = [n \in Names |->
                       IF n = In THEN input.file
                       ELSE IF n \in DOMAIN Samples THEN Samples[n].file ELSE NULL]
         /\ drawn = [n \in DOMAIN Samples \cup {m \in {In} : input.whole} |->
                       IF n = In THEN image ELSE Samples[n].picture]
    /\ todo \in Sessions /\ pc = "read"
    /\ first = NULL /\ second = NULL /\ error = "BMP_OK"
    /\ meant = NULL /\ lost = {} /\ ended = << >>

(* The static of the next process is another one. *)
Exit(code, verdict) ==
    /\ ended' = Append(ended, [command |-> Command, code |-> code, verdict |-> verdict])
    /\ todo' = Tail(todo) /\ pc' = "read"
    /\ first' = NULL /\ second' = NULL /\ error' = "BMP_OK"
    /\ UNCHANGED <<files, drawn, meant, lost>>

(* The status of the last call, whichever image it was for. *)
Check(next) ==
    IF error # "BMP_OK" THEN Exit("failure", "none")
    ELSE /\ pc' = next
         /\ UNCHANGED <<files, todo, first, second, error, drawn, meant, lost, ended>>

----------------------------------------------------------------------------
(* The two images *)

ReadImage ==
    /\ todo # << >> /\ pc = "read"
    /\ \E memory \in 0..3 :
         LET result == BMP_ReadFile(files[Command.in], memory)
         IN  first' = result.bmp /\ error' = result.status
    /\ pc' = "check read"
    /\ UNCHANGED <<files, todo, second, drawn, meant, lost, ended, vars>>

CheckRead ==
    /\ todo # << >> /\ pc = "check read"
    /\ Check("second")
    /\ UNCHANGED vars

BMP_DEPTH == 32

CreateImage ==
    /\ Runs("second", Writers)
    /\ \E memory \in 0..3 :
         LET result == BMP_Create(BMP_GetWidth(first), BMP_GetHeight(first), BMP_DEPTH, memory)
         IN  second' = result.bmp /\ error' = result.status
    /\ pc' = "check second"
    /\ UNCHANGED <<files, todo, first, drawn, meant, lost, ended, vars>>

ReadOther ==
    /\ Runs("second", {"compare_bmp"})
    /\ \E memory \in 0..3 :
         LET result == BMP_ReadFile(files[Command.out], memory)
         IN  second' = result.bmp /\ error' = result.status
    /\ pc' = "check second"
    /\ UNCHANGED <<files, todo, first, drawn, meant, lost, ended, vars>>

CheckSecond ==
    /\ todo # << >> /\ pc = "check second"
    /\ Check("loop")
    /\ UNCHANGED vars

----------------------------------------------------------------------------
(* The loops over the pixels *)

Picture(bmp) ==
    LET width == BMP_GetWidth(bmp)  height == BMP_GetHeight(bmp)
    IN  [width |-> width, height |-> height,
         pixels |-> [p \in (0..(width - 1)) \X (0..(height - 1)) |->
                       BMP_GetPixelRGB(bmp, p[1], p[2], NULL)]]

(* The second image after one set_pixel for each pixel of the first. *)
Filled(colours) ==
    LET width == BMP_GetWidth(first)
        order == [k \in 1..(width * BMP_GetHeight(first)) |->
                    <<(k - 1) % width, (k - 1) \div width>>]
    IN  FoldLeft(LAMBDA bmp, p : BMP_SetPixelRGB(bmp, p[1], p[2], colours[p]),
                 second, order)

Inverted(colour) == <<255 - colour[1], 255 - colour[2], 255 - colour[3]>>

Negate ==
    /\ Runs("loop", {"negative"})
    /\ LET pixels == Picture(first).pixels
       IN  second' = Filled([p \in DOMAIN pixels |-> Inverted(pixels[p])])
    /\ pc' = "write"
    /\ UNCHANGED <<files, todo, first, error, drawn, meant, lost, ended, vars>>

BlurAll ==
    /\ Runs("loop", {"blur_sequential"})
    /\ second' = Filled(Sequential!Blurred(Picture(first), box_size))
    /\ pc' = "write"
    /\ UNCHANGED <<files, todo, first, error, drawn, meant, lost, ended, vars>>

(* The threads and main's loops, up to the last join. *)
BlurThreads ==
    /\ Runs("loop", {"blur_parallel"})
    /\ \/ \E t \in Threads :
            /\ SetPixel(t)
            /\ second' = BMP_SetPixelRGB(second, x[t], y[t], blur'[<<x[t], y[t]>>])
       \/ \E t \in Threads : (NextRow(t) \/ ThreadEnds(t)) /\ UNCHANGED second
       \/ (Create \/ CreateFails \/ Join) /\ UNCHANGED second
    /\ UNCHANGED <<files, todo, pc, first, error, drawn, meant, lost, ended>>

BlurCrashes ==
    /\ Runs("loop", {"blur_parallel"})
    /\ JoinCrashes
    /\ Exit("crashed", "none")

(* The pixels of the second image that differ, column by column.  Where it *)
(* is smaller, the variables keep the colour that was read before.         *)
Incorrect ==
    LET height == BMP_GetHeight(first)
        order  == [k \in 1..(BMP_GetWidth(first) * height) |->
                     <<(k - 1) \div height, (k - 1) % height>>]
        Pixel(s, p) ==
            LET one == BMP_GetPixelRGB(first, p[1], p[2], NULL)
                two == BMP_GetPixelRGB(second, p[1], p[2], s.two)
            IN  [two |-> two, count |-> s.count + (IF one = two THEN 0 ELSE 1)]
    IN  FoldLeft(Pixel, [two |-> NULL, count |-> 0], order).count

Compare ==
    /\ Runs("loop", {"compare_bmp"})
    /\ LET equal == /\ BMP_GetWidth(first) = BMP_GetWidth(second)
                    /\ BMP_GetHeight(first) = BMP_GetHeight(second)
                    /\ Incorrect = 0
       IN  Exit("success", IF equal THEN "equal" ELSE "different")
    /\ UNCHANGED vars

----------------------------------------------------------------------------
(* The second image is written *)

(* What a program is for: the picture its output should show. *)
Result ==
    LET from == drawn[Command.in]
    IN  [from EXCEPT !.pixels =
           IF Command.program = "negative" THEN [p \in DOMAIN @ |-> Inverted(@[p])]
                                           ELSE Sequential!Blurred(from, box_size)]

(* blur_parallel could not create a thread, and its band has pixels.       *)
PartLeftOut(program) == program = "blur_parallel" /\ LeftOut # {}

(* The picture that is put into the output, all the same. *)
Output ==
    IF PartLeftOut(Command.program)
    THEN [Result EXCEPT !.pixels = [p \in DOMAIN @ |-> IF p \in LeftOut THEN Black ELSE @[p]]]
    ELSE Result

WriteImage ==
    /\ \/ Runs("write", {"negative", "blur_sequential"}) /\ UNCHANGED vars
       \/ Runs("loop", {"blur_parallel"}) /\ WriteFile
    /\ \E result \in BMP_WriteFile(second, files[Command.out]) :
         LET out == Command.out IN
         /\ files' = [files EXCEPT ![out] = result.file]
         /\ error' = result.status
         /\ IF result.status = "BMP_FILE_NOT_FOUND" THEN UNCHANGED <<drawn, lost>>
            ELSE /\ drawn' = [n \in DOMAIN drawn \cup {out} |->
                                IF n = out THEN Output ELSE drawn[n]]
                 /\ lost' = IF /\ result.status = "BMP_OK"
                               /\ result.file # Contents(second)
                            THEN lost \cup {out} ELSE lost \ {out}
    /\ meant' = Result
    /\ pc' = "check write"
    /\ UNCHANGED <<todo, first, second, ended>>

WrongCheckWrite ==
    /\ todo # << >> /\ pc = "check write"
    /\ Exit("success", "none")
    /\ UNCHANGED vars

CheckWrite ==
    /\ todo # << >> /\ pc = "check write"
    /\ IF error = "BMP_OK" THEN Exit("success", "none") ELSE Exit("failure", "none")
    /\ UNCHANGED vars

Finished == todo = << >> /\ UNCHANGED <<progVars, vars>>

ProgNext ==
    \/ ReadImage \/ CheckRead \/ CreateImage \/ ReadOther \/ CheckSecond
    \/ Negate \/ BlurAll \/ BlurThreads \/ BlurCrashes \/ Compare
    \/ WriteImage \/ CheckWrite
    \/ Finished

ProgSpec == ProgInit /\ [][ProgNext]_<<progVars, vars>>

----------------------------------------------------------------------------
Readable(file) == BMP_ReadFile(file, 3).status = "BMP_OK"

Shown(file) == Picture(BMP_ReadFile(file, 3).bmp)

ProgTypeOK ==
    /\ TypeOK
    /\ pc \in {"read", "check read", "second", "check second", "loop", "write", "check write"}
    /\ error \in {"BMP_OK", "BMP_OUT_OF_MEMORY", "BMP_IO_ERROR", "BMP_FILE_NOT_FOUND",
                  "BMP_FILE_NOT_SUPPORTED", "BMP_FILE_INVALID"}
    /\ \A bmp \in {first, second} \ {NULL} :
         Len(bmp.Data) = bmp.Header.ImageDataSize
    /\ \A n \in Names : files[n] # NULL =>
         \A k \in DOMAIN files[n] : files[n][k] \in Bytes
    /\ lost \subseteq Names

(* The pixels are in the bytes where get_pixel looks for them, whatever    *)
(* the depth of the file, its padding and the order of its rows: those of  *)
(* the file that was read, and in the second image those that the threads  *)
(* have set so far, no one's over another's.  In an 8-bit picture they are *)
(* also the palette's colours at the pixels' indices.                      *)
PicturesInBytes ==
    todo # << >> /\ pc \in {"second", "loop"} =>
      /\ Command.in \in DOMAIN drawn /\ Picture(first) = drawn[Command.in]
      /\ BMP_GetDepth(first) = 8 =>
           \A p \in DOMAIN Picture(first).pixels :
             Picture(first).pixels[p] =
               BMP_GetPaletteColor(first, BMP_GetPixelIndex(first, p[1], p[2], NULL), NULL)
      /\ Runs("loop", {"blur_parallel"}) => Picture(second).pixels = blur

(* A file that can be read shows the picture that was put into it: an      *)
(* input that is cut off, or damaged in a field of the header that the     *)
(* library checks, and an output that a write which failed has cut off     *)
(* anywhere, are refused by every program, and never taken for another     *)
(* picture.                                                                *)
ReadableMeansWhole ==
    \A n \in Names : files[n] # NULL /\ Readable(files[n]) =>
      n \in DOMAIN drawn /\ Shown(files[n]) = drawn[n]

(* A program that ends with success has done what it is for, with two      *)
(* exceptions.  A writer has left a whole file of its Result, in the       *)
(* format that other programs read, unless the loss was known to fclose    *)
(* alone (cqdbmp.c:367), or the program is blur_parallel and the band of a *)
(* thread that could not be created was left out: it reports that, and     *)
(* goes on to EXIT_SUCCESS (blur_parallel.cc:120-157).  compare_bmp finds  *)
(* two files equal if and only if the same picture was put into them.      *)
Format == INSTANCE BmpFormat

SuccessMeansDone ==
    pc = "read" /\ ended # << >> /\ Last(ended).code = "success" =>
      LET command == Last(ended).command IN
      IF command.program = "compare_bmp"
      THEN Last(ended).verdict = "equal" <=> drawn[command.in] = drawn[command.out]
      ELSE \/ command.out \in lost
           \/ PartLeftOut(command.program)
           \/ files[command.out] = Format!Encoded(meant, BMP_DEPTH)
=============================================================================
