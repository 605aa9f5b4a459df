-------------------------- MODULE MCImagePrograms ---------------------------
(***************************************************************************)
(* Pictures one to five columns wide and of one row or two: widths that    *)
(* the number of threads divides, that it does not, and that are smaller;  *)
(* rows that need padding and rows that do not.  A session blurs a picture *)
(* twice and compares, inverts it twice and compares, overwrites its own   *)
(* input, or compares with a picture of another size.                      *)
(***************************************************************************)
EXTENDS ImagePrograms

RGB == (0..255) \X (0..255) \X (0..255)

BlackPixel == <<0, 0, 0>>

Image(w, h) ==
    [width |-> w, height |-> h,
     pixels |-> [p \in (0..(w - 1)) \X (0..(h - 1)) |->
                   <<(90 * p[1] + 40 * p[2]) % 256, 100 + p[1], 255 - 60 * p[2]>>]]

Whole(picture, depth) ==
    [picture |-> picture, file |-> Format!Encoded(picture, depth), whole |-> TRUE]

(* An 8-bit picture made with the library: colour k of the palette is the  *)
(* k-th pixel's.                                                           *)
Painted(picture) ==
    LET pixels == SetToSeq(DOMAIN picture.pixels)
        blank  == BMP_Create(picture.width, picture.height, 8, 3).bmp
        Paint(bmp, k) ==
            LET p == pixels[k]
            IN  BMP_SetPixelIndex(
                  BMP_SetPaletteColor(bmp, k - 1, picture.pixels[p]), p[1], p[2], k - 1)
    IN  {[picture |-> picture, file |-> Contents(bmp), whole |-> TRUE] :
           bmp \in {FoldLeftDomain(Paint, blank, pixels)}}

(* No file; files cut off; with another magic number, depth, header size   *)
(* and compression.                                                        *)
Damaged(picture, depth) ==
    LET file == Format!Encoded(picture, depth)
    IN  {[picture |-> picture, file |-> f, whole |-> FALSE] :
           f \in {NULL}
                 \cup {SubSeq(file, 1, n) : n \in {0, 30, 60, Len(file) - 1}}
                 \cup {[file EXCEPT ![k] = @ + 1] : k \in {1, 15, 29, 31}}}

(* One colour all over: compared with a smaller picture of that colour, no *)
(* pixel is found incorrect.                                               *)
Plain(w, h) ==
    [width |-> w, height |-> h,
     pixels |-> [p \in (0..(w - 1)) \X (0..(h - 1)) |-> <<7, 8, 9>>]]

OneSample == [sample |-> Whole(Plain(1, 1), 8)]

SmallInputs ==
    {Whole(Image(1, 2), 32), Whole(Image(2, 2), 24), Whole(Plain(2, 1), 24),
     Whole(Image(5, 1), 8)}
      \cup Painted(Image(2, 2)) \cup Damaged(Image(2, 2), 8)

SmallImages == {input.picture : input \in SmallInputs}

Run(program, in, out) == [program |-> program, in |-> in, out |-> out]

SmallSessions ==
    {<<Run("blur_parallel", "in", "a"), Run("blur_sequential", "in", "b"),
       Run("compare_bmp", "a", "b")>>,
     <<Run("negative", "in", "a"), Run("negative", "a", "a"), Run("compare_bmp", "in", "a")>>,
     <<Run("negative", "in", "in"), Run("blur_sequential", "in", "a"),
       Run("compare_bmp", "a", "in")>>,
     <<Run("compare_bmp", "in", "sample"), Run("negative", "sample", "a")>>}
=============================================================================
