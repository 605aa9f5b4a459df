----------------------------- MODULE BmpFormat ------------------------------
(***************************************************************************)
(* The file format, as a reference: the bytes of an uncompressed BMP file  *)
(* that shows a picture.  A picture is [width, height, pixels], pixels a   *)
(* function from <<column, row>> to <<red, green, blue>>.                  *)
(***************************************************************************)
EXTENDS Integers, Sequences, SequencesExt

CONSTANT PaletteSize    \* four bytes for each colour an 8-bit image may have

Pad(n) == [k \in 1..n |-> 0]

Long(n) ==
    <<n % 256, (n \div 256) % 256, (n \div (256 * 256)) % 256, n \div (256 * 256 * 256)>>

BlueGreenRed(colour) == <<colour[3], colour[2], colour[1]>>

ColourList(picture) == SetToSeq({picture.pixels[p] : p \in DOMAIN picture.pixels})

PixelBytes(picture, depth, p) ==
    LET colour == picture.pixels[p]
        index  == CHOOSE k \in DOMAIN ColourList(picture) : ColourList(picture)[k] = colour
    IN  CASE depth = 8  -> <<index - 1>>
          [] depth = 24 -> BlueGreenRed(colour)
          [] depth = 32 -> BlueGreenRed(colour) \o <<0>>

(* A row of pixels, filled up to a multiple of four bytes. *)
Row(picture, depth, y) ==
    LET row == FlattenSeq([k \in 1..picture.width |->
                              PixelBytes(picture, depth, <<k - 1, y>>)])
    IN  row \o Pad((4 - (Len(row) % 4)) % 4)

(* The lowest row comes first. *)
Rows(picture, depth) ==
    FlattenSeq([k \in 1..picture.height |-> Row(picture, depth, picture.height - k)])

PaletteOf(picture) ==
    LET entries == FlattenSeq([k \in DOMAIN ColourList(picture) |->
                                  BlueGreenRed(ColourList(picture)[k]) \o <<0>>])
    IN  entries \o Pad(PaletteSize - Len(entries))

Encoded(picture, depth) ==
    LET palette == IF depth = 8 THEN PaletteOf(picture) ELSE << >>
        rows    == Rows(picture, depth)
    IN  <<66, 77>> \o Long(54 + Len(palette) + Len(rows)) \o Pad(4)
        \o Long(54 + Len(palette)) \o Long(40)
        \o Long(picture.width) \o Long(picture.height) \o <<1, 0, depth, 0>>
        \o Pad(4) \o Long(Len(rows)) \o Pad(16) \o palette \o rows
=============================================================================
