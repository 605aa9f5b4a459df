------------------------------- MODULE BitMap -------------------------------
(***************************************************************************)
(* The BMP library, cqdbmp.c, and the class over it, qdbmp.cc.  A file is  *)
(* the sequence of its bytes, or NULL if there is none; an image in memory *)
(* is the library's struct; a call that can fail returns [status, bmp],    *)
(* its status being what it leaves in BMP_LAST_ERROR_CODE.  The calls on   *)
(* pixels leave the code alone: those lines are commented out.             *)
(*                                                                         *)
(* memory is the number of allocations that succeed before one fails.      *)
(* Bounds: the numbers of a header are below 2^31, and its width, height   *)
(* and size of data agree with each other, as the library takes for        *)
(* granted.                                                                *)
(*                                                                         *)
(* The definitions called Wrong... are mistakes in the definition that     *)
(* follows each: nothing uses them.                                        *)
(***************************************************************************)
EXTENDS Integers, Sequences, SequencesExt

CONSTANTS
    PaletteSize,    \* BMP_PALETTE_SIZE
    Cuts,           \* the numbers of bytes that a failed write may leave out
    NULL

ASSUME BitMapAssumption ==
    /\ PaletteSize \in Nat /\ PaletteSize % 4 = 0
    /\ Cuts \subseteq Nat \ {0}

Bytes == 0..255

Zeros(n) == [k \in 1..n |-> 0]

Failed(status) == [status |-> status, bmp |-> NULL]
Done(bmp)      == [status |-> "BMP_OK", bmp |-> bmp]

----------------------------------------------------------------------------
(* The header: the place of each field in the file. *)

Place ==
    [Magic |-> 0, FileSize |-> 2, Reserved1 |-> 6, Reserved2 |-> 8,
     DataOffset |-> 10, HeaderSize |-> 14, Width |-> 18, Height |-> 22,
     Planes |-> 26, BitsPerPixel |-> 28, CompressionType |-> 30,
     ImageDataSize |-> 34, HPixelsPerMeter |-> 38, VPixelsPerMeter |-> 42,
     ColorsUsed |-> 46, ColorsRequired |-> 50]

HeaderLength == 54

(* A USHORT has two bytes, a UINT four. *)
Size(field) ==
    IF field \in {"Magic", "Reserved1", "Reserved2", "Planes", "BitsPerPixel"}
    THEN 2 ELSE 4

(* What a byte counts in a number, from the first one on. *)
Weight == <<1, 256, 256 * 256, 256 * 256 * 256>>

(* ReadUINT and ReadUSHORT.  The four bytes are put together in an int,    *)
(* and a negative one is a UINT of 64 bits 2^64 - 2^32 greater.            *)
FromLittle(bytes) ==
    LET Part(k) == IF k <= Len(bytes) THEN bytes[k] * Weight[k] ELSE 0
        sign    == IF Len(bytes) = 4 /\ bytes[4] >= 128
                   THEN (256 * Weight[4] - 1) * (256 * Weight[4]) ELSE 0
    IN  sign + Part(4) + Part(3) + Part(2) + Part(1)

WrongLittle(x, k) == x \div Weight[k + 1]

(* WriteUINT and WriteUSHORT: byte k of x, from 0 on *)
Little(x, k) == (x \div Weight[k + 1]) % 256

ReadHeader(file) ==
    [f \in DOMAIN Place |->
        FromLittle(SubSeq(file, Place[f] + 1, Place[f] + Size(f)))]

WriteHeader(header) ==
    [k \in 1..HeaderLength |->
        LET f == CHOOSE f \in DOMAIN Place : k - 1 - Place[f] \in 0..(Size(f) - 1)
        IN  Little(header[f], k - 1 - Place[f])]

(* The struct. *)
Bitmaps == [Header : [DOMAIN Place -> Nat], Palette : Seq(Bytes) \cup {NULL}, Data : Seq(Bytes)]

ASSUME NullAssumption == NULL \notin Seq(Bytes) /\ NULL \notin Bitmaps

----------------------------------------------------------------------------
(* Construction and destruction *)

(* Rounded up to the next multiple of four. *)
BytesPerRow(width, depth) ==
    LET bytes == width * (depth \div 8)
    IN  bytes + (IF bytes % 4 # 0 THEN 4 - (bytes % 4) ELSE 0)

NewHeader(width, height, depth) ==
    LET start == HeaderLength + (IF depth = 8 THEN PaletteSize ELSE 0)
        data  == BytesPerRow(width, depth) * height
        known == [Magic |-> 19778,    \* 0x4D42
                  HeaderSize |-> 40, Planes |-> 1, Width |-> width, Height |-> height,
                  BitsPerPixel |-> depth, ImageDataSize |-> data,
                  FileSize |-> start + data, DataOffset |-> start]
    IN  [f \in DOMAIN Place |-> IF f \in DOMAIN known THEN known[f] ELSE 0]

BMP_Create(width, height, depth, memory) ==
    IF height = 0 \/ width = 0 THEN Failed("BMP_INVALID_ARGUMENT")
    ELSE IF depth \notin {8, 24, 32} THEN Failed("BMP_FILE_NOT_SUPPORTED")
    ELSE IF memory < (IF depth = 8 THEN 3 ELSE 2) THEN Failed("BMP_OUT_OF_MEMORY")
    ELSE LET header == NewHeader(width, height, depth)
         IN  Done([Header  |-> header,
                   Palette |-> IF depth = 8 THEN Zeros(PaletteSize) ELSE NULL,
                   Data    |-> Zeros(header.ImageDataSize)])

(* The -1 for no image is returned as a UINT, an unsigned long of 64 bits, *)
(* or a USHORT.                                                            *)
BMP_GetWidth(bmp)  == IF bmp = NULL THEN 2 ^ 64 - 1 ELSE bmp.Header.Width
BMP_GetHeight(bmp) == IF bmp = NULL THEN 2 ^ 64 - 1 ELSE bmp.Header.Height
BMP_GetDepth(bmp)  == IF bmp = NULL THEN 2 ^ 16 - 1 ELSE bmp.Header.BitsPerPixel

----------------------------------------------------------------------------
(* Files *)

PaletteLength(header) == IF header.BitsPerPixel = 8 THEN PaletteSize ELSE 0

WrongDataEnd(header) ==
    HeaderLength + PaletteLength(header) + header.ImageDataSize - 1

(* The palette and the data follow the header, wherever DataOffset points. *)
DataEnd(header) == HeaderLength + PaletteLength(header) + header.ImageDataSize

BMP_ReadFile(file, memory) ==
    LET header  == ReadHeader(file)
        indexed == header.BitsPerPixel = 8
        start   == HeaderLength + PaletteLength(header)
        end     == DataEnd(header)
    IN  IF memory < 1 THEN Failed("BMP_OUT_OF_MEMORY")
        ELSE IF file = NULL THEN Failed("BMP_FILE_NOT_FOUND")
        ELSE IF Len(file) < HeaderLength THEN Failed("BMP_FILE_INVALID")
        ELSE IF header.Magic # 19778 THEN Failed("BMP_FILE_INVALID")
        ELSE IF \/ header.BitsPerPixel \notin {8, 24, 32}
                \/ header.CompressionType # 0
                \/ header.HeaderSize # 40
             THEN Failed("BMP_FILE_NOT_SUPPORTED")
        ELSE IF indexed /\ memory < 2 THEN Failed("BMP_OUT_OF_MEMORY")
        ELSE IF Len(file) < start THEN Failed("BMP_FILE_INVALID")
        ELSE IF memory < (IF indexed THEN 3 ELSE 2) THEN Failed("BMP_OUT_OF_MEMORY")
        ELSE IF Len(file) < end THEN Failed("BMP_FILE_INVALID")
        ELSE Done([Header  |-> header,
                   Palette |-> IF indexed THEN SubSeq(file, HeaderLength + 1, start)
                                          ELSE NULL,
                   Data    |-> SubSeq(file, start + 1, end)])

Contents(bmp) ==
    WriteHeader(bmp.Header)
        \o (IF bmp.Palette # NULL THEN bmp.Palette ELSE << >>)
        \o bmp.Data

(* The possible outcomes, old being the file before.  A write that fails   *)
(* leaves some first bytes of the new contents; the one that is left to    *)
(* fclose fails without anybody hearing of it.                             *)
BMP_WriteFile(bmp, old) ==
    LET new   == Contents(bmp)
        parts == {SubSeq(new, 1, Len(new) - cut) : cut \in Cuts}
    IN  {[status |-> "BMP_FILE_NOT_FOUND", file |-> old],
         [status |-> "BMP_OK", file |-> new]}
        \cup [status : {"BMP_IO_ERROR", "BMP_OK"}, file : parts]

----------------------------------------------------------------------------
(* Pixels *)

Outside(bmp, x, y) ==
    bmp = NULL \/ x >= bmp.Header.Width \/ y >= bmp.Header.Height

WrongAt(bmp, x, y) ==
    y * (bmp.Header.ImageDataSize \div bmp.Header.Height)
        + x * (bmp.Header.BitsPerPixel \div 8)

(* Where the data of a pixel begin: the rows are flipped. *)
At(bmp, x, y) ==
    (bmp.Header.Height - y - 1) * (bmp.Header.ImageDataSize \div bmp.Header.Height)
        + x * (bmp.Header.BitsPerPixel \div 8)

(* The colour, or what the caller's variables held before. *)
BMP_GetPixelRGB(bmp, x, y, before) ==
    IF Outside(bmp, x, y) THEN before
    ELSE LET indexed == bmp.Header.BitsPerPixel = 8
             bytes   == IF indexed THEN bmp.Palette ELSE bmp.Data
             at      == IF indexed THEN bmp.Data[At(bmp, x, y) + 1] * 4 ELSE At(bmp, x, y)
         IN  <<bytes[at + 3], bytes[at + 2], bytes[at + 1]>>

BMP_SetPixelRGB(bmp, x, y, colour) ==
    IF Outside(bmp, x, y) \/ bmp.Header.BitsPerPixel \notin {24, 32} THEN bmp
    ELSE LET at == At(bmp, x, y)
         IN  [bmp EXCEPT !.Data = [@ EXCEPT ![at + 3] = colour[1],
                                            ![at + 2] = colour[2],
                                            ![at + 1] = colour[3]]]

BMP_GetPixelIndex(bmp, x, y, before) ==
    IF Outside(bmp, x, y) \/ bmp.Header.BitsPerPixel # 8 THEN before
    ELSE bmp.Data[At(bmp, x, y) + 1]

BMP_SetPixelIndex(bmp, x, y, index) ==
    IF Outside(bmp, x, y) \/ bmp.Header.BitsPerPixel # 8 THEN bmp
    ELSE [bmp EXCEPT !.Data[At(bmp, x, y) + 1] = index]

BMP_GetPaletteColor(bmp, index, before) ==
    IF bmp = NULL \/ bmp.Header.BitsPerPixel # 8 THEN before
    ELSE <<bmp.Palette[index * 4 + 3], bmp.Palette[index * 4 + 2],
           bmp.Palette[index * 4 + 1]>>

BMP_SetPaletteColor(bmp, index, colour) ==
    IF bmp = NULL \/ bmp.Header.BitsPerPixel # 8 THEN bmp
    ELSE [bmp EXCEPT !.Palette = [@ EXCEPT ![index * 4 + 3] = colour[1],
                                           ![index * 4 + 2] = colour[2],
                                           ![index * 4 + 1] = colour[3]]]
=============================================================================
