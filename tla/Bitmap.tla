------------------------------- MODULE Bitmap -------------------------------
(***************************************************************************)
(* Reading a BMP file row by row (lib/GfxRenderer/Bitmap.cpp,              *)
(* BitmapHelpers.h, BitmapHelpers.cpp).                                    *)
(*                                                                         *)
(* A file is its header fields and its rows of pixels, in the order of the *)
(* file; a pixel of a file with a palette is an index, else a luminance.   *)
(* The brightness, gamma and noise options are off at compile time; the    *)
(* ditherer is an option too, of which both values are modelled.           *)
(***************************************************************************)
EXTENDS Integers, Sequences, FiniteSets

CONSTANTS
  BitmapWidths,    \* widths of the bitmaps that are read
  BitmapHeights,   \* heights, negative for a top-down bitmap
  Luminances,      \* luminances their pixels and palettes may have
  Ditherers,       \* USE_ATKINSON: the ditherers that may be compiled in
  MaxRewinds       \* bound on the number of rewinds

ASSUME BitmapAssumption ==
  /\ BitmapWidths \subseteq Int /\ BitmapHeights \subseteq Int
  /\ Luminances \subseteq 0 .. 255 /\ MaxRewinds \in Nat
  /\ Ditherers \subseteq {"atkinson", "floydSteinberg"}

VARIABLES
  bitmap,     \* the Bitmap object, or NoBitmap
  firstPass,  \* what the rows gave when they were read for the first time
  thisPass,   \* what they gave since the last rewind
  rewinds

bitmapVars == <<bitmap, firstPass, thisPass, rewinds>>

MaxImageWidth == 2048
MaxImageHeight == 3072
DefaultColors(bpp) == 2 ^ bpp

RowBytes(width, bpp) == ((width * bpp + 31) \div 32) * 4

Level(lum) == lum \div 64

(* The luminance is one of the four grays of the panel, or close to it.    *)
NearNative(lum) == lum <= Level(lum) * 85 + 21 /\ lum + 21 >= Level(lum) * 85

ColorsUsed(h) == IF h.colorsUsed = 0 /\ h.bpp <= 8 THEN DefaultColors(h.bpp) ELSE h.colorsUsed

NativePalette(h) ==
  \/ h.bpp <= 2
  \/ ColorsUsed(h) > 0 /\ \A i \in 1 .. ColorsUsed(h) : NearNative(h.palette[i])

(* parseHeaders(): the first check that fails names the error.             *)
HeaderError(h) ==
  CASE h.type # "BM"                                   -> "NotBMP"
    [] h.biSize < 40                                   -> "DIBTooSmall"
    [] h.planes # 1                                    -> "BadPlanes"
    [] h.bpp \notin {1, 2, 4, 8, 24, 32}               -> "UnsupportedBpp"
    [] ~ (h.comp = 0 \/ (h.bpp = 32 /\ h.comp = 3))    -> "UnsupportedCompression"
    [] ColorsUsed(h) > 256                             -> "PaletteTooLarge"
    [] h.width <= 0 \/ h.height = 0                    -> "BadDimensions"
    [] \/ h.width > MaxImageWidth
       \/ h.height > MaxImageHeight \/ -h.height > MaxImageHeight -> "ImageTooLarge"
    [] ~ h.dataInFile                                  -> "SeekPixelDataFailed"
    [] OTHER                                           -> "Ok"

-----------------------------------------------------------------------------
(* From luminance to one of four levels.                                   *)

QuantizeSimple(gray) ==
  CASE gray < 45 -> 0 [] gray < 70 -> 1 [] gray < 140 -> 2 [] OTHER -> 3

Clamp(gray) == IF gray < 0 THEN 0 ELSE IF gray > 255 THEN 255 ELSE gray

DitheredLevel(gray) ==
  CASE gray < 30 -> 0 [] gray < 50 -> 1 [] gray < 140 -> 2 [] OTHER -> 3
LevelValue == <<15, 30, 80, 210>>
ErrorOf(gray) == gray - LevelValue[DitheredLevel(gray) + 1]

(* What a ditherer keeps: the errors of this row and the rows below, and   *)
(* of Floyd-Steinberg the number of rows.                                  *)
NoError(width) == [i \in 0 .. width + 3 |-> 0]
FreshDitherer(ditherer, width) ==
  [rows |-> <<NoError(width), NoError(width), NoError(width)>>, rowCount |-> 0]

\* A slip to test against: a rewind leaves the number of rows.
Slip_KeepCount(ditherer, state, width) == [FreshDitherer(ditherer, width) EXCEPT !.rowCount = state.rowCount]

(* reset() of either ditherer.                                             *)
ResetDitherer(ditherer, state, width) == FreshDitherer(ditherer, width)

AddTo(errorRow, cells, error) ==
  [i \in DOMAIN errorRow |-> IF i \in cells THEN errorRow[i] + error ELSE errorRow[i]]

(* AtkinsonDitherer::processPixel(): an eighth of the error to two pixels  *)
(* on the right, three below and one two rows down.  Shifting rounds down, *)
(* below zero too.                                                         *)
SpreadAtkinson(state, error, x) ==
  LET rows == state.rows
      e == error \div 8
  IN  [state EXCEPT !.rows = <<AddTo(rows[1], {x + 3, x + 4}, e),
                               AddTo(rows[2], {x + 1, x + 2, x + 3}, e),
                               AddTo(rows[3], {x + 2}, e)>>]

(* FloydSteinbergDitherer::processPixel(): sixteenths of the error to the  *)
(* next pixel and three below, the other way round in every other row      *)
(* though all rows are read from the left.  Pixel x is at x + 1.           *)
SpreadFloydSteinberg(state, error, x) ==
  LET rows == state.rows
      isReverseRow == state.rowCount % 2 = 1
      ahead == IF isReverseRow THEN x ELSE x + 2
      behind == IF isReverseRow THEN x + 2 ELSE x
      below == AddTo(AddTo(rows[2], {behind}, (error * 3) \div 16), {x + 1}, (error * 5) \div 16)
  IN  [state EXCEPT !.rows = <<AddTo(rows[1], {ahead}, (error * 7) \div 16),
                               AddTo(below, {ahead}, error \div 16), rows[3]>>]

(* The level of pixel x, and where its error goes.                         *)
DitherPixel(ditherer, state, gray, x) ==
  LET adjusted == Clamp(gray + state.rows[1][IF ditherer = "atkinson" THEN x + 2 ELSE x + 1])
  IN  [level |-> DitheredLevel(adjusted),
       state |-> IF ditherer = "atkinson" THEN SpreadAtkinson(state, ErrorOf(adjusted), x)
                                          ELSE SpreadFloydSteinberg(state, ErrorOf(adjusted), x)]

(* nextRow(); Floyd-Steinberg has no third row to come.                    *)
NextErrors(ditherer, state, width) ==
  IF ditherer = "atkinson"
    THEN [state EXCEPT !.rows = <<@[2], @[3], NoError(width)>>]
    ELSE [state EXCEPT !.rows = <<@[2], NoError(width), @[3]>>, !.rowCount = @ + 1]

DitherRow(ditherer, state, lums) ==
  LET width == Len(lums)
      after[x \in 0 .. width] ==
        IF x = 0 THEN [levels |-> <<>>, state |-> state]
        ELSE LET d == DitherPixel(ditherer, after[x - 1].state, lums[x], x - 1)
             IN  [levels |-> Append(after[x - 1].levels, d.level), state |-> d.state]
  IN  [levels |-> after[width].levels, errors |-> NextErrors(ditherer, after[width].state, width)]

(* What readNextRow() does to the pixels of one row: grays of the panel    *)
(* are kept, others dithered, or quantized if the reader does not dither.  *)
ConvertRow(b, row) ==
  LET h == b.file.header
      lums == [i \in DOMAIN row |-> IF h.bpp <= 8 THEN h.palette[row[i] + 1] ELSE row[i]]
  IN  CASE b.ditherer # "none" -> DitherRow(b.ditherer, b.errors, lums)
        [] NativePalette(h)    -> [levels |-> [i \in DOMAIN lums |-> Level(lums[i])],
                                   errors |-> b.errors]
        [] OTHER               -> [levels |-> [i \in DOMAIN lums |-> QuantizeSimple(lums[i])],
                                   errors |-> b.errors]

-----------------------------------------------------------------------------
(* The files that are read: a bitmap of 8 bits with a palette of two       *)
(* colours, one of 32 bits without, or one with a fault in its header.     *)
Abs(i) == IF i < 0 THEN -i ELSE i

Header(w, h) ==
  [type |-> "BM", biSize |-> 40, planes |-> 1, bpp |-> 32, comp |-> 0, colorsUsed |-> 0,
   width |-> w, height |-> h, palette |-> <<>>, dataInFile |-> TRUE]

Grays == {Header(w, h) : w \in BitmapWidths, h \in BitmapHeights}
WithPalette(g, p) == [g EXCEPT !.bpp = 8, !.colorsUsed = 2, !.palette = p]
Paletted == {WithPalette(g, p) : g \in Grays, p \in [1 .. 2 -> Luminances]}
Faulty == {[g EXCEPT !.type = "PNG"] : g \in Grays}
            \cup {[g EXCEPT !.biSize = 12] : g \in Grays}
            \cup {[g EXCEPT !.planes = 2] : g \in Grays}
            \cup {[g EXCEPT !.bpp = 16] : g \in Grays}
            \cup {[g EXCEPT !.comp = 1] : g \in Grays}
            \cup {[g EXCEPT !.colorsUsed = 257] : g \in Grays}
            \cup {[g EXCEPT !.width = 0] : g \in Grays}
            \cup {[g EXCEPT !.height = MaxImageHeight + 1] : g \in Grays}
            \cup {[g EXCEPT !.dataInFile = FALSE] : g \in Grays}

(* The rows of a file that may end early.                                  *)
Rows(h) ==
  LET values == IF h.bpp <= 8 THEN {0, 1} ELSE Luminances
  IN  UNION {[1 .. n -> [1 .. h.width -> values]] : n \in {Abs(h.height), Abs(h.height) - 1}}

NoBitmap == [err |-> "none"]

BitmapInit ==
  /\ bitmap = NoBitmap
  /\ firstPass = <<>> /\ thisPass = <<>> /\ rewinds = 0

(* A Bitmap is made for a file and its headers are parsed.                 *)
OpenBitmap(header, rows, dithering) ==
  /\ bitmap = NoBitmap
  /\ bitmap' = IF HeaderError(header) # "Ok" THEN [err |-> HeaderError(header)]
               ELSE [err |-> "Ok", file |-> [header |-> header, rows |-> rows], row |-> 0,
                     ditherer |-> IF NativePalette(header) THEN "none" ELSE dithering,
                     errors |-> FreshDitherer(dithering, header.width)]
  /\ UNCHANGED <<firstPass, thisPass, rewinds>>

ReadNextRow ==
  /\ bitmap.err = "Ok"
  /\ IF bitmap.row = Len(bitmap.file.rows)
       THEN /\ bitmap' = [bitmap EXCEPT !.err = "ShortReadRow"]
            /\ UNCHANGED <<firstPass, thisPass>>
       ELSE LET done == ConvertRow(bitmap, bitmap.file.rows[bitmap.row + 1])
            IN  /\ bitmap' = [bitmap EXCEPT !.row = @ + 1, !.errors = done.errors]
                /\ thisPass' = Append(thisPass, done.levels)
                /\ firstPass' = IF rewinds = 0 THEN thisPass' ELSE firstPass
  /\ UNCHANGED rewinds

RewindToData ==
  /\ bitmap.err \in {"Ok", "ShortReadRow"} /\ rewinds < MaxRewinds
  /\ bitmap' = [bitmap EXCEPT !.err = "Ok", !.row = 0,
                              !.errors = ResetDitherer(bitmap.ditherer, @, bitmap.file.header.width)]
  /\ thisPass' = <<>> /\ rewinds' = rewinds + 1
  /\ UNCHANGED firstPass

BitmapNext ==
  \/ \E h \in Grays \cup Paletted, d \in {"none"} \cup Ditherers :
       \E rows \in Rows(h) : OpenBitmap(h, rows, d)
  \/ \E h \in Faulty : OpenBitmap(h, <<>>, "none")
  \/ ReadNextRow
  \/ RewindToData

-----------------------------------------------------------------------------
(* A row that is read again after a rewind gives what it gave before, also *)
(* when the rewind came in the middle of the picture (Bitmap.cpp:285-295). *)
RewindRepeats ==
  \A i \in DOMAIN thisPass \cap DOMAIN firstPass : thisPass[i] = firstPass[i]

(* A picture whose colours are all near the grays of the panel comes out   *)
(* with every pixel at the gray nearest to it, whether or not dithering is *)
(* asked for (Bitmap.cpp:148-163, 199-206).                                *)
NativeIsNearest ==
  (bitmap.err = "Ok" /\ NativePalette(bitmap.file.header)) =>
    \A i \in DOMAIN thisPass : \A x \in DOMAIN thisPass[i] :
      LET lum == bitmap.file.header.palette[bitmap.file.rows[i][x] + 1]
      IN  \A l \in 0 .. 3 : Abs(85 * thisPass[i][x] - lum) <= Abs(85 * l - lum)

(* Rows are read right: the same again after a rewind, and the grays the   *)
(* panel has unchanged (Bitmap.cpp:181-295).                               *)
RowsAreReadRight == RewindRepeats /\ NativeIsNearest
=============================================================================
