--------------------------- MODULE Graphics_proofs ---------------------------
(***************************************************************************)
(* Proofs about what reaches the panel and the card, for panels and        *)
(* pictures of any size: downloaded pictures (TrmnlImage), screenshots     *)
(* (Screenshot), bitmaps that are read row by row (Bitmap), lines, rounded *)
(* rectangles, triangles and pictures (Shapes).                            *)
(***************************************************************************)
EXTENDS Graphics, Numbers, SequenceTheorems, TLAPS

Buffers == [Panel -> {White, Black}]

LEMMA BlankIsBuffer == Blank \in Buffers /\ ClearScreen(White) = Blank
  BY DEF Buffers, Blank, ClearScreen, White, Black

-----------------------------------------------------------------------------
(* What is decoded is what was meant.                                      *)

PixelsOf(pic) == (0 .. pic.w - 1) \X (0 .. pic.h - 1)

(* A bottom-up or top-down bitmap whose colours are told apart rightly.    *)
LEMMA BmpIsDrawn ==
  ASSUME NEW pic, pic.w \in Nat \ {0}, pic.h \in Nat \ {0}, pic.topDown \in BOOLEAN, BmpIsSound(pic),
         pic.topDown \/ pic.h <= PanelHeight,
         \A p \in PixelsOf(pic) : IndexBright(pic, pic.pixel[p]) <=> MeantWhite(pic, p)
  PROVE  DecodeBmp(Blank, pic).fb = Meant(pic)
<1> DEFINE rowsToWrite == 0 .. Lesser(pic.h, PanelHeight) - 1
           from(q) == {r \in rowsToWrite : DstRow(pic, r) = q[2]}
           shows(q) == IF q[1] >= pic.w \/ from(q) = {} THEN Blank[q]
                       ELSE IF \A r \in from(q) : IndexBright(pic, FileIndex(pic, q[1], r))
                              THEN White ELSE Black
           means(q) == IF q[1] < pic.w /\ q[2] < pic.h /\ ~ MeantWhite(pic, q) THEN Black ELSE White
<1>1. DecodeBmp(Blank, pic).fb = [q \in Panel |-> shows(q)]
  BY DEF DecodeBmp
<1>2. ASSUME NEW q \in Panel PROVE shows(q) = means(q)
  <2>1. q[1] \in 0 .. PanelWidth - 1 /\ q[2] \in 0 .. PanelHeight - 1 /\ q = <<q[1], q[2]>>
    BY DEF Panel
  <2>2. Blank[q] = White
    BY DEF Blank
  <2>3. CASE q[1] >= pic.w
    BY <2>1, <2>2, <2>3
  <2>4. CASE q[2] >= pic.h
    <3>1. from(q) = {}
      BY <2>1, <2>4, PanelAssumption DEF DstRow, Lesser
    <3>. QED
      BY <2>1, <2>2, <2>4, <3>1
  <2>5. CASE q[1] < pic.w /\ q[2] < pic.h
    <3> DEFINE r0 == IF pic.topDown THEN q[2] ELSE pic.h - 1 - q[2]
    <3>1. from(q) = {r0}
      BY <2>1, <2>5, PanelAssumption DEF DstRow, Lesser
    <3>2. FileIndex(pic, q[1], r0) = pic.pixel[q]
      BY <2>1, <2>5 DEF FileIndex
    <3>3. q \in PixelsOf(pic)
      BY <2>1, <2>5 DEF PixelsOf
    <3>4. IndexBright(pic, pic.pixel[q]) <=> MeantWhite(pic, q)
      BY <3>3
    <3>5. shows(q) = IF IndexBright(pic, FileIndex(pic, q[1], r0)) THEN White ELSE Black
      <4> HIDE DEF from, r0
      <4>. QED
        BY <2>1, <2>5, <3>1
    <3>. QED
      BY <2>5, <3>2, <3>4, <3>5
  <2>. QED
    BY <2>1, <2>3, <2>4, <2>5
<1> HIDE DEF shows, from
<1>. QED
  BY <1>1, <1>2 DEF Meant

(* A PNG that is read to its end.                                          *)
LEMMA PngIsDrawn ==
  ASSUME NEW pic, pic.w \in Nat \ {0}, pic.h \in Nat \ {0}, DecodePng(Blank, pic).ok,
         \A p \in PixelsOf(pic) : PngPixelIsBright(pic, pic.pixel[p]) <=> MeantWhite(pic, p)
  PROVE  DecodePng(Blank, pic).fb = Meant(pic)
<1>1. pic.damaged # 0 /\ pic.damaged > pic.h
  BY DEF DecodePng
<1>2. DecodePng(Blank, pic).fb = DrawScanlines(Blank, pic, pic.h)
  BY <1>1 DEF DecodePng
<1>3. ASSUME NEW q \in Panel
      PROVE  (IF q[2] < pic.h /\ q[1] < pic.w
                THEN IF PngPixelIsBright(pic, pic.pixel[q]) THEN White ELSE Black
                ELSE Blank[q])
             = IF q[1] < pic.w /\ q[2] < pic.h /\ ~ MeantWhite(pic, q) THEN Black ELSE White
  <2>1. q[1] \in 0 .. PanelWidth - 1 /\ q[2] \in 0 .. PanelHeight - 1 /\ q = <<q[1], q[2]>>
    BY DEF Panel
  <2>2. Blank[q] = White
    BY DEF Blank
  <2>3. q[2] < pic.h /\ q[1] < pic.w => q \in PixelsOf(pic)
    BY <2>1 DEF PixelsOf
  <2>. QED
    BY <2>2, <2>3
<1>. QED
  BY <1>2, <1>3 DEF Meant, DrawScanlines

LEMMA PixelsAre ==
  ASSUME NEW w, NEW h, NEW marked, NEW rest
  PROVE  \A p \in (0 .. w - 1) \X (0 .. h - 1) : Pixels(w, h, marked, rest)[p] \in {marked, rest}
  BY DEF Pixels

LEMMA RowsTakeBytes ==
  ASSUME NEW w \in Nat, NEW h \in Nat
  PROVE  BmpRowBytes(w) * h \in Nat
<1>1. BmpRowBytes(w) \in Nat
  BY DEF BmpRowBytes
<1>. QED
  BY <1>1

(* What the lemmas above ask of a picture.                                 *)
BmpIsTold(pic) ==
  /\ pic.format = "bmp" /\ pic.w \in Nat \ {0} /\ pic.h \in Nat \ {0} /\ pic.topDown \in BOOLEAN
  /\ \A p \in PixelsOf(pic) : IndexBright(pic, pic.pixel[p]) <=> MeantWhite(pic, p)

PngIsTold(pic) ==
  /\ pic.format = "png" /\ pic.w \in Nat \ {0} /\ pic.h \in Nat \ {0}
  /\ \A p \in PixelsOf(pic) : PngPixelIsBright(pic, pic.pixel[p]) <=> MeantWhite(pic, p)

(* Of black and white the table tells what is assumed without one.         *)
LEMMA PlainIsTold ==
  ASSUME NEW pic, pic.format = "bmp", pic.w \in Nat \ {0}, pic.h \in Nat \ {0}, pic.topDown \in BOOLEAN,
         pic.pixel = Pixels(pic.w, pic.h, 0, 1), pic.colors = <<<<0, 0, 0>>, <<255, 255, 255>>>>
  PROVE  BmpIsTold(pic)
<1>1. ASSUME NEW p \in PixelsOf(pic) PROVE IndexBright(pic, pic.pixel[p]) <=> MeantWhite(pic, p)
  <2>1. pic.pixel[p] \in {0, 1}
    BY PixelsAre DEF PixelsOf
  <2>2. pic.colors[1] = <<0, 0, 0>> /\ pic.colors[2] = <<255, 255, 255>>
    OBVIOUS
  <2>. QED
    BY <2>1, <2>2 DEF IndexBright, MeantWhite, Rgb
<1>. QED
  BY <1>1 DEF BmpIsTold

(* The bitmaps a server may send and the decoder accepts: the table tells  *)
(* the colours of both indices, and without one 1 is the bright one.       *)
LEMMA BmpsAreTold ==
  ASSUME NEW pic \in Bmps
  PROVE  pic.format = "bmp" /\ (BmpIsSound(pic) => BmpIsTold(pic))
<1>1. /\ PanelBmp.format = "bmp" /\ PanelBmp.w = PanelWidth /\ PanelBmp.h = PanelHeight
      /\ PanelBmp.topDown = FALSE /\ PanelBmp.pixel = Pixels(PanelWidth, PanelHeight, 0, 1)
      /\ PanelBmp.colors = <<<<0, 0, 0>>, <<255, 255, 255>>>>
      /\ PanelBmp.dibSize = 40 /\ PanelBmp.length = 62 + BmpRowBytes(PanelWidth) * PanelHeight
  BY DEF PanelBmp, Bmp
<1>2. DOMAIN PanelBmp = {"format", "w", "h", "topDown", "dibSize", "bpp", "compression", "pixelOffset",
                         "length", "colors", "pixel"}
  BY DEF PanelBmp, Bmp
<1>3. CASE pic \in {Bmp(w, h, t) : w, h \in Sizes, t \in BOOLEAN}
  <2>1. /\ pic.format = "bmp" /\ pic.w \in Nat \ {0} /\ pic.h \in Nat \ {0} /\ pic.topDown \in BOOLEAN
        /\ pic.pixel = Pixels(pic.w, pic.h, 0, 1) /\ pic.colors = <<<<0, 0, 0>>, <<255, 255, 255>>>>
    BY <1>3, ImageAssumption DEF Bmp
  <2>. QED
    BY <2>1, PlainIsTold
<1>4. CASE pic = [PanelBmp EXCEPT !.colors = <<<<200, 180, 100>>, <<10, 20, 30>>>>]
  <2>1. /\ pic.format = "bmp" /\ pic.w = PanelWidth /\ pic.h = PanelHeight /\ pic.topDown = FALSE
        /\ pic.pixel = Pixels(PanelWidth, PanelHeight, 0, 1)
        /\ pic.colors = <<<<200, 180, 100>>, <<10, 20, 30>>>>
        /\ pic.dibSize = 40 /\ pic.length = 62 + BmpRowBytes(PanelWidth) * PanelHeight
    BY <1>1, <1>2, <1>4
  <2>2. 14 + pic.dibSize + 8 <= pic.length
    <3>1. BmpRowBytes(PanelWidth) * PanelHeight \in Nat
      BY RowsTakeBytes, PanelAssumption
    <3>. QED
      BY <2>1, <3>1
  <2>3. ASSUME NEW p \in PixelsOf(pic) PROVE IndexBright(pic, pic.pixel[p]) <=> MeantWhite(pic, p)
    <3>1. pic.pixel[p] \in {0, 1}
      BY <2>1, PixelsAre DEF PixelsOf
    <3>2. pic.colors[1] = <<200, 180, 100>> /\ pic.colors[2] = <<10, 20, 30>>
      BY <2>1
    <3>. QED
      BY <2>1, <2>2, <3>1, <3>2 DEF IndexBright, MeantWhite, Rgb
  <2>. QED
    BY <2>1, <2>3, PanelAssumption DEF BmpIsTold
<1>5. CASE pic = [PanelBmp EXCEPT !.dibSize = 124, !.pixelOffset = 146, !.length = @ + 84]
  <2>1. /\ pic.format = "bmp" /\ pic.w = PanelWidth /\ pic.h = PanelHeight /\ pic.topDown = FALSE
        /\ pic.pixel = Pixels(PanelWidth, PanelHeight, 0, 1)
        /\ pic.colors = <<<<0, 0, 0>>, <<255, 255, 255>>>>
    BY <1>1, <1>2, <1>5
  <2>. QED
    BY <2>1, PlainIsTold, PanelAssumption
<1>6. CASE \/ pic = [PanelBmp EXCEPT !.dibSize = PanelBmp.length]
           \/ pic = [PanelBmp EXCEPT !.dibSize = 12]
           \/ pic = [PanelBmp EXCEPT !.length = @ - 1]
           \/ pic = [PanelBmp EXCEPT !.length = 61]
           \/ pic = [PanelBmp EXCEPT !.pixelOffset = @ + 1]
  <2>1. /\ pic.format = "bmp" /\ pic.w = PanelWidth /\ pic.h = PanelHeight /\ pic.topDown = FALSE
        /\ pic.pixel = Pixels(PanelWidth, PanelHeight, 0, 1)
        /\ pic.colors = <<<<0, 0, 0>>, <<255, 255, 255>>>>
    BY <1>1, <1>2, <1>6
  <2>. QED
    BY <2>1, PlainIsTold, PanelAssumption
<1>7. CASE \/ pic = [PanelBmp EXCEPT !.bpp = 8] \/ pic = [PanelBmp EXCEPT !.compression = 1]
           \/ pic = [PanelBmp EXCEPT !.h = 0]
  <2>1. pic.format = "bmp" /\ (pic.bpp # 1 \/ pic.compression # 0 \/ ~ pic.h > 0)
    BY <1>1, <1>2, <1>7
  <2>. QED
    BY <2>1 DEF BmpIsSound
<1>. QED
  BY <1>3, <1>4, <1>5, <1>6, <1>7 DEF Bmps

(* The PNGs a server may send: every kind of pixel is told light from dark *)
(* as it was meant.                                                        *)
LEMMA PngsAreTold ==
  ASSUME NEW pic \in Pngs
  PROVE  PngIsTold(pic)
<1>1. CASE \E bpp \in {1, 2, 4, 8} :
             pic = Png("gray", bpp, Gray(BrightGray(bpp) - 1), Gray(BrightGray(bpp)),
                       PanelWidth, PanelHeight, PanelHeight + 1)
  <2>1. PICK bpp \in {1, 2, 4, 8} :
             pic = Png("gray", bpp, Gray(BrightGray(bpp) - 1), Gray(BrightGray(bpp)),
                       PanelWidth, PanelHeight, PanelHeight + 1)
    BY <1>1
  <2>2. /\ pic.format = "png" /\ pic.w = PanelWidth /\ pic.h = PanelHeight /\ pic.type = "gray" /\ pic.bpp = bpp
        /\ pic.pixel = Pixels(pic.w, pic.h, Gray(BrightGray(bpp) - 1), Gray(BrightGray(bpp)))
    BY <2>1 DEF Png
  <2>3. ASSUME NEW p \in PixelsOf(pic) PROVE PngPixelIsBright(pic, pic.pixel[p]) <=> MeantWhite(pic, p)
    <3>1. pic.pixel[p] \in {Gray(BrightGray(bpp) - 1), Gray(BrightGray(bpp))}
      BY <2>2, PixelsAre DEF PixelsOf
    <3>2. pic.pixel[p][1] \in {BrightGray(bpp) - 1, BrightGray(bpp)}
      BY <3>1 DEF Gray
    <3>3. PngPixelIsBright(pic, pic.pixel[p]) <=> pic.pixel[p][1] >= BrightGray(bpp)
      BY <2>2 DEF PngPixelIsBright
    <3>4. MeantWhite(pic, p) <=> 2 * pic.pixel[p][1] > MaxGray(bpp)
      BY <2>2 DEF MeantWhite
    <3>. QED
      <4>1. \/ BrightGray(bpp) = 1 /\ MaxGray(bpp) = 1
            \/ BrightGray(bpp) = 2 /\ MaxGray(bpp) = 3
            \/ BrightGray(bpp) = 8 /\ MaxGray(bpp) = 15
            \/ BrightGray(bpp) = 128 /\ MaxGray(bpp) = 255
        <5>1. CASE bpp = 1
          BY <5>1 DEF BrightGray, MaxGray
        <5>2. CASE bpp = 2
          BY <5>2 DEF BrightGray, MaxGray
        <5>3. CASE bpp = 4
          BY <5>3 DEF BrightGray, MaxGray
        <5>4. CASE bpp = 8
          BY <5>4 DEF BrightGray, MaxGray
        <5>. QED
          BY <5>1, <5>2, <5>3, <5>4
      <4>. QED
        BY <3>2, <3>3, <3>4, <4>1
  <2>. QED
    BY <2>2, <2>3, PanelAssumption DEF PngIsTold
<1>2. ASSUME NEW t \in {"indexed", "rgba", "rgb"}, NEW w \in Nat \ {0}, NEW h \in Nat \ {0}, NEW d,
             pic = Png(t, 8, <<127, 127, 129>>, <<128, 127, 129>>, w, h, d)
      PROVE  PngIsTold(pic)
  <2>1. /\ pic.format = "png" /\ pic.w = w /\ pic.h = h /\ pic.type = t /\ pic.bpp = 8
        /\ (t = "indexed" => pic.palette)
        /\ pic.pixel = Pixels(w, h, <<127, 127, 129>>, <<128, 127, 129>>)
    BY <1>2 DEF Png
  <2>2. ASSUME NEW p \in PixelsOf(pic) PROVE PngPixelIsBright(pic, pic.pixel[p]) <=> MeantWhite(pic, p)
    <3>1. PngPixelIsBright(pic, pic.pixel[p]) <=> Rgb(pic.pixel[p])
      BY <2>1 DEF PngPixelIsBright
    <3>2. MeantWhite(pic, p) <=> Rgb(pic.pixel[p])
      BY <2>1 DEF MeantWhite, Rgb
    <3>. QED
      BY <3>1, <3>2
  <2>. QED
    BY <2>1, <2>2 DEF PngIsTold
<1>3. CASE \E d \in {0, 1, PanelHeight, PanelHeight + 1} :
             pic = Png("gray_alpha", 8, Gray(127), Gray(128), PanelWidth, PanelHeight, d)
  <2>1. /\ pic.format = "png" /\ pic.w = PanelWidth /\ pic.h = PanelHeight /\ pic.type = "gray_alpha"
        /\ pic.pixel = Pixels(pic.w, pic.h, Gray(127), Gray(128))
    BY <1>3 DEF Png
  <2>2. ASSUME NEW p \in PixelsOf(pic) PROVE PngPixelIsBright(pic, pic.pixel[p]) <=> MeantWhite(pic, p)
    <3>1. pic.pixel[p] \in {Gray(127), Gray(128)}
      BY <2>1, PixelsAre DEF PixelsOf
    <3>2. PngPixelIsBright(pic, pic.pixel[p]) <=> pic.pixel[p][1] >= 128
      BY <2>1 DEF PngPixelIsBright
    <3>3. MeantWhite(pic, p) <=> pic.pixel[p][1] + pic.pixel[p][2] + pic.pixel[p][3] >= 384
      BY <2>1 DEF MeantWhite
    <3>. QED
      BY <3>1, <3>2, <3>3 DEF Gray
  <2>. QED
    BY <2>1, <2>2, PanelAssumption DEF PngIsTold
<1>4. CASE pic = [Png("indexed", 1, Gray(0), Gray(1), PanelWidth, PanelHeight, PanelHeight + 1)
                    EXCEPT !.palette = FALSE]
  <2>1. /\ pic.format = "png" /\ pic.w = PanelWidth /\ pic.h = PanelHeight /\ pic.type = "indexed"
        /\ pic.bpp = 1 /\ pic.palette = FALSE
        /\ pic.pixel = Pixels(pic.w, pic.h, Gray(0), Gray(1))
    BY <1>4 DEF Png
  <2>2. ASSUME NEW p \in PixelsOf(pic) PROVE PngPixelIsBright(pic, pic.pixel[p]) <=> MeantWhite(pic, p)
    <3>1. pic.pixel[p] \in {Gray(0), Gray(1)}
      BY <2>1, PixelsAre DEF PixelsOf
    <3>2. PngPixelIsBright(pic, pic.pixel[p]) <=> pic.pixel[p][1] > 0
      BY <2>1 DEF PngPixelIsBright
    <3>3. MeantWhite(pic, p) <=> 2 * pic.pixel[p][1] > 1
      BY <2>1 DEF MeantWhite, MaxGray
    <3>. QED
      BY <3>1, <3>2, <3>3 DEF Gray
  <2>. QED
    BY <2>1, <2>2, PanelAssumption DEF PngIsTold
<1>5. CASE \E t \in {"indexed", "rgba"} :
             pic = Png(t, 8, <<127, 127, 129>>, <<128, 127, 129>>, PanelWidth, PanelWidth, PanelWidth + 1)
  BY <1>2, <1>5, PanelAssumption
<1>6. CASE \E w, h \in Sizes : pic = Png("rgb", 8, <<127, 127, 129>>, <<128, 127, 129>>, w, h, h + 1)
  BY <1>2, <1>6, ImageAssumption
<1>. QED
  BY <1>1, <1>3, <1>4, <1>5, <1>6 DEF Pngs

(* Of whatever a server may send, what is decoded to its end is what was   *)
(* meant, but for a bottom-up bitmap that is higher than the panel.        *)
LEMMA SentIsDrawn ==
  ASSUME NEW pic \in Sent, Decode(Blank, pic).ok, DrawnFromItsTop(pic)
  PROVE  Decode(Blank, pic).fb = Meant(pic)
<1>1. CASE pic \in Bmps
  <2>1. pic.format = "bmp"
    BY <1>1, BmpsAreTold
  <2>2. Decode(Blank, pic) = DecodeBmp(Blank, pic)
    BY <2>1 DEF Decode
  <2>3. BmpIsSound(pic)
    BY <2>2 DEF DecodeBmp
  <2>4. pic.topDown \/ pic.h <= PanelHeight
    BY <2>1 DEF DrawnFromItsTop
  <2>. QED
    BY <1>1, <2>2, <2>3, <2>4, BmpsAreTold, BmpIsDrawn DEF BmpIsTold
<1>2. CASE pic \in Pngs
  <2>1. Decode(Blank, pic) = DecodePng(Blank, pic)
    BY <1>2, PngsAreTold DEF Decode, PngIsTold
  <2>. QED
    BY <1>2, <2>1, PngsAreTold, PngIsDrawn DEF PngIsTold
<1>3. CASE pic = [format |-> "gif"]
  BY <1>3 DEF Decode
<1>. QED
  BY <1>1, <1>2, <1>3 DEF Sent

LEMMA DecodeFillsBuffer ==
  ASSUME NEW pic \in Sent
  PROVE  Decode(Blank, pic).fb \in Buffers
<1>1. DecodeBmp(Blank, pic).fb \in Buffers
  BY BlankIsBuffer DEF DecodeBmp, Buffers
<1>2. DecodePng(Blank, pic).fb \in Buffers
  BY BlankIsBuffer DEF DecodePng, DrawScanlines, Buffers
<1>. QED
  BY <1>1, <1>2, BlankIsBuffer DEF Decode

-----------------------------------------------------------------------------
(* The copy of the frame buffer.                                           *)

Copies(buffer) == [i \in 0 .. ChunkCount - 1 |-> [q \in ChunkPixels(i) |-> buffer[q]]]
CopyBack(copies) == [q \in Panel |-> copies[ByteIndex(q) \div ChunkSize][q]]

LEMMA BytesOfPanel ==
  /\ PanelWidthBytes \in Nat \ {0} /\ PanelWidth = 8 * PanelWidthBytes
  /\ BufferSize \in Nat \ {0}
  /\ \A q \in Panel : ByteIndex(q) \in 0 .. BufferSize - 1
  /\ \A b \in 0 .. BufferSize - 1 : \E q \in Panel : ByteIndex(q) = b
<1>1. PanelWidthBytes \in Nat \ {0} /\ PanelWidth = 8 * PanelWidthBytes
  BY PanelAssumption DEF PanelWidthBytes
<1>2. BufferSize \in Nat \ {0}
  BY <1>1, PanelAssumption DEF BufferSize
<1>3. ASSUME NEW q \in Panel PROVE ByteIndex(q) \in 0 .. BufferSize - 1
  <2>1. q[1] \in 0 .. PanelWidth - 1 /\ q[2] \in 0 .. PanelHeight - 1
    BY DEF Panel
  <2>2. q[1] \div 8 \in 0 .. PanelWidthBytes - 1
    BY <1>1, <2>1
  <2>3. q[2] * PanelWidthBytes \in 0 .. (PanelHeight - 1) * PanelWidthBytes
    BY <1>1, <2>1, PanelAssumption
  <2>4. (PanelHeight - 1) * PanelWidthBytes + PanelWidthBytes = BufferSize
    BY <1>1, PanelAssumption DEF BufferSize
  <2>. QED
    BY <1>1, <2>2, <2>3, <2>4, PanelAssumption DEF ByteIndex
<1>4. ASSUME NEW b \in 0 .. BufferSize - 1 PROVE \E q \in Panel : ByteIndex(q) = b
  <2> DEFINE y == b \div PanelWidthBytes
             x == b % PanelWidthBytes
  <2>1. b = PanelWidthBytes * y + x /\ x \in 0 .. PanelWidthBytes - 1 /\ y \in Int
    BY <1>1, <1>2, DivMod
  <2> HIDE DEF x, y
  <2>2. y \in 0 .. PanelHeight - 1
    <3>1. CASE y < 0
      <4>1. PanelWidthBytes * y <= - PanelWidthBytes
        BY <1>1, <2>1, <3>1
      <4>. QED
        BY <1>1, <2>1, <4>1
    <3>2. CASE y >= PanelHeight
      <4>1. PanelWidthBytes * y >= PanelWidthBytes * PanelHeight
        BY <1>1, <2>1, <3>2, PanelAssumption
      <4>2. PanelWidthBytes * PanelHeight = BufferSize
        BY DEF BufferSize
      <4>. QED
        BY <1>1, <1>2, <2>1, <4>1, <4>2
    <3>. QED
      BY <2>1, <3>1, <3>2, PanelAssumption
  <2>3. 8 * x \in 0 .. PanelWidth - 1 /\ (8 * x) \div 8 = x
    BY <1>1, <2>1
  <2>4. <<8 * x, y>> \in Panel
    BY <2>2, <2>3 DEF Panel
  <2>5. ByteIndex(<<8 * x, y>>) = b
    BY <1>1, <2>1, <2>2, <2>3 DEF ByteIndex
  <2>. QED
    BY <2>4, <2>5
<1>. QED
  BY <1>1, <1>2, <1>3, <1>4

(* Every chunk holds some pixel, every pixel is in the chunk of its byte.  *)
LEMMA ChunksCover ==
  /\ \A q \in Panel : ByteIndex(q) \div ChunkSize \in 0 .. ChunkCount - 1
  /\ \A i \in 0 .. ChunkCount - 1 : ChunkPixels(i) # {}
<1>1. BufferSize \in Nat \ {0} /\ ChunkSize \in Nat \ {0}
  BY BytesOfPanel, ScreenshotAssumption
<1>2. ChunkCount - 1 = (BufferSize - 1) \div ChunkSize /\ ChunkCount \in Int
  <2>1. BufferSize - 1 = ChunkSize * ((BufferSize - 1) \div ChunkSize) + ((BufferSize - 1) % ChunkSize)
        /\ (BufferSize - 1) % ChunkSize \in 0 .. ChunkSize - 1 /\ (BufferSize - 1) \div ChunkSize \in Int
    BY <1>1, DivMod
  <2> DEFINE d == (BufferSize - 1) \div ChunkSize
             r == (BufferSize - 1) % ChunkSize
  <2> HIDE DEF d, r
  <2>2. BufferSize + ChunkSize - 1 = ChunkSize * (d + 1) + r /\ d + 1 \in Int /\ r \in 0 .. ChunkSize - 1
    BY <1>1, <2>1 DEF d, r
  <2>3. (BufferSize + ChunkSize - 1) \div ChunkSize = d + 1
    BY <1>1, <2>2, DivModOf
  <2>4. ChunkCount = d + 1 /\ d \in Int
    BY <2>1, <2>3 DEF ChunkCount, d
  <2>5. ChunkCount - 1 = d /\ ChunkCount \in Int
    BY <2>4
  <2>. QED
    BY <2>5 DEF d
<1>3. ASSUME NEW q \in Panel PROVE ByteIndex(q) \div ChunkSize \in 0 .. ChunkCount - 1
  <2>1. ByteIndex(q) \in 0 .. BufferSize - 1
    BY BytesOfPanel
  <2>2. ByteIndex(q) \div ChunkSize \in 0 .. (BufferSize - 1) \div ChunkSize
    BY <1>1, <2>1
  <2>. QED
    BY <1>2, <2>2
<1>4. ASSUME NEW i \in 0 .. ChunkCount - 1 PROVE ChunkPixels(i) # {}
  <2>1. ChunkSize * i \in 0 .. BufferSize - 1 /\ (ChunkSize * i) \div ChunkSize = i
    <3>1. BufferSize - 1 = ChunkSize * ((BufferSize - 1) \div ChunkSize) + ((BufferSize - 1) % ChunkSize)
          /\ (BufferSize - 1) % ChunkSize \in 0 .. ChunkSize - 1
      BY <1>1, DivMod
    <3>2. i \in Int /\ 0 <= i /\ i <= (BufferSize - 1) \div ChunkSize
      BY <1>2
    <3>3. ChunkSize * i <= ChunkSize * ((BufferSize - 1) \div ChunkSize) /\ ChunkSize * i >= 0
      BY <1>1, <3>2
    <3>4. (ChunkSize * i + 0) \div ChunkSize = i
      <4>1. 0 \in 0 .. ChunkSize - 1
        BY <1>1
      <4>. QED
        BY <1>1, <3>2, <4>1, DivModOf
    <3>. QED
      BY <1>1, <3>1, <3>2, <3>3, <3>4
  <2>2. PICK q \in Panel : ByteIndex(q) = ChunkSize * i
    BY <2>1, BytesOfPanel
  <2>. QED
    BY <2>1, <2>2 DEF ChunkPixels
<1>. QED
  BY <1>3, <1>4

(* The copy is complete, and copied back it is the frame buffer.           *)
LEMMA CopiedBackIsTheSame ==
  ASSUME NEW buffer \in Buffers
  PROVE  /\ \A i \in 0 .. ChunkCount - 1 : Copies(buffer)[i] # Null
         /\ CopyBack(Copies(buffer)) = buffer
<1>1. ASSUME NEW i \in 0 .. ChunkCount - 1 PROVE Copies(buffer)[i] # Null
  <2>1. DOMAIN Copies(buffer)[i] = ChunkPixels(i)
    BY DEF Copies
  <2>2. DOMAIN Null = {}
    BY DEF Null
  <2>. QED
    BY <2>1, <2>2, ChunksCover
<1>2. ASSUME NEW q \in Panel PROVE Copies(buffer)[ByteIndex(q) \div ChunkSize][q] = buffer[q]
  BY ChunksCover DEF Copies, ChunkPixels
<1>. QED
  BY <1>1, <1>2 DEF CopyBack, Buffers

-----------------------------------------------------------------------------
(* The display and the screenshot.                                         *)

Shots ==
  [pc : {"writing", "border", "shown", "done"}, before : Buffers, panel : Buffers, told : BOOLEAN, lapse : BOOLEAN]

(* The frame buffer is what the screenshot began with, but while the       *)
(* border is shown: then it is in the copy.                                *)
ShotInv ==
  /\ fb \in Buffers /\ panel \in Buffers
  /\ shot = [pc |-> "idle"] \/ shot \in Shots
  /\ shot.pc \in {"writing", "border"} => panel = shot.panel
  /\ shot.pc \in {"writing", "border", "done"} => fb = shot.before
  /\ shot.pc = "done" => panel \in {fb, shot.panel}
  /\ chunks = IF shot.pc = "shown" THEN Copies(shot.before) ELSE NoChunks

(* The file holds the first rows of the picture while it is written, all   *)
(* of them when it is said to be saved and there was no lapse, and too few *)
(* when it is left over from an error.                                     *)
Written(n) ==
  [header |-> CreateBmpHeader(PanelHeight, PanelWidth, FALSE),
   rows |-> [i \in 1 .. n |-> OutRow(shot.before, i - 1)]]

FileInv ==
  /\ shot.pc = "writing" =>
       RowBytes(PanelHeight, 1) <= MaxRowSize /\ \E n \in 0 .. PanelWidth : shotFile = Written(n)
  /\ shot.pc \in {"border", "shown", "done"} =>
       /\ shot.told /\ ~ shot.lapse =>
            RowBytes(PanelHeight, 1) <= MaxRowSize /\ shotFile = Written(PanelWidth)
       /\ ~ shot.told => shotFile = NoScreenshot \/ (shot.lapse /\ Len(shotFile.rows) < PanelWidth)

(* The panel shows the picture, or the copy of the frame buffer holds it.  *)
PictureInv ==
  /\ image.pc \in {"idle", "receiving", "failed", "shown"}
  /\ shot.pc # "idle" => image.pc \in {"shown", "failed"}
  /\ (image.pc = "shown" /\ DrawnFromItsTop(image.picture)) =>
       IF shot.pc = "shown" THEN shot.before = Meant(image.picture)
                            ELSE panel = Meant(image.picture) /\ fb = Meant(image.picture)

LEMMA NoRows == Written(0).rows = <<>> /\ \A n \in Nat : Len(Written(n).rows) = n
<1>1. Written(0).rows = <<>>
  BY DEF Written
<1>2. ASSUME NEW n \in Nat PROVE Len(Written(n).rows) = n
  BY DEF Written
<1>. QED
  BY <1>1, <1>2

LEMMA OneMoreRow ==
  ASSUME NEW n \in Nat
  PROVE  Append(Written(n).rows, OutRow(shot.before, n)) = Written(n + 1).rows
<1> DEFINE row(i) == OutRow(shot.before, i - 1)
<1> HIDE DEF row
<1>1. Append([i \in 1 .. n |-> row(i)], row(n + 1)) = [i \in 1 .. n + 1 |-> row(i)]
  OBVIOUS
<1>2. OutRow(shot.before, n) = row(n + 1)
  BY DEF row
<1>. QED
  BY <1>1, <1>2 DEF Written, row

LEMMA DrawFillsBuffer ==
  ASSUME NEW buffer \in Buffers, NEW o, NEW shape
  PROVE  DrawPixels(buffer, o, shape, Black) \in Buffers
  BY DEF DrawPixels, Buffers

(* What remains of a file has no more rows than it had.                    *)
LEMMA RemainsIsNoLonger ==
  ASSUME NEW file, NEW n \in Nat, Len(file.rows) = n, NEW rest \in Remains(file)
  PROVE  Len(rest.rows) \in 0 .. n
<1>1. CASE rest = Headless
  BY <1>1 DEF Headless
<1>2. ASSUME NEW k \in 0 .. n, rest = [header |-> file.header, rows |-> [i \in 1 .. k |-> file.rows[i]]]
      PROVE  Len(rest.rows) \in 0 .. n
  <2>1. rest.rows = [i \in 1 .. k |-> file.rows[i]]
    BY <1>2
  <2>. QED
    BY <2>1
<1>. QED
  BY <1>1, <1>2 DEF Remains

(* Saving comes to an end: nothing but the file has changed.               *)
LEMMA ReturnKeeps ==
  ASSUME ShotInv, PictureInv, UNCHANGED <<chunks, fb, panel, image>>, image.pc \in {"shown", "failed"},
         NEW s \in Shots, s.before = fb, s.panel = panel, shot.pc \in {"idle", "writing"},
         NEW told \in BOOLEAN, NEW lapse \in BOOLEAN, SaveReturns(s, told, lapse)
  PROVE  /\ ShotInv' /\ PictureInv'
         /\ shot'.pc = "border" /\ shot'.told = told /\ shot'.lapse = lapse /\ shot'.before = s.before
<1>1. shot' = [pc |-> "border", before |-> s.before, panel |-> s.panel, told |-> told, lapse |-> lapse]
  BY DEF SaveReturns
<1>2. s.before \in Buffers /\ s.panel \in Buffers
  BY DEF Shots
<1>3. shot' \in Shots
  BY <1>1, <1>2 DEF Shots
<1>4. /\ shot'.pc = "border" /\ shot'.told = told /\ shot'.lapse = lapse /\ shot'.before = s.before
      /\ shot'.panel = s.panel
  BY <1>1
<1>. QED
  BY <1>3, <1>4 DEF ShotInv, PictureInv, DrawnFromItsTop

(* A file that is given up is gone or short of rows.                       *)
LEMMA FailKeeps ==
  ASSUME ShotInv, PictureInv, UNCHANGED <<chunks, fb, panel, image>>, image.pc \in {"shown", "failed"},
         NEW s \in Shots, s.before = fb, s.panel = panel, shot.pc \in {"idle", "writing"},
         NEW file, NEW n \in Nat, n < PanelWidth, Len(file.rows) = n, SaveFails(s, file)
  PROVE  ShotInv' /\ FileInv' /\ PictureInv'
<1>1. CASE SaveReturns(s, FALSE, FALSE) /\ shotFile' = NoScreenshot
  <2>1. /\ ShotInv' /\ PictureInv' /\ shot'.pc = "border" /\ shot'.told = FALSE
    BY <1>1, ReturnKeeps, Zenon
  <2>. QED
    BY <1>1, <2>1 DEF FileInv
<1>2. CASE SaveReturns(s, FALSE, TRUE) /\ shotFile' \in Remains(file)
  <2>1. /\ ShotInv' /\ PictureInv' /\ shot'.pc = "border" /\ shot'.told = FALSE /\ shot'.lapse = TRUE
    BY <1>2, ReturnKeeps, Zenon
  <2>2. Len(shotFile'.rows) \in 0 .. n
    BY <1>2, RemainsIsNoLonger
  <2>3. Len(shotFile'.rows) < PanelWidth
    BY <2>2, PanelAssumption
  <2>. QED
    BY <2>1, <2>3 DEF FileInv
<1>. QED
  BY <1>1, <1>2 DEF SaveFails

LEMMA BeginKeeps ==
  ASSUME ShotInv, FileInv, PictureInv, BeginScreenshot, UNCHANGED imageVars, image.pc \in {"shown", "failed"}
  PROVE  ShotInv' /\ FileInv' /\ PictureInv'
<1> DEFINE start == [pc |-> "writing", before |-> fb, panel |-> panel, told |-> FALSE, lapse |-> FALSE]
<1>1. shot.pc = "idle" /\ UNCHANGED <<chunks, fb, panel, image>>
  BY DEF BeginScreenshot, displayVars, imageVars
<1>2. start \in Shots /\ start.before = fb /\ start.panel = panel /\ start.pc = "writing"
  <2>1. fb \in Buffers /\ panel \in Buffers /\ FALSE \in BOOLEAN
    BY DEF ShotInv
  <2>. QED
    BY <2>1 DEF Shots
<1>3. Len(Headless.rows) = 0 /\ Len(HeaderOnly.rows) = 0 /\ 0 \in Nat /\ 0 < PanelWidth
  BY PanelAssumption DEF Headless, HeaderOnly
<1>4. CASE SaveReturns(start, FALSE, FALSE) /\ shotFile' = NoScreenshot
  BY <1>1, <1>2, <1>3, <1>4, FailKeeps DEF SaveFails
<1>5. CASE SaveFails(start, Headless)
  BY <1>1, <1>2, <1>3, <1>5, FailKeeps
<1>6. CASE SaveFails(start, HeaderOnly)
  BY <1>1, <1>2, <1>3, <1>6, FailKeeps
<1>7. CASE ~ RowBytes(PanelHeight, 1) > MaxRowSize /\ shot' = start /\ shotFile' = HeaderOnly
  <2>1. ShotInv' /\ PictureInv'
    BY <1>1, <1>2, <1>7 DEF ShotInv, PictureInv, DrawnFromItsTop
  <2>2. (shotFile = Written(0))'
    BY <1>7 DEF Written, HeaderOnly
  <2>3. 0 \in 0 .. PanelWidth
    BY PanelAssumption
  <2>4. RowBytes(PanelHeight, 1) <= MaxRowSize
    BY <1>7, PanelAssumption, ScreenshotAssumption DEF RowBytes
  <2>5. shot'.pc = "writing"
    BY <1>2, <1>7
  <2>. QED
    BY <2>1, <2>2, <2>3, <2>4, <2>5 DEF FileInv
<1>. QED
  BY <1>4, <1>5, <1>6, <1>7 DEF BeginScreenshot

LEMMA WriteKeeps ==
  ASSUME ShotInv, FileInv, PictureInv, WriteRow, UNCHANGED imageVars
  PROVE  ShotInv' /\ FileInv' /\ PictureInv'
<1>1. shot.pc = "writing" /\ UNCHANGED <<chunks, fb, panel, image>>
  BY DEF WriteRow, displayVars, imageVars
<1>2. PICK n \in 0 .. PanelWidth : shotFile = Written(n)
  BY <1>1 DEF FileInv
<1>3. Len(shotFile.rows) = n /\ n \in Nat /\ RowBytes(PanelHeight, 1) <= MaxRowSize
  BY <1>1, <1>2, NoRows DEF FileInv
<1>4. shot \in Shots /\ shot.before = fb /\ shot.panel = panel /\ image.pc \in {"shown", "failed"}
  BY <1>1 DEF ShotInv, PictureInv
<1>5. CASE RowFails
  <2>1. SaveFails(shot, shotFile) /\ n < PanelWidth
    BY <1>3, <1>5 DEF RowFails
  <2>. QED
    BY <1>1, <1>3, <1>4, <2>1, FailKeeps
<1>6. CASE WriteNext
  <2>1. \A m : Written(m)' = Written(m)
    BY <1>6 DEF WriteNext, Written
  <2>2. shotFile' = [header |-> CreateBmpHeader(PanelHeight, PanelWidth, FALSE),
                     rows |-> Append(Written(n).rows, OutRow(shot.before, n))]
    BY <1>2, <1>3, <1>4, <1>6 DEF WriteNext, Written
  <2>3. Append(Written(n).rows, OutRow(shot.before, n)) = Written(n + 1).rows
    BY <1>3, OneMoreRow
  <2>4. shotFile' = Written(n + 1)
    BY <2>2, <2>3 DEF Written
  <2>5. n + 1 \in 0 .. PanelWidth
    BY <1>3, <1>6, PanelAssumption DEF WriteNext
  <2>6. ShotInv' /\ PictureInv' /\ shot' = shot
    BY <1>1, <1>6 DEF WriteNext, ShotInv, PictureInv, DrawnFromItsTop
  <2>. QED
    BY <1>1, <1>3, <2>1, <2>4, <2>5, <2>6 DEF FileInv
<1>7. CASE AllWritten
  <2>1. shotFile = Written(PanelWidth)
    BY <1>2, <1>3, <1>7 DEF AllWritten
  <2>2. CASE SaveReturns(shot, TRUE, FALSE) /\ UNCHANGED shotFile
    <3>1. ShotInv' /\ PictureInv' /\ shot'.pc = "border" /\ shot'.told = TRUE /\ shot'.before = shot.before
      BY <1>1, <1>4, <2>2, ReturnKeeps, Zenon
    <3>2. Written(PanelWidth)' = Written(PanelWidth)
      BY <3>1 DEF Written
    <3>. QED
      BY <1>3, <2>1, <2>2, <3>1, <3>2 DEF FileInv
  <2>3. CASE SaveReturns(shot, TRUE, TRUE)
    <3>1. ShotInv' /\ PictureInv' /\ shot'.pc = "border" /\ shot'.told = TRUE /\ shot'.lapse = TRUE
      BY <1>1, <1>4, <2>3, ReturnKeeps, Zenon
    <3>. QED
      BY <3>1 DEF FileInv
  <2>. QED
    BY <1>7, <2>2, <2>3 DEF AllWritten
<1>. QED
  BY <1>5, <1>6, <1>7 DEF WriteRow

LEMMA StoreKeeps ==
  ASSUME ShotInv, FileInv, PictureInv, StoreBwBuffer, UNCHANGED imageVars
  PROVE  ShotInv' /\ FileInv' /\ PictureInv'
<1>1. shot.pc = "border" /\ UNCHANGED <<shotFile, image>> /\ fb = shot.before /\ shot \in Shots
  BY DEF StoreBwBuffer, imageVars, ShotInv
<1>2. shot.before \in Buffers /\ shot.panel \in Buffers
  BY <1>1 DEF Shots
<1>3. /\ shot'.before = shot.before /\ shot'.panel = shot.panel /\ shot'.pc \in {"shown", "done"}
      /\ shot'.told = shot.told /\ shot'.lapse = shot.lapse /\ shot' \in Shots
  BY <1>1 DEF StoreBwBuffer, Shots
<1>4. FileInv'
  <2>1. Written(PanelWidth)' = Written(PanelWidth)
    BY <1>3 DEF Written
  <2>. QED
    BY <1>1, <1>3, <2>1 DEF FileInv
<1>5. CASE chunks' = NoChunks /\ shot' = [shot EXCEPT !.pc = "done"] /\ UNCHANGED displayVars
  <2>1. shot'.pc = "done"
    BY <1>1, <1>5 DEF Shots
  <2>. QED
    BY <1>1, <1>3, <1>4, <1>5, <2>1 DEF ShotInv, PictureInv, DrawnFromItsTop, displayVars
<1>6. CASE /\ chunks' = [i \in DOMAIN chunks |-> [q \in ChunkPixels(i) |-> fb[q]]]
           /\ fb' = DrawPixels(fb, "Portrait",
                               DrawThickRect(BorderInset, BorderInset, PanelHeight - 2 * BorderInset,
                                             PanelWidth - 2 * BorderInset, 2), Black)
           /\ DisplayBuffer
           /\ shot' = [shot EXCEPT !.pc = "shown"]
  <2>1. fb' \in Buffers
    BY <1>1, <1>2, <1>6, DrawFillsBuffer
  <2>2. chunks' = Copies(shot.before)
    <3>1. DOMAIN chunks = 0 .. ChunkCount - 1
      BY <1>1 DEF ShotInv, NoChunks
    <3>. QED
      BY <1>1, <1>6, <3>1 DEF Copies
  <2>3. shot'.pc = "shown" /\ panel' = fb'
    BY <1>1, <1>6, <1>3 DEF Shots, DisplayBuffer
  <2>4. Copies(shot.before)' = Copies(shot.before)
    BY <1>3 DEF Copies, ChunkPixels, ChunkCount
  <2>5. ShotInv'
    BY <1>1, <1>3, <2>1, <2>2, <2>3, <2>4 DEF ShotInv
  <2>6. PictureInv'
    BY <1>1, <1>3, <2>3 DEF PictureInv, DrawnFromItsTop
  <2>. QED
    BY <1>4, <2>5, <2>6
<1>. QED
  BY <1>5, <1>6 DEF StoreBwBuffer

LEMMA RestoreKeeps ==
  ASSUME ShotInv, FileInv, PictureInv, RestoreBwBuffer, UNCHANGED imageVars
  PROVE  ShotInv' /\ FileInv' /\ PictureInv'
<1>1. /\ shot.pc = "shown" /\ UNCHANGED <<shotFile, image>> /\ shot \in Shots /\ shot.before \in Buffers
      /\ chunks = Copies(shot.before)
  BY DEF RestoreBwBuffer, imageVars, ShotInv, Shots
<1>2. DOMAIN chunks = 0 .. ChunkCount - 1
  BY <1>1 DEF Copies
<1>3. fb' = CopyBack(chunks) /\ chunks' = NoChunks /\ panel' = fb' /\ shot' = [shot EXCEPT !.pc = "done"]
  BY <1>1, <1>2, CopiedBackIsTheSame DEF RestoreBwBuffer, CopyBack, Restored, DisplayBuffer
<1>4. /\ fb' = shot.before /\ shot'.before = shot.before /\ shot'.pc = "done" /\ shot' \in Shots
      /\ shot'.told = shot.told /\ shot'.lapse = shot.lapse
  BY <1>1, <1>3, CopiedBackIsTheSame DEF Shots
<1>5. FileInv'
  <2>1. Written(PanelWidth)' = Written(PanelWidth)
    BY <1>4 DEF Written
  <2>. QED
    BY <1>1, <1>4, <2>1 DEF FileInv
<1>6. ShotInv'
  BY <1>1, <1>3, <1>4 DEF ShotInv
<1>7. PictureInv'
  BY <1>1, <1>3, <1>4 DEF PictureInv, DrawnFromItsTop
<1>. QED
  BY <1>5, <1>6, <1>7

LEMMA DownloadKeeps ==
  ASSUME ShotInv, FileInv, PictureInv, Download
  PROVE  /\ ShotInv' /\ FileInv' /\ PictureInv'
         /\ image.pc = "receiving" /\ image'.pc # "shown" => panel' = panel
<1>1. shot.pc = "idle" /\ shot = [pc |-> "idle"] /\ UNCHANGED <<shot, shotFile, chunks>> /\ chunks = NoChunks
  BY DEF Download, shotVars, ShotInv, Shots
<1>2. FileInv'
  BY <1>1 DEF FileInv
<1>3. CASE RequestImage \/ ReadParts \/ WaitForParts \/ GiveUp
  <2>1. image'.pc \in {"failed", "receiving"} /\ UNCHANGED <<fb, panel>>
    BY <1>3 DEF RequestImage, ReadParts, WaitForParts, GiveUp, Receiving, Received, displayVars
  <2>2. ShotInv'
    BY <1>1, <2>1 DEF ShotInv
  <2>. QED
    BY <1>1, <1>2, <2>1, <2>2 DEF PictureInv
<1>4. CASE RenderImage
  <2>1. PICK pic \in Sent : ShowImage(pic)
    BY <1>4 DEF RenderImage
  <2>2. ClearScreen(White) = Blank
    BY BlankIsBuffer
  <2>3. fb' = Decode(Blank, pic).fb /\ fb' \in Buffers
    BY <2>1, <2>2, DecodeFillsBuffer DEF ShowImage
  <2>4. CASE Decode(Blank, pic).ok
    <3>1. panel' = fb' /\ image' = [pc |-> "shown", picture |-> pic]
      BY <2>1, <2>2, <2>4 DEF ShowImage, DisplayBuffer
    <3>2. ShotInv'
      BY <1>1, <2>3, <3>1 DEF ShotInv
    <3>3. DrawnFromItsTop(pic) => fb' = Meant(pic)
      BY <2>3, <2>4, SentIsDrawn
    <3>. QED
      BY <1>1, <1>2, <3>1, <3>2, <3>3 DEF PictureInv, DrawnFromItsTop
  <2>5. CASE ~ Decode(Blank, pic).ok
    <3>1. panel' = panel /\ image' = [pc |-> "failed"]
      BY <2>1, <2>2, <2>5 DEF ShowImage
    <3>2. ShotInv'
      BY <1>1, <2>3, <3>1 DEF ShotInv
    <3>. QED
      BY <1>1, <1>2, <3>1, <3>2 DEF PictureInv
  <2>. QED
    BY <2>4, <2>5
<1>. QED
  BY <1>3, <1>4 DEF Download, ImageNext, ImageStep

LEMMA DisplayUntouched ==
  ASSUME ShotInv, FileInv, PictureInv, UNCHANGED <<displayVars, imageVars, shotVars>>
  PROVE  ShotInv' /\ FileInv' /\ PictureInv' /\ panel' = panel
<1>1. UNCHANGED <<fb, panel, image, shot, shotFile, chunks>>
  BY DEF displayVars, imageVars, shotVars
<1>2. ShotInv' /\ PictureInv'
  BY <1>1 DEF ShotInv, PictureInv, DrawnFromItsTop
<1>3. \A n : Written(n)' = Written(n)
  BY <1>1 DEF Written
<1>4. FileInv'
  BY <1>1, <1>3 DEF FileInv
<1>. QED
  BY <1>1, <1>2, <1>4

LEMMA DisplayStep ==
  ASSUME ShotInv, FileInv, PictureInv, [GraphicsNext]_graphicsVars
  PROVE  /\ ShotInv' /\ FileInv' /\ PictureInv'
         /\ image.pc = "receiving" /\ image'.pc # "shown" => panel' = panel
<1>1. CASE Download
  BY <1>1, DownloadKeeps
<1>2. CASE TakeScreenshot
  BY <1>2, BeginKeeps, WriteKeeps, StoreKeeps, RestoreKeeps DEF TakeScreenshot, ShotNext
<1>3. CASE ReadBitmap \/ DrawOnce \/ TakeText \/ UseFonts \/ UseInflate \/ UNCHANGED graphicsVars
  <2>1. UNCHANGED <<displayVars, imageVars, shotVars>>
    BY <1>3 DEF ReadBitmap, DrawOnce, TakeText, UseFonts, UseInflate, pictureVars, graphicsVars
  <2>. QED
    BY <2>1, DisplayUntouched
<1>. QED
  BY <1>1, <1>2, <1>3 DEF GraphicsNext

LEMMA DisplayAlways == GraphicsSpec => [](ShotInv /\ FileInv /\ PictureInv)
<1>1. GraphicsInit => ShotInv /\ FileInv /\ PictureInv
  BY BlankIsBuffer DEF GraphicsInit, DisplayInit, ImageInit, ShotInit, NoDownload, ShotInv, FileInv, PictureInv
<1>2. (ShotInv /\ FileInv /\ PictureInv) /\ [GraphicsNext]_graphicsVars => (ShotInv /\ FileInv /\ PictureInv)'
  BY DisplayStep
<1>. QED
  BY <1>1, <1>2, PTL DEF GraphicsSpec

(* For any panel and any sizes of pictures, what is shown is what was      *)
(* sent, a download that fails leaves the panel as it is, and a screenshot *)
(* gives the panel back (TrmnlImage.cpp:88-110, 207-315, 348-350,          *)
(* ScreenshotUtil.cpp:27-35).                                              *)
THEOREM PanelAlwaysShowsThePicture == GraphicsSpec => PanelShowsThePicture
<1>1. PictureInv => (shot.pc # "shown" => PictureIsWhatWasSent)
  BY DEF PictureInv, PictureIsWhatWasSent
<1>2. (ShotInv /\ FileInv /\ PictureInv) /\ [GraphicsNext]_graphicsVars =>
        [image.pc = "receiving" /\ image'.pc # "shown" => panel' = panel]_<<panel, image>>
  BY DisplayStep
<1>. QED
  BY <1>1, <1>2, DisplayAlways, PTL DEF GraphicsSpec, PanelShowsThePicture

-----------------------------------------------------------------------------
(* The file of a screenshot.                                               *)

LEMMA HeaderIsAccepted ==
  ASSUME RowBytes(PanelHeight, 1) <= MaxRowSize
  PROVE  HeaderError(CreateBmpHeader(PanelHeight, PanelWidth, FALSE)) = "Ok"
<1> DEFINE h == CreateBmpHeader(PanelHeight, PanelWidth, FALSE)
<1>1. /\ h.type = "BM" /\ h.biSize = 40 /\ h.planes = 1 /\ h.bpp = 1 /\ h.comp = 0 /\ h.colorsUsed = 2
      /\ h.width = PanelHeight /\ h.height = PanelWidth /\ h.dataInFile = TRUE
  BY DEF CreateBmpHeader
<1>2. PanelHeight <= MaxImageWidth
  <2>1. 8 * (((PanelHeight * 1 + 31) \div 32) * 4) >= PanelHeight
    BY PanelAssumption
  <2>2. RowBytes(PanelHeight, 1) \in Nat /\ 8 * RowBytes(PanelHeight, 1) >= PanelHeight
    BY <2>1, PanelAssumption DEF RowBytes
  <2>. QED
    BY <2>2, PanelAssumption, ScreenshotAssumption DEF MaxImageWidth
<1>3. PanelWidth <= MaxImageHeight
  BY ScreenshotAssumption
<1> HIDE DEF h
<1>4. ColorsUsed(h) = 2
  BY <1>1 DEF ColorsUsed
<1>5. /\ ~ h.type # "BM" /\ ~ h.biSize < 40 /\ ~ h.planes # 1 /\ ~ h.bpp \notin {1, 2, 4, 8, 24, 32}
      /\ ~ ~ (h.comp = 0 \/ (h.bpp = 32 /\ h.comp = 3)) /\ ~ ColorsUsed(h) > 256
      /\ ~ (h.width <= 0 \/ h.height = 0) /\ ~ ~ h.dataInFile
  BY <1>1, <1>4, PanelAssumption
<1>6. ~ (h.width > MaxImageWidth \/ h.height > MaxImageHeight \/ -h.height > MaxImageHeight)
  BY <1>1, <1>2, <1>3, PanelAssumption DEF MaxImageHeight, MaxImageWidth
<1>7. HeaderError(h) = "Ok"
  BY <1>5, <1>6 DEF HeaderError
<1>. QED
  BY <1>7 DEF h

LEMMA OneBitIsNative ==
  ASSUME NEW h, h.bpp = 1
  PROVE  NativePalette(h)
  BY DEF NativePalette

LEMMA NativeIsLevel ==
  ASSUME NEW b, NEW row, NEW h, b.ditherer = "none", b.file.header = h, h.bpp = 1
  PROVE  ConvertRow(b, row).levels = [i \in DOMAIN row |-> Level(h.palette[row[i] + 1])]
  BY OneBitIsNative DEF ConvertRow

(* The levels the reader makes of a row of the file: white and black.      *)
LevelOf(bit) == IF bit = Black THEN 0 ELSE 3

LevelsOf(buffer, r) ==
  [x \in 1 .. PanelHeight |-> LevelOf(buffer[<<PanelWidth - r, PanelHeight - x>>])]

LEMMA LevelsOfRow ==
  ASSUME NEW buffer \in Buffers, NEW r \in 1 .. PanelWidth, NEW b, b.ditherer = "none",
         b.file.header = CreateBmpHeader(PanelHeight, PanelWidth, FALSE)
  PROVE  ConvertRow(b, OutRow(buffer, r - 1)).levels = LevelsOf(buffer, r)
<1> DEFINE header == CreateBmpHeader(PanelHeight, PanelWidth, FALSE)
<1>1. header.bpp = 1 /\ header.palette[1] = 0 /\ header.palette[2] = 255
  BY DEF CreateBmpHeader
<1>2. OutRow(buffer, r - 1) = [x \in 1 .. PanelHeight |-> buffer[<<PanelWidth - r, PanelHeight - x>>]]
  <2>1. PanelWidth - 1 - (r - 1) = PanelWidth - r
    BY PanelAssumption
  <2>. QED
    BY <2>1 DEF OutRow
<1>3. ASSUME NEW x \in 1 .. PanelHeight
      PROVE  LET bit == buffer[<<PanelWidth - r, PanelHeight - x>>]
             IN  Level(header.palette[bit + 1]) = LevelOf(bit)
  <2>1. <<PanelWidth - r, PanelHeight - x>> \in Panel
    BY PanelAssumption DEF Panel
  <2>2. buffer[<<PanelWidth - r, PanelHeight - x>>] \in {White, Black}
    BY <2>1 DEF Buffers
  <2>3. Level(0) = 0 /\ Level(255) = 3
    BY DEF Level
  <2> HIDE DEF header
  <2>. QED
    BY <1>1, <2>2, <2>3 DEF White, Black, LevelOf
<1>5. b.file.header = header
  OBVIOUS
<1> HIDE DEF header
<1>4. ConvertRow(b, OutRow(buffer, r - 1)).levels =
        [x \in DOMAIN OutRow(buffer, r - 1) |-> Level(header.palette[OutRow(buffer, r - 1)[x] + 1])]
  BY <1>1, <1>5, NativeIsLevel
<1> DEFINE level(bit) == Level(header.palette[bit + 1])
           bits(x) == buffer[<<PanelWidth - r, PanelHeight - x>>]
<1>6. \A x \in 1 .. PanelHeight : level(OutRow(buffer, r - 1)[x]) = LevelOf(bits(x))
  BY <1>2, <1>3
<1>7. DOMAIN OutRow(buffer, r - 1) = 1 .. PanelHeight
  BY <1>2
<1>8. [x \in DOMAIN OutRow(buffer, r - 1) |-> level(OutRow(buffer, r - 1)[x])]
        = [x \in 1 .. PanelHeight |-> LevelOf(bits(x))]
  <2> HIDE DEF level, bits
  <2>. QED
    BY <1>6, <1>7
<1>. QED
  BY <1>4, <1>8 DEF LevelsOf

(* Read and drawn again, the file is the frame buffer.                     *)
LEMMA ReadBackIsTheSame ==
  ASSUME NEW buffer \in Buffers,
         NEW file, file.header = CreateBmpHeader(PanelHeight, PanelWidth, FALSE),
         file.rows = [i \in 1 .. PanelWidth |-> OutRow(buffer, i - 1)]
  PROVE  ReadBack(file) = buffer
<1> DEFINE b == [ditherer |-> "none", errors |-> NoError(0), file |-> [header |-> file.header]]
           levels == [r \in DOMAIN file.rows |-> ConvertRow(b, file.rows[r]).levels]
           ink == {p \in (1 .. PanelHeight) \X (1 .. PanelWidth) : levels[p[2]][p[1]] < 3}
           shape == {<<p[1] - 1, PanelWidth - p[2]>> : p \in ink} \cap Screen("Portrait")
<1>1. PanelWidth \in Nat \ {0} /\ PanelHeight \in Nat \ {0}
  BY PanelAssumption
<1>2. b.ditherer = "none" /\ b.file.header = CreateBmpHeader(PanelHeight, PanelWidth, FALSE)
  OBVIOUS
<1>3. DOMAIN levels = 1 .. PanelWidth
  OBVIOUS
<1>4. ASSUME NEW r \in 1 .. PanelWidth
      PROVE  levels[r] = [x \in 1 .. PanelHeight |-> LevelOf(buffer[<<PanelWidth - r, PanelHeight - x>>])]
  <2>2. levels[r] = ConvertRow(b, OutRow(buffer, r - 1)).levels
    OBVIOUS
  <2> HIDE DEF levels, b
  <2>3. ConvertRow(b, OutRow(buffer, r - 1)).levels = LevelsOf(buffer, r)
    BY <1>2, LevelsOfRow
  <2>. QED
    BY <2>2, <2>3 DEF LevelsOf
<1> HIDE DEF levels, b
<1>5. Len(levels) = PanelWidth /\ Len(levels[1]) = PanelHeight
  <2>1. levels = [r \in 1 .. PanelWidth |-> levels[r]]
    BY <1>3, <1>4 DEF levels
  <2>2. Len(levels) = PanelWidth
    BY <1>1, <2>1
  <2>3. 1 \in 1 .. PanelWidth
    BY <1>1
  <2> DEFINE first == [x \in 1 .. PanelHeight |-> LevelOf(buffer[<<PanelWidth - 1, PanelHeight - x>>])]
  <2>4. Len(first) = PanelHeight
    BY <1>1
  <2>5. levels[1] = first
    BY <1>4, <2>3
  <2> HIDE DEF first
  <2>. QED
    BY <2>2, <2>4, <2>5
<1>6. DrawBitmap1Bit("Portrait", levels, FALSE, 0, 0, 0, 0) = shape
  <2>1. FitScale1Bit(PanelHeight, PanelWidth, 0, 0) = <<1, 1>>
    BY DEF FitScale1Bit
  <2>2. \A i \in Int : Scaled(i, <<1, 1>>) = i
    BY DEF Scaled
  <2>3. \A p \in (1 .. PanelHeight) \X (1 .. PanelWidth) :
          <<0 + Scaled(p[1] - 1, <<1, 1>>), 0 + Scaled(RowOnScreen(levels, FALSE, p[2]), <<1, 1>>)>>
            = <<p[1] - 1, PanelWidth - p[2]>>
    BY <1>1, <1>5, <2>2 DEF RowOnScreen
  <2>4. DrawBitmap1Bit("Portrait", levels, FALSE, 0, 0, 0, 0) =
          {<<0 + Scaled(p[1] - 1, <<1, 1>>), 0 + Scaled(RowOnScreen(levels, FALSE, p[2]), <<1, 1>>)>> : p \in ink}
            \cap Screen("Portrait")
    BY <1>5, <2>1 DEF DrawBitmap1Bit
  <2> DEFINE spot(p) == <<0 + Scaled(p[1] - 1, <<1, 1>>), 0 + Scaled(RowOnScreen(levels, FALSE, p[2]), <<1, 1>>)>>
             place(p) == <<p[1] - 1, PanelWidth - p[2]>>
  <2>5. \A p \in ink : spot(p) = place(p)
    BY <2>3
  <2>6. {spot(p) : p \in ink} = {place(p) : p \in ink}
    <3> HIDE DEF spot, place, ink
    <3>. QED
      BY <2>5
  <2>. QED
    BY <2>4, <2>6, Zenon
<1>7. ASSUME NEW q \in Panel
      PROVE  q \in {RotateCoordinates("Portrait", p) : p \in shape} <=> buffer[q] = Black
  <2>1. q[1] \in 0 .. PanelWidth - 1 /\ q[2] \in 0 .. PanelHeight - 1 /\ q = <<q[1], q[2]>>
    BY DEF Panel
  <2>2. ASSUME NEW p \in (1 .. PanelHeight) \X (1 .. PanelWidth)
        PROVE  /\ p[1] \in 1 .. PanelHeight /\ p[2] \in 1 .. PanelWidth
               /\ RotateCoordinates("Portrait", <<p[1] - 1, PanelWidth - p[2]>>) =
                    <<PanelWidth - p[2], PanelHeight - p[1]>>
               /\ p \in ink <=> buffer[<<PanelWidth - p[2], PanelHeight - p[1]>>] = Black
               /\ <<p[1] - 1, PanelWidth - p[2]>> \in Screen("Portrait")
    <3>1. p[1] \in 1 .. PanelHeight /\ p[2] \in 1 .. PanelWidth
      OBVIOUS
    <3>2. RotateCoordinates("Portrait", <<p[1] - 1, PanelWidth - p[2]>>) =
            <<PanelWidth - p[2], PanelHeight - p[1]>>
      BY <1>1, <3>1 DEF RotateCoordinates
    <3>3. p \in ink <=> buffer[<<PanelWidth - p[2], PanelHeight - p[1]>>] = Black
      <4>1. levels[p[2]][p[1]] = LevelOf(buffer[<<PanelWidth - p[2], PanelHeight - p[1]>>])
        <5>1. levels[p[2]] = LevelsOf(buffer, p[2])
          BY <1>4, <3>1, Zenon DEF LevelsOf
        <5>. QED
          BY <3>1, <5>1 DEF LevelsOf
      <4>. QED
        BY <4>1 DEF LevelOf
    <3>4. <<p[1] - 1, PanelWidth - p[2]>> \in Screen("Portrait")
      BY <1>1, <3>1 DEF Screen, ScreenWidth, ScreenHeight, Upright
    <3>. QED
      BY <3>1, <3>2, <3>3, <3>4
  <2>3. ASSUME q \in {RotateCoordinates("Portrait", p) : p \in shape} PROVE buffer[q] = Black
    <3>1. PICK p \in ink : q = RotateCoordinates("Portrait", <<p[1] - 1, PanelWidth - p[2]>>)
      BY <2>3
    <3>. QED
      BY <2>2, <3>1
  <2>4. ASSUME buffer[q] = Black PROVE q \in {RotateCoordinates("Portrait", p) : p \in shape}
    <3> DEFINE p0 == <<PanelHeight - q[2], PanelWidth - q[1]>>
    <3>1. p0 \in (1 .. PanelHeight) \X (1 .. PanelWidth)
      BY <1>1, <2>1
    <3>2. p0[1] = PanelHeight - q[2] /\ p0[2] = PanelWidth - q[1]
      OBVIOUS
    <3>3. <<PanelWidth - p0[2], PanelHeight - p0[1]>> = q
      BY <1>1, <2>1, <3>2
    <3> HIDE DEF p0, ink
    <3>4. p0 \in ink /\ <<p0[1] - 1, PanelWidth - p0[2]>> \in shape
      BY <2>2, <2>4, <3>1, <3>3
    <3>. QED
      BY <2>2, <3>1, <3>3, <3>4
  <2>. QED
    BY <2>3, <2>4
<1> HIDE DEF shape
<1>8. ReadBack(file) = DrawPixels(Blank, "Portrait", shape, Black)
  <2>1. (file.header.height < 0) = FALSE
    BY <1>1 DEF CreateBmpHeader
  <2>2. DrawBitmap1Bit("Portrait", levels, file.header.height < 0, 0, 0, 0, 0) = shape
    BY <1>6, <2>1
  <2>. QED
    BY <2>2 DEF ReadBack, levels, b
<1>9. ASSUME NEW q \in Panel
      PROVE  DrawPixels(Blank, "Portrait", shape, Black)[q] = buffer[q]
  BY <1>7 DEF DrawPixels, Blank, Buffers, White, Black
<1>. QED
  BY <1>8, <1>9 DEF DrawPixels, Buffers

(* For any panel the reader takes, and while the card does what it is told, *)
(* a screenshot said to be saved is complete and drawn again the picture   *)
(* it was taken of, and one said to have failed is gone; whatever the card *)
(* does, a failed one is short of rows, and taking it leaves no trace on   *)
(* the display (ScreenshotUtil.cpp:27-120, BitmapHelpers.cpp:111-149,      *)
(* GfxRenderer.cpp:1192-1250).                                             *)
THEOREM ScreenshotIsAlwaysThePanel == GraphicsSpec => []ScreenshotIsThePanel
<1>1. ShotInv /\ FileInv /\ PictureInv => ScreenshotIsThePanel
  <2> SUFFICES ASSUME ShotInv, FileInv PROVE ScreenshotIsThePanel
    OBVIOUS
  <2>1. shot.pc = "done" => fb = shot.before /\ chunks = NoChunks /\ panel \in {fb, shot.panel}
    BY DEF ShotInv
  <2>2. ASSUME shot.pc \notin {"idle", "writing"}
        PROVE  shot \in Shots /\ shot.pc \in {"border", "shown", "done"} /\ shot.before \in Buffers
    BY <2>2 DEF ShotInv, Shots
  <2>3. ASSUME shot.pc \notin {"idle", "writing"}, shot.told, ~ shot.lapse
        PROVE  /\ shotFile # NoScreenshot
               /\ HeaderError(shotFile.header) = "Ok"
               /\ Len(shotFile.rows) = shotFile.header.height
               /\ ReadBack(shotFile) = shot.before
    <3>1. RowBytes(PanelHeight, 1) <= MaxRowSize /\ shotFile = Written(PanelWidth)
      BY <2>2, <2>3 DEF FileInv
    <3>2. /\ shotFile.header = CreateBmpHeader(PanelHeight, PanelWidth, FALSE)
          /\ shotFile.rows = [i \in 1 .. PanelWidth |-> OutRow(shot.before, i - 1)]
      BY <3>1 DEF Written
    <3>3. HeaderError(shotFile.header) = "Ok"
      BY <3>1, <3>2, HeaderIsAccepted
    <3>4. Len(shotFile.rows) = PanelWidth /\ shotFile.header.height = PanelWidth
      BY <3>1, <3>2, NoRows, PanelAssumption DEF CreateBmpHeader
    <3>5. ReadBack(shotFile) = shot.before
      BY <2>2, <2>3, <3>2, ReadBackIsTheSame
    <3>6. shotFile # NoScreenshot
      BY <3>1 DEF Written, NoScreenshot
    <3>. QED
      BY <3>3, <3>4, <3>5, <3>6
  <2>4. ASSUME shot.pc \notin {"idle", "writing"}, ~ shot.told
        PROVE  shotFile = NoScreenshot \/ (shot.lapse /\ Len(shotFile.rows) < PanelWidth)
    BY <2>2, <2>4 DEF FileInv
  <2>. QED
    BY <2>1, <2>3, <2>4 DEF ScreenshotIsThePanel
<1>. QED
  BY <1>1, DisplayAlways, PTL

-----------------------------------------------------------------------------
(* Rows of a bitmap.                                                       *)

(* What a row comes to depends on the header, the ditherer and its errors. *)
Converted(ditherer, header, errors, row) ==
  ConvertRow([ditherer |-> ditherer, errors |-> errors, file |-> [header |-> header]], row)

LEMMA ConvertIsConverted ==
  ASSUME NEW b, NEW row
  PROVE  ConvertRow(b, row) = Converted(b.ditherer, b.file.header, b.errors, row)
  BY DEF ConvertRow, Converted

LEMMA NativeRow ==
  ASSUME NEW h, NEW errors, NEW row, NativePalette(h), h.bpp <= 8
  PROVE  Converted("none", h, errors, row).levels = [x \in DOMAIN row |-> Level(h.palette[row[x] + 1])]
  BY DEF ConvertRow, Converted

(* Of a file whose colours are near the grays of the panel, every pixel    *)
(* is one of them.                                                         *)
NativePixels(file) ==
  NativePalette(file.header) =>
    \A i \in DOMAIN file.rows :
      /\ file.header.bpp <= 8
      /\ \A x \in DOMAIN file.rows[i] :
           LET lum == file.header.palette[file.rows[i][x] + 1] IN lum \in 0 .. 255 /\ NearNative(lum)

(* What the first n rows come to when they are read from the top, the      *)
(* errors of the ditherer after row i being trace[i].                      *)
IsTrace(b, n, trace) ==
  /\ trace[0] = FreshDitherer(b.ditherer, b.file.header.width)
  /\ \A i \in 1 .. n :
       trace[i] = Converted(b.ditherer, b.file.header, trace[i - 1], b.file.rows[i]).errors

LevelsAlong(b, n, trace) ==
  [i \in 1 .. n |-> Converted(b.ditherer, b.file.header, trace[i - 1], b.file.rows[i]).levels]

(* The first pass came to row n; this one follows its errors up to there.  *)
Follows(b, first, this, n, trace) ==
  /\ IsTrace(b, n, trace)
  /\ first = LevelsAlong(b, n, trace)
  /\ b.row <= n => b.errors = trace[b.row]
  /\ \A i \in 1 .. b.row : i <= n => this[i] = first[i]

(* With grays of the panel only, a row read gives the levels of its        *)
(* colours.                                                                *)
KeepsNative(b, this) ==
  NativePalette(b.file.header) =>
    /\ b.ditherer = "none"
    /\ \A i \in 1 .. b.row :
         this[i] = [x \in DOMAIN b.file.rows[i] |-> Level(b.file.header.palette[b.file.rows[i][x] + 1])]

IsFile(file) ==
  Len(file.rows) \in Nat /\ DOMAIN file.rows = 1 .. Len(file.rows) /\ NativePixels(file)

(* The reader of a file whose headers were accepted.                       *)
OpenInv ==
  /\ bitmap = [err |-> bitmap.err, file |-> bitmap.file, row |-> bitmap.row,
               ditherer |-> bitmap.ditherer, errors |-> bitmap.errors]
  /\ IsFile(bitmap.file)
  /\ bitmap.row \in 0 .. Len(bitmap.file.rows) /\ rewinds \in Nat
  /\ thisPass = [i \in 1 .. bitmap.row |-> thisPass[i]]
  /\ \E n \in 0 .. Len(bitmap.file.rows) :
       /\ rewinds = 0 => n = bitmap.row
       /\ \E trace : Follows(bitmap, firstPass, thisPass, n, trace)
  /\ KeepsNative(bitmap, thisPass)

IsOpen == bitmap.err \in {"Ok", "ShortReadRow"}

BitmapInv == IF IsOpen THEN OpenInv ELSE thisPass = <<>> /\ firstPass = <<>> /\ rewinds = 0

LEMMA ResetIsFresh ==
  ASSUME NEW d, NEW e, NEW state, NEW width
  PROVE  /\ ResetDitherer(d, state, width) = FreshDitherer(e, width)
         /\ FreshDitherer(d, width) = FreshDitherer(e, width)
  BY DEF ResetDitherer, FreshDitherer

LEMMA NearIsNearest ==
  ASSUME NEW lum \in 0 .. 255, NearNative(lum), NEW l \in 0 .. 3
  PROVE  Abs(85 * Level(lum) - lum) <= Abs(85 * l - lum)
<1>1. Level(lum) \in 0 .. 3
  BY DEF Level
<1>. QED
  BY <1>1 DEF NearNative, Abs

LEMMA AppendIsOneMore ==
  ASSUME NEW n \in Nat, NEW s, s = [i \in 1 .. n |-> s[i]], NEW e
  PROVE  Append(s, e) = [i \in 1 .. n + 1 |-> IF i = n + 1 THEN e ELSE s[i]]
<1> DEFINE S == {s[i] : i \in 1 .. n} \cup {e}
<1>1. s \in [1 .. n -> S]
  OBVIOUS
<1>2. e \in S
  OBVIOUS
<1> HIDE DEF S
<1>3. s \in Seq(S) /\ Len(s) = n
  BY <1>1
<1>. QED
  BY <1>2, <1>3

(* Every bitmap that is opened has a file of this kind.                    *)
LEMMA GraysAreFiles ==
  ASSUME NEW h \in Grays, NEW rows, Len(rows) \in Nat, DOMAIN rows = 1 .. Len(rows)
  PROVE  IsFile([header |-> h, rows |-> rows])
<1>1. h.bpp = 32 /\ h.colorsUsed = 0
  BY DEF Grays, Header
<1>2. ~ NativePalette(h)
  BY <1>1 DEF NativePalette, ColorsUsed
<1>. QED
  BY <1>2 DEF IsFile, NativePixels

LEMMA HeaderIsKnown ==
  /\ \A h \in Grays : h.height \in Int /\ h.bpp = 32 /\ h.colorsUsed = 0
  /\ \A h \in Paletted : /\ h.height \in Int /\ h.bpp = 8 /\ h.colorsUsed = 2
                         /\ h.palette \in [1 .. 2 -> Luminances]
<1>1. ASSUME NEW w \in BitmapWidths, NEW k \in BitmapHeights
      PROVE  Header(w, k).height \in Int /\ Header(w, k).bpp = 32 /\ Header(w, k).colorsUsed = 0
  BY BitmapAssumption DEF Header
<1>2. ASSUME NEW w \in BitmapWidths, NEW k \in BitmapHeights, NEW p \in [1 .. 2 -> Luminances]
      PROVE  LET h == WithPalette(Header(w, k), p)
             IN  h.height \in Int /\ h.bpp = 8 /\ h.colorsUsed = 2 /\ h.palette = p
  BY BitmapAssumption DEF Header, WithPalette
<1>3. ASSUME NEW h \in Paletted
      PROVE  \E w \in BitmapWidths, k \in BitmapHeights, p \in [1 .. 2 -> Luminances] :
               h = WithPalette(Header(w, k), p)
  <2>1. PICK g \in Grays, p \in [1 .. 2 -> Luminances] : h = WithPalette(g, p)
    BY DEF Paletted
  <2>2. PICK w \in BitmapWidths, k \in BitmapHeights : g = Header(w, k)
    BY DEF Grays
  <2>. QED
    BY <2>1, <2>2
<1>4. \A h \in Grays : h.height \in Int /\ h.bpp = 32 /\ h.colorsUsed = 0
  BY <1>1 DEF Grays
<1>5. \A h \in Paletted : h.height \in Int /\ h.bpp = 8 /\ h.colorsUsed = 2
                            /\ h.palette \in [1 .. 2 -> Luminances]
  BY <1>2, <1>3
<1>. QED
  BY <1>4, <1>5

LEMMA PalettedAreFiles ==
  ASSUME NEW h \in Paletted, NEW rows, Len(rows) \in Nat, DOMAIN rows = 1 .. Len(rows),
         \A i \in DOMAIN rows : rows[i] \in [1 .. h.width -> {0, 1}]
  PROVE  IsFile([header |-> h, rows |-> rows])
<1>1. h.bpp = 8 /\ h.colorsUsed = 2 /\ h.palette \in [1 .. 2 -> Luminances]
  BY HeaderIsKnown
<1>2. ColorsUsed(h) = 2
  BY <1>1 DEF ColorsUsed
<1>3. ASSUME NativePalette(h) PROVE \A i \in 1 .. 2 : NearNative(h.palette[i])
  BY <1>1, <1>2, <1>3 DEF NativePalette
<1>4. \A i \in 1 .. 2 : h.palette[i] \in 0 .. 255
  BY <1>1, BitmapAssumption
<1>5. ASSUME NEW i \in DOMAIN rows, NEW x \in DOMAIN rows[i] PROVE rows[i][x] + 1 \in 1 .. 2
  <2>1. rows[i] \in [1 .. h.width -> {0, 1}]
    OBVIOUS
  <2>2. rows[i][x] \in {0, 1}
    BY <2>1
  <2>. QED
    BY <2>2
<1>6. ASSUME NativePalette(h), NEW i \in DOMAIN rows
      PROVE  /\ h.bpp <= 8
             /\ \A x \in DOMAIN rows[i] : LET lum == h.palette[rows[i][x] + 1]
                                          IN  lum \in 0 .. 255 /\ NearNative(lum)
  <2>1. \A k \in 1 .. 2 : h.palette[k] \in 0 .. 255 /\ NearNative(h.palette[k])
    BY <1>3, <1>4, <1>6
  <2>2. \A x \in DOMAIN rows[i] : rows[i][x] + 1 \in 1 .. 2
    BY <1>5, Zenon
  <2>3. h.bpp <= 8
    BY <1>1
  <2>. QED
    BY <2>1, <2>2, <2>3, Zenon
<1>. QED
  BY <1>6 DEF IsFile, NativePixels

LEMMA RowsOfFile ==
  ASSUME NEW h \in Grays \cup Paletted, NEW rows \in Rows(h)
  PROVE  IsFile([header |-> h, rows |-> rows])
<1> DEFINE values == IF h.bpp <= 8 THEN {0, 1} ELSE Luminances
<1>1. PICK n \in {Abs(h.height), Abs(h.height) - 1} : rows \in [1 .. n -> [1 .. h.width -> values]]
  BY DEF Rows
<1>2. n \in Int
  BY <1>1, HeaderIsKnown DEF Abs
<1>3. \E m \in Nat : rows \in [1 .. m -> [1 .. h.width -> values]]
  <2>1. CASE n \in Nat
    BY <1>1, <2>1
  <2>2. CASE n \notin Nat
    <3>1. 1 .. n = 1 .. 0
      BY <1>2, <2>2
    <3>. QED
      BY <1>1, <3>1
  <2>. QED
    BY <2>1, <2>2
<1>4. DOMAIN rows = 1 .. Len(rows) /\ Len(rows) \in Nat
  BY <1>3
<1>5. CASE h \in Grays
  BY <1>4, <1>5, GraysAreFiles
<1>6. CASE h \in Paletted
  <2>1. \A i \in DOMAIN rows : rows[i] \in [1 .. h.width -> {0, 1}]
    BY <1>1, <1>6, HeaderIsKnown
  <2>. QED
    BY <1>4, <1>6, <2>1, PalettedAreFiles
<1>. QED
  BY <1>5, <1>6

LEMMA OpenKeeps ==
  ASSUME BitmapInv, NEW header, NEW rows, NEW dithering, OpenBitmap(header, rows, dithering),
         IsFile([header |-> header, rows |-> rows])
  PROVE  BitmapInv'
<1>1. bitmap = NoBitmap /\ UNCHANGED <<firstPass, thisPass, rewinds>>
  BY DEF OpenBitmap
<1>2. thisPass' = <<>> /\ firstPass' = <<>> /\ rewinds' = 0
  BY <1>1 DEF BitmapInv, IsOpen, NoBitmap
<1>3. CASE HeaderError(header) # "Ok"
  <2>1. bitmap'.err = HeaderError(header)
    BY <1>3 DEF OpenBitmap
  <2>2. HeaderError(header) # "ShortReadRow"
    BY DEF HeaderError
  <2>. QED
    BY <1>2, <1>3, <2>1, <2>2 DEF BitmapInv, IsOpen
<1>4. CASE HeaderError(header) = "Ok"
  <2> DEFINE opened == [err |-> "Ok", file |-> [header |-> header, rows |-> rows], row |-> 0,
                        ditherer |-> IF NativePalette(header) THEN "none" ELSE dithering,
                        errors |-> FreshDitherer(dithering, header.width)]
             fresh == FreshDitherer(opened.ditherer, header.width)
             trace == [i \in {0} |-> fresh]
  <2>1. bitmap' = opened
    BY <1>4 DEF OpenBitmap
  <2>2. opened.errors = fresh
    BY ResetIsFresh
  <2>3. IsTrace(opened, 0, trace)
    BY DEF IsTrace
  <2>4. LevelsAlong(opened, 0, trace) = <<>>
    BY DEF LevelsAlong
  <2>5. Follows(opened, <<>>, <<>>, 0, trace)
    BY <2>2, <2>3, <2>4 DEF Follows
  <2>6. KeepsNative(opened, <<>>)
    BY DEF KeepsNative
  <2>7. Len(rows) \in Nat /\ 0 \in 0 .. Len(rows)
    BY DEF IsFile
  <2>8. opened.row = 0 /\ opened.err = "Ok" /\ opened.file = [header |-> header, rows |-> rows]
    OBVIOUS
  <2>9. <<>> = [i \in 1 .. 0 |-> thisPass'[i]]
    OBVIOUS
  <2> HIDE DEF fresh, trace
  <2>10. opened = [err |-> opened.err, file |-> opened.file, row |-> opened.row,
                   ditherer |-> opened.ditherer, errors |-> opened.errors]
    OBVIOUS
  <2> HIDE DEF opened
  <2>11. OpenInv'
    BY <1>2, <2>1, <2>5, <2>6, <2>7, <2>8, <2>9, <2>10 DEF OpenInv
  <2>. QED
    BY <2>1, <2>8, <2>11 DEF BitmapInv, IsOpen
<1>. QED
  BY <1>3, <1>4

LEMMA ReadRowKeeps ==
  ASSUME BitmapInv, ReadNextRow
  PROVE  BitmapInv'
<1> DEFINE file == bitmap.file
           n0 == bitmap.row
<1>1. bitmap.err = "Ok" /\ OpenInv
  BY DEF ReadNextRow, BitmapInv, IsOpen
<1>2. IsFile(file) /\ n0 \in 0 .. Len(file.rows) /\ Len(file.rows) \in Nat
  BY <1>1 DEF OpenInv, IsFile
<1>3. CASE n0 = Len(file.rows)
  <2>1. bitmap' = [bitmap EXCEPT !.err = "ShortReadRow"] /\ UNCHANGED <<firstPass, thisPass, rewinds>>
    BY <1>3 DEF ReadNextRow
  <2>2. /\ bitmap'.err = "ShortReadRow" /\ bitmap'.file = file /\ bitmap'.row = n0
        /\ bitmap'.ditherer = bitmap.ditherer /\ bitmap'.errors = bitmap.errors
        /\ bitmap' = [err |-> bitmap'.err, file |-> bitmap'.file, row |-> bitmap'.row,
                      ditherer |-> bitmap'.ditherer, errors |-> bitmap'.errors]
    BY <1>1, <2>1 DEF OpenInv
  <2>3. ASSUME NEW n, NEW trace, Follows(bitmap, firstPass, thisPass, n, trace)
        PROVE  Follows(bitmap', firstPass, thisPass, n, trace)
    BY <2>2, <2>3 DEF Follows, IsTrace, LevelsAlong
  <2>4. KeepsNative(bitmap', thisPass)
    BY <1>1, <2>2 DEF KeepsNative, OpenInv
  <2>5. OpenInv'
    BY <1>1, <2>1, <2>2, <2>3, <2>4 DEF OpenInv
  <2>. QED
    BY <2>2, <2>5 DEF BitmapInv, IsOpen
<1>4. CASE n0 # Len(file.rows)
  <2> DEFINE done == Converted(bitmap.ditherer, file.header, bitmap.errors, file.rows[n0 + 1])
  <2>1. /\ bitmap' = [bitmap EXCEPT !.row = @ + 1, !.errors = done.errors]
        /\ thisPass' = Append(thisPass, done.levels)
        /\ firstPass' = IF rewinds = 0 THEN thisPass' ELSE firstPass
        /\ UNCHANGED rewinds
    BY <1>4, ConvertIsConverted DEF ReadNextRow
  <2> HIDE DEF done
  <2>2. /\ bitmap'.err = "Ok" /\ bitmap'.file = file /\ bitmap'.row = n0 + 1
        /\ bitmap'.ditherer = bitmap.ditherer /\ bitmap'.errors = done.errors
        /\ bitmap' = [err |-> bitmap'.err, file |-> bitmap'.file, row |-> bitmap'.row,
                      ditherer |-> bitmap'.ditherer, errors |-> bitmap'.errors]
    BY <1>1, <2>1 DEF OpenInv
  <2>3. n0 \in Nat /\ n0 + 1 \in 1 .. Len(file.rows)
    BY <1>2, <1>4
  <2>4. thisPass' = [i \in 1 .. n0 + 1 |-> IF i = n0 + 1 THEN done.levels ELSE thisPass[i]]
    <3>1. thisPass = [i \in 1 .. n0 |-> thisPass[i]]
      BY <1>1 DEF OpenInv
    <3>. QED
      BY <2>1, <2>3, <3>1, AppendIsOneMore
  <2>5. KeepsNative(bitmap', thisPass')
    <3> SUFFICES ASSUME NativePalette(file.header)
                 PROVE  /\ bitmap.ditherer = "none"
                        /\ \A i \in 1 .. n0 + 1 :
                             thisPass'[i] = [x \in DOMAIN file.rows[i] |->
                                               Level(file.header.palette[file.rows[i][x] + 1])]
      BY <2>2 DEF KeepsNative
    <3>1. KeepsNative(bitmap, thisPass)
      BY <1>1 DEF OpenInv
    <3>2. file.header.bpp <= 8
      BY <1>2, <2>3 DEF IsFile, NativePixels
    <3>3. done.levels = [x \in DOMAIN file.rows[n0 + 1] |->
                           Level(file.header.palette[file.rows[n0 + 1][x] + 1])]
      <4>1. bitmap.ditherer = "none"
        BY <3>1 DEF KeepsNative
      <4> DEFINE h == file.header
                 row == file.rows[n0 + 1]
      <4> HIDE DEF h, row
      <4>2. NativePalette(h) /\ h.bpp <= 8
        BY <3>2 DEF h
      <4>3. Converted("none", h, bitmap.errors, row).levels = [x \in DOMAIN row |-> Level(h.palette[row[x] + 1])]
        BY <4>2, NativeRow
      <4>. QED
        BY <4>1, <4>3 DEF done, h, row
    <3>4. ASSUME NEW i \in 1 .. n0 + 1, i # n0 + 1
          PROVE  thisPass'[i] = thisPass[i] /\ i \in 1 .. n0
      BY <2>3, <2>4, <3>4
    <3>. QED
      BY <2>3, <2>4, <3>1, <3>3, <3>4 DEF KeepsNative
  <2>6. PICK n \in 0 .. Len(file.rows) :
          /\ rewinds = 0 => n = n0
          /\ \E trace : Follows(bitmap, firstPass, thisPass, n, trace)
    BY <1>1 DEF OpenInv
  <2>7. PICK trace : Follows(bitmap, firstPass, thisPass, n, trace)
    BY <2>6
  <2> DEFINE Ends(e, i) == Converted(bitmap.ditherer, file.header, e, file.rows[i])
  <2>8. /\ trace[0] = FreshDitherer(bitmap.ditherer, file.header.width)
        /\ \A i \in 1 .. n : trace[i] = Ends(trace[i - 1], i).errors
        /\ firstPass = [i \in 1 .. n |-> Ends(trace[i - 1], i).levels]
        /\ n0 <= n => bitmap.errors = trace[n0]
        /\ \A i \in 1 .. n0 : i <= n => thisPass[i] = firstPass[i]
    BY <2>7 DEF Follows, IsTrace, LevelsAlong
  <2>9. done = Ends(bitmap.errors, n0 + 1)
    BY DEF done
  <2>10. ASSUME NEW m \in Nat, NEW other,
                /\ other[0] = FreshDitherer(bitmap.ditherer, file.header.width)
                /\ \A i \in 1 .. m : other[i] = Ends(other[i - 1], i).errors
                /\ firstPass' = [i \in 1 .. m |-> Ends(other[i - 1], i).levels]
                /\ n0 + 1 <= m => done.errors = other[n0 + 1]
                /\ \A i \in 1 .. n0 + 1 : i <= m => thisPass'[i] = firstPass'[i]
         PROVE  Follows(bitmap', firstPass', thisPass', m, other)
    BY <2>2, <2>10 DEF Follows, IsTrace, LevelsAlong
  <2> HIDE DEF Ends
  <2>11. \E m \in 0 .. Len(file.rows) :
           /\ rewinds' = 0 => m = n0 + 1
           /\ \E other : Follows(bitmap', firstPass', thisPass', m, other)
    <3>1. CASE rewinds = 0
      <4> DEFINE other == [i \in 0 .. n0 + 1 |-> IF i = n0 + 1 THEN done.errors ELSE trace[i]]
      <4>1. n = n0 /\ firstPass' = thisPass'
        BY <2>1, <2>6, <3>1
      <4>2. \A i \in 0 .. n0 : other[i] = trace[i]
        BY <2>3
      <4>3. other[n0 + 1] = done.errors
        BY <2>3
      <4>4. done = Ends(other[n0], n0 + 1)
        BY <2>3, <2>8, <2>9, <4>1, <4>2
      <4> HIDE DEF other
      <4>5. other[0] = FreshDitherer(bitmap.ditherer, file.header.width)
        BY <2>3, <2>8, <4>2
      <4>6. ASSUME NEW i \in 1 .. n0 + 1
            PROVE  /\ other[i] = Ends(other[i - 1], i).errors
                   /\ thisPass'[i] = Ends(other[i - 1], i).levels
        <5>1. CASE i = n0 + 1
          BY <2>3, <2>4, <4>3, <4>4, <5>1
        <5>2. CASE i # n0 + 1
          <6>1. i \in 1 .. n0 /\ i - 1 \in 0 .. n0 /\ i \in 0 .. n0
            BY <2>3, <5>2
          <6>2. other[i] = trace[i] /\ other[i - 1] = trace[i - 1]
            BY <4>2, <6>1
          <6>3. thisPass'[i] = thisPass[i]
            BY <2>3, <2>4, <5>2
          <6>4. i <= n
            BY <2>3, <4>1, <6>1
          <6>5. thisPass[i] = firstPass[i]
            BY <2>8, <6>1, <6>4
          <6>6. firstPass[i] = Ends(trace[i - 1], i).levels
            BY <2>8, <4>1, <6>1
          <6>. QED
            BY <2>8, <4>1, <6>1, <6>2, <6>3, <6>5, <6>6
        <5>. QED
          BY <5>1, <5>2
      <4>7. firstPass' = [i \in 1 .. n0 + 1 |-> Ends(other[i - 1], i).levels]
        <5> DEFINE levels == [i \in 1 .. n0 + 1 |-> Ends(other[i - 1], i).levels]
        <5>1. thisPass' = [i \in 1 .. n0 + 1 |-> thisPass'[i]]
          BY <2>4
        <5>2. \A i \in 1 .. n0 + 1 : levels[i] = thisPass'[i]
          BY <4>6
        <5>3. levels = [i \in 1 .. n0 + 1 |-> levels[i]]
          OBVIOUS
        <5> HIDE DEF levels
        <5>4. thisPass' = levels
          BY <5>1, <5>2, <5>3
        <5>. QED
          BY <4>1, <5>4 DEF levels
      <4>8. Follows(bitmap', firstPass', thisPass', n0 + 1, other)
        <5>1. n0 + 1 \in Nat
          BY <2>3
        <5>2. \A i \in 1 .. n0 + 1 : other[i] = Ends(other[i - 1], i).errors
          BY <4>6
        <5>3. \A i \in 1 .. n0 + 1 : thisPass'[i] = firstPass'[i]
          BY <4>1
        <5>. QED
          BY <2>10, <4>3, <4>5, <4>7, <5>1, <5>2, <5>3
      <4>. QED
        BY <2>3, <4>8
    <3>2. CASE rewinds # 0
      <4>1. firstPass' = firstPass /\ rewinds' # 0
        BY <2>1, <3>2
      <4>2. n \in Nat
        OBVIOUS
      <4>3. ASSUME n0 + 1 <= n
            PROVE  done = Ends(trace[n0], n0 + 1) /\ n0 + 1 \in 1 .. n
        BY <2>3, <2>8, <2>9, <4>2, <4>3
      <4>4. ASSUME NEW i \in 1 .. n0 + 1, i <= n PROVE thisPass'[i] = firstPass[i]
        <5>1. CASE i = n0 + 1
          BY <2>3, <2>4, <2>8, <4>3, <4>4, <5>1
        <5>2. CASE i # n0 + 1
          BY <2>3, <2>4, <2>8, <4>4, <5>2
        <5>. QED
          BY <5>1, <5>2
      <4>5. n0 + 1 <= n => done.errors = trace[n0 + 1]
        <5> SUFFICES ASSUME n0 + 1 <= n PROVE done.errors = trace[n0 + 1]
          OBVIOUS
        <5>1. done = Ends(trace[n0], n0 + 1) /\ n0 + 1 \in 1 .. n /\ n0 + 1 - 1 = n0
          BY <2>3, <4>3
        <5>2. PICK i \in 1 .. n : i = n0 + 1
          BY <5>1
        <5>3. trace[i] = Ends(trace[i - 1], i).errors
          BY <2>8
        <5>. QED
          BY <2>3, <5>1, <5>2, <5>3
      <4>6. Follows(bitmap', firstPass', thisPass', n, trace)
        BY <2>8, <2>10, <4>1, <4>2, <4>4, <4>5
      <4>. QED
        BY <4>1, <4>6
    <3>. QED
      BY <3>1, <3>2
  <2>12. thisPass' = [i \in 1 .. n0 + 1 |-> thisPass'[i]] /\ n0 + 1 \in 0 .. Len(file.rows)
    BY <2>3, <2>4
  <2>13. rewinds' \in Nat
    BY <1>1, <2>1 DEF OpenInv
  <2>14. OpenInv'
    BY <1>2, <2>2, <2>5, <2>11, <2>12, <2>13 DEF OpenInv
  <2>. QED
    BY <2>2, <2>14 DEF BitmapInv, IsOpen
<1>. QED
  BY <1>3, <1>4

LEMMA RewindKeeps ==
  ASSUME BitmapInv, RewindToData
  PROVE  BitmapInv'
<1> DEFINE file == bitmap.file
           fresh == ResetDitherer(bitmap.ditherer, bitmap.errors, file.header.width)
<1>1. OpenInv
  BY DEF RewindToData, BitmapInv, IsOpen
<1>2. /\ bitmap' = [bitmap EXCEPT !.err = "Ok", !.row = 0, !.errors = fresh]
      /\ thisPass' = <<>> /\ rewinds' = rewinds + 1 /\ firstPass' = firstPass
  BY DEF RewindToData
<1>3. fresh = FreshDitherer(bitmap.ditherer, file.header.width)
  BY ResetIsFresh
<1> HIDE DEF fresh
<1>4. /\ bitmap'.err = "Ok" /\ bitmap'.file = file /\ bitmap'.row = 0
      /\ bitmap'.ditherer = bitmap.ditherer /\ bitmap'.errors = fresh
      /\ bitmap' = [err |-> bitmap'.err, file |-> bitmap'.file, row |-> bitmap'.row,
                    ditherer |-> bitmap'.ditherer, errors |-> bitmap'.errors]
  BY <1>1, <1>2 DEF OpenInv
<1>5. ASSUME NEW n, NEW trace, Follows(bitmap, firstPass, thisPass, n, trace)
      PROVE  Follows(bitmap', firstPass', thisPass', n, trace)
  BY <1>2, <1>3, <1>4, <1>5 DEF Follows, IsTrace, LevelsAlong
<1>6. KeepsNative(bitmap', thisPass')
  BY <1>1, <1>4 DEF KeepsNative, OpenInv
<1>7. thisPass' = [i \in 1 .. 0 |-> thisPass'[i]]
  BY <1>2
<1>8. /\ IsFile(file) /\ 0 \in 0 .. Len(file.rows) /\ rewinds + 1 \in Nat /\ rewinds + 1 # 0
  BY <1>1 DEF OpenInv, IsFile
<1>9. \E n \in 0 .. Len(file.rows) : \E trace : Follows(bitmap', firstPass', thisPass', n, trace)
  BY <1>1, <1>5 DEF OpenInv
<1>10. OpenInv'
  BY <1>2, <1>4, <1>6, <1>7, <1>8, <1>9 DEF OpenInv
<1>. QED
  BY <1>4, <1>10 DEF BitmapInv, IsOpen

LEMMA BitmapIsRight ==
  ASSUME BitmapInv
  PROVE  RowsAreReadRight
<1>1. ASSUME ~ IsOpen PROVE RowsAreReadRight
  BY <1>1 DEF BitmapInv, RowsAreReadRight, RewindRepeats, NativeIsNearest, IsOpen
<1>2. ASSUME IsOpen PROVE RowsAreReadRight
  <2>1. OpenInv
    BY <1>2 DEF BitmapInv
  <2>2. DOMAIN thisPass = 1 .. bitmap.row /\ bitmap.row \in Nat
    BY <2>1 DEF OpenInv, IsFile
  <2>3. RewindRepeats
    <3>1. PICK n \in 0 .. Len(bitmap.file.rows) :
            \E trace : Follows(bitmap, firstPass, thisPass, n, trace)
      BY <2>1 DEF OpenInv
    <3>2. PICK trace : Follows(bitmap, firstPass, thisPass, n, trace)
      BY <3>1
    <3>3. DOMAIN firstPass = 1 .. n
      BY <3>2 DEF Follows, LevelsAlong
    <3>4. \A i \in 1 .. bitmap.row : i <= n => thisPass[i] = firstPass[i]
      BY <3>2 DEF Follows
    <3>. QED
      BY <2>2, <3>3, <3>4 DEF RewindRepeats
  <2>4. NativeIsNearest
    <3> SUFFICES ASSUME NativePalette(bitmap.file.header),
                        NEW i \in DOMAIN thisPass, NEW x \in DOMAIN thisPass[i], NEW l \in 0 .. 3
                 PROVE  LET lum == bitmap.file.header.palette[bitmap.file.rows[i][x] + 1]
                        IN  Abs(85 * thisPass[i][x] - lum) <= Abs(85 * l - lum)
      BY DEF NativeIsNearest
    <3> DEFINE lum == bitmap.file.header.palette[bitmap.file.rows[i][x] + 1]
    <3>1. KeepsNative(bitmap, thisPass) /\ IsFile(bitmap.file) /\ i \in DOMAIN bitmap.file.rows
      BY <2>1, <2>2 DEF OpenInv, IsFile
    <3>2. thisPass[i] = [y \in DOMAIN bitmap.file.rows[i] |->
                           Level(bitmap.file.header.palette[bitmap.file.rows[i][y] + 1])]
      BY <2>2, <3>1 DEF KeepsNative
    <3>3. x \in DOMAIN bitmap.file.rows[i] /\ thisPass[i][x] = Level(lum)
      BY <3>2
    <3>4. lum \in 0 .. 255 /\ NearNative(lum)
      BY <3>1, <3>3 DEF IsFile, NativePixels
    <3> HIDE DEF lum
    <3>5. Abs(85 * thisPass[i][x] - lum) <= Abs(85 * l - lum)
      BY <3>3, <3>4, NearIsNearest
    <3>. QED
      BY <3>5 DEF lum
  <2>. QED
    BY <2>3, <2>4 DEF RowsAreReadRight
<1>. QED
  BY <1>1, <1>2

LEMMA BitmapNextKeeps ==
  ASSUME BitmapInv, BitmapNext
  PROVE  BitmapInv'
<1>1. CASE \E h \in Grays \cup Paletted, d \in {"none"} \cup Ditherers :
             \E rows \in Rows(h) : OpenBitmap(h, rows, d)
  BY <1>1, RowsOfFile, OpenKeeps
<1>2. CASE \E h \in Faulty : OpenBitmap(h, <<>>, "none")
  <2>1. PICK h \in Faulty : OpenBitmap(h, <<>>, "none")
    BY <1>2
  <2>2. IsFile([header |-> h, rows |-> <<>>])
    BY DEF IsFile, NativePixels
  <2>. QED
    BY <2>1, <2>2, OpenKeeps
<1>3. CASE ReadNextRow
  BY <1>3, ReadRowKeeps
<1>4. CASE RewindToData
  BY <1>4, RewindKeeps
<1>. QED
  BY <1>1, <1>2, <1>3, <1>4 DEF BitmapNext

LEMMA BitmapAlways == GraphicsSpec => []BitmapInv
<1>1. GraphicsInit => BitmapInv
  BY DEF GraphicsInit, BitmapInit, NoBitmap, BitmapInv, IsOpen
<1>2. BitmapInv /\ [GraphicsNext]_graphicsVars => BitmapInv'
  <2> SUFFICES ASSUME BitmapInv, [GraphicsNext]_graphicsVars PROVE BitmapInv'
    OBVIOUS
  <2>1. CASE BitmapNext
    BY <2>1, BitmapNextKeeps
  <2>2. CASE UNCHANGED bitmapVars
    BY <2>2 DEF bitmapVars, BitmapInv, IsOpen, OpenInv
  <2>3. BitmapNext \/ UNCHANGED bitmapVars
    BY DEF GraphicsNext, Download, TakeScreenshot, ReadBitmap, DrawOnce, TakeText, UseFonts, UseInflate,
           pictureVars, graphicsVars
  <2>. QED
    BY <2>1, <2>2, <2>3
<1>. QED
  BY <1>1, <1>2, PTL DEF GraphicsSpec

(* For files of any size and any colours, a row that is read again after a *)
(* rewind gives what it gave, and a picture with the grays of the panel    *)
(* keeps them (Bitmap.cpp:148-163, 181-295).                               *)
THEOREM RowsAreAlwaysReadRight == GraphicsSpec => []RowsAreReadRight
  BY BitmapIsRight, BitmapAlways, PTL

-----------------------------------------------------------------------------
(* Lines.                                                                  *)

LEMMA DistanceIs ==
  ASSUME NEW a \in Int, NEW b \in Int
  PROVE  /\ Distance(a, b) \in Nat
         /\ b > a => Distance(a, b) = b - a
         /\ ~ b > a => Distance(a, b) = a - b
         /\ a # b => Distance(a, b) # 0
  BY DEF Distance, Most, Least

(* The rounds, as a function of their number.                              *)
IsWalk(walk, x1, y1, dx, dy, sx, sy) ==
  /\ walk[0] = [x |-> x1, y |-> y1, err |-> dx - dy]
  /\ \A n \in Nat : walk[n + 1] = BresenhamStep(walk[n], dx, dy, sx, sy)

LEMMA WalkExists ==
  ASSUME NEW x1 \in Int, NEW y1 \in Int, NEW dx \in Int, NEW dy \in Int, NEW sx \in Int, NEW sy \in Int
  PROVE  LET walk[n \in Nat] ==
               IF n = 0 THEN [x |-> x1, y |-> y1, err |-> dx - dy]
                        ELSE BresenhamStep(walk[n - 1], dx, dy, sx, sy)
         IN  IsWalk(walk, x1, y1, dx, dy, sx, sy)
<1> DEFINE V == [x : Int, y : Int, err : Int]
           first == [x |-> x1, y |-> y1, err |-> dx - dy]
           next == [n \in Nat |-> [s \in V |-> BresenhamStep(s, dx, dy, sx, sy)]]
           Rounds(f) == [n \in Nat |-> IF n = 0 THEN first ELSE BresenhamStep(f[n - 1], dx, dy, sx, sy)]
           walk == CHOOSE f : f = Rounds(f)
<1>1. first \in V
  OBVIOUS
<1>2. \A s \in V : BresenhamStep(s, dx, dy, sx, sy) \in V
  BY DEF BresenhamStep
<1>3. \A n \in Nat : \A s \in V : next[n][s] \in V
  BY <1>2
<1>4. \A n \in Nat, s \in V : next[n][s] = BresenhamStep(s, dx, dy, sx, sy)
  OBVIOUS
<1> HIDE DEF V, first, next
<1>5. PICK f : IsRecursion(V, first, next, f)
  BY <1>1, <1>3, Recursion
<1>6. f = Rounds(f)
  <2>1. f \in [Nat -> V] /\ f[0] = first
    BY <1>5 DEF IsRecursion
  <2>2. ASSUME NEW n \in Nat \ {0} PROVE f[n] = BresenhamStep(f[n - 1], dx, dy, sx, sy)
    <3>1. n - 1 \in Nat
      OBVIOUS
    <3>2. f[n - 1] \in V
      BY <2>1, <3>1
    <3>. QED
      BY <1>4, <1>5, <3>2 DEF IsRecursion
  <2>. QED
    BY <2>1, <2>2
<1>7. walk = Rounds(walk)
  BY <1>6
<1> HIDE DEF walk
<1>8. IsWalk(walk, x1, y1, dx, dy, sx, sy)
  BY <1>7 DEF IsWalk, first
<1>. QED
  BY <1>8 DEF walk, first

(* In round n the point is n along the longer side, and j along the other, *)
(* the one that is nearest there.                                          *)
IsFlat(s, n, j, x1, y1, dx, dy, sx, sy) ==
  LET d == j * dx - n * dy
  IN  /\ s = [x |-> x1 + sx * n, y |-> y1 + sy * j, err |-> dx - dy + d]
      /\ - dx <= 2 * d /\ 2 * d < dx /\ (dx = dy => d = 0)

IsSteep(s, n, i, x1, y1, dx, dy, sx, sy) ==
  LET d == n * dx - i * dy
  IN  /\ s = [x |-> x1 + sx * i, y |-> y1 + sy * n, err |-> dx - dy + d]
      /\ - dy < 2 * d /\ 2 * d <= dy

LEMMA FlatWalk ==
  ASSUME NEW x1 \in Int, NEW y1 \in Int, NEW dx \in Nat, NEW dy \in Nat \ {0}, dy <= dx,
         NEW sx \in Int, NEW sy \in Int, NEW walk, IsWalk(walk, x1, y1, dx, dy, sx, sy)
  PROVE  \A n \in Nat : \E j \in Int : IsFlat(walk[n], n, j, x1, y1, dx, dy, sx, sy)
<1> DEFINE S == {n \in Nat : \E j \in Int : IsFlat(walk[n], n, j, x1, y1, dx, dy, sx, sy)}
<1>1. 0 \in S
  <2>1. IsFlat(walk[0], 0, 0, x1, y1, dx, dy, sx, sy)
    BY DEF IsWalk, IsFlat
  <2>. QED
    BY <2>1
<1>2. ASSUME NEW n \in S PROVE n + 1 \in S
  <2>1. PICK j \in Int : IsFlat(walk[n], n, j, x1, y1, dx, dy, sx, sy)
    OBVIOUS
  <2> DEFINE d == j * dx - n * dy
             x == x1 + sx * n
             y == y1 + sy * j
             down == 2 * (d - dy) < - dx
             k == IF down THEN j + 1 ELSE j
             e == IF down THEN d - dy + dx ELSE d - dy
             z == IF down THEN y + sy ELSE y
  <2>2. /\ walk[n] = [x |-> x, y |-> y, err |-> dx - dy + d]
        /\ - dx <= 2 * d /\ 2 * d < dx /\ (dx = dy => d = 0)
    BY <2>1 DEF IsFlat
  <2>3. d \in Int /\ x \in Int /\ y \in Int /\ n \in Nat
    OBVIOUS
  <2>4. e = k * dx - (n + 1) * dy
    OBVIOUS
  <2>5. x + sx = x1 + sx * (n + 1) /\ z = y1 + sy * k
    OBVIOUS
  <2> HIDE DEF x, y, d
  <2>10. /\ e = IF 2 * (d - dy) < - dx THEN d - dy + dx ELSE d - dy
         /\ z = IF 2 * (d - dy) < - dx THEN y + sy ELSE y
    OBVIOUS
  <2> HIDE DEF e, z, k
  <2>6. /\ BresenhamStep(walk[n], dx, dy, sx, sy) = [x |-> x + sx, y |-> z, err |-> dx - dy + e]
        /\ - dx <= 2 * e /\ 2 * e < dx /\ (dx = dy => e = 0)
    <3>1. 2 * (dx - dy + d) > - dy
      BY <2>2, <2>3
    <3>2. 2 * (dx - dy + d) < dx <=> 2 * (d - dy) < - dx
      BY <2>3
    <3>3. BresenhamStep(walk[n], dx, dy, sx, sy) = [x |-> x + sx, y |-> z, err |-> dx - dy + e]
      BY <2>2, <2>3, <2>10, <3>1, <3>2 DEF BresenhamStep
    <3>. QED
      BY <2>2, <2>3, <2>10, <3>3
  <2>7. walk[n + 1] = [x |-> x1 + sx * (n + 1), y |-> y1 + sy * k, err |-> dx - dy + e]
    BY <2>2, <2>3, <2>5, <2>6 DEF IsWalk
  <2>8. k \in Int
    BY DEF k
  <2>9. IsFlat(walk[n + 1], n + 1, k, x1, y1, dx, dy, sx, sy)
    BY <2>4, <2>6, <2>7 DEF IsFlat
  <2>. QED
    BY <2>8, <2>9
<1>3. S = Nat
  <2>1. S \in SUBSET Nat
    OBVIOUS
  <2> HIDE DEF S
  <2>. QED
    BY <1>1, <1>2, <2>1, Induction
<1>. QED
  BY <1>3

LEMMA SteepWalk ==
  ASSUME NEW x1 \in Int, NEW y1 \in Int, NEW dx \in Nat \ {0}, NEW dy \in Nat, dx < dy,
         NEW sx \in Int, NEW sy \in Int, NEW walk, IsWalk(walk, x1, y1, dx, dy, sx, sy)
  PROVE  \A n \in Nat : \E i \in Int : IsSteep(walk[n], n, i, x1, y1, dx, dy, sx, sy)
<1> DEFINE S == {n \in Nat : \E i \in Int : IsSteep(walk[n], n, i, x1, y1, dx, dy, sx, sy)}
<1>1. 0 \in S
  <2>1. IsSteep(walk[0], 0, 0, x1, y1, dx, dy, sx, sy)
    BY DEF IsWalk, IsSteep
  <2>. QED
    BY <2>1
<1>2. ASSUME NEW n \in S PROVE n + 1 \in S
  <2>1. PICK i \in Int : IsSteep(walk[n], n, i, x1, y1, dx, dy, sx, sy)
    OBVIOUS
  <2> DEFINE d == n * dx - i * dy
             x == x1 + sx * i
             y == y1 + sy * n
             over == 2 * (d + dx) > dy
             k == IF over THEN i + 1 ELSE i
             e == IF over THEN d + dx - dy ELSE d + dx
             z == IF over THEN x + sx ELSE x
  <2>2. /\ walk[n] = [x |-> x, y |-> y, err |-> dx - dy + d]
        /\ - dy < 2 * d /\ 2 * d <= dy
    BY <2>1 DEF IsSteep
  <2>3. d \in Int /\ x \in Int /\ y \in Int /\ n \in Nat
    OBVIOUS
  <2>4. e = (n + 1) * dx - k * dy
    OBVIOUS
  <2>5. z = x1 + sx * k /\ y + sy = y1 + sy * (n + 1)
    OBVIOUS
  <2> HIDE DEF x, y, d
  <2>10. /\ e = IF 2 * (d + dx) > dy THEN d + dx - dy ELSE d + dx
         /\ z = IF 2 * (d + dx) > dy THEN x + sx ELSE x
    OBVIOUS
  <2> HIDE DEF e, z, k
  <2>6. /\ BresenhamStep(walk[n], dx, dy, sx, sy) = [x |-> z, y |-> y + sy, err |-> dx - dy + e]
        /\ - dy < 2 * e /\ 2 * e <= dy
    <3>1. 2 * (dx - dy + d) < dx
      BY <2>2, <2>3
    <3>2. 2 * (dx - dy + d) > - dy <=> 2 * (d + dx) > dy
      BY <2>3
    <3>3. BresenhamStep(walk[n], dx, dy, sx, sy) = [x |-> z, y |-> y + sy, err |-> dx - dy + e]
      BY <2>2, <2>3, <2>10, <3>1, <3>2 DEF BresenhamStep
    <3>. QED
      BY <2>2, <2>3, <2>10, <3>3
  <2>7. walk[n + 1] = [x |-> x1 + sx * k, y |-> y1 + sy * (n + 1), err |-> dx - dy + e]
    BY <2>2, <2>3, <2>5, <2>6 DEF IsWalk
  <2>8. k \in Int
    BY DEF k
  <2>9. IsSteep(walk[n + 1], n + 1, k, x1, y1, dx, dy, sx, sy)
    BY <2>4, <2>6, <2>7 DEF IsSteep
  <2>. QED
    BY <2>8, <2>9
<1>3. S = Nat
  <2>1. S \in SUBSET Nat
    OBVIOUS
  <2> HIDE DEF S
  <2>. QED
    BY <1>1, <1>2, <2>1, Induction
<1>. QED
  BY <1>3

(* What LineIsStraight says of the points of a line.                       *)
Long(x1, y1, x2, y2) == Most(Distance(x1, x2), Distance(y1, y2))
Away(p, x1, y1, x2, y2) == (p[1] - x1) * (y2 - y1) - (p[2] - y1) * (x2 - x1)
IsStraight(line, x1, y1, x2, y2) ==
  /\ {<<x1, y1>>, <<x2, y2>>} \subseteq line
  /\ Cardinality(line) = Long(x1, y1, x2, y2) + 1
  /\ \A p \in line : 2 * Distance(Away(p, x1, y1, x2, y2), 0) <= Long(x1, y1, x2, y2)

LEMMA StraightFrom ==
  ASSUME NEW x1, NEW y1, NEW x2, NEW y2, NEW f, NEW n \in Nat, Long(x1, y1, x2, y2) = n,
         f[0] = <<x1, y1>>, f[n] = <<x2, y2>>, \A i, k \in 0 .. n : f[i] = f[k] => i = k,
         \A i \in 0 .. n : 2 * Distance(Away(f[i], x1, y1, x2, y2), 0) <= n
  PROVE  IsStraight(Values(f, n), x1, y1, x2, y2)
<1>1. Cardinality(Values(f, n)) = n + 1
  BY CountOfValues
<1>. QED
  BY <1>1 DEF IsStraight, Values

LEMMA Within ==
  ASSUME NEW d \in Int, NEW e \in Int, NEW n \in Nat, - n <= 2 * d, 2 * d <= n, e = d \/ e = - d
  PROVE  2 * Distance(e, 0) <= n
  BY DEF Distance, Most, Least

LEMMA NoMultiple ==
  ASSUME NEW k \in Int, NEW n \in Nat \ {0}, - n <= 2 * (k * n), 2 * (k * n) <= n
  PROVE  k = 0
<1>1. CASE k >= 1
  <2>1. k * n >= n
    BY <1>1
  <2>. QED
    BY <2>1
<1>2. CASE k <= -1
  <2>1. (- k) * n >= n
    BY <1>2
  <2>2. k * n = - ((- k) * n)
    OBVIOUS
  <2>. QED
    BY <2>1, <2>2
<1>. QED
  BY <1>1, <1>2

LEMMA SignOf ==
  ASSUME NEW a \in Int, NEW b \in Int, a # b
  PROVE  LET s == IF b > a THEN 1 ELSE -1
         IN  s \in {-1, 1} /\ b = a + s * Distance(a, b) /\ Distance(a, b) \in Nat \ {0}
  BY DistanceIs

(* A walk that goes on by one along the longer side with every round and   *)
(* is at the end after as many rounds as that side is long.                *)
LEMMA SlantedIsStraight ==
  ASSUME NEW x1 \in Int, NEW y1 \in Int, NEW x2 \in Int, NEW y2 \in Int, x1 # x2, y1 # y2
  PROVE  IsStraight(SlantedLine(x1, y1, x2, y2), x1, y1, x2, y2)
<1> DEFINE dx == Distance(x1, x2)
           dy == Distance(y1, y2)
           sx == IF x2 > x1 THEN 1 ELSE -1
           sy == IF y2 > y1 THEN 1 ELSE -1
           walk[n \in Nat] ==
             IF n = 0 THEN [x |-> x1, y |-> y1, err |-> dx - dy]
                      ELSE BresenhamStep(walk[n - 1], dx, dy, sx, sy)
           point == [n \in 0 .. dx + dy |-> <<walk[n].x, walk[n].y>>]
           far == {k \in DOMAIN point : \A m \in 0 .. k - 1 : point[m] # <<x2, y2>>}
<1>1. SlantedLine(x1, y1, x2, y2) = {point[n] : n \in far}
  BY DEF SlantedLine
<1>2. /\ dx \in Nat \ {0} /\ dy \in Nat \ {0} /\ sx \in {-1, 1} /\ sy \in {-1, 1}
      /\ x2 = x1 + sx * dx /\ y2 = y1 + sy * dy
  BY SignOf
<1> HIDE DEF dx, dy, sx, sy
<1>3. IsWalk(walk, x1, y1, dx, dy, sx, sy)
  BY <1>2, WalkExists
<1> HIDE DEF walk
<1>4. point[0] = <<x1, y1>>
  <2>1. walk[0] = [x |-> x1, y |-> y1, err |-> dx - dy] /\ 0 \in 0 .. dx + dy
    BY <1>2, <1>3 DEF IsWalk
  <2>. QED
    BY <2>1
<1> DEFINE n == Most(dx, dy)
           end == <<x2, y2>>
<1>5. /\ n \in Nat /\ n <= dx + dy
      /\ point[n] = end
      /\ \A i \in 0 .. n : i # n => point[i] # end
      /\ \A i, k \in 0 .. n : point[i] = point[k] => i = k
      /\ \A i \in 0 .. n : 2 * Distance(Away(point[i], x1, y1, x2, y2), 0) <= n
  <2>1. CASE dy <= dx
    <3>1. n = dx
      BY <1>2, <2>1 DEF Most
    <3>2. ASSUME NEW i \in 0 .. dx + dy
          PROVE  \E j \in Int : IsFlat(walk[i], i, j, x1, y1, dx, dy, sx, sy)
      BY <1>2, <1>3, <2>1, FlatWalk
    <3>3. ASSUME NEW i \in 0 .. dx + dy
          PROVE  \E j \in Int : /\ point[i] = <<x1 + sx * i, y1 + sy * j>>
                                /\ - dx <= 2 * (j * dx - i * dy) /\ 2 * (j * dx - i * dy) <= dx
      <4>1. PICK j \in Int : IsFlat(walk[i], i, j, x1, y1, dx, dy, sx, sy)
        BY <3>2
      <4>2. point[i] = <<x1 + sx * i, y1 + sy * j>>
        BY <4>1 DEF IsFlat
      <4>. QED
        BY <1>2, <4>1, <4>2 DEF IsFlat
    <3> HIDE DEF point
    <3>4. point[dx] = end
      <4>1. PICK j \in Int : /\ point[dx] = <<x1 + sx * dx, y1 + sy * j>>
                             /\ - dx <= 2 * (j * dx - dx * dy) /\ 2 * (j * dx - dx * dy) <= dx
        BY <1>2, <3>3
      <4>2. j - dy \in Int /\ j * dx - dx * dy = (j - dy) * dx
        BY <1>2
      <4>3. j - dy = 0
        BY <1>2, <4>1, <4>2, NoMultiple
      <4>. QED
        BY <1>2, <4>1, <4>3
    <3>5. ASSUME NEW i \in 0 .. dx PROVE point[i][1] = x1 + sx * i
      BY <1>2, <3>3
    <3>6. \A i, k \in 0 .. dx : x1 + sx * i = x1 + sx * k => i = k
      BY <1>2
    <3>7. \A i, k \in 0 .. dx : point[i] = point[k] => i = k
      BY <3>5, <3>6
    <3>8. \A i \in 0 .. dx : i # dx => point[i] # end
      BY <1>2, <3>4, <3>7
    <3>9. ASSUME NEW i \in 0 .. dx PROVE 2 * Distance(Away(point[i], x1, y1, x2, y2), 0) <= dx
      <4>1. PICK j \in Int : /\ point[i] = <<x1 + sx * i, y1 + sy * j>>
                             /\ - dx <= 2 * (j * dx - i * dy) /\ 2 * (j * dx - i * dy) <= dx
        <5>1. i \in 0 .. dx + dy
          BY <1>2
        <5>. QED
          BY <3>3, <5>1
      <4> DEFINE d == j * dx - i * dy
                 e == Away(point[i], x1, y1, x2, y2)
      <4>2. e = (sx * i) * (sy * dy) - (sy * j) * (sx * dx)
        BY <1>2, <4>1 DEF Away
      <4>3. d \in Int /\ (e = d \/ e = - d)
        BY <1>2, <4>2
      <4>4. - dx <= 2 * d /\ 2 * d <= dx
        BY <4>1
      <4> HIDE DEF d, e
      <4>5. 2 * Distance(e, 0) <= dx
        BY <1>2, <4>3, <4>4, Within
      <4>. QED
        BY <4>5 DEF e
    <3>. QED
      BY <1>2, <3>1, <3>4, <3>7, <3>8, <3>9
  <2>2. CASE dx < dy
    <3>1. n = dy
      BY <1>2, <2>2 DEF Most
    <3>2. ASSUME NEW i \in 0 .. dx + dy
          PROVE  \E j \in Int : IsSteep(walk[i], i, j, x1, y1, dx, dy, sx, sy)
      BY <1>2, <1>3, <2>2, SteepWalk
    <3>3. ASSUME NEW i \in 0 .. dx + dy
          PROVE  \E j \in Int : /\ point[i] = <<x1 + sx * j, y1 + sy * i>>
                                /\ - dy <= 2 * (i * dx - j * dy) /\ 2 * (i * dx - j * dy) <= dy
      <4>1. PICK j \in Int : IsSteep(walk[i], i, j, x1, y1, dx, dy, sx, sy)
        BY <3>2
      <4>2. point[i] = <<x1 + sx * j, y1 + sy * i>>
        BY <4>1 DEF IsSteep
      <4>. QED
        BY <1>2, <4>1, <4>2 DEF IsSteep
    <3> HIDE DEF point
    <3>4. point[dy] = end
      <4>1. PICK j \in Int : /\ point[dy] = <<x1 + sx * j, y1 + sy * dy>>
                             /\ - dy <= 2 * (dy * dx - j * dy) /\ 2 * (dy * dx - j * dy) <= dy
        BY <1>2, <3>3
      <4>2. dx - j \in Int /\ dy * dx - j * dy = (dx - j) * dy
        BY <1>2
      <4>3. dx - j = 0
        BY <1>2, <4>1, <4>2, NoMultiple
      <4>. QED
        BY <1>2, <4>1, <4>3
    <3>5. ASSUME NEW i \in 0 .. dy PROVE point[i][2] = y1 + sy * i
      BY <1>2, <3>3
    <3>6. \A i, k \in 0 .. dy : y1 + sy * i = y1 + sy * k => i = k
      BY <1>2
    <3>7. \A i, k \in 0 .. dy : point[i] = point[k] => i = k
      BY <3>5, <3>6
    <3>8. \A i \in 0 .. dy : i # dy => point[i] # end
      BY <1>2, <3>4, <3>7
    <3>9. ASSUME NEW i \in 0 .. dy PROVE 2 * Distance(Away(point[i], x1, y1, x2, y2), 0) <= dy
      <4>1. PICK j \in Int : /\ point[i] = <<x1 + sx * j, y1 + sy * i>>
                             /\ - dy <= 2 * (i * dx - j * dy) /\ 2 * (i * dx - j * dy) <= dy
        <5>1. i \in 0 .. dx + dy
          BY <1>2
        <5>. QED
          BY <3>3, <5>1
      <4> DEFINE d == i * dx - j * dy
                 e == Away(point[i], x1, y1, x2, y2)
      <4>2. e = (sx * j) * (sy * dy) - (sy * i) * (sx * dx)
        BY <1>2, <4>1 DEF Away
      <4>3. d \in Int /\ (e = d \/ e = - d)
        BY <1>2, <4>2
      <4>4. - dy <= 2 * d /\ 2 * d <= dy
        BY <4>1
      <4> HIDE DEF d, e
      <4>5. 2 * Distance(e, 0) <= dy
        BY <1>2, <4>3, <4>4, Within
      <4>. QED
        BY <4>5 DEF e
    <3>. QED
      BY <1>2, <3>1, <3>4, <3>7, <3>8, <3>9
  <2>3. dy <= dx \/ dx < dy
    BY <1>2
  <2>. QED
    BY <2>1, <2>2, <2>3, Zenon
<1>6. DOMAIN point = 0 .. dx + dy
  OBVIOUS
<1> HIDE DEF point
<1>7. far = 0 .. n
  <2>1. ASSUME NEW k \in far PROVE k \in 0 .. n
    <3>1. ~ n \in 0 .. k - 1
      BY <1>5
    <3>. QED
      BY <1>2, <1>5, <1>6, <3>1
  <2>2. ASSUME NEW k \in 0 .. n PROVE k \in far
    <3>1. \A m \in 0 .. k - 1 : m \in 0 .. n /\ m # n
      BY <1>5
    <3>2. k \in DOMAIN point
      BY <1>2, <1>5, <1>6
    <3>. QED
      BY <1>5, <3>1, <3>2
  <2>. QED
    BY <2>1, <2>2
<1>8. Long(x1, y1, x2, y2) = n
  BY DEF Long, dx, dy
<1> HIDE DEF far, n
<1>9. IsStraight(Values(point, n), x1, y1, x2, y2)
  BY <1>4, <1>5, <1>8, StraightFrom
<1>. QED
  BY <1>1, <1>7, <1>9 DEF Values

LEMMA LevelIsStraight ==
  ASSUME NEW x1 \in Int, NEW y1 \in Int, NEW x2 \in Int
  PROVE  IsStraight(Between(x1, x2) \X Between(y1, y1), x1, y1, x2, y1)
<1> DEFINE n == Distance(x1, x2)
           sx == IF x2 > x1 THEN 1 ELSE -1
           f == [i \in 0 .. n |-> <<x1 + sx * i, y1>>]
<1>1. n \in Nat /\ sx \in {-1, 1} /\ x2 = x1 + sx * n
  BY DistanceIs
<1>2. Between(x1, x2) = IF sx = 1 THEN x1 .. x2 ELSE x2 .. x1
  BY DEF Between, Least, Most
<1>3. Between(y1, y1) = {y1} /\ Distance(y1, y1) = 0
  BY DEF Between, Least, Most, Distance
<1> HIDE DEF n, sx
<1>4. ASSUME NEW p \in Between(x1, x2) \X Between(y1, y1) PROVE p \in Values(f, n)
  <2> DEFINE i == sx * (p[1] - x1)
  <2>1. i \in 0 .. n /\ p = <<x1 + sx * i, y1>>
    BY <1>1, <1>2, <1>3
  <2>2. p = f[i]
    BY <2>1
  <2> HIDE DEF f, i
  <2>. QED
    BY <2>1, <2>2 DEF Values
<1>5. ASSUME NEW i \in 0 .. n PROVE f[i] \in Between(x1, x2) \X Between(y1, y1)
  <2>1. x1 + sx * i \in Between(x1, x2)
    BY <1>1, <1>2
  <2>. QED
    BY <1>3, <2>1
<1>6. Values(f, n) = Between(x1, x2) \X Between(y1, y1)
  BY <1>4, <1>5 DEF Values
<1>7. f[0] = <<x1, y1>> /\ f[n] = <<x2, y1>>
  BY <1>1
<1>8. \A i, k \in 0 .. n : f[i] = f[k] => i = k
  BY <1>1
<1>9. ASSUME NEW i \in 0 .. n PROVE Away(f[i], x1, y1, x2, y1) = 0
  BY <1>1 DEF Away
<1>10. Distance(0, 0) = 0
  BY DEF Distance, Most, Least
<1>11. Long(x1, y1, x2, y1) = n
  BY <1>1, <1>3 DEF Long, Most, n
<1> HIDE DEF f
<1>12. \A i \in 0 .. n : 2 * Distance(Away(f[i], x1, y1, x2, y1), 0) <= n
  BY <1>1, <1>9, <1>10
<1>13. IsStraight(Values(f, n), x1, y1, x2, y1)
  BY <1>1, <1>7, <1>8, <1>11, <1>12, StraightFrom
<1>. QED
  BY <1>6, <1>13

LEMMA UprightIsStraight ==
  ASSUME NEW x1 \in Int, NEW y1 \in Int, NEW y2 \in Int
  PROVE  IsStraight(Between(x1, x1) \X Between(y1, y2), x1, y1, x1, y2)
<1> DEFINE n == Distance(y1, y2)
           sy == IF y2 > y1 THEN 1 ELSE -1
           f == [i \in 0 .. n |-> <<x1, y1 + sy * i>>]
<1>1. n \in Nat /\ sy \in {-1, 1} /\ y2 = y1 + sy * n
  BY DistanceIs
<1>2. Between(y1, y2) = IF sy = 1 THEN y1 .. y2 ELSE y2 .. y1
  BY DEF Between, Least, Most
<1>3. Between(x1, x1) = {x1} /\ Distance(x1, x1) = 0
  BY DEF Between, Least, Most, Distance
<1> HIDE DEF n, sy
<1>4. ASSUME NEW p \in Between(x1, x1) \X Between(y1, y2) PROVE p \in Values(f, n)
  <2> DEFINE i == sy * (p[2] - y1)
  <2>1. i \in 0 .. n /\ p = <<x1, y1 + sy * i>>
    BY <1>1, <1>2, <1>3
  <2>2. p = f[i]
    BY <2>1
  <2> HIDE DEF f, i
  <2>. QED
    BY <2>1, <2>2 DEF Values
<1>5. ASSUME NEW i \in 0 .. n PROVE f[i] \in Between(x1, x1) \X Between(y1, y2)
  <2>1. y1 + sy * i \in Between(y1, y2)
    BY <1>1, <1>2
  <2>. QED
    BY <1>3, <2>1
<1>6. Values(f, n) = Between(x1, x1) \X Between(y1, y2)
  BY <1>4, <1>5 DEF Values
<1>7. f[0] = <<x1, y1>> /\ f[n] = <<x1, y2>>
  BY <1>1
<1>8. \A i, k \in 0 .. n : f[i] = f[k] => i = k
  BY <1>1
<1>9. ASSUME NEW i \in 0 .. n PROVE Away(f[i], x1, y1, x1, y2) = 0
  BY <1>1 DEF Away
<1>10. Distance(0, 0) = 0
  BY DEF Distance, Most, Least
<1>11. Long(x1, y1, x1, y2) = n
  BY <1>1, <1>3 DEF Long, Most, n
<1> HIDE DEF f
<1>12. \A i \in 0 .. n : 2 * Distance(Away(f[i], x1, y1, x1, y2), 0) <= n
  BY <1>1, <1>9, <1>10
<1>13. IsStraight(Values(f, n), x1, y1, x1, y2)
  BY <1>1, <1>7, <1>8, <1>11, <1>12, StraightFrom
<1>. QED
  BY <1>6, <1>13

LEMMA DrawnIsStraight ==
  ASSUME NEW x1 \in Int, NEW y1 \in Int, NEW x2 \in Int, NEW y2 \in Int
  PROVE  IsStraight(DrawLine(x1, y1, x2, y2), x1, y1, x2, y2)
<1>1. CASE x1 # x2 /\ y1 # y2
  BY <1>1, SlantedIsStraight DEF DrawLine
<1>2. CASE y1 = y2
  BY <1>2, LevelIsStraight DEF DrawLine
<1>3. CASE x1 = x2
  BY <1>3, UprightIsStraight DEF DrawLine
<1>. QED
  BY <1>1, <1>2, <1>3

(* The one call that is made.                                              *)
CallInv == call = NoCall \/ call \in Lines \cup RoundedRects \cup Triangles \cup Bitmaps \cup Images

LEMMA CallAlways == GraphicsSpec => []CallInv
<1>1. GraphicsInit => CallInv
  BY DEF GraphicsInit, ShapesInit, CallInv
<1>2. CallInv /\ [GraphicsNext]_graphicsVars => CallInv'
  <2> SUFFICES ASSUME CallInv, [GraphicsNext]_graphicsVars PROVE CallInv'
    OBVIOUS
  <2>1. DrawShape \/ UNCHANGED call
    BY DEF GraphicsNext, Download, TakeScreenshot, ReadBitmap, DrawOnce, TakeText, UseFonts, UseInflate,
           pictureVars, graphicsVars
  <2>. QED
    BY <2>1 DEF CallInv, DrawShape
<1>. QED
  BY <1>1, <1>2, PTL DEF GraphicsSpec

(* For all end points, a line meets them both, takes one point per column  *)
(* or row of its longer side, and none of them is further than half a      *)
(* pixel away from it (GfxRenderer.cpp:276-316).                           *)
THEOREM LinesAreAlwaysStraight == GraphicsSpec => []LineIsStraight
<1>1. CallInv => LineIsStraight
  <2> SUFFICES ASSUME CallInv, call.op = "line" PROVE LineIsStraight
    BY DEF LineIsStraight
  <2>1. call \in Lines
    <3>1. call # NoCall /\ call \notin RoundedRects /\ call \notin Triangles /\ call \notin Bitmaps
          /\ call \notin Images
      BY DEF NoCall, RoundedRects, Triangles, Bitmaps, Images
    <3>. QED
      BY <3>1 DEF CallInv
  <2>2. call.x1 \in Int /\ call.y1 \in Int /\ call.x2 \in Int /\ call.y2 \in Int
    BY <2>1, ShapesAssumption DEF Lines, Coords
  <2>3. IsStraight(DrawLine(call.x1, call.y1, call.x2, call.y2), call.x1, call.y1, call.x2, call.y2)
    BY <2>2, DrawnIsStraight
  <2>. QED
    BY <2>3 DEF LineIsStraight, IsStraight, Away, Long
<1>. QED
  BY <1>1, CallAlways, PTL

-----------------------------------------------------------------------------
(* Squares grow with their sides.                                          *)
LEMMA Squares ==
  ASSUME NEW a \in Nat, NEW b \in Nat, a <= b
  PROVE  a * a <= b * b /\ a * a \in Nat /\ b * b \in Nat
<1>1. a * a <= a * b
  <2>1. a * (b - a) \in Nat
    OBVIOUS
  <2>. QED
    BY <2>1
<1>2. a * b <= b * b
  <2>1. b * (b - a) \in Nat
    OBVIOUS
  <2>. QED
    BY <2>1
<1>. QED
  BY <1>1, <1>2

-----------------------------------------------------------------------------
(* The discs of the corners.                                               *)
InDisc(a, b, r) == a * a + b * b <= r * r

LEMMA DiscIs ==
  ASSUME NEW r \in Nat, NEW b \in 0 .. r
  PROVE  /\ InDisc(0, b, r) /\ InDisc(b, 0, r)
         /\ \A a \in Nat : InDisc(a, b, r) => a <= r
         /\ \A a, d \in Nat : a <= d /\ InDisc(d, b, r) => InDisc(a, b, r)
         /\ \A a \in Nat : InDisc(a, b, r) <=> InDisc(b, a, r)
<1>1. b \in Nat /\ b * b <= r * r /\ b * b \in Nat /\ r * r \in Nat
  BY Squares
<1>2. ASSUME NEW a \in Nat, InDisc(a, b, r) PROVE a <= r
  <2> SUFFICES ASSUME a > r PROVE FALSE
    OBVIOUS
  <2>1. (r + 1) * (r + 1) <= a * a /\ a * a \in Nat
    BY Squares
  <2>2. (r + 1) * (r + 1) = r * r + 2 * r + 1
    OBVIOUS
  <2>. QED
    BY <1>1, <1>2, <2>1, <2>2 DEF InDisc
<1>3. ASSUME NEW a \in Nat, NEW d \in Nat, a <= d, InDisc(d, b, r) PROVE InDisc(a, b, r)
  BY <1>1, <1>3, Squares DEF InDisc
<1>. QED
  BY <1>1, <1>2, <1>3 DEF InDisc

(* How far a row of the disc reaches.                                      *)
LEMMA ReachIs ==
  ASSUME NEW r \in Nat, NEW b \in 0 .. r
  PROVE  LET reach == Max({x \in 0 .. r : x * x + b * b <= r * r})
         IN  /\ reach \in 0 .. r
             /\ \A a \in Nat : a <= reach <=> InDisc(a, b, r)
<1> DEFINE S == {x \in 0 .. r : InDisc(x, b, r)}
<1>1. {x \in 0 .. r : x * x + b * b <= r * r} = S
  BY DEF InDisc
<1>2. S \subseteq 0 .. r /\ 0 \in S
  BY DiscIs
<1>3. Max(S) \in S /\ \A m \in S : m <= Max(S)
  <2> HIDE DEF S
  <2>. QED
    BY <1>2, GreatestOf
<1>4. Max(S) \in 0 .. r /\ InDisc(Max(S), b, r)
  BY <1>3
<1>5. ASSUME NEW a \in Nat PROVE a <= Max(S) <=> InDisc(a, b, r)
  <2>1. ASSUME a <= Max(S) PROVE InDisc(a, b, r)
    BY <1>4, <2>1, DiscIs
  <2>2. ASSUME InDisc(a, b, r) PROVE a <= Max(S)
    <3>1. a \in 0 .. r
      BY <2>2, DiscIs
    <3>. QED
      BY <1>3, <2>2, <3>1
  <2>. QED
    BY <2>1, <2>2
<1> HIDE DEF S
<1>. QED
  BY <1>1, <1>4, <1>5

-----------------------------------------------------------------------------
(* Rectangles.                                                             *)

LEMMA LevelLine ==
  ASSUME NEW x \in Int, NEW y \in Int, NEW z \in Int
  PROVE  /\ DrawLine(x, y, z, y) = Between(x, z) \X {y}
         /\ DrawLine(x, y, x, z) = {x} \X Between(y, z)
<1>1. Between(x, x) = {x} /\ Between(y, y) = {y}
  BY DEF Between, Least, Most
<1>. QED
  BY <1>1 DEF DrawLine

(* A rectangle without columns still draws the two beside it.              *)
LEMMA FillRectIs ==
  ASSUME NEW x \in Int, NEW y \in Int, NEW w \in Nat, NEW h \in Int
  PROVE  FillRect(x, y, w, h) = IF w = 0 THEN Area(x - 1, y, 2, h) ELSE Area(x, y, w, h)
<1>1. \A f \in y .. y + h - 1 : DrawLine(x, f, x + w - 1, f) = Between(x, x + w - 1) \X {f}
  BY LevelLine
<1>2. Between(x, x + w - 1) = IF w = 0 THEN x - 1 .. x ELSE x .. x + w - 1
  BY DEF Between, Least, Most
<1>3. FillRect(x, y, w, h) = UNION {Between(x, x + w - 1) \X {f} : f \in y .. y + h - 1}
  BY <1>1 DEF FillRect
<1>4. UNION {Between(x, x + w - 1) \X {f} : f \in y .. y + h - 1} = Between(x, x + w - 1) \X (y .. y + h - 1)
  OBVIOUS
<1>. QED
  BY <1>2, <1>3, <1>4 DEF Area

(* The points a part of a shape covers, in whichever colour.               *)
Cover(part) == part.black \cup part.white

(* Black parts have nothing white; the gray ones are told apart by where   *)
(* their points are.                                                       *)
IsDark(p) == (p[1] + p[2]) % 2 = 0
Shaded(part, color) ==
  IF color = "Black" THEN part.white = {}
  ELSE (\A p \in part.black : IsDark(p)) /\ (\A p \in part.white : ~ IsDark(p))

LEMMA DitheredIs ==
  ASSUME NEW x \in Int, NEW y \in Int, NEW w \in Nat, NEW h \in Int, NEW color \in {"Black", "DarkGray"}
  PROVE  /\ Shaded(Dithered(x, y, w, h, color), color)
         /\ w = 0 /\ color = "Black" => Cover(Dithered(x, y, w, h, color)) = Area(x - 1, y, 2, h)
         /\ ~ (w = 0 /\ color = "Black") => Cover(Dithered(x, y, w, h, color)) = Area(x, y, w, h)
<1>1. CASE color = "Black"
  <2>1. Dithered(x, y, w, h, color) = [black |-> FillRect(x, y, w, h), white |-> {}]
    BY <1>1, Zenon DEF Dithered
  <2>. QED
    BY <1>1, <2>1, FillRectIs DEF Shaded, Cover
<1>2. CASE color = "DarkGray"
  <2> DEFINE area == (x .. x + w - 1) \X (y .. y + h - 1)
             dark == {p \in area : IF color = "LightGray" THEN p[1] % 2 = 0 /\ p[2] % 2 = 0
                                                          ELSE (p[1] + p[2]) % 2 = 0}
  <2>1. Dithered(x, y, w, h, color) = [black |-> dark, white |-> area \ dark]
    <3>1. color # "Clear" /\ color # "Black" /\ color # "White"
      BY <1>2
    <3>. QED
      BY <3>1, Zenon DEF Dithered
  <2>2. \A p \in area : p \in dark <=> IsDark(p)
    BY <1>2 DEF IsDark
  <2>3. Area(x, y, w, h) = area /\ dark \subseteq area
    BY DEF Area
  <2> HIDE DEF area, dark
  <2>4. Shaded([black |-> dark, white |-> area \ dark], color)
    BY <1>2, <2>2, <2>3 DEF Shaded
  <2>5. Cover([black |-> dark, white |-> area \ dark]) = area
    BY <2>3 DEF Cover
  <2>. QED
    BY <1>2, <2>1, <2>3, <2>4, <2>5
<1>. QED
  BY <1>1, <1>2

LEMMA ColumnsDithered ==
  ASSUME NEW x \in Int, NEW y \in Int, NEW w \in Nat, w # 0, NEW h \in Int, NEW color \in {"Black", "DarkGray"}
  PROVE  /\ Shaded(Dithered(x, y, w, h, color), color)
         /\ Cover(Dithered(x, y, w, h, color)) = Area(x, y, w, h)
  BY DitheredIs

(* What a whole made of parts covers.                                      *)
Whole(parts) == [black |-> UNION {s.black : s \in parts}, white |-> UNION {s.white : s \in parts}]

LEMMA WholeCovers ==
  ASSUME NEW parts, NEW color, \A s \in parts : Shaded(s, color)
  PROVE  /\ Shaded(Whole(parts), color)
         /\ Cover(Whole(parts)) = UNION {Cover(s) : s \in parts}
<1>1. Shaded(Whole(parts), color)
  <2>1. CASE color = "Black"
    BY <2>1, Zenon DEF Shaded, Whole
  <2>2. CASE color # "Black"
    BY <2>2, Zenon DEF Shaded, Whole
  <2>. QED
    BY <2>1, <2>2
<1>2. \A p : p \in Cover(Whole(parts)) <=> \E s \in parts : p \in s.black \/ p \in s.white
  BY Zenon DEF Cover, Whole
<1>3. \A p : p \in UNION {Cover(s) : s \in parts} <=> \E s \in parts : p \in s.black \/ p \in s.white
  BY Zenon DEF Cover
<1>. QED
  BY <1>1, <1>2, <1>3

-----------------------------------------------------------------------------
(* Round corners.                                                          *)

(* The quarter of a disc at a corner.                                      *)
InQuarter(p, r, cx, cy, xDir, yDir) ==
  \E dy \in 0 .. r : \E a \in 0 .. r : InDisc(a, dy, r) /\ p = <<cx + xDir * a, cy + yDir * dy>>

RowPoints(cx, y, xDir, reach) == {<<cx + xDir * a, y>> : a \in 0 .. reach}

LEMMA RowOfQuarter ==
  ASSUME NEW cx \in Int, NEW y \in Int, NEW xDir \in {1, -1}, NEW reach \in Nat
  PROVE  Area(Least(cx, cx + xDir * reach), y, reach + 1, 1) = RowPoints(cx, y, xDir, reach)
<1>1. Area(Least(cx, cx + xDir * reach), y, reach + 1, 1)
        = (Least(cx, cx + xDir * reach) .. Least(cx, cx + xDir * reach) + reach) \X {y}
  <2>1. y .. y + 1 - 1 = {y} /\ Least(cx, cx + xDir * reach) \in Int
    BY DEF Least
  <2>2. \A z \in Int : z + (reach + 1) - 1 = z + reach
    OBVIOUS
  <2>. QED
    BY <2>1, <2>2 DEF Area
<1>2. CASE xDir = 1
  <2>1. Least(cx, cx + xDir * reach) = cx
    BY <1>2 DEF Least
  <2>2. \A u : u \in cx .. cx + reach <=> \E a \in 0 .. reach : u = cx + 1 * a
    <3>1. ASSUME NEW u \in cx .. cx + reach PROVE \E a \in 0 .. reach : u = cx + 1 * a
      <4>1. u - cx \in 0 .. reach /\ u = cx + 1 * (u - cx)
        OBVIOUS
      <4>. QED
        BY <4>1
    <3>. QED
      BY <3>1
  <2>. QED
    BY <1>1, <1>2, <2>1, <2>2 DEF RowPoints
<1>3. CASE xDir = -1
  <2>1. Least(cx, cx + xDir * reach) = cx - reach
    BY <1>3 DEF Least
  <2>2. \A u : u \in cx - reach .. cx - reach + reach <=> \E a \in 0 .. reach : u = cx + (-1) * a
    <3>1. ASSUME NEW u \in cx - reach .. cx - reach + reach PROVE \E a \in 0 .. reach : u = cx + (-1) * a
      <4>1. cx - u \in 0 .. reach /\ u = cx + (-1) * (cx - u)
        OBVIOUS
      <4>. QED
        BY <4>1
    <3>. QED
      BY <3>1
  <2>. QED
    BY <1>1, <1>3, <2>1, <2>2 DEF RowPoints
<1>. QED
  BY <1>2, <1>3

(* No row of the corner is off the upright screen.                         *)
IsOnScreen(r, cy, yDir) == \A dy \in 0 .. r : cy + yDir * dy \in 0 .. PanelWidth - 1

ArcIsFilled(r, cx, cy, xDir, yDir, color) ==
  /\ Shaded(FillArc("Portrait", r, cx, cy, xDir, yDir, color), color)
  /\ \A p : p \in Cover(FillArc("Portrait", r, cx, cy, xDir, yDir, color)) <=> InQuarter(p, r, cx, cy, xDir, yDir)

LEMMA FillArcIs ==
  ASSUME NEW r \in Nat \ {0}, NEW cx \in Int, NEW cy \in Int, NEW xDir \in {1, -1}, NEW yDir \in {1, -1},
         NEW color \in {"Black", "DarkGray"}, IsOnScreen(r, cy, yDir)
  PROVE  ArcIsFilled(r, cx, cy, xDir, yDir, color)
<1> DEFINE reach(dy) == Max({x \in 0 .. r : x * x + dy * dy <= r * r})
           row(dy) == Dithered(Least(cx, cx + xDir * reach(dy)), cy + yDir * dy, reach(dy) + 1, 1, color)
           parts == {row(dy) : dy \in 0 .. r}
<1>1. {dy \in 0 .. r : cy + yDir * dy \in 0 .. ScreenHeight("Portrait") - 1} = 0 .. r
  BY DEF IsOnScreen, ScreenHeight, Upright
<1>2. FillArc("Portrait", r, cx, cy, xDir, yDir, color)
        = [black |-> UNION {row(dy).black : dy \in 0 .. r}, white |-> UNION {row(dy).white : dy \in 0 .. r}]
  <2>1. ~ r <= 0
    OBVIOUS
  <2>. QED
    BY <1>1, <2>1, Zenon DEF FillArc
<1>3. ASSUME NEW dy \in 0 .. r
      PROVE  /\ reach(dy) \in 0 .. r
             /\ \A a \in Nat : a <= reach(dy) <=> InDisc(a, dy, r)
  BY ReachIs, r \in Nat
<1> HIDE DEF reach
<1>4. ASSUME NEW dy \in 0 .. r
      PROVE  /\ Shaded(row(dy), color)
             /\ Cover(row(dy)) = RowPoints(cx, cy + yDir * dy, xDir, reach(dy))
  <2> DEFINE n == reach(dy)
             y == cy + yDir * dy
             x == Least(cx, cx + xDir * n)
  <2>1. n \in Nat
    BY <1>3
  <2> HIDE DEF n
  <2>0. cx \in Int /\ y \in Int /\ xDir \in {1, -1} /\ n \in Nat
    BY <2>1
  <2>2. n + 1 \in Nat /\ n + 1 # 0 /\ y \in Int /\ cx + xDir * n \in Int
    BY <2>1
  <2>3. x \in Int
    BY <2>2 DEF Least
  <2>4. Area(x, y, n + 1, 1) = RowPoints(cx, y, xDir, n)
    <3> HIDE DEF y
    <3>. QED
      BY <2>0, RowOfQuarter, Zenon
  <2> HIDE DEF x, y
  <2>5. /\ Shaded(Dithered(x, y, n + 1, 1, color), color)
        /\ Cover(Dithered(x, y, n + 1, 1, color)) = Area(x, y, n + 1, 1)
    BY <2>2, <2>3, ColumnsDithered
  <2>6. row(dy) = Dithered(x, y, n + 1, 1, color)
    BY DEF n, x, y
  <2>. QED
    BY <2>4, <2>5, <2>6 DEF n, y
<1> HIDE DEF row
<1>5. FillArc("Portrait", r, cx, cy, xDir, yDir, color) = Whole(parts)
  <2>1. \A p : p \in UNION {row(dy).black : dy \in 0 .. r} <=> \E dy \in 0 .. r : p \in row(dy).black
    BY Zenon
  <2>2. \A p : p \in UNION {row(dy).white : dy \in 0 .. r} <=> \E dy \in 0 .. r : p \in row(dy).white
    BY Zenon
  <2>3. \A p : p \in UNION {s.black : s \in parts} <=> \E dy \in 0 .. r : p \in row(dy).black
    BY Zenon
  <2>4. \A p : p \in UNION {s.white : s \in parts} <=> \E dy \in 0 .. r : p \in row(dy).white
    BY Zenon
  <2>5. UNION {row(dy).black : dy \in 0 .. r} = UNION {s.black : s \in parts}
    BY <2>1, <2>3, Zenon
  <2>6. UNION {row(dy).white : dy \in 0 .. r} = UNION {s.white : s \in parts}
    BY <2>2, <2>4, Zenon
  <2>7. Whole(parts) = [black |-> UNION {s.black : s \in parts}, white |-> UNION {s.white : s \in parts}]
    BY Zenon DEF Whole
  <2>. QED
    BY <1>2, <2>5, <2>6, <2>7, Zenon
<1>6. Shaded(Whole(parts), color) /\ Cover(Whole(parts)) = UNION {Cover(s) : s \in parts}
  <2>1. \A s \in parts : Shaded(s, color)
    BY <1>4
  <2> HIDE DEF parts
  <2>. QED
    BY <2>1, WholeCovers
<1>7. ASSUME NEW p PROVE p \in UNION {Cover(s) : s \in parts} <=> InQuarter(p, r, cx, cy, xDir, yDir)
  <2>1. p \in UNION {Cover(s) : s \in parts} <=> \E dy \in 0 .. r : p \in Cover(row(dy))
    BY Zenon
  <2>2. \A dy \in 0 .. r : p \in Cover(row(dy)) <=> \E a \in 0 .. reach(dy) : p = <<cx + xDir * a, cy + yDir * dy>>
    BY <1>4, Zenon DEF RowPoints
  <2>3. \A dy \in 0 .. r : \A a : a \in 0 .. reach(dy) <=> a \in 0 .. r /\ InDisc(a, dy, r)
    BY <1>3
  <2>. QED
    BY <2>1, <2>2, <2>3, Zenon DEF InQuarter
<1>. QED
  BY <1>5, <1>6, <1>7 DEF ArcIsFilled

(* How far a point lies beyond the centre of a corner, across and down.    *)
Across(c, w, r, u) == XDir(c) * (u - CenterX(c, 0, w, r))
Down(c, h, r, v) == YDir(c) * (v - CenterY(c, 0, h, r))

LEMMA CentersAre ==
  ASSUME NEW c \in Corners, NEW w \in Int, NEW h \in Int, NEW r \in Int
  PROVE  /\ CenterX(c, 0, w, r) = IF c \in {"TopLeft", "BottomLeft"} THEN r ELSE w - 1 - r
         /\ CenterY(c, 0, h, r) = IF c \in {"TopLeft", "TopRight"} THEN r ELSE h - 1 - r
         /\ XDir(c) = IF c \in {"TopLeft", "BottomLeft"} THEN -1 ELSE 1
         /\ YDir(c) = IF c \in {"TopLeft", "TopRight"} THEN -1 ELSE 1
  BY DEF XDir, YDir, CenterX, CenterY

LEMMA AcrossIs ==
  ASSUME NEW c \in Corners, NEW w \in Int, NEW r \in Int, NEW u \in Int
  PROVE  Across(c, w, r, u) = IF c \in {"TopLeft", "BottomLeft"} THEN r - u ELSE u - (w - 1 - r)
  BY DEF Across, XDir, CenterX

LEMMA DownIs ==
  ASSUME NEW c \in Corners, NEW h \in Int, NEW r \in Int, NEW v \in Int
  PROVE  Down(c, h, r, v) = IF c \in {"TopLeft", "TopRight"} THEN r - v ELSE v - (h - 1 - r)
  BY DEF Down, YDir, CenterY

InCorner(c, w, h, r, u, v) ==
  /\ Across(c, w, r, u) \in 0 .. r /\ Down(c, h, r, v) \in 0 .. r
  /\ InDisc(Across(c, w, r, u), Down(c, h, r, v), r)

ArcPoint(p, c, w, h, r) == \E u, v \in Int : p = <<u, v>> /\ InCorner(c, w, h, r, u, v)

LEMMA QuarterIs ==
  ASSUME NEW c \in Corners, NEW w \in Int, NEW h \in Int, NEW r \in Nat, NEW p
  PROVE  InQuarter(p, r, CenterX(c, 0, w, r), CenterY(c, 0, h, r), XDir(c), YDir(c)) <=>
           ArcPoint(p, c, w, h, r)
<1> DEFINE cx == CenterX(c, 0, w, r)
           cy == CenterY(c, 0, h, r)
           xd == XDir(c)
           yd == YDir(c)
<1>1. cx \in Int /\ cy \in Int /\ xd \in {1, -1} /\ yd \in {1, -1}
  BY CentersAre
<1>2. \A u, v : Across(c, w, r, u) = xd * (u - cx) /\ Down(c, h, r, v) = yd * (v - cy)
  BY DEF Across, Down
<1> HIDE DEF cx, cy, xd, yd
<1>3. ASSUME NEW a \in Int PROVE xd * ((cx + xd * a) - cx) = a /\ yd * ((cy + yd * a) - cy) = a
  BY <1>1
<1>4. ASSUME NEW u \in Int PROVE u = cx + xd * (xd * (u - cx)) /\ u = cy + yd * (yd * (u - cy))
  BY <1>1
<1>5. ASSUME NEW dy \in 0 .. r, NEW a \in 0 .. r, InDisc(a, dy, r), p = <<cx + xd * a, cy + yd * dy>>
      PROVE  ArcPoint(p, c, w, h, r)
  <2> DEFINE u == cx + xd * a
             v == cy + yd * dy
  <2>1. u \in Int /\ v \in Int
    BY <1>1
  <2>2. Across(c, w, r, u) = a /\ Down(c, h, r, v) = dy
    BY <1>2, <1>3
  <2> HIDE DEF u, v
  <2>3. p = <<u, v>>
    BY <1>5 DEF u, v
  <2>. QED
    BY <1>5, <2>1, <2>2, <2>3 DEF ArcPoint, InCorner
<1>6. ASSUME NEW u \in Int, NEW v \in Int, p = <<u, v>>, InCorner(c, w, h, r, u, v)
      PROVE  InQuarter(p, r, cx, cy, xd, yd)
  <2> DEFINE a == Across(c, w, r, u)
             dy == Down(c, h, r, v)
  <2>1. u = cx + xd * a /\ v = cy + yd * dy
    BY <1>2, <1>4
  <2>2. a \in 0 .. r /\ dy \in 0 .. r /\ InDisc(a, dy, r) /\ p = <<u, v>>
    BY <1>6 DEF InCorner
  <2> HIDE DEF a, dy
  <2>. QED
    BY <2>1, <2>2 DEF InQuarter
<1>7. InQuarter(p, r, cx, cy, xd, yd) => ArcPoint(p, c, w, h, r)
  BY <1>5, Zenon DEF InQuarter
<1>8. ArcPoint(p, c, w, h, r) => InQuarter(p, r, cx, cy, xd, yd)
  BY <1>6, Zenon DEF ArcPoint
<1>. QED
  BY <1>7, <1>8 DEF cx, cy, xd, yd

LEMMA RoundedRectIs ==
  ASSUME NEW w \in Int, NEW h \in Int, NEW r \in Nat, NEW round \in SUBSET Corners, NEW p
  PROVE  p \in RoundedRect(w, h, r, round) <=>
           \E u \in 0 .. w - 1, v \in 0 .. h - 1 :
              /\ p = <<u, v>>
              /\ \A c \in round : Across(c, w, r, u) > 0 /\ Down(c, h, r, v) > 0 =>
                                    InDisc(Across(c, w, r, u), Down(c, h, r, v), r)
<1>1. ASSUME NEW u \in 0 .. w - 1, NEW v \in 0 .. h - 1, NEW c \in round
      PROVE  Across(c, w, r, u) \in Int /\ Down(c, h, r, v) \in Int
  <2>1. c \in Corners /\ u \in Int /\ v \in Int
    OBVIOUS
  <2>. QED
    BY <2>1, AcrossIs, DownIs
<1>2. ASSUME NEW a \in Int, NEW b \in Int PROVE ~ (a * a + b * b > r * r) <=> InDisc(a, b, r)
  BY DEF InDisc
<1>3. p \in RoundedRect(w, h, r, round) <=>
        \E u \in 0 .. w - 1, v \in 0 .. h - 1 :
           /\ p = <<u, v>>
           /\ \A c \in round : ~ (/\ Across(c, w, r, u) > 0 /\ Down(c, h, r, v) > 0
                                  /\ Across(c, w, r, u) * Across(c, w, r, u)
                                       + Down(c, h, r, v) * Down(c, h, r, v) > r * r)
  BY DEF RoundedRect, Across, Down
<1>. QED
  BY <1>1, <1>2, <1>3

-----------------------------------------------------------------------------
(* Filled rectangles.                                                      *)

Rounded(w, h, r, round) ==
  /\ w \in Nat /\ h \in Nat /\ r \in Nat \ {0}
  /\ round \in {Corners, {"TopLeft", "TopRight"}, {"BottomLeft", "BottomRight"}}
  /\ w > 2 * r + 1 /\ h > r * (IF round = Corners THEN 2 ELSE 1) /\ h <= PanelWidth

Off(c, r, round) == IF c \in round THEN r + 1 ELSE 0

LEMMA RoundIs ==
  ASSUME NEW round \in {Corners, {"TopLeft", "TopRight"}, {"BottomLeft", "BottomRight"}}
  PROVE  /\ round \in SUBSET Corners
         /\ \/ /\ round = Corners /\ "TopLeft" \in round /\ "TopRight" \in round
               /\ "BottomLeft" \in round /\ "BottomRight" \in round
            \/ /\ round # Corners /\ "TopLeft" \in round /\ "TopRight" \in round
               /\ "BottomLeft" \notin round /\ "BottomRight" \notin round
            \/ /\ round # Corners /\ "TopLeft" \notin round /\ "TopRight" \notin round
               /\ "BottomLeft" \in round /\ "BottomRight" \in round
<1>1. CASE round = Corners
  BY <1>1 DEF Corners
<1>2. CASE round = {"TopLeft", "TopRight"}
  BY <1>2 DEF Corners
<1>3. CASE round = {"BottomLeft", "BottomRight"}
  BY <1>3 DEF Corners
<1>. QED
  BY <1>1, <1>2, <1>3

(* The points of the five parts, one by one.                               *)
InParts(w, h, r, round, u, v) ==
  \/ u \in r + 1 .. w - r - 2 /\ v \in 0 .. h - 1
  \/ u \in 0 .. r /\ v \in Off("TopLeft", r, round) .. h - 1 - Off("BottomLeft", r, round)
  \/ u \in w - r - 1 .. w - 1 /\ v \in Off("TopRight", r, round) .. h - 1 - Off("BottomRight", r, round)
  \/ \E c \in round : InCorner(c, w, h, r, u, v)

InRounded(w, h, r, round, u, v) ==
  /\ u \in 0 .. w - 1 /\ v \in 0 .. h - 1
  /\ \A c \in round : Across(c, w, r, u) > 0 /\ Down(c, h, r, v) > 0 =>
                         InDisc(Across(c, w, r, u), Down(c, h, r, v), r)

LEMMA PartsAreRounded ==
  ASSUME NEW w, NEW h, NEW r, NEW round, Rounded(w, h, r, round), NEW u \in Int, NEW v \in Int
  PROVE  /\ InParts(w, h, r, round, u, v) <=> InRounded(w, h, r, round, u, v)
         /\ u \in {r, w - r - 1} /\ v \in 0 .. h - 1 => InRounded(w, h, r, round, u, v)
<1>1. /\ w \in Int /\ h \in Int /\ r \in Int /\ r > 0 /\ w > 2 * r + 1 /\ h > r
      /\ round = Corners => h > 2 * r
      /\ round \in {Corners, {"TopLeft", "TopRight"}, {"BottomLeft", "BottomRight"}}
  BY DEF Rounded
<1>2. \A c \in Corners : /\ Across(c, w, r, u) = IF c \in {"TopLeft", "BottomLeft"} THEN r - u ELSE u - (w - 1 - r)
                         /\ Down(c, h, r, v) = IF c \in {"TopLeft", "TopRight"} THEN r - v ELSE v - (h - 1 - r)
  BY <1>1, AcrossIs, DownIs
<1>3. \A b \in 0 .. r : InDisc(0, b, r) /\ InDisc(b, 0, r)
  BY <1>1, DiscIs
<1>. QED
  BY <1>1, <1>2, <1>3, RoundIs DEF InParts, InRounded, InCorner, Off, Corners

LEMMA SidesFit ==
  ASSUME NEW w, NEW h, NEW r, NEW round, Rounded(w, h, r, round)
  PROVE  LET sides == IF round = Corners THEN 2 ELSE 1
         IN  Least(r, Least(w \div sides, h \div sides)) = r
<1>1. /\ w \in Nat /\ h \in Nat /\ r \in Nat /\ r > 0 /\ w > 2 * r + 1 /\ h > r
      /\ round = Corners => h > 2 * r
  BY DEF Rounded
<1>2. w \div 1 = w /\ h \div 1 = h /\ w \div 2 >= r /\ (round = Corners => h \div 2 >= r)
  BY <1>1
<1>3. w \div 2 \in Nat /\ h \div 2 \in Nat
  BY <1>1
<1>. QED
  BY <1>1, <1>2, <1>3 DEF Least

(* The five parts.                                                         *)
MiddlePart(w, h, r, color) == Dithered(r + 1, 0, w - 2 * r - 2, h, color)
ColumnPart(d, h, r, round, t, b, color) ==
  Dithered(d, Off(t, r, round), r + 1, h - Off(t, r, round) - Off(b, r, round), color)
HasRows(h, r, round, t, b) == h - 1 - Off(b, r, round) >= Off(t, r, round)
ArcPart(w, h, r, c, color) ==
  FillArc("Portrait", r, CenterX(c, 0, w, r), CenterY(c, 0, h, r), XDir(c), YDir(c), color)
FillParts(w, h, r, round, color) ==
  {MiddlePart(w, h, r, color)}
    \cup (IF HasRows(h, r, round, "TopLeft", "BottomLeft")
            THEN {ColumnPart(0, h, r, round, "TopLeft", "BottomLeft", color)} ELSE {})
    \cup (IF HasRows(h, r, round, "TopRight", "BottomRight")
            THEN {ColumnPart(w - r - 1, h, r, round, "TopRight", "BottomRight", color)} ELSE {})
    \cup {ArcPart(w, h, r, c, color) : c \in round}

LEMMA FillIsParts ==
  ASSUME NEW w, NEW h, NEW r, NEW round, Rounded(w, h, r, round), NEW color
  PROVE  FillRoundedRect("Portrait", 0, 0, w, h, r, round, color) = Whole(FillParts(w, h, r, round, color))
<1> DEFINE sides == IF round = Corners THEN 2 ELSE 1
           r0 == Least(r, Least(w \div sides, h \div sides))
           off(c) == IF c \in round THEN r0 + 1 ELSE 0
           middle == IF w - 2 * r0 > 0 THEN {Dithered(0 + r0 + 1, 0, w - 2 * r0 - 2, h, color)} ELSE {}
           column(d, t, b) ==
             IF 0 + h - 1 - off(b) >= 0 + off(t)
               THEN {Dithered(d, 0 + off(t), r0 + 1, h - off(t) - off(b), color)} ELSE {}
           arcs == {FillArc("Portrait", r0, CenterX(c, 0, w, r0), CenterY(c, 0, h, r0),
                            XDir(c), YDir(c), color) : c \in round}
           parts == middle \cup column(0, "TopLeft", "BottomLeft")
                      \cup column(0 + w - r0 - 1, "TopRight", "BottomRight") \cup arcs
<1>1. w \in Nat /\ h \in Nat /\ r \in Nat /\ r > 0 /\ w > 2 * r + 1 /\ h > r
  BY DEF Rounded
<1>2. r0 = r
  BY SidesFit
<1>3. FillRoundedRect("Portrait", 0, 0, w, h, r, round, color) = Whole(parts)
  <2>1. ~ (w <= 0 \/ h <= 0) /\ ~ r0 <= 0
    BY <1>1, <1>2
  <2>. QED
    BY <2>1, Zenon DEF FillRoundedRect, Whole
<1> HIDE DEF r0
<1>4. \A c : off(c) = Off(c, r, round) /\ off(c) \in Int
  BY <1>1, <1>2 DEF Off
<1> HIDE DEF off
<1>5. middle = {MiddlePart(w, h, r, color)}
  BY <1>1, <1>2 DEF MiddlePart
<1>6. \A t, b : 0 + h - 1 - off(b) = h - 1 - off(b) /\ 0 + off(t) = off(t)
  BY <1>1, <1>4
<1>7. column(0, "TopLeft", "BottomLeft") =
        IF HasRows(h, r, round, "TopLeft", "BottomLeft")
          THEN {ColumnPart(0, h, r, round, "TopLeft", "BottomLeft", color)} ELSE {}
  BY <1>2, <1>4, <1>6, Zenon DEF HasRows, ColumnPart
<1>8. column(0 + w - r0 - 1, "TopRight", "BottomRight") =
        IF HasRows(h, r, round, "TopRight", "BottomRight")
          THEN {ColumnPart(w - r - 1, h, r, round, "TopRight", "BottomRight", color)} ELSE {}
  <2>1. 0 + w - r0 - 1 = w - r - 1
    BY <1>1, <1>2
  <2>. QED
    BY <1>2, <1>4, <1>6, <2>1, Zenon DEF HasRows, ColumnPart
<1>9. arcs = {ArcPart(w, h, r, c, color) : c \in round}
  BY <1>2, Zenon DEF ArcPart
<1> HIDE DEF middle, column, arcs
<1>10. parts = FillParts(w, h, r, round, color)
  BY <1>5, <1>7, <1>8, <1>9, Zenon DEF FillParts
<1>. QED
  BY <1>3, <1>10, Zenon

LEMMA PartsCover ==
  ASSUME NEW w, NEW h, NEW r, NEW round, Rounded(w, h, r, round), NEW color \in {"Black", "DarkGray"}
  PROVE  /\ \A s \in FillParts(w, h, r, round, color) : Shaded(s, color)
         /\ \A p : (\E s \in FillParts(w, h, r, round, color) : p \in Cover(s)) <=>
                     \E u, v \in Int : p = <<u, v>> /\ InRounded(w, h, r, round, u, v)
<1>1. /\ w \in Int /\ h \in Int /\ r \in Nat \ {0} /\ w > 2 * r + 1 /\ h > r /\ h <= PanelWidth
      /\ round = Corners => h > 2 * r
      /\ round \in {Corners, {"TopLeft", "TopRight"}, {"BottomLeft", "BottomRight"}}
  BY DEF Rounded
<1>2. \A c : Off(c, r, round) \in Nat
  BY <1>1 DEF Off
<1>3. /\ Shaded(MiddlePart(w, h, r, color), color)
      /\ w - 2 * r - 2 = 0 /\ color = "Black" => Cover(MiddlePart(w, h, r, color)) = Area(r, 0, 2, h)
      /\ ~ (w - 2 * r - 2 = 0 /\ color = "Black") =>
           Cover(MiddlePart(w, h, r, color)) = Area(r + 1, 0, w - 2 * r - 2, h)
  <2>1. r + 1 \in Int /\ 0 \in Int /\ w - 2 * r - 2 \in Nat /\ r + 1 - 1 = r
    BY <1>1
  <2>. QED
    <3> DEFINE across == w - 2 * r - 2
               left == r + 1
               part == Dithered(left, 0, across, h, color)
    <3>1. across \in Nat /\ h \in Int /\ left \in Int /\ 0 \in Int
      BY <1>1, <2>1
    <3> HIDE DEF across, left
    <3>2. /\ Shaded(part, color)
          /\ across = 0 /\ color = "Black" => Cover(part) = Area(left - 1, 0, 2, h)
          /\ ~ (across = 0 /\ color = "Black") => Cover(part) = Area(left, 0, across, h)
      BY <3>1, DitheredIs
    <3>. QED
      BY <1>1, <2>1, <3>2 DEF MiddlePart, across, left
<1>4. ASSUME NEW d \in Int, NEW t, NEW b
      PROVE  /\ Shaded(ColumnPart(d, h, r, round, t, b, color), color)
             /\ Cover(ColumnPart(d, h, r, round, t, b, color)) =
                  Area(d, Off(t, r, round), r + 1, h - Off(t, r, round) - Off(b, r, round))
  <2>1. Off(t, r, round) \in Int /\ r + 1 \in Nat /\ r + 1 # 0 /\ h - Off(t, r, round) - Off(b, r, round) \in Int
    BY <1>1, <1>2
  <2>. QED
    BY <2>1, ColumnsDithered DEF ColumnPart
<1>5. ASSUME NEW c \in round
      PROVE  /\ Shaded(ArcPart(w, h, r, c, color), color)
             /\ \A p : p \in Cover(ArcPart(w, h, r, c, color)) <=> ArcPoint(p, c, w, h, r)
  <2>1. c \in Corners /\ w \in Int /\ h \in Int /\ r \in Nat
    BY <1>1, RoundIs
  <2>2. /\ CenterX(c, 0, w, r) \in Int /\ CenterY(c, 0, h, r) \in Int
        /\ XDir(c) \in {1, -1} /\ YDir(c) \in {1, -1}
        /\ \A dy \in 0 .. r : CenterY(c, 0, h, r) + YDir(c) * dy \in 0 .. PanelWidth - 1
    BY <1>1, <2>1, CentersAre, PanelAssumption
  <2>3. /\ Shaded(ArcPart(w, h, r, c, color), color)
        /\ \A p : p \in Cover(ArcPart(w, h, r, c, color)) <=>
                    InQuarter(p, r, CenterX(c, 0, w, r), CenterY(c, 0, h, r), XDir(c), YDir(c))
    <3> DEFINE cx == CenterX(c, 0, w, r)
               cy == CenterY(c, 0, h, r)
               xd == XDir(c)
               yd == YDir(c)
    <3>1. cx \in Int /\ cy \in Int /\ xd \in {1, -1} /\ yd \in {1, -1}
      BY <2>2
    <3>2. IsOnScreen(r, cy, yd)
      BY <2>2 DEF IsOnScreen
    <3>4. r \in Nat \ {0} /\ color \in {"Black", "DarkGray"}
      BY <1>1
    <3> HIDE DEF cx, cy, xd, yd
    <3>3. ArcIsFilled(r, cx, cy, xd, yd, color)
      BY <3>1, <3>2, <3>4, FillArcIs
    <3>. QED
      BY <3>3 DEF ArcIsFilled, ArcPart, cx, cy, xd, yd
  <2>. QED
    <3>1. \A p : InQuarter(p, r, CenterX(c, 0, w, r), CenterY(c, 0, h, r), XDir(c), YDir(c)) <=>
                 ArcPoint(p, c, w, h, r)
      BY <2>1, QuarterIs
    <3>. QED
      BY <2>3, <3>1
<1>6. \A s \in FillParts(w, h, r, round, color) : Shaded(s, color)
  <2>1. /\ Shaded(ColumnPart(0, h, r, round, "TopLeft", "BottomLeft", color), color)
        /\ Shaded(ColumnPart(w - r - 1, h, r, round, "TopRight", "BottomRight", color), color)
    BY <1>1, <1>4
  <2>. QED
    BY <1>3, <1>5, <2>1, Zenon DEF FillParts
<1>7. ASSUME NEW p, NEW s \in FillParts(w, h, r, round, color), p \in Cover(s)
      PROVE  \E u, v \in Int : p = <<u, v>> /\ InRounded(w, h, r, round, u, v)
  <2>1. \E u, v \in Int :
          /\ p = <<u, v>>
          /\ InParts(w, h, r, round, u, v) \/ (u \in {r, w - r - 1} /\ v \in 0 .. h - 1)
    <3>1. CASE s = MiddlePart(w, h, r, color)
      BY <1>1, <1>3, <1>7, <3>1 DEF Area, InParts
    <3>2. CASE s = ColumnPart(0, h, r, round, "TopLeft", "BottomLeft", color)
      <4>1. p \in Area(0, Off("TopLeft", r, round), r + 1,
                       h - Off("TopLeft", r, round) - Off("BottomLeft", r, round))
        BY <1>4, <1>7, <3>2
      <4>. QED
        BY <1>1, <1>2, <4>1 DEF Area, InParts
    <3>3. CASE s = ColumnPart(w - r - 1, h, r, round, "TopRight", "BottomRight", color)
      <4>1. p \in Area(w - r - 1, Off("TopRight", r, round), r + 1,
                       h - Off("TopRight", r, round) - Off("BottomRight", r, round))
        BY <1>1, <1>4, <1>7, <3>3
      <4>. QED
        BY <1>1, <1>2, <4>1 DEF Area, InParts
    <3>4. CASE \E c \in round : s = ArcPart(w, h, r, c, color)
      BY <1>5, <1>7, <3>4 DEF ArcPoint, InParts
    <3>. QED
      BY <1>7, <3>1, <3>2, <3>3, <3>4, Zenon DEF FillParts
  <2>. QED
    BY <2>1, PartsAreRounded
<1>8. ASSUME NEW u \in Int, NEW v \in Int, InRounded(w, h, r, round, u, v)
      PROVE  \E s \in FillParts(w, h, r, round, color) : <<u, v>> \in Cover(s)
  <2>1. InParts(w, h, r, round, u, v)
    BY <1>8, PartsAreRounded
  <2>2. CASE u \in r + 1 .. w - r - 2 /\ v \in 0 .. h - 1
    BY <1>1, <1>3, <2>2 DEF Area, FillParts
  <2>3. CASE u \in 0 .. r /\ v \in Off("TopLeft", r, round) .. h - 1 - Off("BottomLeft", r, round)
    <3>1. HasRows(h, r, round, "TopLeft", "BottomLeft")
      BY <1>1, <1>2, <2>3 DEF HasRows
    <3>2. <<u, v>> \in Area(0, Off("TopLeft", r, round), r + 1,
                            h - Off("TopLeft", r, round) - Off("BottomLeft", r, round))
      BY <1>1, <1>2, <2>3 DEF Area
    <3>. QED
      BY <1>4, <3>1, <3>2 DEF FillParts
  <2>4. CASE u \in w - r - 1 .. w - 1 /\ v \in Off("TopRight", r, round) .. h - 1 - Off("BottomRight", r, round)
    <3>1. HasRows(h, r, round, "TopRight", "BottomRight")
      BY <1>1, <1>2, <2>4 DEF HasRows
    <3>2. <<u, v>> \in Area(w - r - 1, Off("TopRight", r, round), r + 1,
                            h - Off("TopRight", r, round) - Off("BottomRight", r, round))
      BY <1>1, <1>2, <2>4 DEF Area
    <3>. QED
      BY <1>1, <1>4, <3>1, <3>2 DEF FillParts
  <2>5. CASE \E c \in round : InCorner(c, w, h, r, u, v)
    BY <1>5, <2>5 DEF ArcPoint, FillParts
  <2>. QED
    BY <2>1, <2>2, <2>3, <2>4, <2>5 DEF InParts
<1>. QED
  BY <1>6, <1>7, <1>8

LEMMA FillIsRounded ==
  ASSUME NEW w, NEW h, NEW r, NEW round, Rounded(w, h, r, round), NEW color \in {"Black", "DarkGray"}
  PROVE  LET fill == FillRoundedRect("Portrait", 0, 0, w, h, r, round, color)
         IN  Shaded(fill, color) /\ Cover(fill) = RoundedRect(w, h, r, round)
<1> DEFINE fill == FillRoundedRect("Portrait", 0, 0, w, h, r, round, color)
           parts == FillParts(w, h, r, round, color)
<1>1. fill = Whole(parts)
  BY FillIsParts
<1>2. Shaded(Whole(parts), color) /\ Cover(Whole(parts)) = UNION {Cover(s) : s \in parts}
  BY PartsCover, WholeCovers
<1>3. \A p : p \in UNION {Cover(s) : s \in parts} <=> \E u, v \in Int : p = <<u, v>> /\ InRounded(w, h, r, round, u, v)
  <2>1. \A p : p \in UNION {Cover(s) : s \in parts} <=> \E s \in parts : p \in Cover(s)
    BY Zenon
  <2>. QED
    BY <2>1, PartsCover
<1>4. w \in Int /\ h \in Int /\ r \in Nat /\ round \in SUBSET Corners
  BY RoundIs DEF Rounded
<1>5. \A p : p \in RoundedRect(w, h, r, round) <=> \E u, v \in Int : p = <<u, v>> /\ InRounded(w, h, r, round, u, v)
  BY <1>4, RoundedRectIs DEF InRounded
<1> HIDE DEF fill, parts
<1>6. Cover(fill) = RoundedRect(w, h, r, round)
  BY <1>1, <1>2, <1>3, <1>5
<1>. QED
  BY <1>1, <1>2, <1>6 DEF fill

-----------------------------------------------------------------------------
(* Borders.                                                                *)

(* Between the circles of a border.                                        *)
InRing(a, b, r, stroke) == InDisc(a, b, r) /\ (a >= r - stroke \/ a * a + b * b >= (r - stroke) * (r - stroke))

ArcIsDrawn(r, cx, cy, xDir, yDir, lineWidth) ==
  /\ \A p \in DrawArc(r, cx, cy, xDir, yDir, lineWidth) : InQuarter(p, r, cx, cy, xDir, yDir)
  /\ \A a, b \in 0 .. r : InRing(a, b, r, Least(lineWidth, r)) =>
        <<cx + xDir * a, cy + yDir * b>> \in DrawArc(r, cx, cy, xDir, yDir, lineWidth)

LEMMA RingIsDrawn ==
  ASSUME NEW r \in Nat \ {0}, NEW cx \in Int, NEW cy \in Int, NEW xDir \in {1, -1}, NEW yDir \in {1, -1},
         NEW lineWidth \in Nat \ {0}
  PROVE  ArcIsDrawn(r, cx, cy, xDir, yDir, lineWidth)
<1> DEFINE stroke == Least(lineWidth, r)
           inner == Most(r - Least(lineWidth, r), 0)
           outX(dy) == Max({x \in 0 .. r : x * x + dy * dy <= r * r})
           ring(dy) == {x \in 0 .. inner : x = inner \/ x * x + dy * dy >= inner * inner}
           inX(dy) == Min(ring(dy))
           spots == {q \in (0 .. r) \X (0 .. r) : inX(q[2]) <= q[1] /\ q[1] <= outX(q[2])}
<1>1. DrawArc(r, cx, cy, xDir, yDir, lineWidth) = {<<cx + xDir * p[1], cy + yDir * p[2]>> : p \in spots}
  <2>1. ~ r <= 0
    OBVIOUS
  <2>. QED
    BY <2>1, Zenon DEF DrawArc
<1>2. stroke \in 1 .. r /\ inner = r - stroke /\ inner \in 0 .. r - 1
  BY DEF Least, Most
<1>3. ASSUME NEW b \in 0 .. r, NEW a \in 0 .. r PROVE a <= outX(b) <=> InDisc(a, b, r)
  BY ReachIs, r \in Nat
<1>4. ASSUME NEW b \in 0 .. r, NEW a \in 0 .. r, a >= inner \/ a * a + b * b >= inner * inner PROVE inX(b) <= a
  <2>1. ring(b) \in SUBSET Nat /\ inner \in ring(b)
    BY <1>2
  <2>2. Min(ring(b)) \in ring(b) /\ \A m \in ring(b) : Min(ring(b)) <= m
    <3> HIDE DEF ring
    <3>. QED
      BY <2>1, SmallestOf
  <2>3. CASE a >= inner
    <3> HIDE DEF inner
    <3>1. Min(ring(b)) \in 0 .. inner
      BY <2>2
    <3> HIDE DEF ring
    <3>. QED
      BY <1>2, <2>3, <3>1
  <2>4. CASE ~ a >= inner
    <3>1. a \in ring(b)
      <4> HIDE DEF inner
      <4>. QED
        BY <1>2, <1>4, <2>4
    <3>. QED
      BY <2>2, <3>1
  <2>. QED
    BY <2>3, <2>4
<1> HIDE DEF inX, outX
<1>5. ASSUME NEW q \in spots
      PROVE  InQuarter(<<cx + xDir * q[1], cy + yDir * q[2]>>, r, cx, cy, xDir, yDir)
  <2>1. q[1] \in 0 .. r /\ q[2] \in 0 .. r /\ q[1] <= outX(q[2])
    OBVIOUS
  <2>2. InDisc(q[1], q[2], r)
    BY <1>3, <2>1
  <2>. QED
    BY <2>1, <2>2, Zenon DEF InQuarter
<1>6. ASSUME NEW a \in 0 .. r, NEW b \in 0 .. r, InRing(a, b, r, stroke)
      PROVE  <<a, b>> \in spots
  <2>1. a <= outX(b)
    BY <1>3, <1>6 DEF InRing
  <2>2. a >= inner \/ a * a + b * b >= inner * inner
    <3> HIDE DEF inner, stroke
    <3>. QED
      BY <1>2, <1>6 DEF InRing
  <2>3. inX(b) <= a
    BY <1>4, <2>2
  <2>. QED
    BY <2>1, <2>3
<1> HIDE DEF spots, stroke
<1>7. ASSUME NEW a \in 0 .. r, NEW b \in 0 .. r, <<a, b>> \in spots
      PROVE  <<cx + xDir * a, cy + yDir * b>> \in {<<cx + xDir * p[1], cy + yDir * p[2]>> : p \in spots}
  <2>1. <<a, b>>[1] = a /\ <<a, b>>[2] = b
    OBVIOUS
  <2>. QED
    BY <1>7, <2>1, Zenon
<1>8. \A p \in {<<cx + xDir * q[1], cy + yDir * q[2]>> : q \in spots} : InQuarter(p, r, cx, cy, xDir, yDir)
  BY <1>5, Zenon
<1>. QED
  BY <1>1, <1>6, <1>7, <1>8, Zenon DEF ArcIsDrawn, stroke

BorderArc(w, h, r, c, lineWidth) ==
  DrawArc(r, CenterX(c, 0, w, r), CenterY(c, 0, h, r), XDir(c), YDir(c), lineWidth)

LEMMA BorderIs ==
  ASSUME NEW w, NEW h, NEW r, Rounded(w, h, r, Corners), NEW lineWidth \in Nat \ {0}
  PROVE  LET stroke == Least(lineWidth, r)
         IN  DrawRoundedRect(0, 0, w, h, lineWidth, r, Corners) =
               Area(r, 0, w - 2 * r, stroke) \cup Area(r, h - stroke, w - 2 * r, stroke)
                 \cup Area(0, r, stroke, h - 2 * r) \cup Area(w - stroke, r, stroke, h - 2 * r)
                 \cup UNION {BorderArc(w, h, r, c, lineWidth) : c \in Corners}
<1> DEFINE r0 == Least(r, Least(w \div 2, h \div 2))
           s0 == Least(lineWidth, r0)
           top(c, d)  == IF Corners \cap c # {} /\ w - 2 * r0 > 0
                           THEN FillRect(0 + r0, d, w - 2 * r0, s0) ELSE {}
           side(c, d) == IF Corners \cap c # {} /\ h - 2 * r0 > 0
                           THEN FillRect(d, 0 + r0, s0, h - 2 * r0) ELSE {}
           right == 0 + w - 1
           bottom == 0 + h - 1
           all == top({"TopLeft", "TopRight"}, 0)
                    \cup top({"BottomLeft", "BottomRight"}, bottom - s0 + 1)
                    \cup side({"TopLeft", "BottomLeft"}, 0)
                    \cup side({"TopRight", "BottomRight"}, right - s0 + 1)
                    \cup UNION {DrawArc(r0, CenterX(c, 0, w, r0), CenterY(c, 0, h, r0),
                                        XDir(c), YDir(c), lineWidth) : c \in Corners}
           stroke == Least(lineWidth, r)
<1>1. w \in Int /\ h \in Int /\ r \in Nat \ {0} /\ w > 2 * r + 1 /\ h > 2 * r /\ w > 0 /\ h > 0
  BY DEF Rounded
<1>2. r0 = r
  BY SidesFit
<1>3. DrawRoundedRect(0, 0, w, h, lineWidth, r, Corners) = all
  <2>1. DrawRoundedRect(0, 0, w, h, lineWidth, r, Corners) =
          IF lineWidth <= 0 \/ w <= 0 \/ h <= 0 THEN {}
          ELSE IF r0 <= 0 THEN DrawThickRect(0, 0, w, h, lineWidth)
          ELSE all
    BY DEF DrawRoundedRect
  <2>2. ~ (lineWidth <= 0 \/ w <= 0 \/ h <= 0) /\ ~ r0 <= 0
    BY <1>1, <1>2
  <2> HIDE DEF r0, all
  <2>. QED
    BY <2>1, <2>2
<1> HIDE DEF r0
<1>4. s0 = stroke /\ stroke \in Int /\ stroke > 0
  BY <1>1, <1>2 DEF Least
<1> HIDE DEF s0, stroke
<1>5. /\ Corners \cap {"TopLeft", "TopRight"} # {} /\ Corners \cap {"BottomLeft", "BottomRight"} # {}
      /\ Corners \cap {"TopLeft", "BottomLeft"} # {} /\ Corners \cap {"TopRight", "BottomRight"} # {}
  BY DEF Corners
<1>6. w - 2 * r0 > 0 /\ h - 2 * r0 > 0 /\ 0 + r0 = r /\ w - 2 * r0 = w - 2 * r /\ h - 2 * r0 = h - 2 * r
  BY <1>1, <1>2
<1>7. bottom - s0 + 1 = h - stroke /\ right - s0 + 1 = w - stroke
  BY <1>1, <1>4
<1>8. ASSUME NEW d \in Int
      PROVE  FillRect(r, d, w - 2 * r, stroke) = Area(r, d, w - 2 * r, stroke)
  <2>1. w - 2 * r \in Nat /\ w - 2 * r # 0
    BY <1>1
  <2>. QED
    BY <1>1, <1>4, <2>1, FillRectIs
<1>9. ASSUME NEW d \in Int
      PROVE  FillRect(d, r, stroke, h - 2 * r) = Area(d, r, stroke, h - 2 * r)
  <2>1. h - 2 * r \in Int /\ stroke \in Nat /\ stroke # 0
    BY <1>1, <1>4
  <2>. QED
    BY <1>1, <2>1, FillRectIs
<1>10. /\ top({"TopLeft", "TopRight"}, 0) = Area(r, 0, w - 2 * r, stroke)
       /\ top({"BottomLeft", "BottomRight"}, bottom - s0 + 1) = Area(r, h - stroke, w - 2 * r, stroke)
  <2>1. h - stroke \in Int
    BY <1>1, <1>4
  <2>. QED
    BY <1>4, <1>5, <1>6, <1>7, <1>8, <2>1
<1>11. /\ side({"TopLeft", "BottomLeft"}, 0) = Area(0, r, stroke, h - 2 * r)
       /\ side({"TopRight", "BottomRight"}, right - s0 + 1) = Area(w - stroke, r, stroke, h - 2 * r)
  <2>1. w - stroke \in Int
    BY <1>1, <1>4
  <2>. QED
    BY <1>4, <1>5, <1>6, <1>7, <1>9, <2>1
<1>12. {DrawArc(r0, CenterX(c, 0, w, r0), CenterY(c, 0, h, r0), XDir(c), YDir(c), lineWidth) : c \in Corners}
         = {BorderArc(w, h, r, c, lineWidth) : c \in Corners}
  BY <1>2, Zenon DEF BorderArc
<1> HIDE DEF top, side
<1>. QED
  BY <1>3, <1>10, <1>11, <1>12, Zenon DEF stroke

(* The arcs of the border, by how far a point is beyond the centre.        *)
LEMMA BorderArcIs ==
  ASSUME NEW w, NEW h, NEW r, Rounded(w, h, r, Corners), NEW lineWidth \in Nat \ {0}, NEW c \in Corners
  PROVE  /\ \A p \in BorderArc(w, h, r, c, lineWidth) : ArcPoint(p, c, w, h, r)
         /\ \A u, v \in Int :
              /\ Across(c, w, r, u) \in 0 .. r /\ Down(c, h, r, v) \in 0 .. r
              /\ InRing(Across(c, w, r, u), Down(c, h, r, v), r, Least(lineWidth, r))
              => <<u, v>> \in BorderArc(w, h, r, c, lineWidth)
<1> DEFINE cx == CenterX(c, 0, w, r)
           cy == CenterY(c, 0, h, r)
           xd == XDir(c)
           yd == YDir(c)
<1>1. w \in Int /\ h \in Int /\ r \in Nat \ {0} /\ r \in Nat
  BY DEF Rounded
<1>2. cx \in Int /\ cy \in Int /\ xd \in {1, -1} /\ yd \in {1, -1}
  BY <1>1, CentersAre
<1>3. \A u, v : Across(c, w, r, u) = xd * (u - cx) /\ Down(c, h, r, v) = yd * (v - cy)
  BY DEF Across, Down
<1>4. \A p : InQuarter(p, r, cx, cy, xd, yd) <=> ArcPoint(p, c, w, h, r)
  BY <1>1, QuarterIs
<1>5. BorderArc(w, h, r, c, lineWidth) = DrawArc(r, cx, cy, xd, yd, lineWidth)
  BY DEF BorderArc
<1> HIDE DEF cx, cy, xd, yd
<1>6. ASSUME NEW u \in Int PROVE u = cx + xd * (xd * (u - cx)) /\ u = cy + yd * (yd * (u - cy))
  BY <1>2
<1>7. ArcIsDrawn(r, cx, cy, xd, yd, lineWidth)
  BY <1>1, <1>2, RingIsDrawn
<1>8. ASSUME NEW u \in Int, NEW v \in Int, Across(c, w, r, u) \in 0 .. r, Down(c, h, r, v) \in 0 .. r,
             InRing(Across(c, w, r, u), Down(c, h, r, v), r, Least(lineWidth, r))
      PROVE  <<u, v>> \in BorderArc(w, h, r, c, lineWidth)
  <2> DEFINE a == Across(c, w, r, u)
             b == Down(c, h, r, v)
  <2>1. u = cx + xd * a /\ v = cy + yd * b
    BY <1>3, <1>6
  <2>2. a \in 0 .. r /\ b \in 0 .. r /\ InRing(a, b, r, Least(lineWidth, r))
    BY <1>8
  <2> HIDE DEF a, b
  <2>3. <<cx + xd * a, cy + yd * b>> \in DrawArc(r, cx, cy, xd, yd, lineWidth)
    BY <1>7, <2>2 DEF ArcIsDrawn
  <2>. QED
    BY <1>5, <2>1, <2>3
<1>. QED
  BY <1>4, <1>5, <1>7, <1>8 DEF ArcIsDrawn

(* A point of the disc with a neighbour outside of it is in the ring.      *)
LEMMA RimIsRing ==
  ASSUME NEW r \in Nat \ {0}, NEW stroke \in 1 .. r, NEW a \in 0 .. r, NEW b \in 0 .. r,
         InDisc(a, b, r), ~ InDisc(a + 1, b, r) \/ ~ InDisc(a, b + 1, r)
  PROVE  InRing(a, b, r, stroke)
<1> DEFINE inner == r - stroke
<1>1. inner \in Nat /\ inner + 1 <= r /\ a \in Nat /\ b \in Nat
  OBVIOUS
<1>2. (inner + 1) * (inner + 1) <= r * r /\ (inner + 1) * (inner + 1) = inner * inner + 2 * inner + 1
  BY <1>1, Squares
<1>3. a * a \in Nat /\ b * b \in Nat /\ inner * inner \in Nat /\ r * r \in Nat
  BY <1>1, Squares
<1>4. (a + 1) * (a + 1) = a * a + 2 * a + 1 /\ (b + 1) * (b + 1) = b * b + 2 * b + 1
  BY <1>1
<1>5. b >= inner => b * b >= inner * inner
  BY <1>1, Squares
<1>6. a >= inner \/ a * a + b * b >= inner * inner
  <2> HIDE DEF inner
  <2>. QED
    BY <1>1, <1>2, <1>3, <1>4, <1>5 DEF InDisc
<1>. QED
  BY <1>6 DEF InRing

(* Beside the corners a point one step beyond the centre is in the disc.   *)
LEMMA OneStep ==
  ASSUME NEW r \in Nat \ {0}, NEW b \in Int, b < r
  PROVE  b >= 0 => InDisc(1, b, r) /\ InDisc(b, 1, r)
<1> SUFFICES ASSUME b >= 0 PROVE InDisc(1, b, r) /\ InDisc(b, 1, r)
  OBVIOUS
<1>1. (b + 1) * (b + 1) <= r * r /\ (b + 1) * (b + 1) = b * b + 2 * b + 1 /\ b * b \in Nat
  BY Squares
<1>. QED
  BY <1>1 DEF InDisc

LEMMA DiscIsIn ==
  ASSUME NEW r \in Nat, NEW a \in 1 .. r, NEW b \in 1 .. r, InDisc(a + 1, b, r), InDisc(a, b + 1, r)
  PROVE  a + 1 <= r /\ b + 1 <= r
<1>1. a * a \in Nat /\ b * b \in Nat
  BY Squares
<1>2. ASSUME NEW x \in Nat, x * x <= r * r PROVE x <= r
  <2>1. CASE x > r
    <3>1. (r + 1) * (r + 1) <= x * x /\ (r + 1) * (r + 1) = r * r + 2 * r + 1 /\ r * r \in Nat /\ x * x \in Nat
      BY <2>1, Squares
    <3>. QED
      BY <1>2, <3>1
  <2>. QED
    BY <2>1
<1>3. (a + 1) * (a + 1) <= r * r /\ (b + 1) * (b + 1) <= r * r
  <2>1. (a + 1) * (a + 1) \in Nat /\ (b + 1) * (b + 1) \in Nat /\ r * r \in Nat
    BY Squares
  <2>. QED
    BY <1>1, <2>1 DEF InDisc
<1>. QED
  BY <1>2, <1>3

LEMMA SmallerIsIn ==
  ASSUME NEW r \in Nat, NEW a \in 1 .. r, NEW b \in 1 .. r, InDisc(a, b, r)
  PROVE  InDisc(a - 1, b, r) /\ InDisc(a, b - 1, r)
<1>1. (a - 1) * (a - 1) <= a * a /\ (b - 1) * (b - 1) <= b * b
  BY Squares
<1>2. a * a \in Int /\ b * b \in Int /\ (a - 1) * (a - 1) \in Int /\ (b - 1) * (b - 1) \in Int /\ r * r \in Int
  OBVIOUS
<1>. QED
  BY <1>1, <1>2 DEF InDisc

(* Where the border of a rounded rectangle may be.                         *)
LEMMA RimIs ==
  ASSUME NEW w, NEW h, NEW r, Rounded(w, h, r, Corners), NEW u \in Int, NEW v \in Int,
         InRounded(w, h, r, Corners, u, v),
         \/ ~ InRounded(w, h, r, Corners, u + 1, v) \/ ~ InRounded(w, h, r, Corners, u - 1, v)
         \/ ~ InRounded(w, h, r, Corners, u, v + 1) \/ ~ InRounded(w, h, r, Corners, u, v - 1)
  PROVE  \/ u \in r .. w - 1 - r /\ v \in {0, h - 1}
         \/ v \in r .. h - 1 - r /\ u \in {0, w - 1}
         \/ \E c \in Corners :
              LET a == Across(c, w, r, u)
                  b == Down(c, h, r, v)
              IN  a \in 1 .. r /\ b \in 1 .. r /\ InDisc(a, b, r) /\ (~ InDisc(a + 1, b, r) \/ ~ InDisc(a, b + 1, r))
<1>1. w \in Int /\ h \in Int /\ r \in Nat \ {0} /\ w > 2 * r + 1 /\ h > 2 * r
  BY DEF Rounded
<1> DEFINE AcrossOf(c, x) == IF c \in {"TopLeft", "BottomLeft"} THEN r - x ELSE x - (w - 1 - r)
           DownOf(c, y) == IF c \in {"TopLeft", "TopRight"} THEN r - y ELSE y - (h - 1 - r)
<1>2. \A c \in Corners, x \in Int : Across(c, w, r, x) = AcrossOf(c, x)
  BY <1>1, AcrossIs
<1>3. \A c \in Corners, y \in Int : Down(c, h, r, y) = DownOf(c, y)
  BY <1>1, DownIs
<1>4. \A x, y \in Int : InRounded(w, h, r, Corners, x, y) <=>
         /\ x \in 0 .. w - 1 /\ y \in 0 .. h - 1
         /\ r - x > 0 /\ r - y > 0 => InDisc(r - x, r - y, r)
         /\ x - (w - 1 - r) > 0 /\ r - y > 0 => InDisc(x - (w - 1 - r), r - y, r)
         /\ r - x > 0 /\ y - (h - 1 - r) > 0 => InDisc(r - x, y - (h - 1 - r), r)
         /\ x - (w - 1 - r) > 0 /\ y - (h - 1 - r) > 0 => InDisc(x - (w - 1 - r), y - (h - 1 - r), r)
  BY <1>2, <1>3 DEF InRounded, Corners
<1>5. CASE u \in r .. w - 1 - r
  <2>1. CASE v \in {0, h - 1}
    BY <1>5, <2>1
  <2>2. CASE v \notin {0, h - 1}
    <3>1. v \in 1 .. h - 2
      BY <1>1, <1>4, <2>2
    <3>2. r - v >= 0 => InDisc(1, r - v, r)
      BY <1>1, <3>1, OneStep
    <3>3. v - (h - 1 - r) >= 0 => InDisc(1, v - (h - 1 - r), r)
      BY <1>1, <3>1, OneStep
    <3>. QED
      BY <1>1, <1>4, <1>5, <3>1, <3>2, <3>3
  <2>. QED
    BY <2>1, <2>2
<1>6. CASE v \in r .. h - 1 - r
  <2>1. CASE u \in {0, w - 1}
    BY <1>6, <2>1
  <2>2. CASE u \notin {0, w - 1}
    <3>1. u \in 1 .. w - 2
      BY <1>1, <1>4, <2>2
    <3>2. r - u >= 0 => InDisc(r - u, 1, r)
      BY <1>1, <3>1, OneStep
    <3>3. u - (w - 1 - r) >= 0 => InDisc(u - (w - 1 - r), 1, r)
      BY <1>1, <3>1, OneStep
    <3>. QED
      BY <1>1, <1>4, <1>6, <3>1, <3>2, <3>3
  <2>. QED
    BY <2>1, <2>2
<1>7. CASE u < r /\ v < r
  <2> DEFINE a == r - u
             b == r - v
  <2>1. a \in 1 .. r /\ b \in 1 .. r /\ InDisc(a, b, r)
    BY <1>1, <1>4, <1>7
  <2>2. Across("TopLeft", w, r, u) = a /\ Down("TopLeft", h, r, v) = b
    BY <1>2, <1>3 DEF Corners
  <2>3. ASSUME InDisc(a + 1, b, r), InDisc(a, b + 1, r) PROVE FALSE
    <3>1. a + 1 <= r /\ b + 1 <= r
      BY <1>1, <2>1, <2>3, DiscIsIn
    <3>2. InDisc(a - 1, b, r) /\ InDisc(a, b - 1, r)
      BY <1>1, <2>1, SmallerIsIn
    <3>. QED
      BY <1>1, <1>4, <1>7, <2>1, <2>3, <3>1, <3>2
  <2> HIDE DEF a, b
  <2>. QED
    BY <2>1, <2>2, <2>3 DEF Corners
<1>8. CASE u > w - 1 - r /\ v < r
  <2> DEFINE a == u - (w - 1 - r)
             b == r - v
  <2>1. a \in 1 .. r /\ b \in 1 .. r /\ InDisc(a, b, r)
    BY <1>1, <1>4, <1>8
  <2>2. Across("TopRight", w, r, u) = a /\ Down("TopRight", h, r, v) = b
    BY <1>2, <1>3 DEF Corners
  <2>3. ASSUME InDisc(a + 1, b, r), InDisc(a, b + 1, r) PROVE FALSE
    <3>1. a + 1 <= r /\ b + 1 <= r
      BY <1>1, <2>1, <2>3, DiscIsIn
    <3>2. InDisc(a - 1, b, r) /\ InDisc(a, b - 1, r)
      BY <1>1, <2>1, SmallerIsIn
    <3>. QED
      BY <1>1, <1>4, <1>8, <2>1, <2>3, <3>1, <3>2
  <2> HIDE DEF a, b
  <2>. QED
    BY <2>1, <2>2, <2>3 DEF Corners
<1>9. CASE u < r /\ v > h - 1 - r
  <2> DEFINE a == r - u
             b == v - (h - 1 - r)
  <2>1. a \in 1 .. r /\ b \in 1 .. r /\ InDisc(a, b, r)
    BY <1>1, <1>4, <1>9
  <2>2. Across("BottomLeft", w, r, u) = a /\ Down("BottomLeft", h, r, v) = b
    BY <1>2, <1>3 DEF Corners
  <2>3. ASSUME InDisc(a + 1, b, r), InDisc(a, b + 1, r) PROVE FALSE
    <3>1. a + 1 <= r /\ b + 1 <= r
      BY <1>1, <2>1, <2>3, DiscIsIn
    <3>2. InDisc(a - 1, b, r) /\ InDisc(a, b - 1, r)
      BY <1>1, <2>1, SmallerIsIn
    <3>. QED
      BY <1>1, <1>4, <1>9, <2>1, <2>3, <3>1, <3>2
  <2> HIDE DEF a, b
  <2>. QED
    BY <2>1, <2>2, <2>3 DEF Corners
<1>10. CASE u > w - 1 - r /\ v > h - 1 - r
  <2> DEFINE a == u - (w - 1 - r)
             b == v - (h - 1 - r)
  <2>1. a \in 1 .. r /\ b \in 1 .. r /\ InDisc(a, b, r)
    BY <1>1, <1>4, <1>10
  <2>2. Across("BottomRight", w, r, u) = a /\ Down("BottomRight", h, r, v) = b
    BY <1>2, <1>3 DEF Corners
  <2>3. ASSUME InDisc(a + 1, b, r), InDisc(a, b + 1, r) PROVE FALSE
    <3>1. a + 1 <= r /\ b + 1 <= r
      BY <1>1, <2>1, <2>3, DiscIsIn
    <3>2. InDisc(a - 1, b, r) /\ InDisc(a, b - 1, r)
      BY <1>1, <2>1, SmallerIsIn
    <3>. QED
      BY <1>1, <1>4, <1>10, <2>1, <2>3, <3>1, <3>2
  <2> HIDE DEF a, b
  <2>. QED
    BY <2>1, <2>2, <2>3 DEF Corners
<1>. QED
  BY <1>1, <1>5, <1>6, <1>7, <1>8, <1>9, <1>10

LEMMA BorderIsInside ==
  ASSUME NEW w, NEW h, NEW r, Rounded(w, h, r, Corners), NEW lineWidth \in Nat \ {0},
         NEW p \in DrawRoundedRect(0, 0, w, h, lineWidth, r, Corners)
  PROVE  \E u, v \in Int : p = <<u, v>> /\ InRounded(w, h, r, Corners, u, v)
<1> DEFINE stroke == Least(lineWidth, r)
<1>1. w \in Int /\ h \in Int /\ r \in Nat \ {0} /\ w > 2 * r + 1 /\ h > 2 * r /\ stroke \in 1 .. r
  BY DEF Rounded, Least
<1>2. \/ p \in Area(r, 0, w - 2 * r, stroke) \/ p \in Area(r, h - stroke, w - 2 * r, stroke)
      \/ p \in Area(0, r, stroke, h - 2 * r) \/ p \in Area(w - stroke, r, stroke, h - 2 * r)
      \/ \E c \in Corners : p \in BorderArc(w, h, r, c, lineWidth)
  BY BorderIs
<1> HIDE DEF stroke
<1>3. ASSUME NEW u \in r .. w - 1 - r, NEW v \in 0 .. h - 1 PROVE InRounded(w, h, r, Corners, u, v)
  <2>1. u \in Int
    BY <1>1
  <2>2. \A c \in Corners : Across(c, w, r, u) <= 0
    BY <1>1, <2>1, AcrossIs
  <2>. QED
    BY <1>1, <2>1, <2>2, AcrossIs DEF InRounded
<1>4. ASSUME NEW u \in 0 .. w - 1, NEW v \in r .. h - 1 - r PROVE InRounded(w, h, r, Corners, u, v)
  <2>1. v \in Int
    BY <1>1
  <2>2. \A c \in Corners : Down(c, h, r, v) <= 0
    BY <1>1, <2>1, DownIs
  <2>. QED
    BY <1>1, <2>1, <2>2, DownIs DEF InRounded
<1>5. CASE p \in Area(r, 0, w - 2 * r, stroke) \/ p \in Area(r, h - stroke, w - 2 * r, stroke)
  <2>1. \E u \in r .. w - 1 - r, v \in 0 .. h - 1 : p = <<u, v>>
    BY <1>1, <1>5 DEF Area
  <2>. QED
    BY <1>1, <1>3, <2>1
<1>6. CASE p \in Area(0, r, stroke, h - 2 * r) \/ p \in Area(w - stroke, r, stroke, h - 2 * r)
  <2>1. \E u \in 0 .. w - 1, v \in r .. h - 1 - r : p = <<u, v>>
    BY <1>1, <1>6 DEF Area
  <2>. QED
    BY <1>1, <1>4, <2>1
<1>7. CASE \E c \in Corners : p \in BorderArc(w, h, r, c, lineWidth)
  <2>1. PICK c \in Corners : ArcPoint(p, c, w, h, r)
    BY <1>7, BorderArcIs
  <2>2. PICK u \in Int, v \in Int : p = <<u, v>> /\ InCorner(c, w, h, r, u, v)
    BY <2>1 DEF ArcPoint
  <2>3. InParts(w, h, r, Corners, u, v)
    BY <2>1, <2>2 DEF InParts
  <2>. QED
    BY <2>2, <2>3, PartsAreRounded
<1>. QED
  BY <1>2, <1>5, <1>6, <1>7

LEMMA RimIsBorder ==
  ASSUME NEW w, NEW h, NEW r, Rounded(w, h, r, Corners), NEW lineWidth \in Nat \ {0},
         NEW p \in RoundedRect(w, h, r, Corners), ~ (Neighbours(p) \subseteq RoundedRect(w, h, r, Corners))
  PROVE  p \in DrawRoundedRect(0, 0, w, h, lineWidth, r, Corners)
<1> DEFINE stroke == Least(lineWidth, r)
<1>1. w \in Int /\ h \in Int /\ r \in Nat \ {0} /\ w > 2 * r + 1 /\ h > 2 * r /\ stroke \in 1 .. r
  BY DEF Rounded, Least
<1>2. \A q : q \in RoundedRect(w, h, r, Corners) <=>
               \E u, v \in Int : q = <<u, v>> /\ InRounded(w, h, r, Corners, u, v)
  BY <1>1, RoundedRectIs DEF InRounded
<1>3. PICK u \in Int, v \in Int : p = <<u, v>> /\ InRounded(w, h, r, Corners, u, v)
  BY <1>2
<1>4. Neighbours(p) = {<<u + 1, v>>, <<u - 1, v>>, <<u, v + 1>>, <<u, v - 1>>}
  BY <1>3 DEF Neighbours
<1>5. \/ ~ InRounded(w, h, r, Corners, u + 1, v) \/ ~ InRounded(w, h, r, Corners, u - 1, v)
      \/ ~ InRounded(w, h, r, Corners, u, v + 1) \/ ~ InRounded(w, h, r, Corners, u, v - 1)
  <2>1. u + 1 \in Int /\ u - 1 \in Int /\ v + 1 \in Int /\ v - 1 \in Int
    BY <1>3
  <2>. QED
    BY <1>2, <1>3, <1>4, <2>1
<1>6. \/ u \in r .. w - 1 - r /\ v \in {0, h - 1}
      \/ v \in r .. h - 1 - r /\ u \in {0, w - 1}
      \/ \E c \in Corners :
           LET a == Across(c, w, r, u)
               b == Down(c, h, r, v)
           IN  a \in 1 .. r /\ b \in 1 .. r /\ InDisc(a, b, r) /\ (~ InDisc(a + 1, b, r) \/ ~ InDisc(a, b + 1, r))
  BY <1>3, <1>5, RimIs
<1>7. CASE u \in r .. w - 1 - r /\ v \in {0, h - 1}
  <2>1. <<u, v>> \in Area(r, 0, w - 2 * r, stroke) \cup Area(r, h - stroke, w - 2 * r, stroke)
    <3> HIDE DEF stroke
    <3>. QED
      BY <1>1, <1>7 DEF Area
  <2>. QED
    BY <1>3, <2>1, BorderIs
<1>8. CASE v \in r .. h - 1 - r /\ u \in {0, w - 1}
  <2>1. <<u, v>> \in Area(0, r, stroke, h - 2 * r) \cup Area(w - stroke, r, stroke, h - 2 * r)
    <3> HIDE DEF stroke
    <3>. QED
      BY <1>1, <1>8 DEF Area
  <2>. QED
    BY <1>3, <2>1, BorderIs
<1>9. ASSUME NEW c \in Corners, Across(c, w, r, u) \in 1 .. r, Down(c, h, r, v) \in 1 .. r,
             InDisc(Across(c, w, r, u), Down(c, h, r, v), r),
             \/ ~ InDisc(Across(c, w, r, u) + 1, Down(c, h, r, v), r)
             \/ ~ InDisc(Across(c, w, r, u), Down(c, h, r, v) + 1, r)
      PROVE  p \in DrawRoundedRect(0, 0, w, h, lineWidth, r, Corners)
  <2>1. Across(c, w, r, u) \in 0 .. r /\ Down(c, h, r, v) \in 0 .. r
    BY <1>1, <1>9
  <2>2. InRing(Across(c, w, r, u), Down(c, h, r, v), r, stroke)
    <3> HIDE DEF stroke
    <3>. QED
      BY <1>1, <1>9, <2>1, RimIsRing
  <2>3. <<u, v>> \in BorderArc(w, h, r, c, lineWidth)
    BY <2>1, <2>2, BorderArcIs
  <2>. QED
    BY <1>3, <2>3, BorderIs
<1>. QED
  BY <1>6, <1>7, <1>8, <1>9

LEMMA RectIsRim ==
  ASSUME NEW w \in Nat \ {0}, NEW h \in Nat \ {0}
  PROVE  DrawRect(0, 0, w, h) = {p \in FillRect(0, 0, w, h) : ~ (Neighbours(p) \subseteq FillRect(0, 0, w, h))}
<1>1. FillRect(0, 0, w, h) = (0 .. w - 1) \X (0 .. h - 1)
  BY FillRectIs DEF Area
<1>2. DrawRect(0, 0, w, h) = ((0 .. w - 1) \X {0, h - 1}) \cup ({0, w - 1} \X (0 .. h - 1))
  <2> DEFINE right == 0 + w - 1
             bottom == 0 + h - 1
  <2>1. DrawRect(0, 0, w, h) = DrawLine(0, 0, right, 0) \cup DrawLine(right, 0, right, bottom)
                                 \cup DrawLine(right, bottom, 0, bottom) \cup DrawLine(0, 0, 0, bottom)
    BY DEF DrawRect
  <2>2. right = w - 1 /\ bottom = h - 1 /\ right \in Nat /\ bottom \in Nat
    OBVIOUS
  <2> HIDE DEF right, bottom
  <2>3. /\ DrawLine(0, 0, right, 0) = Between(0, right) \X {0}
        /\ DrawLine(right, 0, right, bottom) = {right} \X Between(0, bottom)
        /\ DrawLine(right, bottom, 0, bottom) = Between(right, 0) \X {bottom}
        /\ DrawLine(0, 0, 0, bottom) = {0} \X Between(0, bottom)
    BY <2>2, LevelLine
  <2>4. Between(0, right) = 0 .. w - 1 /\ Between(right, 0) = 0 .. w - 1 /\ Between(0, bottom) = 0 .. h - 1
    BY <2>2 DEF Between, Least, Most
  <2>. QED
    BY <2>1, <2>2, <2>3, <2>4
<1>3. ASSUME NEW u \in 0 .. w - 1, NEW v \in 0 .. h - 1
      PROVE  Neighbours(<<u, v>>) \subseteq (0 .. w - 1) \X (0 .. h - 1) <=> u \notin {0, w - 1} /\ v \notin {0, h - 1}
  <2>1. Neighbours(<<u, v>>) = {<<u + 1, v>>, <<u - 1, v>>, <<u, v + 1>>, <<u, v - 1>>}
    BY DEF Neighbours
  <2>2. Neighbours(<<u, v>>) \subseteq (0 .. w - 1) \X (0 .. h - 1) <=>
           u + 1 \in 0 .. w - 1 /\ u - 1 \in 0 .. w - 1 /\ v + 1 \in 0 .. h - 1 /\ v - 1 \in 0 .. h - 1
    <3> DEFINE U == 0 .. w - 1
               V == 0 .. h - 1
    <3>1. u \in U /\ v \in V
      OBVIOUS
    <3> HIDE DEF U, V
    <3>2. \A a, b : <<a, b>> \in U \X V <=> a \in U /\ b \in V
      OBVIOUS
    <3>3. Neighbours(<<u, v>>) \subseteq U \X V <=> u + 1 \in U /\ u - 1 \in U /\ v + 1 \in V /\ v - 1 \in V
      <4>1. Neighbours(<<u, v>>) \subseteq U \X V <=>
              /\ <<u + 1, v>> \in U \X V /\ <<u - 1, v>> \in U \X V
              /\ <<u, v + 1>> \in U \X V /\ <<u, v - 1>> \in U \X V
        <5> DEFINE P == U \X V
        <5> HIDE DEF P
        <5>1. Neighbours(<<u, v>>) \subseteq P <=>
                <<u + 1, v>> \in P /\ <<u - 1, v>> \in P /\ <<u, v + 1>> \in P /\ <<u, v - 1>> \in P
          BY <2>1, Zenon
        <5>. QED
          BY <5>1 DEF P
      <4>. QED
        BY <3>1, <3>2, <4>1
    <3>. QED
      BY <3>3 DEF U, V
  <2>. QED
    BY <2>2
<1> DEFINE plain == (0 .. w - 1) \X (0 .. h - 1)
<1>4. ASSUME NEW p \in plain
      PROVE  p \in DrawRect(0, 0, w, h) <=> ~ (Neighbours(p) \subseteq plain)
  <2>1. PICK u \in 0 .. w - 1, v \in 0 .. h - 1 : p = <<u, v>>
    OBVIOUS
  <2>2. p \in DrawRect(0, 0, w, h) <=> u \in {0, w - 1} \/ v \in {0, h - 1}
    BY <1>2, <2>1
  <2>. QED
    BY <1>3, <2>1, <2>2
<1>5. DrawRect(0, 0, w, h) \subseteq plain
  BY <1>2
<1>. QED
  BY <1>1, <1>4, <1>5

LEMMA RoundedAgrees == call \in RoundedRects => RoundedRectsAgree
<1> SUFFICES ASSUME call \in RoundedRects PROVE RoundedRectsAgree
  OBVIOUS
<1> DEFINE w == call.w
           h == call.h
           r == call.r
           round == call.round
           full == RoundedRect(w, h, r, round)
           fill == FillRoundedRect("Portrait", 0, 0, w, h, r, round, "Black")
           gray == FillRoundedRect("Portrait", 0, 0, w, h, r, round, "DarkGray")
           border == DrawRoundedRect(0, 0, w, h, call.lineWidth, r, round)
           plain == FillRect(0, 0, w, h)
<1>1. /\ w \in Nat \ {0} /\ h \in Nat \ {0} /\ Rounded(w, h, r, round)
      /\ call.lineWidth \in Nat \ {0}
  BY ShapesAssumption, PanelAssumption DEF RoundedRects, Rounded
<1>2. fill.black = full
  <2>1. Shaded(fill, "Black") /\ Cover(fill) = full
    BY <1>1, FillIsRounded
  <2> HIDE DEF fill, full
  <2>. QED
    BY <2>1 DEF Shaded, Cover
<1>3. gray.black \cup gray.white = full /\ gray.black \cap gray.white = {}
  <2>1. Shaded(gray, "DarkGray") /\ Cover(gray) = full
    BY <1>1, FillIsRounded
  <2> HIDE DEF gray, full
  <2>. QED
    BY <2>1 DEF Shaded, Cover
<1>4. ASSUME round = Corners
      PROVE  border \subseteq full /\ {p \in full : ~ (Neighbours(p) \subseteq full)} \subseteq border
  <2>1. \A p \in border : p \in full
    <3>1. w \in Int /\ h \in Int /\ r \in Nat /\ Corners \in SUBSET Corners
      BY <1>1 DEF Rounded
    <3>2. ASSUME NEW p, NEW u \in Int, NEW v \in Int, p = <<u, v>>, InRounded(w, h, r, Corners, u, v)
          PROVE  p \in RoundedRect(w, h, r, Corners)
      <4> HIDE DEF w, h, r
      <4>. QED
        BY <3>1, <3>2, RoundedRectIs DEF InRounded
    <3>. QED
      BY <1>1, <1>4, <3>2, BorderIsInside
  <2>2. \A p \in full : ~ (Neighbours(p) \subseteq full) => p \in border
    BY <1>1, <1>4, RimIsBorder
  <2> HIDE DEF border, full
  <2>. QED
    BY <2>1, <2>2
<1>5. DrawRect(0, 0, w, h) = {p \in plain : ~ (Neighbours(p) \subseteq plain)}
  BY <1>1, RectIsRim
<1> HIDE DEF full, fill, gray, border, plain
<1>6. full = RoundedRect(call.w, call.h, call.r, call.round)
  BY DEF full
<1>. QED
  BY <1>2, <1>3, <1>4, <1>5, Zenon DEF RoundedRectsAgree, full, fill, gray, border, plain

(* Rounded rectangles of any size and radius that fit the screen are       *)
(* covered without a gap and without a point outside, black or gray, and   *)
(* the borders the code draws of them are theirs (GfxRenderer.cpp:324-329, *)
(* 391-446, 540-606).                                                      *)
THEOREM RoundedRectsAlwaysAgree == GraphicsSpec => []RoundedRectsAgree
<1>1. CallInv => RoundedRectsAgree
  <2> SUFFICES ASSUME CallInv, call.op = "rounded" PROVE RoundedRectsAgree
    BY DEF RoundedRectsAgree
  <2>1. call # NoCall /\ call \notin Lines /\ call \notin Triangles /\ call \notin Bitmaps
        /\ call \notin Images
    BY DEF NoCall, Lines, Triangles, Bitmaps, Images
  <2>. QED
    BY <2>1, RoundedAgrees DEF CallInv
<1>. QED
  BY <1>1, CallAlways, PTL

-----------------------------------------------------------------------------
(* Triangles.                                                              *)
(* C's division leaves less than the divisor.                              *)
Size(b) == IF b < 0 THEN - b ELSE b
IsRest(a, b, q, r) == a = b * q + r /\ - r < Size(b) /\ r < Size(b)

LEMMA DivCIs ==
  ASSUME NEW a \in Int, NEW b \in Int, b # 0
  PROVE  DivC(a, b) \in Int /\ \E r \in Int : IsRest(a, b, DivC(a, b), r)
<1> DEFINE n == Size(a)
           d == Size(b)
           m == n \div d
           l == n % d
<1>1. n \in Int /\ d \in Nat \ {0}
  BY SMT DEF Size
<1>3. DivC(a, b) = IF (a < 0) = (b < 0) THEN m ELSE - m
  BY Zenon DEF DivC, Size
<1> HIDE DEF n, d
<1>4. n = d * m + l /\ l \in 0 .. d - 1 /\ m \in Int
  BY <1>1, DivMod, Zenon
<1> HIDE DEF m, l
<1>5. CASE a >= 0 /\ b > 0
  <2>1. n = a /\ d = b
    BY <1>5, SMT DEF n, d, Size
  <2>2. DivC(a, b) = m
    BY <1>3, <1>5, SMT
  <2>3. IsRest(a, b, m, l)
    BY <1>4, <2>1, SMT DEF IsRest, d
  <2>. QED
    BY <1>4, <2>2, <2>3, SMT
<1>6. CASE a < 0 /\ b < 0
  <2>1. n = - a /\ d = - b
    BY <1>6, SMT DEF n, d, Size
  <2>2. DivC(a, b) = m
    BY <1>3, <1>6, SMT
  <2>4. - l < d /\ - (- l) < d /\ - l \in Int
    BY <1>1, <1>4, SMT
  <2>5. a = b * m + - l
    BY <1>4, <2>1, SMT
  <2>3. IsRest(a, b, m, - l)
    BY <2>4, <2>5, Zenon DEF IsRest, d
  <2>. QED
    BY <1>4, <2>2, <2>3, <2>4, Zenon
<1>7. CASE a < 0 /\ b > 0
  <2>1. n = - a /\ d = b
    BY <1>7, SMT DEF n, d, Size
  <2>2. DivC(a, b) = - m /\ - m \in Int
    BY <1>3, <1>4, <1>7, SMT
  <2>4. - l < d /\ - (- l) < d /\ - l \in Int
    BY <1>1, <1>4, SMT
  <2>5. a = b * (- m) + - l
    BY <1>4, <2>1, SMT
  <2>3. IsRest(a, b, - m, - l)
    BY <2>4, <2>5, Zenon DEF IsRest, d
  <2>. QED
    BY <2>2, <2>3, <2>4, Zenon
<1>8. CASE a >= 0 /\ b < 0
  <2>1. n = a /\ d = - b
    BY <1>8, SMT DEF n, d, Size
  <2>2. DivC(a, b) = - m /\ - m \in Int
    BY <1>3, <1>4, <1>8, SMT
  <2>4. l < d /\ - l < d /\ l \in Int
    BY <1>1, <1>4, SMT
  <2>5. a = b * (- m) + l
    BY <1>4, <2>1, SMT
  <2>3. IsRest(a, b, - m, l)
    BY <2>4, <2>5, Zenon DEF IsRest, d
  <2>. QED
    BY <2>2, <2>3, <2>4, Zenon
<1>. QED
  BY <1>5, <1>6, <1>7, <1>8, SMT

(* So a number not below the quotient is not below what it was rounded to, *)
(* and one not above it not above.                                         *)
LEMMA QuotientIs ==
  ASSUME NEW a \in Int, NEW b \in Int, b # 0, NEW z \in Int
  PROVE  /\ b > 0 /\ b * z >= a => z >= DivC(a, b)
         /\ b > 0 /\ b * z <= a => z <= DivC(a, b)
         /\ b < 0 /\ b * z >= a => z <= DivC(a, b)
         /\ b < 0 /\ b * z <= a => z >= DivC(a, b)
<1>1. PICK q \in Int : q = DivC(a, b)
  BY DivCIs, Zenon
<1>2. PICK r \in Int : IsRest(a, b, q, r)
  BY <1>1, DivCIs, Zenon
<1>3. a = b * q + r /\ - r < Size(b) /\ r < Size(b)
  BY <1>2, Zenon DEF IsRest
<1>4. b * (z - q) = b * z - b * q /\ z - q \in Int
  BY SMT
<1> DEFINE w == z - q
           y == b * w
<1> HIDE DEF w, y
<1>5. w \in Int /\ y = b * w /\ y = b * z - b * q /\ w = z - q
  BY <1>4, Zenon DEF w, y
<1>6. w >= 1 => w - 1 \in Nat
  BY <1>5, SMT
<1>7. w <= -1 => - w - 1 \in Nat
  BY <1>5, SMT
<1>8. b > 0 => (w >= 1 => y >= b) /\ (w <= -1 => y <= - b)
  <2> SUFFICES ASSUME b > 0 PROVE (w >= 1 => y >= b) /\ (w <= -1 => y <= - b)
    BY Zenon
  <2>1. w >= 1 => b * (w - 1) \in Nat
    BY <1>5, <1>6, SMT
  <2>2. w <= -1 => b * (- w - 1) \in Nat
    BY <1>5, <1>7, SMT
  <2>3. b * (w - 1) = y - b /\ b * (- w - 1) = - y - b
    BY <1>5, SMT
  <2>. QED
    BY <1>5, <2>1, <2>2, <2>3, SMT
<1>9. b < 0 => (w >= 1 => y <= b) /\ (w <= -1 => y >= - b)
  <2> SUFFICES ASSUME b < 0 PROVE (w >= 1 => y <= b) /\ (w <= -1 => y >= - b)
    BY Zenon
  <2>1. w >= 1 => (- b) * (w - 1) \in Nat
    BY <1>5, <1>6, SMT
  <2>2. w <= -1 => (- b) * (- w - 1) \in Nat
    BY <1>5, <1>7, SMT
  <2>3. (- b) * (w - 1) = b - y /\ (- b) * (- w - 1) = y + b
    BY <1>5, SMT
  <2>. QED
    BY <1>5, <2>1, <2>2, <2>3, SMT
<1>10. PICK p \in Int, t \in Int : p = b * z /\ t = b * q
  BY SMT
<1>11. y = p - t /\ a = t + r
  BY <1>3, <1>5, <1>10, Zenon
<1>12. CASE b > 0
  <2>1. - r < b /\ r < b
    BY <1>3, <1>12, SMT DEF Size
  <2>2. p >= a => z >= q
    BY <1>5, <1>8, <1>11, <1>12, <2>1, SMT
  <2>3. p <= a => z <= q
    BY <1>5, <1>8, <1>11, <1>12, <2>1, SMT
  <2>. QED
    BY <1>1, <1>10, <1>12, <2>2, <2>3, SMT
<1>13. CASE b < 0
  <2>1. - r < - b /\ r < - b
    BY <1>3, <1>13, SMT DEF Size
  <2>2. p >= a => z <= q
    BY <1>5, <1>9, <1>11, <1>13, <2>1, SMT
  <2>3. p <= a => z >= q
    BY <1>5, <1>9, <1>11, <1>13, <2>1, SMT
  <2>. QED
    BY <1>1, <1>10, <1>13, <2>2, <2>3, SMT
<1>. QED
  BY <1>12, <1>13, SMT

(* The edges of a triangle, each from a corner to the one before.          *)
Polys == [1 .. 3 -> Int \X Int]
Prior(i) == IF i = 1 THEN 3 ELSE i - 1
XOf(poly, i) == poly[i][1]
YOf(poly, i) == poly[i][2]
Falls(poly, i, y) == YOf(poly, i) < y /\ y <= YOf(poly, Prior(i))
Rises(poly, i, y) == YOf(poly, Prior(i)) < y /\ y <= YOf(poly, i)

LEMMA PolyIs ==
  ASSUME NEW poly \in Polys
  PROVE  /\ Len(poly) = 3 /\ DOMAIN poly = 1 .. 3
         /\ \A i \in 1 .. 3 : XOf(poly, i) \in Int /\ YOf(poly, i) \in Int /\ Prior(i) \in 1 .. 3
<1>1. Len(poly) = 3 /\ DOMAIN poly = 1 .. 3
  <2>1. DOMAIN poly = 1 .. 3
    BY Zenon DEF Polys
  <2>2. 3 \in Nat /\ poly \in [1 .. 3 -> Int \X Int]
    BY SMT DEF Polys
  <2>3. poly \in UNION {[1 .. n -> Int \X Int] : n \in Nat}
    BY <2>2, Zenon
  <2>4. poly \in Seq(Int \X Int)
    BY <2>3, SeqDef, Zenon
  <2>5. Len(poly) \in Nat /\ 1 .. 3 = 1 .. Len(poly)
    BY <2>1, <2>4, LenProperties, Zenon
  <2>. QED
    BY <2>1, <2>5, SMT
<1>2. ASSUME NEW i \in 1 .. 3 PROVE XOf(poly, i) \in Int /\ YOf(poly, i) \in Int
  <2>1. poly[i] \in Int \X Int
    BY Zenon DEF Polys
  <2>. QED
    BY <2>1, SMT DEF XOf, YOf
<1>3. ASSUME NEW i \in 1 .. 3 PROVE Prior(i) \in 1 .. 3
  BY SMT DEF Prior
<1>. QED
  BY <1>1, <1>2, <1>3, Zenon

LEMMA CrossedIs ==
  ASSUME NEW poly \in Polys, NEW y \in Int
  PROVE  \A i : i \in CrossedEdges(poly, y) <=> i \in 1 .. 3 /\ (Falls(poly, i, y) \/ Rises(poly, i, y))
<1>1. Len(poly) = 3 /\ DOMAIN poly = 1 .. 3
  BY PolyIs, Zenon
<1>2. CrossedEdges(poly, y) =
        {i \in 1 .. 3 :
           LET j == IF i = 1 THEN 3 ELSE i - 1
           IN  \/ poly[i][2] < y /\ poly[j][2] >= y
               \/ poly[j][2] < y /\ poly[i][2] >= y}
  BY <1>1, Zenon DEF CrossedEdges
<1>3. ASSUME NEW i \in 1 .. 3
      PROVE  (LET j == IF i = 1 THEN 3 ELSE i - 1
              IN  \/ poly[i][2] < y /\ poly[j][2] >= y
                  \/ poly[j][2] < y /\ poly[i][2] >= y) <=> Falls(poly, i, y) \/ Rises(poly, i, y)
  <2>1. PICK j : j = Prior(i)
    BY Zenon
  <2>2. j = IF i = 1 THEN 3 ELSE i - 1
    BY <2>1, Zenon DEF Prior
  <2>3. poly[i][2] = YOf(poly, i) /\ poly[j][2] = YOf(poly, j) /\ YOf(poly, i) \in Int /\ YOf(poly, j) \in Int
    BY <2>1, PolyIs, Zenon DEF YOf
  <2>4. YOf(poly, i) >= y <=> y <= YOf(poly, i)
    BY <2>3, SMT
  <2>5. YOf(poly, j) >= y <=> y <= YOf(poly, j)
    BY <2>3, SMT
  <2>. QED
    BY <2>1, <2>2, <2>3, <2>4, <2>5, Zenon DEF Falls, Rises
<1>. QED
  BY <1>2, <1>3, Zenon

(* A row crosses no edge or two, one that falls and one that rises.        *)
AllAbove(poly, y) == \A i \in 1 .. 3 : y <= YOf(poly, i)
AllBelow(poly, y) == \A i \in 1 .. 3 : YOf(poly, i) < y
IsPair(poly, y, u, v) ==
  /\ u # v /\ Falls(poly, u, y) /\ Rises(poly, v, y)
  /\ CrossedEdges(poly, y) = {u, v}

LEMMA CrossedPair ==
  ASSUME NEW poly \in Polys, NEW y \in Int
  PROVE  \/ AllAbove(poly, y) \/ AllBelow(poly, y)
         \/ \E u, v \in 1 .. 3 : IsPair(poly, y, u, v)
<1> DEFINE low(i) == YOf(poly, i) < y
           C == CrossedEdges(poly, y)
<1>1. \A i \in 1 .. 3 : y <= YOf(poly, i) <=> ~ low(i)
  BY PolyIs, SMT
<1>2. Prior(1) = 3 /\ Prior(2) = 1 /\ Prior(3) = 2
  BY SMT DEF Prior
<1>3. 1 \in 1 .. 3 /\ 2 \in 1 .. 3 /\ 3 \in 1 .. 3 /\ \A i \in 1 .. 3 : i = 1 \/ i = 2 \/ i = 3
  BY SMT
<1>4. /\ Falls(poly, 1, y) <=> low(1) /\ ~ low(3)
      /\ Falls(poly, 2, y) <=> low(2) /\ ~ low(1)
      /\ Falls(poly, 3, y) <=> low(3) /\ ~ low(2)
      /\ Rises(poly, 1, y) <=> low(3) /\ ~ low(1)
      /\ Rises(poly, 2, y) <=> low(1) /\ ~ low(2)
      /\ Rises(poly, 3, y) <=> low(2) /\ ~ low(3)
  BY <1>1, <1>2, <1>3, Zenon DEF Falls, Rises
<1> HIDE DEF low, C
<1>5. \A i : i \in C <=> i \in 1 .. 3 /\ (Falls(poly, i, y) \/ Rises(poly, i, y))
  BY CrossedIs, Zenon DEF C
<1>6. \A i : i \in C <=> \/ i = 1 /\ (Falls(poly, 1, y) \/ Rises(poly, 1, y))
                         \/ i = 2 /\ (Falls(poly, 2, y) \/ Rises(poly, 2, y))
                         \/ i = 3 /\ (Falls(poly, 3, y) \/ Rises(poly, 3, y))
  BY <1>3, <1>5, Zenon
<1>7. 1 # 2 /\ 1 # 3 /\ 2 # 3
  BY SMT
<1>8. CASE low(1) /\ low(2) /\ low(3)
  BY <1>3, <1>8, Zenon DEF AllBelow, low
<1>9. CASE ~ low(1) /\ ~ low(2) /\ ~ low(3)
  BY <1>1, <1>3, <1>9, Zenon DEF AllAbove
<1>10. CASE low(1) /\ ~ low(2) /\ ~ low(3)
  <2>3. \A i : i \in C <=> i \in {1, 2}
    BY <1>4, <1>6, <1>10, Zenon
  <2>1. C = {1, 2}
    BY <2>3, SMT
  <2>2. IsPair(poly, y, 1, 2)
    BY <1>4, <1>7, <1>10, <2>1, Zenon DEF IsPair, C
  <2>. QED
    BY <1>3, <2>2, Zenon
<1>11. CASE ~ low(1) /\ low(2) /\ ~ low(3)
  <2>3. \A i : i \in C <=> i \in {2, 3}
    BY <1>4, <1>6, <1>11, Zenon
  <2>1. C = {2, 3}
    BY <2>3, SMT
  <2>2. IsPair(poly, y, 2, 3)
    BY <1>4, <1>7, <1>11, <2>1, Zenon DEF IsPair, C
  <2>. QED
    BY <1>3, <2>2, Zenon
<1>12. CASE ~ low(1) /\ ~ low(2) /\ low(3)
  <2>3. \A i : i \in C <=> i \in {3, 1}
    BY <1>4, <1>6, <1>12, Zenon
  <2>1. C = {3, 1}
    BY <2>3, SMT
  <2>2. IsPair(poly, y, 3, 1)
    BY <1>4, <1>7, <1>12, <2>1, Zenon DEF IsPair, C
  <2>. QED
    BY <1>3, <2>2, Zenon
<1>13. CASE ~ low(1) /\ low(2) /\ low(3)
  <2>3. \A i : i \in C <=> i \in {2, 1}
    BY <1>4, <1>6, <1>13, Zenon
  <2>1. C = {2, 1}
    BY <2>3, SMT
  <2>2. IsPair(poly, y, 2, 1)
    BY <1>4, <1>7, <1>13, <2>1, Zenon DEF IsPair, C
  <2>. QED
    BY <1>3, <2>2, Zenon
<1>14. CASE low(1) /\ ~ low(2) /\ low(3)
  <2>3. \A i : i \in C <=> i \in {3, 2}
    BY <1>4, <1>6, <1>14, Zenon
  <2>1. C = {3, 2}
    BY <2>3, SMT
  <2>2. IsPair(poly, y, 3, 2)
    BY <1>4, <1>7, <1>14, <2>1, Zenon DEF IsPair, C
  <2>. QED
    BY <1>3, <2>2, Zenon
<1>15. CASE low(1) /\ low(2) /\ ~ low(3)
  <2>3. \A i : i \in C <=> i \in {1, 3}
    BY <1>4, <1>6, <1>15, Zenon
  <2>1. C = {1, 3}
    BY <2>3, SMT
  <2>2. IsPair(poly, y, 1, 3)
    BY <1>4, <1>7, <1>15, <2>1, Zenon DEF IsPair, C
  <2>. QED
    BY <1>3, <2>2, Zenon
<1>. QED
  BY <1>8, <1>9, <1>10, <1>11, <1>12, <1>13, <1>14, <1>15, Zenon

(* On which side of the edge a point is.                                   *)
SideOf(poly, i, x, y) ==
  (XOf(poly, i) - XOf(poly, Prior(i))) * (y - YOf(poly, Prior(i)))
    - (YOf(poly, i) - YOf(poly, Prior(i))) * (x - XOf(poly, Prior(i)))

LEMMA NodeIs ==
  ASSUME NEW poly \in Polys, NEW i \in 1 .. 3, NEW y \in Int, YOf(poly, i) # YOf(poly, Prior(i))
  PROVE  NodeX(poly, i, y) =
           XOf(poly, i) + DivC((y - YOf(poly, i)) * (XOf(poly, Prior(i)) - XOf(poly, i)),
                               YOf(poly, Prior(i)) - YOf(poly, i))
<1>1. Len(poly) = 3
  BY PolyIs, Zenon
<1>2. PICK j : j = Prior(i)
  BY Zenon
<1>3. j = IF i = 1 THEN Len(poly) ELSE i - 1
  BY <1>1, <1>2, Zenon DEF Prior
<1>4. ~ poly[i][2] = poly[j][2]
  BY <1>2, Zenon DEF YOf
<1>5. NodeX(poly, i, y) = poly[i][1] + DivC((y - poly[i][2]) * (poly[j][1] - poly[i][1]), poly[j][2] - poly[i][2])
  BY <1>3, <1>4, Zenon DEF NodeX
<1>. QED
  BY <1>2, <1>5, Zenon DEF XOf, YOf

(* A node lies on its edge, and not beyond a point to the side of it.      *)
IsNodeOf(poly, i, y, x) ==
  /\ NodeX(poly, i, y) \in Int
  /\ \/ XOf(poly, i) <= NodeX(poly, i, y) /\ NodeX(poly, i, y) <= XOf(poly, Prior(i))
     \/ XOf(poly, Prior(i)) <= NodeX(poly, i, y) /\ NodeX(poly, i, y) <= XOf(poly, i)
  /\ Falls(poly, i, y) /\ SideOf(poly, i, x, y) > 0 => NodeX(poly, i, y) <= x
  /\ Falls(poly, i, y) /\ SideOf(poly, i, x, y) < 0 => x <= NodeX(poly, i, y)
  /\ Rises(poly, i, y) /\ SideOf(poly, i, x, y) > 0 => x <= NodeX(poly, i, y)
  /\ Rises(poly, i, y) /\ SideOf(poly, i, x, y) < 0 => NodeX(poly, i, y) <= x

LEMMA NodeSide ==
  ASSUME NEW poly \in Polys, NEW i \in 1 .. 3, NEW y \in Int, NEW x \in Int,
         Falls(poly, i, y) \/ Rises(poly, i, y)
  PROVE  IsNodeOf(poly, i, y, x)
<1> DEFINE xi == XOf(poly, i)
           yi == YOf(poly, i)
           xj == XOf(poly, Prior(i))
           yj == YOf(poly, Prior(i))
           t == y - yi
           v == xj - xi
           a == t * v
           b == yj - yi
           z == x - xi
           q == DivC(a, b)
           side == SideOf(poly, i, x, y)
<1>1. xi \in Int /\ yi \in Int /\ xj \in Int /\ yj \in Int
  BY PolyIs, Zenon
<1>2. Falls(poly, i, y) <=> yi < y /\ y <= yj
  BY Zenon DEF Falls
<1>3. Rises(poly, i, y) <=> yj < y /\ y <= yi
  BY Zenon DEF Rises
<1>4. side = (xi - xj) * (y - yj) - (yi - yj) * (x - xj)
  BY Zenon DEF SideOf
<1> HIDE DEF xi, yi, xj, yj, side, q
<1>5. yi # yj
  BY <1>1, <1>2, <1>3, SMT
<1>6. NodeX(poly, i, y) = xi + q
  BY <1>5, NodeIs, Zenon DEF xi, yi, xj, yj, q
<1>7. side = b * z - a
  BY <1>1, <1>4, SMT
<1>8. t \in Int /\ v \in Int /\ b \in Int /\ z \in Int /\ a \in Int /\ b # 0
  BY <1>1, <1>5, SMT
<1>9. /\ Falls(poly, i, y) <=> 0 < t /\ t <= b
      /\ Rises(poly, i, y) <=> b < t /\ t <= 0
  BY <1>1, <1>2, <1>3, SMT
<1>10. x = xi + z /\ xj = xi + v
  BY <1>1, SMT
<1>0. a = t * v
  BY Zenon
<1> HIDE DEF t, v, a, b, z
<1>11. q \in Int /\ \A w \in Int : /\ b > 0 /\ b * w >= a => w >= q
                                   /\ b > 0 /\ b * w <= a => w <= q
                                   /\ b < 0 /\ b * w >= a => w <= q
                                   /\ b < 0 /\ b * w <= a => w >= q
  BY <1>8, DivCIs, QuotientIs, Zenon DEF q
<1>12. b * z \in Int /\ b * v \in Int /\ b * 0 = 0
  BY <1>8, SMT
<1>13. CASE Falls(poly, i, y)
  <2>1. b > 0 /\ ~ b < 0 /\ 0 < t /\ t <= b
    BY <1>8, <1>9, <1>13, SMT
  <2>2. side > 0 => q <= z
    BY <1>7, <1>8, <1>11, <1>12, <2>1, SMT
  <2>3. side < 0 => z <= q
    BY <1>7, <1>8, <1>11, <1>12, <2>1, SMT
  <2>4. v >= 0 => 0 <= q /\ q <= v
    <3> SUFFICES ASSUME v >= 0 PROVE 0 <= q /\ q <= v
      BY Zenon
    <3>1. v * t >= 0 /\ v * (b - t) >= 0
      BY <1>8, <2>1, SMT
    <3>2. a >= 0 /\ b * v >= a
      BY <1>0, <1>8, <3>1, SMT
    <3>. QED
      BY <1>8, <1>11, <1>12, <2>1, <3>2, SMT
  <2>5. v < 0 => q <= 0 /\ v <= q
    <3> SUFFICES ASSUME v < 0 PROVE q <= 0 /\ v <= q
      BY Zenon
    <3>1. (- v) * t >= 0 /\ (- v) * (b - t) >= 0
      BY <1>8, <2>1, SMT
    <3>2. a <= 0 /\ b * v <= a
      BY <1>0, <1>8, <3>1, SMT
    <3>. QED
      BY <1>8, <1>11, <1>12, <2>1, <3>2, SMT
  <2>6. ~ Rises(poly, i, y)
    BY <1>8, <1>9, <2>1, SMT
  <2>7. \/ xi <= xi + q /\ xi + q <= xj
        \/ xj <= xi + q /\ xi + q <= xi
    BY <1>1, <1>8, <1>10, <1>11, <2>4, <2>5, SMT
  <2>8. /\ xi + q \in Int
        /\ side > 0 => xi + q <= x
        /\ side < 0 => x <= xi + q
    BY <1>1, <1>8, <1>10, <1>11, <2>2, <2>3, SMT
  <2>. QED
    BY <1>6, <2>6, <2>7, <2>8, Zenon DEF IsNodeOf, xi, xj, side
<1>14. CASE Rises(poly, i, y)
  <2>1. b < 0 /\ ~ b > 0 /\ b < t /\ t <= 0
    BY <1>8, <1>9, <1>14, SMT
  <2>2. side > 0 => z <= q
    BY <1>7, <1>8, <1>11, <1>12, <2>1, SMT
  <2>3. side < 0 => q <= z
    BY <1>7, <1>8, <1>11, <1>12, <2>1, SMT
  <2>4. v >= 0 => 0 <= q /\ q <= v
    <3> SUFFICES ASSUME v >= 0 PROVE 0 <= q /\ q <= v
      BY Zenon
    <3>1. v * (- t) >= 0 /\ v * (t - b) >= 0
      BY <1>8, <2>1, SMT
    <3>2. a <= 0 /\ b * v <= a
      BY <1>0, <1>8, <3>1, SMT
    <3>. QED
      BY <1>8, <1>11, <1>12, <2>1, <3>2, SMT
  <2>5. v < 0 => q <= 0 /\ v <= q
    <3> SUFFICES ASSUME v < 0 PROVE q <= 0 /\ v <= q
      BY Zenon
    <3>1. (- v) * (- t) >= 0 /\ (- v) * (t - b) >= 0
      BY <1>8, <2>1, SMT
    <3>2. a >= 0 /\ b * v >= a
      BY <1>0, <1>8, <3>1, SMT
    <3>. QED
      BY <1>8, <1>11, <1>12, <2>1, <3>2, SMT
  <2>6. ~ Falls(poly, i, y)
    BY <1>8, <1>9, <2>1, SMT
  <2>7. \/ xi <= xi + q /\ xi + q <= xj
        \/ xj <= xi + q /\ xi + q <= xi
    BY <1>1, <1>8, <1>10, <1>11, <2>4, <2>5, SMT
  <2>8. /\ xi + q \in Int
        /\ side > 0 => x <= xi + q
        /\ side < 0 => xi + q <= x
    BY <1>1, <1>8, <1>10, <1>11, <2>2, <2>3, SMT
  <2>. QED
    BY <1>6, <2>6, <2>7, <2>8, Zenon DEF IsNodeOf, xi, xj, side
<1>. QED
  BY <1>13, <1>14, Zenon

(* A row on which all corners are above or below has no point inside.      *)
LEMMA InsideIsCrossed ==
  ASSUME NEW poly \in Polys, NEW x \in Int, NEW y \in Int,
         \/ \A i \in 1 .. 3 : SideOf(poly, i, x, y) > 0
         \/ \A i \in 1 .. 3 : SideOf(poly, i, x, y) < 0
  PROVE  ~ AllAbove(poly, y) /\ ~ AllBelow(poly, y)
<1> DEFINE u(i) == YOf(poly, i) - y
           v(i) == XOf(poly, i) - x
           s(i) == SideOf(poly, i, x, y)
<1>1. Prior(1) = 3 /\ Prior(2) = 1 /\ Prior(3) = 2 /\ 1 \in 1 .. 3 /\ 2 \in 1 .. 3 /\ 3 \in 1 .. 3
  BY SMT DEF Prior
<1>2. /\ XOf(poly, 1) \in Int /\ XOf(poly, 2) \in Int /\ XOf(poly, 3) \in Int
      /\ YOf(poly, 1) \in Int /\ YOf(poly, 2) \in Int /\ YOf(poly, 3) \in Int
  BY <1>1, PolyIs, Zenon
<1>3. PICK a \in Int, b \in Int, c \in Int, d \in Int, e \in Int, f \in Int :
        a = v(1) /\ b = v(2) /\ c = v(3) /\ d = u(1) /\ e = u(2) /\ f = u(3)
  <2>1. /\ v(1) \in Int /\ v(2) \in Int /\ v(3) \in Int
        /\ u(1) \in Int /\ u(2) \in Int /\ u(3) \in Int
    BY <1>2, SMT
  <2> HIDE DEF u, v
  <2>. QED
    BY <2>1, Zenon
<1>4. s(1) = d * c - a * f
  <2>1. s(1) = (XOf(poly, 1) - XOf(poly, 3)) * (y - YOf(poly, 3)) - (YOf(poly, 1) - YOf(poly, 3)) * (x - XOf(poly, 3))
    BY <1>1, Zenon DEF SideOf
  <2>. QED
    BY <1>2, <1>3, <2>1, SMT
<1>5. s(2) = e * a - b * d
  <2>1. s(2) = (XOf(poly, 2) - XOf(poly, 1)) * (y - YOf(poly, 1)) - (YOf(poly, 2) - YOf(poly, 1)) * (x - XOf(poly, 1))
    BY <1>1, Zenon DEF SideOf
  <2>. QED
    BY <1>2, <1>3, <2>1, SMT
<1>6. s(3) = f * b - c * e
  <2>1. s(3) = (XOf(poly, 3) - XOf(poly, 2)) * (y - YOf(poly, 2)) - (YOf(poly, 3) - YOf(poly, 2)) * (x - XOf(poly, 2))
    BY <1>1, Zenon DEF SideOf
  <2>. QED
    BY <1>2, <1>3, <2>1, SMT
<1>7. AllAbove(poly, y) => d >= 0 /\ e >= 0 /\ f >= 0
  <2>1. AllAbove(poly, y) => y <= YOf(poly, 1) /\ y <= YOf(poly, 2) /\ y <= YOf(poly, 3)
    BY <1>1, Zenon DEF AllAbove
  <2>. QED
    BY <1>2, <1>3, <2>1, SMT
<1>8. AllBelow(poly, y) => d < 0 /\ e < 0 /\ f < 0
  <2>1. AllBelow(poly, y) => YOf(poly, 1) < y /\ YOf(poly, 2) < y /\ YOf(poly, 3) < y
    BY <1>1, Zenon DEF AllBelow
  <2>. QED
    BY <1>2, <1>3, <2>1, SMT
<1>9. \/ s(1) > 0 /\ s(2) > 0 /\ s(3) > 0
      \/ s(1) < 0 /\ s(2) < 0 /\ s(3) < 0
  BY <1>1, Zenon
<1>10. PICK p \in Int, q \in Int, r \in Int : p = s(1) /\ q = s(2) /\ r = s(3)
  BY <1>4, <1>5, <1>6, SMT
<1> HIDE DEF s, u, v
<1>11. p = d * c - a * f /\ q = e * a - b * d /\ r = f * b - c * e
  BY <1>4, <1>5, <1>6, <1>10, Zenon
<1>12. p * e + q * f + r * d = 0
  BY <1>11, SMT
<1>13. PICK k \in Int, l \in Int, m \in Int : k = p * e /\ l = q * f /\ m = r * d
  BY SMT
<1>14. k + l + m = 0
  BY <1>12, <1>13, Zenon
<1>15. d = 0 /\ e = 0 /\ f = 0 => p = 0
  BY <1>11, SMT
<1>16. CASE p > 0 /\ q > 0 /\ r > 0
  <2>1. p - 1 \in Nat /\ q - 1 \in Nat /\ r - 1 \in Nat
    BY <1>16, SMT
  <2>2. (p - 1) * e = k - e /\ (q - 1) * f = l - f /\ (r - 1) * d = m - d
    BY <1>13, SMT
  <2>3. d >= 0 /\ e >= 0 /\ f >= 0 => (p - 1) * e >= 0 /\ (q - 1) * f >= 0 /\ (r - 1) * d >= 0
    BY <2>1, SMT
  <2>4. d < 0 /\ e < 0 /\ f < 0 => (p - 1) * e <= 0 /\ (q - 1) * f <= 0 /\ (r - 1) * d <= 0
    BY <2>1, SMT
  <2>5. ~ (d >= 0 /\ e >= 0 /\ f >= 0)
    BY <1>14, <1>15, <1>16, <2>2, <2>3, SMT
  <2>6. ~ (d < 0 /\ e < 0 /\ f < 0)
    BY <1>14, <2>2, <2>4, SMT
  <2>. QED
    BY <1>7, <1>8, <2>5, <2>6, Zenon
<1>17. CASE p < 0 /\ q < 0 /\ r < 0
  <2>1. - p - 1 \in Nat /\ - q - 1 \in Nat /\ - r - 1 \in Nat
    BY <1>17, SMT
  <2>2. (- p - 1) * e = - k - e /\ (- q - 1) * f = - l - f /\ (- r - 1) * d = - m - d
    BY <1>13, SMT
  <2>3. d >= 0 /\ e >= 0 /\ f >= 0 => (- p - 1) * e >= 0 /\ (- q - 1) * f >= 0 /\ (- r - 1) * d >= 0
    BY <2>1, SMT
  <2>4. d < 0 /\ e < 0 /\ f < 0 => (- p - 1) * e <= 0 /\ (- q - 1) * f <= 0 /\ (- r - 1) * d <= 0
    BY <2>1, SMT
  <2>5. ~ (d >= 0 /\ e >= 0 /\ f >= 0)
    BY <1>14, <1>15, <1>17, <2>2, <2>3, SMT
  <2>6. ~ (d < 0 /\ e < 0 /\ f < 0)
    BY <1>14, <2>2, <2>4, SMT
  <2>. QED
    BY <1>7, <1>8, <2>5, <2>6, Zenon
<1>. QED
  BY <1>9, <1>10, <1>16, <1>17, Zenon

(* The nodes of a row in their order.                                      *)
NodeBefore(poly, y, i, k) ==
  \/ NodeX(poly, i, y) < NodeX(poly, k, y)
  \/ NodeX(poly, i, y) = NodeX(poly, k, y) /\ i < k
RankOf(poly, y, i) == Cardinality({k \in CrossedEdges(poly, y) : NodeBefore(poly, y, k, i)})
IsFilledBy(poly, p, i, k) ==
  /\ RankOf(poly, p[2], i) % 2 = 0 /\ RankOf(poly, p[2], k) = RankOf(poly, p[2], i) + 1
  /\ NodeX(poly, i, p[2]) <= p[1] /\ p[1] <= NodeX(poly, k, p[2])

LEMMA FillIs ==
  ASSUME NEW poly \in Polys, NEW o
  PROVE  \A p : p \in FillPolygon(o, poly) <=>
           p \in Screen(o) /\ \E i, k \in CrossedEdges(poly, p[2]) : IsFilledBy(poly, p, i, k)
<1>1. Len(poly) = 3
  BY PolyIs, Zenon
<1>2. ~ Len(poly) < 3
  BY <1>1, SMT
<1>. QED
  BY <1>2, Zenon DEF FillPolygon, IsFilledBy, RankOf, NodeBefore

LEMMA RanksOfPair ==
  ASSUME NEW poly, NEW y, NEW a, NEW b, CrossedEdges(poly, y) = {a, b},
         NodeBefore(poly, y, a, b), ~ NodeBefore(poly, y, b, a),
         ~ NodeBefore(poly, y, a, a), ~ NodeBefore(poly, y, b, b)
  PROVE  RankOf(poly, y, a) % 2 = 0 /\ RankOf(poly, y, b) = RankOf(poly, y, a) + 1
<1>1. {k \in CrossedEdges(poly, y) : NodeBefore(poly, y, k, a)} = {}
  BY Zenon
<1>2. {k \in CrossedEdges(poly, y) : NodeBefore(poly, y, k, b)} = {a}
  BY Zenon
<1>3. RankOf(poly, y, a) = 0
  BY <1>1, FS_EmptySet, Zenon DEF RankOf
<1>4. RankOf(poly, y, b) = 1
  BY <1>2, FS_Singleton, Zenon DEF RankOf
<1>. QED
  BY <1>3, <1>4, SMT

LEMMA BetweenIsFilled ==
  ASSUME NEW poly \in Polys, NEW o, NEW p \in Screen(o), p[1] \in Int, NEW a \in 1 .. 3, NEW b \in 1 .. 3, a # b,
         CrossedEdges(poly, p[2]) = {a, b},
         NodeX(poly, a, p[2]) \in Int, NodeX(poly, b, p[2]) \in Int,
         NodeX(poly, a, p[2]) <= p[1], p[1] <= NodeX(poly, b, p[2])
  PROVE  p \in FillPolygon(o, poly)
<1> DEFINE y == p[2]
<1> HIDE DEF y
<1>0. /\ CrossedEdges(poly, y) = {a, b} /\ NodeX(poly, a, y) \in Int /\ NodeX(poly, b, y) \in Int
      /\ NodeX(poly, a, y) <= p[1] /\ p[1] <= NodeX(poly, b, y)
  BY Zenon DEF y
<1>1. ~ NodeBefore(poly, y, a, a) /\ ~ NodeBefore(poly, y, b, b)
  BY <1>0, SMT DEF NodeBefore
<1>2. CASE NodeBefore(poly, y, a, b)
  <2>1. ~ NodeBefore(poly, y, b, a)
    BY <1>0, <1>2, SMT DEF NodeBefore
  <2>2. IsFilledBy(poly, p, a, b)
    BY <1>0, <1>1, <1>2, <2>1, RanksOfPair, Zenon DEF IsFilledBy, y
  <2>. QED
    BY <1>0, <2>2, FillIs, Zenon DEF y
<1>3. CASE ~ NodeBefore(poly, y, a, b)
  <2>1. NodeX(poly, a, y) = NodeX(poly, b, y) /\ b < a
    BY <1>0, <1>3, SMT DEF NodeBefore
  <2>2. NodeBefore(poly, y, b, a)
    BY <1>0, <2>1, SMT DEF NodeBefore
  <2>3. CrossedEdges(poly, y) = {b, a}
    BY <1>0, Zenon
  <2>4. IsFilledBy(poly, p, b, a)
    BY <1>0, <1>1, <1>3, <2>1, <2>2, <2>3, RanksOfPair, Zenon DEF IsFilledBy, y
  <2>. QED
    BY <1>0, <2>4, FillIs, Zenon DEF y
<1>. QED
  BY <1>2, <1>3, Zenon

LEMMA SideIsCross ==
  ASSUME NEW poly \in Polys, NEW p, p[1] \in Int, p[2] \in Int, NEW i \in 1 .. 3
  PROVE  LET b == poly[(i % 3) + 1]
         IN  (b[1] - poly[i][1]) * (p[2] - poly[i][2]) - (b[2] - poly[i][2]) * (p[1] - poly[i][1])
             = SideOf(poly, (i % 3) + 1, p[1], p[2])
<1>1. PICK k : k = (i % 3) + 1
  BY Zenon
<1>2. k \in 1 .. 3 /\ Prior(k) = i
  BY <1>1, SMT DEF Prior
<1>. QED
  BY <1>1, <1>2, Zenon DEF SideOf, XOf, YOf

(* A point inside lies between the nodes of its row.                       *)
LEMMA InsideIsFilled ==
  ASSUME NEW poly \in Polys, NEW o, NEW p \in Screen(o), p[1] \in Int, p[2] \in Int,
         \/ \A i \in 1 .. 3 : SideOf(poly, i, p[1], p[2]) > 0
         \/ \A i \in 1 .. 3 : SideOf(poly, i, p[1], p[2]) < 0
  PROVE  p \in FillPolygon(o, poly)
<1>1. PICK u \in 1 .. 3, v \in 1 .. 3 : IsPair(poly, p[2], u, v)
  BY InsideIsCrossed, CrossedPair, Zenon
<1>2. IsNodeOf(poly, u, p[2], p[1]) /\ IsNodeOf(poly, v, p[2], p[1])
  BY <1>1, NodeSide, Zenon DEF IsPair
<1>3. /\ u # v /\ v # u /\ CrossedEdges(poly, p[2]) = {u, v} /\ CrossedEdges(poly, p[2]) = {v, u}
      /\ NodeX(poly, u, p[2]) \in Int /\ NodeX(poly, v, p[2]) \in Int
  BY <1>1, <1>2, Zenon DEF IsPair, IsNodeOf
<1>4. \/ NodeX(poly, u, p[2]) <= p[1] /\ p[1] <= NodeX(poly, v, p[2])
      \/ NodeX(poly, v, p[2]) <= p[1] /\ p[1] <= NodeX(poly, u, p[2])
  BY <1>1, <1>2, Zenon DEF IsPair, IsNodeOf
<1>5. CASE NodeX(poly, u, p[2]) <= p[1] /\ p[1] <= NodeX(poly, v, p[2])
  BY <1>3, <1>5, BetweenIsFilled, Zenon
<1>6. CASE NodeX(poly, v, p[2]) <= p[1] /\ p[1] <= NodeX(poly, u, p[2])
  BY <1>3, <1>6, BetweenIsFilled, Zenon
<1>. QED
  BY <1>4, <1>5, <1>6, Zenon

(* A node lies between the ends of its edge.                               *)
LEMMA NodeBetween ==
  ASSUME NEW poly \in Polys, NEW y \in Int, NEW i \in CrossedEdges(poly, y)
  PROVE  /\ NodeX(poly, i, y) \in Int
         /\ \E k \in 1 .. 3 : XOf(poly, k) <= NodeX(poly, i, y)
         /\ \E k \in 1 .. 3 : NodeX(poly, i, y) <= XOf(poly, k)
         /\ \E k, l \in 1 .. 3 : YOf(poly, k) < y /\ y <= YOf(poly, l)
<1>1. i \in 1 .. 3 /\ (Falls(poly, i, y) \/ Rises(poly, i, y))
  BY CrossedIs, Zenon
<1>2. Prior(i) \in 1 .. 3
  BY <1>1, PolyIs, Zenon
<1>3. 0 \in Int
  BY SMT
<1>4. IsNodeOf(poly, i, y, 0)
  BY <1>1, <1>3, NodeSide, Zenon
<1>5. \E k, l \in 1 .. 3 : YOf(poly, k) < y /\ y <= YOf(poly, l)
  BY <1>1, <1>2, Zenon DEF Falls, Rises
<1>. QED
  BY <1>1, <1>2, <1>4, <1>5, Zenon DEF IsNodeOf

LEMMA FilledIsInBox ==
  ASSUME NEW poly \in Polys, NEW o, NEW p \in FillPolygon(o, poly), p[1] \in Int, p[2] \in Int
  PROVE  /\ \E i, j \in 1 .. 3 : XOf(poly, i) <= p[1] /\ p[1] <= XOf(poly, j)
         /\ \E i, j \in 1 .. 3 : YOf(poly, i) < p[2] /\ p[2] <= YOf(poly, j)
<1>1. PICK i \in CrossedEdges(poly, p[2]), k \in CrossedEdges(poly, p[2]) : IsFilledBy(poly, p, i, k)
  BY FillIs, Zenon
<1>2. NodeX(poly, i, p[2]) <= p[1] /\ p[1] <= NodeX(poly, k, p[2])
  BY <1>1, Zenon DEF IsFilledBy
<1>3. PICK l \in 1 .. 3 : XOf(poly, l) <= NodeX(poly, i, p[2])
  BY NodeBetween, Zenon
<1>4. PICK h \in 1 .. 3 : NodeX(poly, k, p[2]) <= XOf(poly, h)
  BY NodeBetween, Zenon
<1>5. NodeX(poly, i, p[2]) \in Int /\ NodeX(poly, k, p[2]) \in Int /\ XOf(poly, l) \in Int /\ XOf(poly, h) \in Int
  BY NodeBetween, PolyIs, Zenon
<1>6. XOf(poly, l) <= p[1] /\ p[1] <= XOf(poly, h)
  BY <1>2, <1>3, <1>4, <1>5, SMT
<1>7. \E a, b \in 1 .. 3 : YOf(poly, a) < p[2] /\ p[2] <= YOf(poly, b)
  BY NodeBetween, Zenon
<1>. QED
  BY <1>6, <1>7, Zenon

LEMMA TriangleFilled ==
  ASSUME call \in Triangles
  PROVE  TriangleIsFilled
<1> DEFINE poly == call.poly
           a(i) == poly[i]
           cross(i, p) == LET b == a((i % 3) + 1)
                          IN  (b[1] - a(i)[1]) * (p[2] - a(i)[2]) - (b[2] - a(i)[2]) * (p[1] - a(i)[1])
           inside == {p \in Screen("Portrait") : \/ \A i \in 1 .. 3 : cross(i, p) > 0
                                                 \/ \A i \in 1 .. 3 : cross(i, p) < 0}
           fill == FillPolygon("Portrait", poly)
<1>1. poly \in Polys
  <2>1. poly \in [1 .. 3 -> Coords \X Coords]
    BY Zenon DEF Triangles
  <2>2. Coords \X Coords \subseteq Int \X Int
    BY SMT DEF Coords
  <2>. QED
    BY <2>1, <2>2, Zenon DEF Polys
<1>2. \A p \in Screen("Portrait") : p[1] \in Int /\ p[2] \in Int
  BY SMT DEF Screen
<1>3. \A p \in fill : p \in Screen("Portrait")
  BY <1>1, FillIs, Zenon
<1>4. 1 \in 1 .. 3 /\ 2 \in 1 .. 3 /\ 3 \in 1 .. 3 /\ (\A i \in 1 .. 3 : i = 1 \/ i = 2 \/ i = 3)
      /\ (3 % 3) + 1 = 1 /\ (1 % 3) + 1 = 2 /\ (2 % 3) + 1 = 3
  BY SMT
<1>5. ASSUME NEW p \in inside PROVE p \in fill
  <2>1. p \in Screen("Portrait") /\ p[1] \in Int /\ p[2] \in Int
    BY <1>2, Zenon
  <2>2. \A i \in 1 .. 3 : cross(i, p) = SideOf(poly, (i % 3) + 1, p[1], p[2])
    BY <1>1, <2>1, SideIsCross, Zenon
  <2>3. \/ \A i \in 1 .. 3 : cross(i, p) > 0
        \/ \A i \in 1 .. 3 : cross(i, p) < 0
    BY Zenon
  <2> HIDE DEF cross, poly, inside, fill
  <2>4. \/ \A i \in 1 .. 3 : SideOf(poly, (i % 3) + 1, p[1], p[2]) > 0
        \/ \A i \in 1 .. 3 : SideOf(poly, (i % 3) + 1, p[1], p[2]) < 0
    BY <2>2, <2>3, Zenon
  <2>5. \A k \in 1 .. 3 : \E i \in 1 .. 3 : k = (i % 3) + 1
    BY SMT
  <2>6. \/ \A k \in 1 .. 3 : SideOf(poly, k, p[1], p[2]) > 0
        \/ \A k \in 1 .. 3 : SideOf(poly, k, p[1], p[2]) < 0
    BY <2>4, <2>5, Zenon
  <2>. QED
    BY <1>1, <2>1, <2>6, InsideIsFilled, Zenon DEF fill
<1>6. ASSUME NEW p \in fill
      PROVE  /\ \E i, j \in 1 .. 3 : a(i)[1] <= p[1] /\ p[1] <= a(j)[1]
             /\ \E i, j \in 1 .. 3 : a(i)[2] < p[2] /\ p[2] <= a(j)[2]
  <2>1. p[1] \in Int /\ p[2] \in Int
    BY <1>2, <1>3, Zenon
  <2>. QED
    BY <1>1, <2>1, FilledIsInBox, Zenon DEF XOf, YOf
<1>. QED
  BY <1>5, <1>6, Zenon DEF TriangleIsFilled

(* Any triangle is filled: every point inside is, also where a row meets   *)
(* a corner or the division of a node rounds, and no point outside of its  *)
(* box is (GfxRenderer.cpp:812-878).                                       *)
THEOREM TrianglesAreAlwaysFilled == GraphicsSpec => []TriangleIsFilled
<1>1. CallInv => TriangleIsFilled
  <2> SUFFICES ASSUME CallInv, call.op = "triangle" PROVE TriangleIsFilled
    BY DEF TriangleIsFilled
  <2>1. call # NoCall /\ call \notin Lines /\ call \notin RoundedRects /\ call \notin Bitmaps
        /\ call \notin Images
    BY DEF NoCall, Lines, RoundedRects, Bitmaps, Images
  <2>. QED
    BY <2>1, TriangleFilled DEF CallInv
<1>. QED
  BY <1>1, CallAlways, PTL

-----------------------------------------------------------------------------
(* The scale of a picture.                                                 *)
NoCrop == <<0, 1>>

LEMMA SmallerIs ==
  ASSUME NEW a \in Int, NEW b \in Int, NEW c \in Int, NEW d \in Int
  PROVE  Smaller(<<a, b>>, <<c, d>>) = IF a * d < c * b THEN <<a, b>> ELSE <<c, d>>
  BY DEF Smaller

LEMMA Products ==
  ASSUME NEW a \in Nat, NEW b \in Nat, NEW c \in Nat, NEW d \in Nat, a <= c, b <= d
  PROVE  a * b <= c * d
<1>1. a * b <= c * b
  <2>1. (c - a) * b \in Nat
    OBVIOUS
  <2>. QED
    BY <2>1
<1>2. c * b <= c * d
  <2>1. c * (d - b) \in Nat
    OBVIOUS
  <2>. QED
    BY <2>1
<1>. QED
  BY <1>1, <1>2

LEMMA StrictProducts ==
  ASSUME NEW a \in Nat, NEW b \in Nat \ {0}, NEW c \in Nat, NEW d \in Nat, a < c, b <= d
  PROVE  a * b < c * d
<1>1. a * b < c * b
  <2>1. c - a - 1 \in Nat /\ (c - a - 1) * b \in Nat
    OBVIOUS
  <2>2. (c - a - 1) * b = c * b - a * b - b
    OBVIOUS
  <2>. QED
    BY <2>1, <2>2
<1>2. c * b <= c * d
  BY Products
<1>. QED
  BY <1>1, <1>2

(* Both paths scale alike: as little as fits the bounds.                   *)
LEMMA ScalesAgree ==
  ASSUME NEW w \in Nat \ {0}, NEW h \in Nat \ {0}, NEW mw \in Nat, NEW mh \in Nat
  PROVE  FitScale(w, h, mw, mh, NoCrop, NoCrop) = FitScale1Bit(w, h, mw, mh)
<1> DEFINE across == IF mw > 0 THEN <<mw * 1, w * (1 - 0)>> ELSE <<1, 1>>
           down == IF mh > 0 THEN <<mh * 1, h * (1 - 0)>> ELSE <<1, 1>>
           byWidth == IF mw > 0 /\ w > mw THEN <<mw, w>> ELSE <<1, 1>>
<1>1. FitScale(w, h, mw, mh, NoCrop, NoCrop) = Smaller(Smaller(across, down), <<1, 1>>)
  BY DEF FitScale, NoCrop
<1>2. FitScale1Bit(w, h, mw, mh) = IF mh > 0 /\ h > mh THEN Smaller(byWidth, <<mh, h>>) ELSE byWidth
  BY DEF FitScale1Bit
<1>3. /\ across = IF mw > 0 THEN <<mw, w>> ELSE <<1, 1>>
      /\ down = IF mh > 0 THEN <<mh, h>> ELSE <<1, 1>>
  <2>1. mw * 1 = mw /\ mh * 1 = mh /\ w * (1 - 0) = w /\ h * (1 - 0) = h
    OBVIOUS
  <2>. QED
    BY <2>1
<1> HIDE DEF across, down
<1>4. \A a, b \in Int : Smaller(<<a, b>>, <<1, 1>>) = IF a < b THEN <<a, b>> ELSE <<1, 1>>
  BY DEF Smaller
<1>5. \A c, d \in Int : Smaller(<<1, 1>>, <<c, d>>) = IF d < c THEN <<1, 1>> ELSE <<c, d>>
  BY DEF Smaller
<1>6. Smaller(<<mw, w>>, <<mh, h>>) = IF mw * h < mh * w THEN <<mw, w>> ELSE <<mh, h>>
  BY SmallerIs
<1>7. CASE ~ (mw > 0 /\ w > mw) /\ ~ (mh > 0 /\ h > mh)
  <2>1. Smaller(across, down) \in {<<1, 1>>, <<mw, w>>, <<mh, h>>}
    BY <1>3 DEF Smaller
  <2>2. mw > 0 => ~ mw < w
    BY <1>7
  <2>3. mh > 0 => ~ mh < h
    BY <1>7
  <2>4. CASE mw > 0 /\ mh > 0
    BY <1>1, <1>2, <1>4, <1>7, <2>1, <2>2, <2>3, <2>4
  <2>5. CASE mw > 0 /\ ~ mh > 0
    <3>1. Smaller(across, down) = <<1, 1>>
      BY <1>3, <1>4, <2>2, <2>5
    <3>. QED
      BY <1>1, <1>2, <1>4, <1>7, <3>1
  <2>6. CASE ~ mw > 0 /\ mh > 0
    <3>1. Smaller(across, down) \in {<<1, 1>>, <<mh, h>>}
      BY <1>3, <1>5, <2>6
    <3>. QED
      BY <1>1, <1>2, <1>4, <1>7, <2>3, <2>6, <3>1
  <2>7. CASE ~ mw > 0 /\ ~ mh > 0
    BY <1>1, <1>2, <1>3, <1>4, <1>7, <2>7
  <2>. QED
    BY <2>4, <2>5, <2>6, <2>7
<1>8. CASE (mw > 0 /\ w > mw) /\ (mh > 0 /\ h > mh)
  BY <1>1, <1>2, <1>3, <1>4, <1>6, <1>8
<1>9. CASE (mw > 0 /\ w > mw) /\ ~ (mh > 0 /\ h > mh)
  <2>1. CASE mh > 0
    <3>1. mw * h < mh * w
      <4>1. mw * h < w * mh
        BY <1>9, <2>1, StrictProducts
      <4>. QED
        BY <4>1
    <3>. QED
      BY <1>1, <1>2, <1>3, <1>4, <1>6, <1>9, <2>1, <3>1
  <2>2. CASE ~ mh > 0
    BY <1>1, <1>2, <1>3, <1>4, <1>9, <2>2
  <2>. QED
    BY <2>1, <2>2
<1>10. CASE ~ (mw > 0 /\ w > mw) /\ (mh > 0 /\ h > mh)
  <2>1. FitScale1Bit(w, h, mw, mh) = <<mh, h>>
    BY <1>2, <1>5, <1>10
  <2>2. CASE mw > 0
    <3>1. ~ mw * h < mh * w
      <4>1. mh * w <= h * mw
        BY <1>10, <2>2, Products
      <4>. QED
        BY <4>1
    <3>. QED
      BY <1>1, <1>3, <1>4, <1>6, <1>10, <2>1, <2>2, <3>1
  <2>3. CASE ~ mw > 0
    BY <1>1, <1>3, <1>4, <1>5, <1>10, <2>1, <2>3
  <2>. QED
    BY <2>2, <2>3
<1>. QED
  BY <1>7, <1>8, <1>9, <1>10

LEMMA ScaleFits ==
  ASSUME NEW w \in Nat \ {0}, NEW h \in Nat \ {0}, NEW mw \in Nat, NEW mh \in Nat
  PROVE  \E n, d \in Nat \ {0} :
           /\ FitScale1Bit(w, h, mw, mh) = <<n, d>> /\ n <= d
           /\ mw > 0 => n * w <= mw * d
           /\ mh > 0 => n * h <= mh * d
           /\ mw = 0 /\ mh = 0 => n = 1 /\ d = 1
<1> DEFINE byWidth == IF mw > 0 /\ w > mw THEN <<mw, w>> ELSE <<1, 1>>
<1>1. FitScale1Bit(w, h, mw, mh) = IF mh > 0 /\ h > mh THEN Smaller(byWidth, <<mh, h>>) ELSE byWidth
  BY DEF FitScale1Bit
<1>2. CASE ~ (mw > 0 /\ w > mw) /\ ~ (mh > 0 /\ h > mh)
  BY <1>1, <1>2
<1>3. CASE (mw > 0 /\ w > mw) /\ ~ (mh > 0 /\ h > mh)
  <2>1. mh > 0 => mw * h <= mh * w
    <3>1. mh > 0 => mw * h <= w * mh
      BY <1>3, Products
    <3>. QED
      BY <3>1
  <2>. QED
    BY <1>1, <1>3, <2>1
<1>4. CASE ~ (mw > 0 /\ w > mw) /\ (mh > 0 /\ h > mh)
  <2>1. mw > 0 => mh * w <= mw * h
    <3>1. mw > 0 => mh * w <= h * mw
      BY <1>4, Products
    <3>. QED
      BY <3>1
  <2>2. FitScale1Bit(w, h, mw, mh) = <<mh, h>>
    BY <1>1, <1>4, SmallerIs
  <2>. QED
    BY <1>4, <2>1, <2>2
<1>5. CASE (mw > 0 /\ w > mw) /\ (mh > 0 /\ h > mh)
  <2>1. FitScale1Bit(w, h, mw, mh) = IF mw * h < mh * w THEN <<mw, w>> ELSE <<mh, h>>
    BY <1>1, <1>5, SmallerIs
  <2>2. CASE mw * h < mh * w
    BY <1>5, <2>1, <2>2
  <2>3. CASE ~ mw * h < mh * w
    BY <1>5, <2>1, <2>3
  <2>. QED
    BY <2>2, <2>3
<1>. QED
  BY <1>2, <1>3, <1>4, <1>5

LEMMA ScaledIs ==
  ASSUME NEW n \in Nat \ {0}, NEW d \in Nat \ {0}, n <= d, NEW i \in Nat
  PROVE  /\ Scaled(i, <<n, d>>) \in 0 .. i
         /\ \A s, m \in Nat : n * s <= m * d /\ i < s => Scaled(i, <<n, d>>) < m
<1> DEFINE q == (i * n) \div d
<1>1. i * n \in Nat
  OBVIOUS
<1>2. q \in Int /\ (i * n) % d \in 0 .. d - 1 /\ i * n = d * q + ((i * n) % d)
  <2> DEFINE a == i * n
  <2>1. a \in Int
    OBVIOUS
  <2> HIDE DEF a
  <2>2. a = d * (a \div d) + (a % d) /\ a % d \in 0 .. d - 1 /\ a \div d \in Int
    BY <2>1, DivMod
  <2>. QED
    BY <2>2 DEF a
<1>3. Scaled(i, <<n, d>>) = q
  BY DEF Scaled
<1> HIDE DEF q
<1>4. d * q <= i * n /\ i * n < d * (q + 1)
  <2>1. d * (q + 1) = d * q + d
    BY <1>2
  <2>2. d * q \in Int
    BY <1>2
  <2>. QED
    BY <1>1, <1>2, <2>1, <2>2
<1>5. q >= 0
  <2> SUFFICES ASSUME q + 1 <= 0 PROVE FALSE
    BY <1>2
  <2>1. d * (0 - (q + 1)) \in Nat
    BY <1>2
  <2>2. d * (q + 1) = 0 - d * (0 - (q + 1)) /\ d * (q + 1) \in Int
    BY <1>2
  <2>. QED
    BY <1>1, <1>4, <2>1, <2>2
<1>6. ASSUME NEW x \in Nat, i * n <= x * d PROVE q <= x
  <2> SUFFICES ASSUME q > x PROVE FALSE
    BY <1>2, <1>6
  <2>1. (x + 1) * d <= q * d
    BY <1>2, Products
  <2>2. (x + 1) * d = x * d + d /\ q * d = d * q
    BY <1>2
  <2>3. x * d \in Nat /\ d * q \in Int
    BY <1>2
  <2>. QED
    BY <1>1, <1>4, <1>6, <2>1, <2>2, <2>3
<1>7. q <= i
  BY <1>6, Products
<1>8. ASSUME NEW s \in Nat, NEW m \in Nat, n * s <= m * d, i < s PROVE q < m
  <2> SUFFICES ASSUME q >= m PROVE FALSE
    BY <1>2, <1>8
  <2>1. m * d <= q * d
    BY <1>2, Products
  <2>2. i * n < s * n
    BY <1>8, StrictProducts
  <2>3. q * d = d * q /\ s * n = n * s /\ m * d \in Nat /\ d * q \in Int /\ s * n \in Nat
    BY <1>2
  <2>. QED
    BY <1>1, <1>4, <1>8, <2>1, <2>2, <2>3
<1>. QED
  BY <1>2, <1>3, <1>5, <1>7, <1>8

-----------------------------------------------------------------------------
(* Where the pixels of a picture go that are drawn in a pass.              *)
Spot(w, h, topDown, mw, mh, q) ==
  LET scale == FitScale1Bit(w, h, mw, mh)
  IN  <<Scaled(q[1] - 1, scale), Scaled(IF topDown THEN q[2] - 1 ELSE h - q[2], scale)>>

Spots(w, h, mode, rows, topDown, mw, mh) ==
  {Spot(w, h, topDown, mw, mh, p) : p \in {q \in (1 .. w) \X (1 .. h) : Inked(mode, rows[q[2]][q[1]])}}
     \cap Screen("Portrait")

Modes == {"BW", "GRAYSCALE_MSB", "GRAYSCALE_LSB"}

LEMMA InkedIs ==
  ASSUME NEW level
  PROVE  /\ Inked("BW", level) = (level < 3)
         /\ Inked("GRAYSCALE_MSB", level) = (level \in {1, 2})
         /\ Inked("GRAYSCALE_LSB", level) = (level = 1)
  BY Zenon DEF Inked

SpotIsIn(w, h, topDown, mw, mh, c, r) ==
  LET spot == Spot(w, h, topDown, mw, mh, <<c, r>>)
  IN  /\ spot[1] \in 0 .. c - 1 /\ spot[2] \in 0 .. h - 1
      /\ mw > 0 => spot[1] < mw
      /\ mh > 0 => spot[2] < mh
      /\ mw = 0 /\ mh = 0 => spot = <<c - 1, IF topDown THEN r - 1 ELSE h - r>>

LEMMA SpotIs ==
  ASSUME NEW w \in Nat \ {0}, NEW h \in Nat \ {0}, NEW topDown \in BOOLEAN, NEW mw \in Nat, NEW mh \in Nat,
         NEW c \in 1 .. w, NEW r \in 1 .. h
  PROVE  SpotIsIn(w, h, topDown, mw, mh, c, r)
<1> DEFINE j == IF topDown THEN r - 1 ELSE h - r
<1>1. PICK n \in Nat \ {0}, d \in Nat \ {0} :
         /\ FitScale1Bit(w, h, mw, mh) = <<n, d>> /\ n <= d
         /\ mw > 0 => n * w <= mw * d
         /\ mh > 0 => n * h <= mh * d
         /\ mw = 0 /\ mh = 0 => n = 1 /\ d = 1
  BY ScaleFits
<1>2. c - 1 \in Nat /\ c - 1 < w /\ j \in Nat /\ j < h /\ w \in Nat /\ h \in Nat
  OBVIOUS
<1>3. Spot(w, h, topDown, mw, mh, <<c, r>>) = <<Scaled(c - 1, <<n, d>>), Scaled(j, <<n, d>>)>>
  BY <1>1 DEF Spot
<1> HIDE DEF j
<1>4. Scaled(c - 1, <<n, d>>) \in 0 .. c - 1 /\ Scaled(j, <<n, d>>) \in 0 .. j
  BY <1>1, <1>2, ScaledIs
<1>5. mw > 0 => Scaled(c - 1, <<n, d>>) < mw
  BY <1>1, <1>2, ScaledIs
<1>6. mh > 0 => Scaled(j, <<n, d>>) < mh
  BY <1>1, <1>2, ScaledIs
<1>7. mw = 0 /\ mh = 0 => Scaled(c - 1, <<n, d>>) = c - 1 /\ Scaled(j, <<n, d>>) = j
  BY <1>1, <1>2 DEF Scaled
<1>8. j = IF topDown THEN r - 1 ELSE h - r
  BY DEF j
<1>. QED
  BY <1>2, <1>3, <1>4, <1>5, <1>6, <1>7, <1>8 DEF SpotIsIn

LEMMA PassDraws ==
  ASSUME NEW w \in Nat \ {0}, NEW h \in Nat \ {0}, h <= PanelWidth, NEW topDown \in BOOLEAN,
         NEW mw \in Nat, NEW mh \in Nat, NEW rows, Len(rows) = h, Len(rows[1]) = w, NEW mode \in Modes
  PROVE  DrawBitmap("Portrait", mode, rows, topDown, 0, 0, mw, mh, NoCrop, NoCrop)
           = Spots(w, h, mode, rows, topDown, mw, mh)
<1> DEFINE scale == FitScale(w, h, mw, mh, NoCrop, NoCrop)
           cropLeft == CropPix(w, NoCrop)
           cropTop == CropPix(h, NoCrop)
           screenX(c) == 0 + Scaled(c - 1 - cropLeft, scale)
           screenY(r) == 0 + Scaled(RowOnScreen(rows, topDown, r) - cropTop, scale)
           read == {r \in 1 .. h - cropTop : \A s \in 1 .. r : screenY(s) < ScreenHeight("Portrait")}
           ink == {p \in (cropLeft + 1 .. w - cropLeft) \X {r \in read : r > cropTop} :
                     Inked(mode, rows[p[2]][p[1]])}
           ink1 == {q \in (1 .. w) \X (1 .. h) : Inked(mode, rows[q[2]][q[1]])}
           spot(p) == Spot(w, h, topDown, mw, mh, p)
<1>1. DrawBitmap("Portrait", mode, rows, topDown, 0, 0, mw, mh, NoCrop, NoCrop)
        = {<<screenX(p[1]), screenY(p[2])>> : p \in ink} \cap Screen("Portrait")
  BY Zenon DEF DrawBitmap
<1>2. scale = FitScale1Bit(w, h, mw, mh)
  BY ScalesAgree
<1>3. cropLeft = 0 /\ cropTop = 0
  BY DEF CropPix, NoCrop
<1>4. ASSUME NEW c \in 1 .. w, NEW r \in 1 .. h
      PROVE  screenX(c) = spot(<<c, r>>)[1] /\ screenY(r) = spot(<<c, r>>)[2]
  <2> DEFINE j == IF topDown THEN r - 1 ELSE h - r
             fit == FitScale1Bit(w, h, mw, mh)
  <2>1. c - 1 - cropLeft = c - 1 /\ RowOnScreen(rows, topDown, r) - cropTop = j
    <3> HIDE DEF cropLeft, cropTop
    <3>. QED
      BY <1>3 DEF RowOnScreen
  <2>2. spot(<<c, r>>) = <<Scaled(c - 1, fit), Scaled(j, fit)>>
    BY DEF Spot
  <2>3. spot(<<c, r>>)[1] \in Int /\ spot(<<c, r>>)[2] \in Int
    <3>1. spot(<<c, r>>)[1] \in 0 .. c - 1 /\ spot(<<c, r>>)[2] \in 0 .. h - 1
      BY SpotIs DEF SpotIsIn
    <3> HIDE DEF spot
    <3>. QED
      BY <3>1
  <2>4. screenX(c) = 0 + Scaled(c - 1, fit) /\ screenY(r) = 0 + Scaled(j, fit)
    BY <1>2, <2>1
  <2> HIDE DEF j, fit, screenX, screenY, spot
  <2>. QED
    BY <2>2, <2>3, <2>4
<1>5. ASSUME NEW r \in 1 .. h PROVE screenY(r) < ScreenHeight("Portrait")
  <2>1. screenY(r) = spot(<<1, r>>)[2] /\ spot(<<1, r>>)[2] \in 0 .. h - 1
    BY <1>4, SpotIs DEF SpotIsIn
  <2>2. ScreenHeight("Portrait") = PanelWidth
    BY DEF ScreenHeight, Upright
  <2> HIDE DEF screenY, spot
  <2> DEFINE s == spot(<<1, r>>)[2]
  <2>3. s \in 0 .. h - 1 /\ screenY(r) = s
    BY <2>1
  <2> HIDE DEF s
  <2>. QED
    BY <2>2, <2>3, PanelAssumption
<1> HIDE DEF screenX, screenY
<1>6. read = 1 .. h
  <2>1. h - cropTop = h
    <3> HIDE DEF cropTop
    <3>. QED
      BY <1>3
  <2> HIDE DEF cropTop
  <2>. QED
    BY <1>5, <2>1
<1>7. ink = ink1
  <2>1. {r \in read : r > cropTop} = 1 .. h
    <3> HIDE DEF read, cropTop
    <3>. QED
      BY <1>3, <1>6
  <2>2. cropLeft + 1 .. w - cropLeft = 1 .. w
    <3> HIDE DEF cropLeft
    <3>. QED
      BY <1>3
  <2> HIDE DEF read, cropTop, cropLeft
  <2>. QED
    BY <2>1, <2>2
<1>8. ASSUME NEW p \in ink1 PROVE <<screenX(p[1]), screenY(p[2])>> = spot(p)
  <2>1. PICK c \in 1 .. w, r \in 1 .. h : p = <<c, r>>
    OBVIOUS
  <2>2. spot(p) = <<spot(p)[1], spot(p)[2]>>
    BY DEF Spot
  <2> HIDE DEF spot
  <2>. QED
    BY <1>4, <2>1, <2>2
<1> HIDE DEF ink, ink1, spot
<1>9. {<<screenX(p[1]), screenY(p[2])>> : p \in ink1} = {spot(p) : p \in ink1}
  BY <1>8
<1>. QED
  BY <1>1, <1>7, <1>9 DEF Spots, ink1, spot

LEMMA FastDraws ==
  ASSUME NEW w \in Nat \ {0}, NEW h \in Nat \ {0}, NEW topDown \in BOOLEAN,
         NEW mw \in Nat, NEW mh \in Nat, NEW rows, Len(rows) = h, Len(rows[1]) = w
  PROVE  DrawBitmap1Bit("Portrait", rows, topDown, 0, 0, mw, mh)
           = Spots(w, h, "BW", rows, topDown, mw, mh)
<1> DEFINE scale == FitScale1Bit(w, h, mw, mh)
           ink == {p \in (1 .. w) \X (1 .. h) : rows[p[2]][p[1]] < 3}
           place(p) == <<0 + Scaled(p[1] - 1, scale), 0 + Scaled(RowOnScreen(rows, topDown, p[2]), scale)>>
           ink1 == {q \in (1 .. w) \X (1 .. h) : Inked("BW", rows[q[2]][q[1]])}
           spot(p) == Spot(w, h, topDown, mw, mh, p)
<1>1. DrawBitmap1Bit("Portrait", rows, topDown, 0, 0, mw, mh) = {place(p) : p \in ink} \cap Screen("Portrait")
  BY Zenon DEF DrawBitmap1Bit
<1>2. ink = ink1
  BY InkedIs
<1>3. ASSUME NEW p \in ink1 PROVE place(p) = spot(p)
  <2>1. PICK c \in 1 .. w, r \in 1 .. h : p = <<c, r>>
    OBVIOUS
  <2>2. RowOnScreen(rows, topDown, r) = IF topDown THEN r - 1 ELSE h - r
    BY DEF RowOnScreen
  <2>3. spot(p) = <<Scaled(c - 1, scale), Scaled(RowOnScreen(rows, topDown, r), scale)>>
    BY <2>1, <2>2 DEF Spot
  <2>4. spot(p)[1] \in 0 .. c - 1 /\ spot(p)[2] \in 0 .. h - 1
    <3>1. SpotIsIn(w, h, topDown, mw, mh, c, r)
      BY SpotIs
    <3>. QED
      BY <2>1, <3>1 DEF SpotIsIn
  <2>5. place(p) = <<0 + Scaled(c - 1, scale), 0 + Scaled(RowOnScreen(rows, topDown, r), scale)>>
    BY <2>1
  <2> HIDE DEF place, spot, scale
  <2>. QED
    BY <2>3, <2>4, <2>5
<1> HIDE DEF ink, ink1, spot, place
<1>4. {place(p) : p \in ink1} = {spot(p) : p \in ink1}
  BY <1>3
<1>. QED
  BY <1>1, <1>2, <1>4 DEF Spots, ink1, spot

LEMMA BitmapsAreAlike == call \in Bitmaps => BitmapPathsAgree
<1> SUFFICES ASSUME call \in Bitmaps PROVE BitmapPathsAgree
  OBVIOUS
<1> DEFINE w == call.w
           h == call.h
           topDown == call.topDown
           mw == call.maxWidth
           mh == call.maxHeight
           rows == [r \in 1 .. call.h |-> [c \in 1 .. call.w |-> (c + 2 * r) % 4]]
           fast == DrawBitmap1Bit("Portrait", rows, call.topDown, 0, 0, call.maxWidth, call.maxHeight)
           pass(mode) == DrawBitmap("Portrait", mode, rows, call.topDown, 0, 0,
                                    call.maxWidth, call.maxHeight, <<0, 1>>, <<0, 1>>)
           at(p) == rows[IF call.topDown THEN p[2] + 1 ELSE call.h - p[2]][p[1] + 1]
           whole == (0 .. call.w - 1) \X (0 .. call.h - 1) \cap Screen("Portrait")
           spots(mode) == Spots(w, h, mode, rows, topDown, mw, mh)
           spot(p) == Spot(w, h, topDown, mw, mh, p)
           plain == mw = 0 /\ mh = 0
<1>1. /\ w \in Nat \ {0} /\ h \in Nat \ {0} /\ h <= PanelWidth /\ topDown \in BOOLEAN
      /\ mw \in Nat /\ mh \in Nat
  BY ShapesAssumption, PanelAssumption DEF Bitmaps, Coords
<1>2. Len(rows) = h /\ Len(rows[1]) = w
  <2>1. rows[1] = [c \in 1 .. w |-> (c + 2 * 1) % 4]
    BY <1>1
  <2>. QED
    BY <1>1, <2>1
<1> HIDE DEF rows
<1>3. fast = spots("BW")
  <2> HIDE DEF w, h, topDown, mw, mh
  <2>1. DrawBitmap1Bit("Portrait", rows, topDown, 0, 0, mw, mh) = spots("BW")
    BY <1>1, <1>2, FastDraws
  <2>. QED
    BY <2>1 DEF topDown, mw, mh
<1>4. \A mode \in Modes : pass(mode) = spots(mode)
  <2> SUFFICES ASSUME NEW mode \in Modes PROVE pass(mode) = spots(mode)
    OBVIOUS
  <2> HIDE DEF w, h, topDown, mw, mh
  <2>1. DrawBitmap("Portrait", mode, rows, topDown, 0, 0, mw, mh, NoCrop, NoCrop) = spots(mode)
    BY <1>1, <1>2, PassDraws
  <2>. QED
    BY <2>1 DEF topDown, mw, mh, NoCrop
<1> HIDE DEF fast, pass
<1>5. ASSUME NEW c \in 1 .. w, NEW r \in 1 .. h
      PROVE  /\ mw > 0 => spot(<<c, r>>)[1] < mw
             /\ mh > 0 => spot(<<c, r>>)[2] < mh
             /\ plain => spot(<<c, r>>) = <<c - 1, IF topDown THEN r - 1 ELSE h - r>>
  <2> HIDE DEF w, h, topDown, mw, mh
  <2>1. SpotIsIn(w, h, topDown, mw, mh, c, r)
    BY <1>1, SpotIs
  <2>. QED
    BY <2>1 DEF SpotIsIn
<1>6. ASSUME NEW mode, NEW p \in spots(mode)
      PROVE  \E c \in 1 .. w, r \in 1 .. h : p = spot(<<c, r>>) /\ Inked(mode, rows[r][c])
  <2>1. PICK q \in {q \in (1 .. w) \X (1 .. h) : Inked(mode, rows[q[2]][q[1]])} : p = spot(q)
    BY DEF Spots
  <2>2. PICK c \in 1 .. w, r \in 1 .. h : q = <<c, r>>
    BY <2>1
  <2> HIDE DEF w, h, spot
  <2>. QED
    BY <2>1, <2>2
<1>7. mw > 0 => \A p \in fast : p[1] < mw
  <2> SUFFICES ASSUME mw > 0, NEW p \in fast PROVE p[1] < mw
    OBVIOUS
  <2>1. PICK c \in 1 .. w, r \in 1 .. h : p = spot(<<c, r>>)
    BY <1>3, <1>6
  <2> HIDE DEF w, h, mw, spot
  <2>. QED
    BY <1>5, <2>1
<1>8. mh > 0 => \A p \in fast : p[2] < mh
  <2> SUFFICES ASSUME mh > 0, NEW p \in fast PROVE p[2] < mh
    OBVIOUS
  <2>1. PICK c \in 1 .. w, r \in 1 .. h : p = spot(<<c, r>>)
    BY <1>3, <1>6
  <2> HIDE DEF w, h, mh, spot
  <2>. QED
    BY <1>5, <2>1
<1>9. ASSUME plain, NEW p \in whole, NEW mode
      PROVE  p \in spots(mode) <=> Inked(mode, at(p))
  <2> DEFINE row == IF topDown THEN p[2] + 1 ELSE h - p[2]
  <2>1. PICK a \in 0 .. w - 1, b \in 0 .. h - 1 : p = <<a, b>>
    OBVIOUS
  <2>2. /\ a + 1 \in 1 .. w /\ row \in 1 .. h /\ b = (IF topDown THEN row - 1 ELSE h - row)
        /\ row = IF topDown THEN b + 1 ELSE h - b
    <3> HIDE DEF w, h, topDown
    <3>. QED
      BY <1>1, <2>1
  <2>3. at(p) = rows[row][a + 1]
    BY <2>1
  <2>4. spot(<<a + 1, row>>) = p
    <3>1. spot(<<a + 1, row>>) = <<a + 1 - 1, IF topDown THEN row - 1 ELSE h - row>>
      BY <1>5, <1>9, <2>2
    <3> HIDE DEF w, h, topDown, row, spot
    <3>. QED
      BY <2>1, <2>2, <3>1
  <2> HIDE DEF at, row
  <2>5. ASSUME Inked(mode, at(p)) PROVE p \in spots(mode)
    <3>1. <<a + 1, row>> \in {q \in (1 .. w) \X (1 .. h) : Inked(mode, rows[q[2]][q[1]])}
      <4> DEFINE q == <<a + 1, row>>
      <4>1. q \in (1 .. w) \X (1 .. h) /\ q[1] = a + 1 /\ q[2] = row
        BY <2>2
      <4> HIDE DEF q
      <4>2. Inked(mode, rows[q[2]][q[1]])
        BY <2>3, <2>5, <4>1
      <4>3. q \in {s \in (1 .. w) \X (1 .. h) : Inked(mode, rows[s[2]][s[1]])}
        BY <4>1, <4>2
      <4>. QED
        BY <4>3 DEF q
    <3>2. p \in Screen("Portrait")
      OBVIOUS
    <3> HIDE DEF whole
    <3>. QED
      BY <2>4, <3>1, <3>2 DEF Spots
  <2>6. ASSUME p \in spots(mode) PROVE Inked(mode, at(p))
    <3>1. PICK c \in 1 .. w, r \in 1 .. h : p = spot(<<c, r>>) /\ Inked(mode, rows[r][c])
      BY <1>6, <2>6
    <3>2. p = <<c - 1, IF topDown THEN r - 1 ELSE h - r>>
      BY <1>5, <1>9, <3>1
    <3>3. c = a + 1 /\ r = row
      <4> HIDE DEF w, h, topDown, spot, spots
      <4>. QED
        BY <1>1, <2>1, <2>2, <3>2
    <3>. QED
      BY <2>3, <3>1, <3>3
  <2>. QED
    BY <2>5, <2>6
<1>10. ASSUME plain, NEW p \in whole
       PROVE  <<p \in fast, p \in pass("GRAYSCALE_MSB"), p \in pass("GRAYSCALE_LSB")>>
                = <<at(p) < 3, at(p) \in {1, 2}, at(p) = 1>>
  <2> HIDE DEF at, spots
  <2>1. p \in fast <=> at(p) < 3
    <3>1. p \in fast <=> Inked("BW", at(p))
      BY <1>3, <1>9, <1>10
    <3>. QED
      BY <3>1, InkedIs
  <2>2. p \in pass("GRAYSCALE_MSB") <=> at(p) \in {1, 2}
    <3>1. p \in pass("GRAYSCALE_MSB") <=> Inked("GRAYSCALE_MSB", at(p))
      BY <1>4, <1>9, <1>10 DEF Modes
    <3>. QED
      BY <3>1, InkedIs
  <2>3. p \in pass("GRAYSCALE_LSB") <=> at(p) = 1
    <3>1. p \in pass("GRAYSCALE_LSB") <=> Inked("GRAYSCALE_LSB", at(p))
      BY <1>4, <1>9, <1>10 DEF Modes
    <3>. QED
      BY <3>1, InkedIs
  <2>. QED
    BY <2>1, <2>2, <2>3
<1>11. fast = pass("BW")
  BY <1>3, <1>4 DEF Modes
<1>. QED
  BY <1>7, <1>8, <1>10, <1>11, Zenon DEF BitmapPathsAgree, fast, pass, rows, at, whole

-----------------------------------------------------------------------------
(* Images of the driver.                                                   *)
LEMMA TurnedIs ==
  ASSUME NEW p
  PROVE  /\ RotateCoordinates("Portrait", p) = <<p[2], PanelHeight - 1 - p[1]>>
         /\ RotateCoordinates("LandscapeClockwise", p) = <<PanelWidth - 1 - p[1], PanelHeight - 1 - p[2]>>
         /\ RotateCoordinates("PortraitInverted", p) = <<PanelWidth - 1 - p[2], p[1]>>
         /\ RotateCoordinates("LandscapeCounterClockwise", p) = <<p[1], p[2]>>
  BY Zenon DEF RotateCoordinates

(* What an image covers of the screen, turned to the panel.                *)
LEMMA ImagesArePlaced == call \in Images => ImagesAreInPlace
<1> SUFFICES ASSUME call \in Images PROVE ImagesAreInPlace
  OBVIOUS
<1> DEFINE o == call.o
           x == call.x
           y == call.y
           w == call.w
           h == call.h
           place == {RotateCoordinates(call.o, p) : p \in Area(call.x, call.y, call.w, call.h)}
           left == IF call.o \in {"PortraitInverted", "LandscapeClockwise"} THEN 1 ELSE 0
           up == IF call.o \in {"Portrait", "LandscapeClockwise"} THEN 1 ELSE 0
           moved == {<<p[1] - left, p[2] - up>> : p \in place}
           covered == ImageArea(call.o, call.x, call.y, call.w, call.h)
           icon == IconArea(call.o, call.x, call.y, call.w, call.h)
<1>1. /\ o \in Orientations /\ x \in Nat /\ y \in Nat /\ w \in Nat /\ h \in Nat
      /\ PanelWidth \in Nat /\ PanelHeight \in Nat
  BY ShapesAssumption, PanelAssumption DEF Images, Coords
<1>2. ASSUME NEW a \in x .. x + w - 1, NEW b \in y .. y + h - 1
      PROVE  RotateCoordinates(o, <<a, b>>) \in place
  <2>1. <<a, b>> \in Area(call.x, call.y, call.w, call.h)
    BY DEF Area
  <2>. QED
    BY <2>1
<1>3. ASSUME NEW q \in place
      PROVE  \E a \in x .. x + w - 1, b \in y .. y + h - 1 : q = RotateCoordinates(o, <<a, b>>)
  <2>1. PICK p \in Area(call.x, call.y, call.w, call.h) : q = RotateCoordinates(o, p)
    OBVIOUS
  <2>2. PICK a \in x .. x + w - 1, b \in y .. y + h - 1 : p = <<a, b>>
    BY <2>1 DEF Area
  <2>. QED
    BY <2>1, <2>2
<1>4. /\ icon = Area(y, ScreenWidth(o) - w - x, h, w)
      /\ covered = Area(IF o \in {"PortraitInverted", "LandscapeClockwise"}
                        THEN RotateCoordinates(o, <<x, y>>)[1] - w ELSE RotateCoordinates(o, <<x, y>>)[1],
                      IF o \in {"Portrait", "LandscapeClockwise"}
                        THEN RotateCoordinates(o, <<x, y>>)[2] - h ELSE RotateCoordinates(o, <<x, y>>)[2], w, h)
  BY DEF IconArea, ImageArea
<1>8. /\ left = IF o \in {"PortraitInverted", "LandscapeClockwise"} THEN 1 ELSE 0
      /\ up = IF o \in {"Portrait", "LandscapeClockwise"} THEN 1 ELSE 0
  OBVIOUS
<1>9. ASSUME NEW a \in Int, NEW b \in Int, <<a + left, b + up>> \in place PROVE <<a, b>> \in moved
  <2> HIDE DEF place
  <2>1. PICK p \in place : p = <<a + left, b + up>>
    BY <1>9
  <2>2. p[1] - left = a /\ p[2] - up = b
    BY <2>1
  <2>. QED
    BY <2>1, <2>2, Zenon
<1>10. ASSUME NEW q \in moved PROVE \E p \in place : q = <<p[1] - left, p[2] - up>>
  BY Zenon
<1> HIDE DEF o, x, y, w, h, place, covered, icon, left, up, moved
<1>5. ASSUME o = "Portrait" PROVE icon = place
  <2>1. ScreenWidth(o) = PanelHeight
    BY <1>5 DEF ScreenWidth, Upright
  <2>2. icon = (y .. y + h - 1) \X (PanelHeight - w - x .. PanelHeight - w - x + w - 1)
    BY <1>4, <2>1 DEF Area
  <2>3. ASSUME NEW q \in icon PROVE q \in place
    <3>1. PICK a \in y .. y + h - 1, b \in PanelHeight - w - x .. PanelHeight - w - x + w - 1 : q = <<a, b>>
      BY <2>2
    <3>2. PanelHeight - 1 - b \in x .. x + w - 1
      BY <1>1
    <3>3. RotateCoordinates(o, <<PanelHeight - 1 - b, a>>) = <<a, PanelHeight - 1 - (PanelHeight - 1 - b)>>
      BY <1>5, TurnedIs
    <3>4. PanelHeight - 1 - (PanelHeight - 1 - b) = b
      BY <1>1
    <3>5. RotateCoordinates(o, <<PanelHeight - 1 - b, a>>) \in place
      BY <1>2, <3>2
    <3>. QED
      BY <3>1, <3>3, <3>4, <3>5
  <2>4. ASSUME NEW q \in place PROVE q \in icon
    <3>1. PICK a \in x .. x + w - 1, b \in y .. y + h - 1 : q = RotateCoordinates(o, <<a, b>>)
      BY <1>3
    <3>2. q = <<b, PanelHeight - 1 - a>>
      BY <1>5, <3>1, TurnedIs
    <3>3. PanelHeight - 1 - a \in PanelHeight - w - x .. PanelHeight - w - x + w - 1
      BY <1>1
    <3>. QED
      BY <2>2, <3>2, <3>3
  <2>5. icon \subseteq place /\ place \subseteq icon
    BY <2>3, <2>4
  <2>. QED
    BY <2>5
<1>6. ASSUME o \in {"Portrait", "PortraitInverted"} => w = h PROVE covered = moved
  <2>1. CASE o = "Portrait"
    <3>1. left = 0 /\ up = 1
      BY <1>8, <2>1
    <3>2. covered = (y .. y + w - 1) \X (PanelHeight - 1 - x - h .. PanelHeight - 1 - x - h + h - 1)
      <4>1. RotateCoordinates(o, <<x, y>>) = <<y, PanelHeight - 1 - x>>
        BY <2>1, TurnedIs
      <4>2. RotateCoordinates(o, <<x, y>>)[1] = y /\ RotateCoordinates(o, <<x, y>>)[2] = PanelHeight - 1 - x
        BY <4>1
      <4>3. covered = Area(y, PanelHeight - 1 - x - h, w, h)
        BY <1>4, <2>1, <4>2
      <4>. QED
        BY <4>3 DEF Area
    <3>3. ASSUME NEW p \in covered PROVE p \in moved
      <4>1. PICK a \in y .. y + w - 1, b \in PanelHeight - 1 - x - h .. PanelHeight - 1 - x - h + h - 1 : p = <<a, b>>
        BY <3>2
      <4>2. PICK c \in x .. x + w - 1, d \in y .. y + h - 1 : c = PanelHeight - 1 - (b + 1) /\ d = a
        BY <1>1, <1>6, <2>1
      <4>3. RotateCoordinates(o, <<c, d>>) \in place /\ RotateCoordinates(o, <<c, d>>) = <<d, PanelHeight - 1 - c>>
        BY <1>2, <2>1, TurnedIs
      <4>4. d = a + left /\ PanelHeight - 1 - c = b + up /\ a \in Int /\ b \in Int
        BY <1>1, <3>1, <4>2
      <4>5. <<a + left, b + up>> \in place
        BY <4>3, <4>4
      <4>. QED
        BY <1>9, <4>1, <4>4, <4>5
    <3>4. ASSUME NEW q \in moved PROVE q \in covered
      <4>1. PICK p \in place : q = <<p[1] - left, p[2] - up>>
        BY <1>10
      <4>2. PICK c \in x .. x + w - 1, d \in y .. y + h - 1 : p = RotateCoordinates(o, <<c, d>>)
        BY <1>3
      <4>3. p = <<d, PanelHeight - 1 - c>>
        BY <2>1, <4>2, TurnedIs
      <4>4. q = <<d - 0, PanelHeight - 1 - c - 1>>
        BY <3>1, <4>1, <4>3
      <4>5. /\ d - 0 \in y .. y + w - 1
            /\ PanelHeight - 1 - c - 1 \in PanelHeight - 1 - x - h .. PanelHeight - 1 - x - h + h - 1
        BY <1>1, <1>6, <2>1
      <4>. QED
        BY <3>2, <4>4, <4>5
    <3>. QED
      BY <3>3, <3>4
  <2>2. CASE o = "LandscapeClockwise"
    <3>1. left = 1 /\ up = 1
      BY <1>8, <2>2
    <3>2. covered = (PanelWidth - 1 - x - w .. PanelWidth - 1 - x - w + w - 1)
                    \X (PanelHeight - 1 - y - h .. PanelHeight - 1 - y - h + h - 1)
      <4>1. RotateCoordinates(o, <<x, y>>) = <<PanelWidth - 1 - x, PanelHeight - 1 - y>>
        BY <2>2, TurnedIs
      <4>2. /\ RotateCoordinates(o, <<x, y>>)[1] = PanelWidth - 1 - x
            /\ RotateCoordinates(o, <<x, y>>)[2] = PanelHeight - 1 - y
        BY <4>1
      <4>3. covered = Area(PanelWidth - 1 - x - w, PanelHeight - 1 - y - h, w, h)
        BY <1>4, <2>2, <4>2
      <4>. QED
        BY <4>3 DEF Area
    <3>3. ASSUME NEW p \in covered PROVE p \in moved
      <4>1. PICK a \in PanelWidth - 1 - x - w .. PanelWidth - 1 - x - w + w - 1,
                 b \in PanelHeight - 1 - y - h .. PanelHeight - 1 - y - h + h - 1 :
                   p = <<a, b>>
        BY <3>2
      <4>2. PICK c \in x .. x + w - 1,
                 d \in y .. y + h - 1 :
                   c = PanelWidth - 1 - (a + 1) /\ d = PanelHeight - 1 - (b + 1)
        BY <1>1, <1>6, <2>2
      <4>3. /\ RotateCoordinates(o, <<c, d>>) \in place
            /\ RotateCoordinates(o, <<c, d>>) = <<PanelWidth - 1 - c, PanelHeight - 1 - d>>
        BY <1>2, <2>2, TurnedIs
      <4>4. PanelWidth - 1 - c = a + left /\ PanelHeight - 1 - d = b + up /\ a \in Int /\ b \in Int
        BY <1>1, <3>1, <4>2
      <4>5. <<a + left, b + up>> \in place
        BY <4>3, <4>4
      <4>. QED
        BY <1>9, <4>1, <4>4, <4>5
    <3>4. ASSUME NEW q \in moved PROVE q \in covered
      <4>1. PICK p \in place : q = <<p[1] - left, p[2] - up>>
        BY <1>10
      <4>2. PICK c \in x .. x + w - 1, d \in y .. y + h - 1 : p = RotateCoordinates(o, <<c, d>>)
        BY <1>3
      <4>3. p = <<PanelWidth - 1 - c, PanelHeight - 1 - d>>
        BY <2>2, <4>2, TurnedIs
      <4>4. q = <<PanelWidth - 1 - c - 1, PanelHeight - 1 - d - 1>>
        BY <3>1, <4>1, <4>3
      <4>5. /\ PanelWidth - 1 - c - 1 \in PanelWidth - 1 - x - w .. PanelWidth - 1 - x - w + w - 1
            /\ PanelHeight - 1 - d - 1 \in PanelHeight - 1 - y - h .. PanelHeight - 1 - y - h + h - 1
        BY <1>1, <1>6, <2>2
      <4>. QED
        BY <3>2, <4>4, <4>5
    <3>. QED
      BY <3>3, <3>4
  <2>3. CASE o = "PortraitInverted"
    <3>1. left = 1 /\ up = 0
      BY <1>8, <2>3
    <3>2. covered = (PanelWidth - 1 - y - w .. PanelWidth - 1 - y - w + w - 1) \X (x .. x + h - 1)
      <4>1. RotateCoordinates(o, <<x, y>>) = <<PanelWidth - 1 - y, x>>
        BY <2>3, TurnedIs
      <4>2. RotateCoordinates(o, <<x, y>>)[1] = PanelWidth - 1 - y /\ RotateCoordinates(o, <<x, y>>)[2] = x
        BY <4>1
      <4>3. covered = Area(PanelWidth - 1 - y - w, x, w, h)
        BY <1>4, <2>3, <4>2
      <4>. QED
        BY <4>3 DEF Area
    <3>3. ASSUME NEW p \in covered PROVE p \in moved
      <4>1. PICK a \in PanelWidth - 1 - y - w .. PanelWidth - 1 - y - w + w - 1, b \in x .. x + h - 1 : p = <<a, b>>
        BY <3>2
      <4>2. PICK c \in x .. x + w - 1, d \in y .. y + h - 1 : c = b /\ d = PanelWidth - 1 - (a + 1)
        BY <1>1, <1>6, <2>3
      <4>3. RotateCoordinates(o, <<c, d>>) \in place /\ RotateCoordinates(o, <<c, d>>) = <<PanelWidth - 1 - d, c>>
        BY <1>2, <2>3, TurnedIs
      <4>4. PanelWidth - 1 - d = a + left /\ c = b + up /\ a \in Int /\ b \in Int
        BY <1>1, <3>1, <4>2
      <4>5. <<a + left, b + up>> \in place
        BY <4>3, <4>4
      <4>. QED
        BY <1>9, <4>1, <4>4, <4>5
    <3>4. ASSUME NEW q \in moved PROVE q \in covered
      <4>1. PICK p \in place : q = <<p[1] - left, p[2] - up>>
        BY <1>10
      <4>2. PICK c \in x .. x + w - 1, d \in y .. y + h - 1 : p = RotateCoordinates(o, <<c, d>>)
        BY <1>3
      <4>3. p = <<PanelWidth - 1 - d, c>>
        BY <2>3, <4>2, TurnedIs
      <4>4. q = <<PanelWidth - 1 - d - 1, c - 0>>
        BY <3>1, <4>1, <4>3
      <4>5. /\ PanelWidth - 1 - d - 1 \in PanelWidth - 1 - y - w .. PanelWidth - 1 - y - w + w - 1
            /\ c - 0 \in x .. x + h - 1
        BY <1>1, <1>6, <2>3
      <4>. QED
        BY <3>2, <4>4, <4>5
    <3>. QED
      BY <3>3, <3>4
  <2>4. CASE o = "LandscapeCounterClockwise"
    <3>1. left = 0 /\ up = 0
      BY <1>8, <2>4
    <3>2. covered = (x .. x + w - 1) \X (y .. y + h - 1)
      <4>1. RotateCoordinates(o, <<x, y>>) = <<x, y>>
        BY <2>4, TurnedIs
      <4>2. RotateCoordinates(o, <<x, y>>)[1] = x /\ RotateCoordinates(o, <<x, y>>)[2] = y
        BY <4>1
      <4>3. covered = Area(x, y, w, h)
        BY <1>4, <2>4, <4>2
      <4>. QED
        BY <4>3 DEF Area
    <3>3. ASSUME NEW p \in covered PROVE p \in moved
      <4>1. PICK a \in x .. x + w - 1, b \in y .. y + h - 1 : p = <<a, b>>
        BY <3>2
      <4>2. PICK c \in x .. x + w - 1, d \in y .. y + h - 1 : c = a /\ d = b
        BY <1>1, <1>6, <2>4
      <4>3. RotateCoordinates(o, <<c, d>>) \in place /\ RotateCoordinates(o, <<c, d>>) = <<c, d>>
        BY <1>2, <2>4, TurnedIs
      <4>4. c = a + left /\ d = b + up /\ a \in Int /\ b \in Int
        BY <1>1, <3>1, <4>2
      <4>5. <<a + left, b + up>> \in place
        BY <4>3, <4>4
      <4>. QED
        BY <1>9, <4>1, <4>4, <4>5
    <3>4. ASSUME NEW q \in moved PROVE q \in covered
      <4>1. PICK p \in place : q = <<p[1] - left, p[2] - up>>
        BY <1>10
      <4>2. PICK c \in x .. x + w - 1, d \in y .. y + h - 1 : p = RotateCoordinates(o, <<c, d>>)
        BY <1>3
      <4>3. p = <<c, d>>
        BY <2>4, <4>2, TurnedIs
      <4>4. q = <<c - 0, d - 0>>
        BY <3>1, <4>1, <4>3
      <4>5. c - 0 \in x .. x + w - 1 /\ d - 0 \in y .. y + h - 1
        BY <1>1, <1>6, <2>4
      <4>. QED
        BY <3>2, <4>4, <4>5
    <3>. QED
      BY <3>3, <3>4
  <2>. QED
    BY <1>1, <2>1, <2>2, <2>3, <2>4 DEF Orientations
<1>7. ~ Upright(o) \/ w = h => covered = moved
  BY <1>6, Zenon DEF Upright
<1>. QED
  BY <1>5, <1>7, Zenon DEF ImagesAreInPlace, o, x, y, w, h, place, covered, icon, left, up, moved

LEMMA PicturesAreAlike == call \in Bitmaps \cup Images => PicturesAgree
<1>1. call \in Bitmaps => call.op = "bitmap"
  BY DEF Bitmaps
<1>2. call \in Images => call.op = "image"
  BY DEF Images
<1>3. call.op # "image" => ImagesAreInPlace
  BY Zenon DEF ImagesAreInPlace
<1>4. call.op # "bitmap" => BitmapPathsAgree
  BY Zenon DEF BitmapPathsAgree
<1>5. "bitmap" # "image"
  OBVIOUS
<1>. QED
  BY <1>1, <1>2, <1>3, <1>4, <1>5, BitmapsAreAlike, ImagesArePlaced DEF PicturesAgree

(* For all sizes and bounds of a picture that fits the screen, both paths  *)
(* draw the same, within the bounds, and the passes tell its levels apart; *)
(* icons on the upright screen cover their rectangle, and images theirs    *)
(* moved by the pixel that drawImage() takes off, of any size on a lying   *)
(* screen and square on an upright one (GfxRenderer.cpp:608-810).          *)
THEOREM PicturesAlwaysAgree == GraphicsSpec => []PicturesAgree
<1>1. CallInv => PicturesAgree
  <2> SUFFICES ASSUME CallInv, call \notin Bitmaps \cup Images PROVE PicturesAgree
    BY PicturesAreAlike
  <2>1. call.op # "bitmap" /\ call.op # "image"
    BY DEF CallInv, NoCall, Lines, RoundedRects, Triangles
  <2>. QED
    BY <2>1, Zenon DEF PicturesAgree, BitmapPathsAgree, ImagesAreInPlace
<1>. QED
  BY <1>1, CallAlways, PTL
=============================================================================
