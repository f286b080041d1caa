----------------------------- MODULE TrmnlImage -----------------------------
(***************************************************************************)
(* Downloading a picture and drawing it (src/trmnl/TrmnlImage.cpp).        *)
(*                                                                         *)
(* A picture is what its file holds: the fields of the header that the     *)
(* decoder looks at, and for every pixel one of two values.  Its pixels    *)
(* are given where they belong on the screen; the rows of a bottom-up BMP  *)
(* are in the file from the last to the first.  The bytes of a download    *)
(* are counted in parts, its time in ticks.                                *)
(***************************************************************************)
EXTENDS HalDisplay, FiniteSets, Sequences

CONSTANTS
  Sizes,        \* widths and heights of the pictures
  MaxParts,     \* bound on the parts of a download
  Deadline,     \* kDownloadDeadlineMs in ticks
  MaxStall      \* the longest readBytes() takes: the timeout of the stream

ASSUME ImageAssumption ==
  Sizes \subseteq Nat \ {0} /\ MaxParts \in Nat /\ Deadline \in Nat /\ MaxStall \in Nat

VARIABLE image    \* downloadAndRender(): where it is, and what it received

imageVars == <<image>>

-----------------------------------------------------------------------------
(* PNG: which pixels stay white.                                           *)

\* The values a pixel is decided from, whatever stands before or after it.
Rgb(v) == v[1] + v[2] + v[3] >= 128 * 3

(* From which value on a gray of so many bits stays white.                 *)
BrightGray(bpp) == CASE bpp = 1 -> 1 [] bpp = 2 -> 2 [] bpp = 4 -> 8 [] bpp = 8 -> 128

PngPixelIsBright(pic, v) ==
  CASE pic.type = "indexed"    -> IF pic.bpp \notin {1, 2, 4, 8} THEN TRUE
                                  ELSE IF pic.palette THEN Rgb(v) ELSE v[1] > 0
    [] pic.type = "gray"       -> IF pic.bpp \notin {1, 2, 4, 8} THEN TRUE
                                  ELSE v[1] >= BrightGray(pic.bpp)
    [] pic.type = "gray_alpha" -> v[1] >= 128
    [] OTHER                   -> Rgb(v)

(* drawScanlineCallback() for the first rows of a picture: what lies       *)
(* beyond the panel is dropped.                                            *)
DrawScanlines(buffer, pic, rows) ==
  [q \in Panel |-> IF q[2] < rows /\ q[1] < pic.w
                     THEN IF PngPixelIsBright(pic, pic.pixel[q]) THEN White ELSE Black
                     ELSE buffer[q]]

(* decodePngToFramebuffer(): the library calls back for row after row and  *)
(* reports, at the start, midway or at the end, that the data is damaged.  *)
DecodePng(buffer, pic) ==
  IF pic.damaged = 0 THEN [ok |-> FALSE, fb |-> buffer]
  ELSE [ok |-> pic.damaged > pic.h,
        fb |-> DrawScanlines(buffer, pic, IF pic.damaged > pic.h THEN pic.h ELSE pic.damaged)]

-----------------------------------------------------------------------------
(* BMP of one bit per pixel.                                               *)

BmpRowBytes(w) == ((w + 31) \div 32) * 4
Lesser(a, b) == IF a < b THEN a ELSE b

BmpIsSound(pic) ==
  /\ pic.length >= 62
  /\ pic.dibSize >= 40
  /\ pic.bpp = 1
  /\ pic.compression = 0
  /\ pic.pixelOffset + 1 < pic.length
  /\ pic.w > 0 /\ pic.h > 0
  /\ pic.pixelOffset + BmpRowBytes(pic.w) * pic.h <= pic.length

(* The colour table tells which index is bright, if the file has one.      *)
IndexBright(pic, index) ==
  IF 14 + pic.dibSize + 8 <= pic.length THEN Rgb(pic.colors[index + 1]) ELSE index = 1

\* A slip to test against: the first row of the file is the top of the screen.
Slip_DstRow(pic, srcRow) == srcRow

DstRow(pic, srcRow) == IF pic.topDown THEN srcRow ELSE pic.h - 1 - srcRow

(* The index at a column of a row of the file.                             *)
FileIndex(pic, x, srcRow) ==
  pic.pixel[<<x, IF pic.topDown THEN srcRow ELSE pic.h - 1 - srcRow>>]

(* decodeBmp1bppToFramebuffer(): as many rows of the file as the panel has *)
(* are looked at, from the first one on.                                   *)
DecodeBmp(buffer, pic) ==
  LET rowsToWrite == 0 .. Lesser(pic.h, PanelHeight) - 1
      from(q) == {r \in rowsToWrite : DstRow(pic, r) = q[2]}
  IN  IF ~ BmpIsSound(pic) THEN [ok |-> FALSE, fb |-> buffer]
      ELSE [ok |-> TRUE,
            fb |-> [q \in Panel |->
                      IF q[1] >= pic.w \/ from(q) = {} THEN buffer[q]
                      ELSE IF \A r \in from(q) : IndexBright(pic, FileIndex(pic, q[1], r))
                             THEN White ELSE Black]]

Decode(buffer, pic) ==
  CASE pic.format = "bmp" -> DecodeBmp(buffer, pic)
    [] pic.format = "png" -> DecodePng(buffer, pic)
    [] OTHER              -> [ok |-> FALSE, fb |-> buffer]

-----------------------------------------------------------------------------
(* The pictures a server may send.                                         *)

(* A picture that is not the same upside down, turned round or shifted.    *)
Marked(p) == p[1] = 0 \/ p[2] = 1 \/ (p[1] = 2 /\ p[2] % 3 = 0)

Pixels(w, h, marked, rest) ==
  [p \in (0 .. w - 1) \X (0 .. h - 1) |-> IF Marked(p) THEN marked ELSE rest]

Bmp(w, h, topDown) ==
  [format |-> "bmp", w |-> w, h |-> h, topDown |-> topDown, dibSize |-> 40, bpp |-> 1,
   compression |-> 0, pixelOffset |-> 62, length |-> 62 + BmpRowBytes(w) * h,
   colors |-> <<<<0, 0, 0>>, <<255, 255, 255>>>>, pixel |-> Pixels(w, h, 0, 1)]

(* Bitmaps of every size, and of the size of the panel with other colours, *)
(* with a longer header, without a table, and with every kind of fault.    *)
PanelBmp == Bmp(PanelWidth, PanelHeight, FALSE)
Bmps ==
  {Bmp(w, h, t) : w, h \in Sizes, t \in BOOLEAN}
  \cup {[PanelBmp EXCEPT !.colors = <<<<200, 180, 100>>, <<10, 20, 30>>>>],
        [PanelBmp EXCEPT !.dibSize = 124, !.pixelOffset = 146, !.length = @ + 84],
        [PanelBmp EXCEPT !.dibSize = PanelBmp.length],
        [PanelBmp EXCEPT !.dibSize = 12], [PanelBmp EXCEPT !.bpp = 8],
        [PanelBmp EXCEPT !.compression = 1], [PanelBmp EXCEPT !.length = @ - 1],
        [PanelBmp EXCEPT !.length = 61], [PanelBmp EXCEPT !.pixelOffset = @ + 1],
        [PanelBmp EXCEPT !.h = 0]}

Png(type, bpp, marked, rest, w, h, damaged) ==
  [format |-> "png", type |-> type, bpp |-> bpp, w |-> w, h |-> h, palette |-> type = "indexed",
   damaged |-> damaged, pixel |-> Pixels(w, h, marked, rest)]

Gray(v) == <<v, v, v>>
Pngs ==
  {Png("gray", bpp, Gray(BrightGray(bpp) - 1), Gray(BrightGray(bpp)), PanelWidth, PanelHeight, PanelHeight + 1) :
     bpp \in {1, 2, 4, 8}}
  \cup {Png(t, 8, <<127, 127, 129>>, <<128, 127, 129>>, PanelWidth, PanelWidth, PanelWidth + 1) :
          t \in {"indexed", "rgba"}}
  \cup {Png("rgb", 8, <<127, 127, 129>>, <<128, 127, 129>>, w, h, h + 1) : w, h \in Sizes}
  \cup {Png("gray_alpha", 8, Gray(127), Gray(128), PanelWidth, PanelHeight, d) :
          d \in {0, 1, PanelHeight, PanelHeight + 1}}
  \cup {[Png("indexed", 1, Gray(0), Gray(1), PanelWidth, PanelHeight, PanelHeight + 1)
           EXCEPT !.palette = FALSE]}

Sent == Bmps \cup Pngs \cup {[format |-> "gif"]}

-----------------------------------------------------------------------------
(* downloadAndRender().                                                    *)

NoDownload == [pc |-> "idle"]
Receiving(left, clock) == [pc |-> "receiving", left |-> left, clock |-> clock]
Received == Receiving(0, 0)    \* nobody asks for the time any more

ImageInit == image = NoDownload

(* begin() fails, the answer is not 200, its size is none or above the     *)
(* limit, or there is no memory for it: the picture is given up.  Else its *)
(* parts are received.                                                     *)
RequestImage ==
  /\ image.pc \in {"idle", "failed", "shown"}
  /\ \/ image' = [pc |-> "failed"]
     \/ \E n \in 1 .. MaxParts : image' = Receiving(n, 0)
  /\ UNCHANGED displayVars

(* Something is there: readBytes() takes some time for some of it, or      *)
(* gives up, and so does the loop.                                         *)
ReadParts ==
  /\ image.pc = "receiving" /\ image.left > 0 /\ image.clock < Deadline
  /\ \/ image' = [pc |-> "failed"]
     \/ \E n \in 1 .. image.left, t \in 0 .. MaxStall :
          image' = IF n = image.left THEN Received ELSE Receiving(image.left - n, image.clock + t)
  /\ UNCHANGED displayVars

\* A slip to test against: a clock too narrow for the deadline starts over.
Slip_WaitForParts ==
  /\ image.pc = "receiving" /\ image.left > 0 /\ image.clock < Deadline
  /\ image' = Receiving(image.left, (image.clock + 1) % Deadline)
  /\ UNCHANGED displayVars

(* Nothing is there: delay(2).                                             *)
WaitForParts ==
  /\ image.pc = "receiving" /\ image.left > 0 /\ image.clock < Deadline
  /\ image' = Receiving(image.left, image.clock + 1)
  /\ UNCHANGED displayVars

GiveUp ==
  /\ image.pc = "receiving" /\ image.left > 0 /\ image.clock >= Deadline
  /\ image' = [pc |-> "failed"]
  /\ UNCHANGED displayVars

(* The picture is drawn on a white frame buffer, and shown if it was       *)
(* decoded to its end.                                                     *)
ShowImage(pic) ==
  LET decoded == Decode(ClearScreen(White), pic)
  IN  /\ fb' = decoded.fb
      /\ IF decoded.ok
           THEN DisplayBuffer /\ image' = [pc |-> "shown", picture |-> pic]
           ELSE UNCHANGED panel /\ image' = [pc |-> "failed"]

RenderImage ==
  /\ image.pc = "receiving" /\ image.left = 0
  /\ \E pic \in Sent : ShowImage(pic)

ImageStep == ReadParts \/ WaitForParts \/ GiveUp \/ RenderImage
ImageNext == RequestImage \/ ImageStep

ImageSpec ==
  /\ DisplayInit /\ ImageInit
  /\ [][ImageNext]_<<displayVars, imageVars>>

-----------------------------------------------------------------------------
(* What the sender meant: is a pixel of the picture white?                 *)
MaxGray(bpp) == CASE bpp = 1 -> 1 [] bpp = 2 -> 3 [] bpp = 4 -> 15 [] bpp = 8 -> 255

MeantWhite(pic, p) ==
  LET v == pic.pixel[p]
  IN  IF pic.format = "bmp"
        THEN IF v = 0 THEN pic.colors[1][1] >= 128 ELSE pic.colors[2][1] >= 128
        ELSE IF pic.type = "gray" \/ (pic.type = "indexed" /\ ~ pic.palette)
               THEN 2 * v[1] > MaxGray(pic.bpp)
               ELSE v[1] + v[2] + v[3] >= 384

Meant(pic) ==
  [q \in Panel |-> IF q[1] < pic.w /\ q[2] < pic.h /\ ~ MeantWhite(pic, q) THEN Black ELSE White]

(* A bottom-up BMP that is higher than the panel is not drawn from its     *)
(* top: see the README.                                                    *)
DrawnFromItsTop(pic) == pic.format = "png" \/ pic.topDown \/ pic.h <= PanelHeight

(* What is shown is the picture that was sent, at its place and the right  *)
(* way up, white where it does not reach and cut where it goes beyond: no  *)
(* trace of what was drawn before, whatever the format, the order of the   *)
(* rows and the colours of the file (TrmnlImage.cpp:88-110, 207-315).      *)
PictureIsWhatWasSent ==
  (image.pc = "shown" /\ DrawnFromItsTop(image.picture)) => panel = Meant(image.picture)

(* Whatever the order of its rows, a picture beyond the size of the panel  *)
(* is cut where it is written, and white is left only where it does not    *)
(* reach: the comment at TrmnlImage.cpp:246-249.                           *)
LargePictureIsClipped == image.pc = "shown" => panel = Meant(image.picture)

(* A download comes to an end, however slowly the server sends, and        *)
(* whether or not it sends at all (TrmnlImage.cpp:148-158).                *)
DownloadEnds == image.pc = "receiving" ~> image.pc \in {"failed", "shown"}
=============================================================================
