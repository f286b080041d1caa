------------------------------ MODULE Graphics ------------------------------
(***************************************************************************)
(* What draws on the frame buffer, and what is drawn there: a download     *)
(* (TrmnlImage) and then a screenshot (Screenshot) on the same display, a  *)
(* bitmap that is read (Bitmap), a shape (Shapes), a text (Utf8, Text),    *)
(* the glyphs of its fonts (FontDecompressor) and what they are inflated   *)
(* from (Inflate).                                                         *)
(*                                                                         *)
(* The renderer has one caller at a time.  Only the download and the       *)
(* screenshot share the display and follow one another; the others share   *)
(* no state, and a behaviour is of one of them.                            *)
(***************************************************************************)
EXTENDS Shapes, Screenshot, TrmnlImage, Utf8, Text, FontDecompressor, Inflate

pictureVars == <<displayVars, imageVars, shotVars, bitmapVars, call>>
graphicsVars == <<pictureVars, bytes, text, fontVars, inflateVars>>

GraphicsInit ==
  /\ DisplayInit /\ ImageInit /\ ShotInit /\ BitmapInit /\ ShapesInit
  /\ Utf8Init /\ TextInit /\ FontInit /\ InflateInit

DisplayIdle == image = NoDownload /\ shot.pc = "idle"
PicturesIdle == DisplayIdle /\ bitmap = NoBitmap /\ call = NoCall
TextsIdle == bytes = NoText /\ text = NoDrawing /\ FontInit /\ InflateInit

Download ==
  /\ bitmap = NoBitmap /\ call = NoCall /\ shot.pc = "idle" /\ TextsIdle
  /\ ImageNext
  /\ UNCHANGED <<shotVars, bitmapVars, call, bytes, text, fontVars, inflateVars>>

TakeScreenshot ==
  /\ image.pc \in {"shown", "failed"}
  /\ ShotNext
  /\ UNCHANGED <<imageVars, bitmapVars, call, bytes, text, fontVars, inflateVars>>

ReadBitmap ==
  /\ DisplayIdle /\ call = NoCall /\ TextsIdle
  /\ BitmapNext
  /\ UNCHANGED <<displayVars, imageVars, shotVars, call, bytes, text, fontVars, inflateVars>>

DrawOnce ==
  /\ DisplayIdle /\ bitmap = NoBitmap /\ TextsIdle
  /\ DrawShape
  /\ UNCHANGED <<displayVars, imageVars, shotVars, bitmapVars, bytes, text, fontVars, inflateVars>>

TakeText ==
  /\ PicturesIdle /\ FontInit /\ InflateInit
  /\ \/ text = NoDrawing /\ ReadText /\ UNCHANGED text
     \/ bytes = NoText /\ SetText /\ UNCHANGED bytes
  /\ UNCHANGED <<pictureVars, fontVars, inflateVars>>

UseFonts ==
  /\ PicturesIdle /\ bytes = NoText /\ text = NoDrawing /\ InflateInit
  /\ FontNext
  /\ UNCHANGED <<pictureVars, bytes, text, inflateVars>>

UseInflate ==
  /\ PicturesIdle /\ bytes = NoText /\ text = NoDrawing /\ FontInit
  /\ InflateNext
  /\ UNCHANGED <<pictureVars, bytes, text, fontVars>>

GraphicsNext ==
  Download \/ TakeScreenshot \/ ReadBitmap \/ DrawOnce \/ TakeText \/ UseFonts \/ UseInflate

(* The task that downloads goes on by itself.                              *)
GraphicsSpec ==
  /\ GraphicsInit
  /\ [][GraphicsNext]_graphicsVars
  /\ WF_graphicsVars(Download /\ image.pc = "receiving")

(* The panel shows what was sent, or what it showed before if that could   *)
(* not be received or decoded to its end; and a screenshot that is taken   *)
(* of a picture gives the panel back to it when the border is gone         *)
(* (TrmnlImage.cpp:88-110, 207-315, 348-350, ScreenshotUtil.cpp:27-35).    *)
PanelShowsThePicture ==
  /\ [](shot.pc # "shown" => PictureIsWhatWasSent)
  /\ [][image.pc = "receiving" /\ image'.pc # "shown" => panel' = panel]_<<panel, image>>
=============================================================================
