----------------------------- MODULE Screenshot -----------------------------
(***************************************************************************)
(* Saving the frame buffer as a BMP file, with a border shown for a moment *)
(* (src/util/ScreenshotUtil.cpp), and the copy of the frame buffer the     *)
(* border is taken back with (storeBwBuffer() and restoreBwBuffer() of     *)
(* GfxRenderer.cpp).  The program has no caller of it yet.                 *)
(*                                                                         *)
(* The code does not ask whether the card closed a file well or removed    *)
(* it: it may do neither, which is a lapse.                                *)
(***************************************************************************)
EXTENDS GfxRenderer, Bitmap

CONSTANTS
  ChunkSize,       \* BW_BUFFER_CHUNK_SIZE, 8000 bytes
  MaxRowSize,      \* kMaxRowSize, 68 bytes
  BorderInset      \* 6 pixels

ASSUME ScreenshotAssumption ==
  /\ ChunkSize \in Nat \ {0} /\ MaxRowSize \in Nat /\ BorderInset \in Nat
  \* A screenshot is no larger than what the reader of bitmaps takes.
  /\ 8 * MaxRowSize <= MaxImageWidth /\ PanelWidth <= MaxImageHeight

VARIABLES
  shot,        \* takeScreenshot(): where it is, what it began with, what saving it returned
  shotFile,    \* the file on the card, or NoScreenshot
  chunks       \* bwBufferChunks: copies of parts of the frame buffer, or Null

shotVars == <<shot, shotFile, chunks>>

NoScreenshot == [absent |-> TRUE]
Headless == [header |-> [type |-> "cut"], rows |-> <<>>]
Null == <<>>

ChunkCount == (BufferSize + ChunkSize - 1) \div ChunkSize
ChunkPixels(i) == {q \in Panel : ByteIndex(q) \div ChunkSize = i}

NoChunks == [i \in 0 .. ChunkCount - 1 |-> Null]

(* createBmpHeader() for one bit per pixel.                                *)
CreateBmpHeader(width, height, topDown) ==
  [type |-> "BM", biSize |-> 40, planes |-> 1, bpp |-> 1, comp |-> 0, colorsUsed |-> 2,
   width |-> width, height |-> IF topDown THEN -height ELSE height,
   palette |-> <<0, 255>>, dataInFile |-> TRUE]

\* A slip to test against: the rows from the top down.
Slip_OutRow(buffer, outY) == [x \in 1 .. PanelHeight |-> buffer[<<outY, PanelHeight - x>>]]

(* One row of the file: a column of the frame buffer, turned round.        *)
OutRow(buffer, outY) ==
  [x \in 1 .. PanelHeight |-> buffer[<<PanelWidth - 1 - outY, PanelHeight - x>>]]

ShotInit == shot = [pc |-> "idle"] /\ shotFile = NoScreenshot /\ chunks = NoChunks

(* What is on the card if it does not carry out a close() or a remove().   *)
Remains(file) ==
  {Headless} \cup
  {[header |-> file.header, rows |-> [i \in 1 .. n |-> file.rows[i]]] : n \in 0 .. Len(file.rows)}

(* saveFramebufferAsBmp() returns, and what it returns is only logged.     *)
SaveReturns(s, told, lapse) ==
  shot' = [pc |-> "border", before |-> s.before, panel |-> s.panel, told |-> told, lapse |-> lapse]

(* After an error the file is closed and removed.                          *)
SaveFails(s, file) ==
  \/ SaveReturns(s, FALSE, FALSE) /\ shotFile' = NoScreenshot
  \/ SaveReturns(s, FALSE, TRUE) /\ shotFile' \in Remains(file)

HeaderOnly == [header |-> CreateBmpHeader(PanelHeight, PanelWidth, FALSE), rows |-> <<>>]

(* The directory or the file cannot be made; the header is not written     *)
(* whole; the rows are longer than the buffer; or the rows are next.       *)
BeginScreenshot ==
  /\ shot.pc = "idle"
  /\ LET s == [pc |-> "writing", before |-> fb, panel |-> panel, told |-> FALSE, lapse |-> FALSE]
     IN  \/ SaveReturns(s, FALSE, FALSE) /\ shotFile' = NoScreenshot
         \/ SaveFails(s, Headless)
         \/ IF RowBytes(PanelHeight, 1) > MaxRowSize
              THEN SaveFails(s, HeaderOnly)
              ELSE shot' = s /\ shotFile' = HeaderOnly
  /\ UNCHANGED <<chunks, displayVars>>

(* file.write() takes less than it was given.                              *)
RowFails == Len(shotFile.rows) < PanelWidth /\ SaveFails(shot, shotFile)

WriteNext ==
  /\ Len(shotFile.rows) < PanelWidth
  /\ shotFile' = [shotFile EXCEPT !.rows = Append(@, OutRow(fb, Len(@)))]
  /\ UNCHANGED shot

(* After the last row the file is closed.                                  *)
AllWritten ==
  /\ Len(shotFile.rows) = PanelWidth
  /\ \/ SaveReturns(shot, TRUE, FALSE) /\ UNCHANGED shotFile
     \/ SaveReturns(shot, TRUE, TRUE) /\ shotFile' \in Remains(shotFile)

WriteRow ==
  /\ shot.pc = "writing"
  /\ RowFails \/ WriteNext \/ AllWritten
  /\ UNCHANGED <<chunks, displayVars>>

(* storeBwBuffer(): chunk after chunk is allocated and copied; if one is   *)
(* not to be had all are freed and there is no border.                     *)
StoreBwBuffer ==
  /\ shot.pc = "border"
  /\ \/ /\ chunks' = NoChunks
        /\ shot' = [shot EXCEPT !.pc = "done"]
        /\ UNCHANGED displayVars
     \/ /\ chunks' = [i \in DOMAIN chunks |-> [q \in ChunkPixels(i) |-> fb[q]]]
        /\ fb' = DrawPixels(fb, "Portrait",
                            DrawThickRect(BorderInset, BorderInset, PanelHeight - 2 * BorderInset,
                                          PanelWidth - 2 * BorderInset, 2), Black)
        /\ DisplayBuffer
        /\ shot' = [shot EXCEPT !.pc = "shown"]
  /\ UNCHANGED shotFile

(* Every pixel of the frame buffer is in one of the chunks.                *)
Restored == [q \in Panel |-> chunks[ByteIndex(q) \div ChunkSize][q]]

(* restoreBwBuffer(): nothing is copied unless all chunks are there.       *)
RestoreBwBuffer ==
  /\ shot.pc = "shown"
  /\ fb' = IF \E i \in DOMAIN chunks : chunks[i] = Null THEN fb ELSE Restored
  /\ chunks' = NoChunks
  /\ DisplayBuffer
  /\ shot' = [shot EXCEPT !.pc = "done"]
  /\ UNCHANGED shotFile

ShotNext == BeginScreenshot \/ WriteRow \/ StoreBwBuffer \/ RestoreBwBuffer

-----------------------------------------------------------------------------
(* What the program's own reader and drawing make of a file in the usual   *)
(* orientation.                                                            *)
ReadBack(file) ==
  LET b == [ditherer |-> "none", errors |-> NoError(0), file |-> [header |-> file.header]]
      levels == [r \in DOMAIN file.rows |-> ConvertRow(b, file.rows[r]).levels]
  IN  DrawPixels(Blank, "Portrait",
                 DrawBitmap1Bit("Portrait", levels, file.header.height < 0, 0, 0, 0, 0), Black)

(* While the card does what it is told, a screenshot that is said to be    *)
(* saved is on the card and complete: its header is accepted, and drawn    *)
(* again in the usual orientation it is the frame buffer it was taken of,  *)
(* pixel by pixel.  One that is said to have failed is gone, or, where the *)
(* card did not remove it, is short of rows.  And whatever the card does,  *)
(* taking it leaves no other trace: the frame buffer is what it was, no    *)
(* copy of it is kept, and a panel that showed a border shows it no longer *)
(* (ScreenshotUtil.cpp:27-120, BitmapHelpers.cpp:111-149,                  *)
(* GfxRenderer.cpp:1192-1250).                                             *)
ScreenshotIsThePanel ==
  /\ shot.pc \notin {"idle", "writing"} =>
       /\ shot.told /\ ~ shot.lapse =>
            /\ shotFile # NoScreenshot
            /\ HeaderError(shotFile.header) = "Ok"
            /\ Len(shotFile.rows) = shotFile.header.height
            /\ ReadBack(shotFile) = shot.before
       /\ ~ shot.told => shotFile = NoScreenshot \/ (shot.lapse /\ Len(shotFile.rows) < PanelWidth)
  /\ shot.pc = "done" => fb = shot.before /\ chunks = NoChunks /\ panel \in {fb, shot.panel}
=============================================================================
