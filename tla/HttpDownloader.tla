--------------------------- MODULE HttpDownloader ---------------------------
(***************************************************************************)
(* A download to a file of the card (network/HttpDownloader.cpp).          *)
(*                                                                         *)
(* The file is how many bytes of the body it holds, or an older file, or   *)
(* bytes with a gap.  The server says how long the body is, or leaves it   *)
(* to the end of the connection, which a lost one looks like.  The code    *)
(* does not ask whether the card removed a file or closed one well: it may *)
(* do neither, which is a lapse.                                           *)
(***************************************************************************)
EXTENDS Integers

CONSTANT MaxBody     \* bound on the length of a body

ASSUME DownloaderAssumption == MaxBody \in Nat

VARIABLES
  dest,        \* the file at destPath: Absent, Older, Gap, or how many bytes of the body
  transfer     \* the call of downloadToFile()

downloadVars == <<dest, transfer>>

NoTransfer == [pc |-> "none"]
EndedWith(result, t, lapse) ==
  [pc |-> "ended", result |-> result, body |-> t.body, known |-> t.known, lapse |-> lapse]

Absent == -1
Older == -2
Gap == -3

-----------------------------------------------------------------------------
(* What the call finds is an older file to it.                             *)
Found == IF dest = Absent THEN Absent ELSE Older

(* The status is checked before the file is touched; then an older file    *)
(* goes, unless the card keeps it, and a new one is made, which empties    *)
(* one that is still there.                                                *)
StartTransfer(body, known) ==
  /\ transfer.pc \in {"none", "ended"}
  /\ LET t == [pc |-> "stream", body |-> body, known |-> known /\ body > 0, got |-> 0, written |-> 0, ok |-> TRUE]
     IN  \/ transfer' = EndedWith("HTTP_ERROR", t, FALSE) /\ dest' = Found
         \/ transfer' = EndedWith("FILE_ERROR", t, FALSE) /\ dest' \in {Absent, Found}
         \/ transfer' = t /\ dest' = 0

(* FileWriteStream: what the card takes of a piece is counted; a piece     *)
(* that it does not take whole spoils the download.                        *)
StreamPiece(size, taken) ==
  /\ transfer.pc = "stream" /\ transfer.got + size <= transfer.body /\ taken <= size
  /\ transfer' = [transfer EXCEPT !.got = @ + size, !.written = @ + taken, !.ok = @ /\ taken = size]
  /\ dest' = (IF ~ transfer.ok \/ dest = Gap THEN Gap ELSE dest + taken)

\* A slip to test against: the length is not looked at.
Slip_Outcome(t, writeResult) ==
  IF writeResult < 0 THEN "HTTP_ERROR" ELSE IF ~ t.ok THEN "FILE_ERROR"
  ELSE IF ~ t.known /\ t.written = 0 THEN "HTTP_ERROR" ELSE "OK"

(* The checks after the transfer.                                          *)
Outcome(t, writeResult) ==
  IF writeResult < 0 THEN "HTTP_ERROR"
  ELSE IF ~ t.ok THEN "FILE_ERROR"
  ELSE IF ~ t.known /\ t.written = 0 THEN "HTTP_ERROR"
  ELSE IF t.known /\ t.written # t.body THEN "HTTP_ERROR"
  ELSE "OK"

(* What a card that does not carry out close() may have of the file.       *)
Unflushed == IF dest = Gap THEN {Gap} ELSE 0 .. dest

(* The transfer ends: with the body, with the connection, or with an error *)
(* of HTTPClient.  The file is closed and, after an error, removed; the    *)
(* card may fail at either.                                                *)
EndTransfer(writeResult) ==
  /\ transfer.pc = "stream"
  /\ LET result == Outcome(transfer, writeResult)
     IN  \/ /\ transfer' = EndedWith(result, transfer, FALSE)
            /\ dest' = (IF result = "OK" THEN dest ELSE Absent)
         \/ transfer' = EndedWith(result, transfer, TRUE) /\ dest' \in Unflushed

DownloadInit == dest \in {Absent, Older} /\ transfer = NoTransfer

DownloadNext ==
  \/ \E body \in 0 .. MaxBody, known \in BOOLEAN : StartTransfer(body, known)
  \/ \E size \in 1 .. MaxBody, taken \in 0 .. MaxBody : StreamPiece(size, taken)
  \/ \E writeResult \in {-1, 0} : EndTransfer(writeResult)

DownloadSpec == DownloadInit /\ [][DownloadNext]_downloadVars

-----------------------------------------------------------------------------
(* While the card does what it is told, a download is reported whole only  *)
(* when the file holds the body from its first byte on and without a gap,  *)
(* all of it if the server said how long it is; and what is reported as an *)
(* error leaves no part of it behind, nor of a download before it that the *)
(* card did not remove, though it may have cost the older file.  A card    *)
(* that fails to close a file without saying so may shorten a download     *)
(* reported whole, but puts no gap in it (HttpDownloader.cpp:17-52,        *)
(* 104-196).                                                               *)
DownloadIsWholeOrGone ==
  transfer.pc = "ended" =>
    /\ transfer.result = "OK" =>
         /\ dest \in 0 .. transfer.body
         /\ ~ transfer.lapse => dest > 0 /\ (transfer.known => dest = transfer.body)
    /\ transfer.result # "OK" /\ ~ transfer.lapse => dest \in {Absent, Older}
=============================================================================
