------------------------------ MODULE Firmware ------------------------------
(***************************************************************************)
(* What lies around the device's own cycle (TrmnlDevice, ActivityManager): *)
(* what is drawn (Graphics) and what is kept between starts and asked of   *)
(* the board (Board).                                                      *)
(*                                                                         *)
(* The two share no state, so a behaviour is of one of them: of Graphics   *)
(* if every part of the board is at rest.                                  *)
(***************************************************************************)
EXTENDS Graphics, Board

firmwareVars == <<graphicsVars, boardVars>>

FirmwareInit == GraphicsInit /\ BoardInit

Draw == part = "none" /\ GraphicsNext /\ UNCHANGED boardVars
Keep == BoardNext /\ UNCHANGED graphicsVars

FirmwareNext == Draw \/ Keep

(* The task that downloads a picture goes on by itself (GraphicsSpec).     *)
FirmwareSpec ==
  /\ FirmwareInit
  /\ [][FirmwareNext]_firmwareVars
  /\ WF_firmwareVars(Download /\ image.pc = "receiving" /\ UNCHANGED boardVars)
=============================================================================
