----------------------------- MODULE HalDisplay -----------------------------
(***************************************************************************)
(* The frame buffer and the e-ink panel (lib/hal/HalDisplay.cpp).          *)
(*                                                                         *)
(* HalDisplay passes every call on to the EInkDisplay driver, a submodule. *)
(* A refresh, of whatever mode, puts the frame buffer on the panel; the    *)
(* panel keeps its picture without power.  1 is white, 0 is black.         *)
(***************************************************************************)
EXTENDS Integers

CONSTANTS
  PanelWidth, PanelHeight    \* in pixels; a row fills whole bytes

ASSUME PanelAssumption ==
  /\ PanelWidth \in Nat \ {0} /\ PanelHeight \in Nat \ {0}
  /\ PanelWidth % 8 = 0

VARIABLES
  fb,       \* the frame buffer: the bit of every pixel
  panel     \* what the panel shows

displayVars == <<fb, panel>>

Panel == (0 .. PanelWidth - 1) \X (0 .. PanelHeight - 1)

White == 1
Black == 0
Blank == [q \in Panel |-> White]

DisplayInit == fb = Blank /\ panel = Blank

ClearScreen(color) == [q \in Panel |-> color]

(* displayBuffer() of a frame buffer that is about to become fb'.          *)
DisplayBuffer == panel' = fb'
=============================================================================
