---------------------------- MODULE MCControlLink ----------------------------
(***************************************************************************)
(* The knob moves by five detents at once (Step 50 instead of 10), so that *)
(* a few positions reach both signs, zero, the limit and an overshoot.     *)
(***************************************************************************)
EXTENDS ControlLink

MCExported == {[period |-> 0, duty |-> 0, enable |-> 0]}

MCMinCounter == -100

Forwards == {0, 50}
ToTheEnd == {0, 50, 100}
BothWays == {-50, 0, 50}
BothModes == BOOLEAN
Hardware == {FALSE}
CentredX == {neutral_x}
CentredY == {neutral_y}
Steering == {neutral_y, 1700}
==============================================================================
