------------------------------ MODULE DriveTrain ------------------------------
(***************************************************************************)
(* What the rest of the car may assume of the motor driver: the pulse that *)
(* reaches the wheels never turns from one direction into the other        *)
(* without a pause in between, and once the driver has shut down there is  *)
(* no pulse any more.                                                      *)
(***************************************************************************)
VARIABLES pulse,   \* what reaches the wheels
          over     \* the driver has been shut down

Pulses == {"none", "neutral", "forward", "backward"}

Opposite(p, q) == {p, q} = {"forward", "backward"}

Init == pulse \in Pulses /\ over = FALSE

Drive ==
    /\ ~over
    /\ pulse' \in Pulses
    /\ ~Opposite(pulse, pulse')
    /\ over' = over

ShutDown == ~over /\ pulse' = "none" /\ over' = TRUE

Spec == Init /\ [][Drive \/ ShutDown]_<<pulse, over>>
==============================================================================
