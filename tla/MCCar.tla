-------------------------------- MODULE MCCar --------------------------------
(***************************************************************************)
(* Encoder values on both sides of zero with one speed in common, both     *)
(* clamps, the brake, the two ends of the joystick and two y no joystick   *)
(* sends, which process_cmd clamps, and stop.                              *)
(***************************************************************************)
EXTENDS Car

MCCommands ==
    {Message("encoder", v) : v \in {-50, 50, 0, 100}}
    \cup {Message("joystick", y) : y \in {-201, -100, 100, 150}}
    \cup {Message("encoder_push", 0), Message("joystick_push", 0), Message("stop", 0),
          Message("other", 0)}

\* For the runs about start-up and shutdown: fewer speeds.
MCFewCommands ==
    {Message("encoder", 50), Message("encoder", -50), Message("encoder_push", 0),
     Message("joystick", 100), Message("stop", 0)}

\* As the kernel exports the channel, and as a killed process leaves it.
MCStale == {[period |-> 0, duty |-> 0, enable |-> 0],
            [period |-> 2 * Period, duty |-> Period + 1, enable |-> 1]}
MCExported == {[period |-> 0, duty |-> 0, enable |-> 0]}
==============================================================================
