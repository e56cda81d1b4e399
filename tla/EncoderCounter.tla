---------------------------- MODULE EncoderCounter ----------------------------
(***************************************************************************)
(* The atomic counter of hal/src/rotary_encoder.c, shared by the encoder's *)
(* thread, which counts detents, and the controller's send thread, which   *)
(* reads it and, when the knob is pressed, sets it to zero.  Each access   *)
(* is atomic; a count is an addition followed by a clamp, which reads the  *)
(* counter and stores it again.                                            *)
(***************************************************************************)
EXTENDS Integers

CONSTANTS MinCounter, MaxCounter, Step

ASSUME CounterAssumption ==
    /\ MinCounter \in Int /\ MaxCounter \in Int
    /\ MinCounter <= 0 /\ 0 <= MaxCounter      \* every caller's bounds hold zero
    /\ Step \in Nat \ {0}

VARIABLES counter,
          turn       \* what the encoder's thread does next: at rest, or clamping

counterVars == <<counter, turn>>

Resting == [at |-> "rest", dir |-> 0, val |-> 0]

CounterTypeOK ==
    /\ counter \in Int
    /\ turn \in [at : {"rest", "clamp", "store"}, dir : {-1, 0, 1}, val : Int]

CounterInit == counter = 0 /\ turn = Resting

\* counter -= step of handle_1_to_0, counter += step of handle_3_to_0.
Count(dir) ==
    /\ turn.at = "rest"
    /\ counter' = counter + dir * Step
    /\ turn' = [at |-> "clamp", dir |-> dir, val |-> 0]

(***************************************************************************)
(* The conditional expression reads the counter twice when it is in range. *)
(* The only other writer stores zero, which is in range: had the first     *)
(* read not seen it and the second one had, the outcome would be that of a *)
(* single read after it.                                                   *)
(***************************************************************************)
ClampedUnbounded(dir, val) == val                      \* mutant: no clamp
Clamped(dir, val) ==
    IF dir < 0 THEN (IF val < MinCounter THEN MinCounter ELSE val)
    ELSE IF val > MaxCounter THEN MaxCounter ELSE val

ReadToClamp ==
    /\ turn.at = "clamp"
    /\ turn' = [turn EXCEPT !.at = "store", !.val = Clamped(turn.dir, counter)]
    /\ UNCHANGED counter

StoreClamped ==
    /\ turn.at = "store"
    /\ counter' = turn.val
    /\ turn' = Resting

\* rot_encoder_set_counter, at any moment of a count.
SetCounter(count) == counter' = count /\ UNCHANGED turn
==============================================================================
