----------------------------- MODULE MotorDriver -----------------------------
(***************************************************************************)
(* The motor driver in a process of its own: the main thread initialises   *)
(* it and cleans it up, a second thread sets and adds speeds at any moment *)
(* in between (testing/src/motorTest.c calls it from one thread, the       *)
(* receiver of the app from two).  One start and one clean-up per process, *)
(* as in every program of the repository.                                  *)
(***************************************************************************)
EXTENDS Motor

\* The arguments callers pass: speeds to motor_set_speed, increments to
\* motor_add_speed.
CONSTANTS Speeds, Increments

ASSUME ArgumentsAssumption == Speeds \subseteq Int /\ Increments \subseteq Int

vars == <<motorVars, process>>

Init == MotorInit /\ process = "running"

\* The callers' thread is idle: it has made no call or its last one returned.
CallerFree == process = "running" /\ ~reversing.pending /\ motorAt # "stopped"

Stop == ~reversing.pending /\ MotorCleanup

SetSpeed(speed, reverse) == CallerFree /\ MotorSetSpeed(speed, reverse)
AddSpeed(delta) == CallerFree /\ MotorAddSpeed(delta)
WakeUp == process = "running" /\ MotorReverses

Next ==
    \/ MotorStarts
    \/ Stop
    \/ \E speed \in Speeds, reverse \in BOOLEAN : SetSpeed(speed, reverse)
    \/ \E delta \in Increments : AddSpeed(delta)
    \/ WakeUp

Spec == Init /\ [][Next]_vars

-----------------------------------------------------------------------------
\* The driver implements DriveTrain: a change of direction always passes
\* through neutral, and motor_cleanup leaves no pulse behind.
Wheels == INSTANCE DriveTrain WITH pulse <- Pulse(motorPwm),
                                   over <- motorAt = "stopped"
ImplementsDriveTrain == Wheels!Spec

\* An increment can never take the process down, however large: after start-up
\* only a speed outside 0..100 given to motor_set_speed fails an assert.
IncrementsAreSafe ==
    [][motor.enabled /\ (\E delta \in Increments : AddSpeed(delta))
           => process' # "aborted"]_vars
==============================================================================
