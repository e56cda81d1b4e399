-------------------------------- MODULE Motor --------------------------------
(***************************************************************************)
(* hal/src/motor.c: the electronic speed controller of the car, driven by  *)
(* the width of the pulse on one PWM channel.  motor_init and              *)
(* motor_cleanup run on the main thread, one step per file operation;      *)
(* motor_set_speed and motor_add_speed run on whichever thread calls them, *)
(* possibly while motor_init is still under way.                           *)
(***************************************************************************)
EXTENDS Pwm

VARIABLES motor,      \* the driver's statics: initialized, enabled, speed, reverse
          motorPwm,   \* the channel's files
          motorAt,    \* what the main thread does next to the motor
          reversing   \* the motor_set_speed call that sleeps at neutral, or NoCall

motorVars == <<motor, motorPwm, motorAt, reversing>>

NEUTRAL_US == 1549
FORWARD_US == 1789
BACKWARD_US == 1296

NoCall == [speed |-> 0, reverse |-> FALSE, pending |-> FALSE]
Call(speed, reverse) == [speed |-> speed, reverse |-> reverse, pending |-> TRUE]

Neutral == UsToNs(NEUTRAL_US)

MotorDuty(speed, reverse) ==
    IF reverse
    THEN UsToNs(NEUTRAL_US - (speed * (NEUTRAL_US - BACKWARD_US)) \div 100)
    ELSE UsToNs(NEUTRAL_US + (speed * (FORWARD_US - NEUTRAL_US)) \div 100)

MotorStages ==
    {"off", "zero", "period", "neutral", "flag", "switch", "on", "stopped"}

MotorTypeOK ==
    /\ process \in ProcessStates
    /\ motor \in [initialized : BOOLEAN, enabled : BOOLEAN,
                  speed : 0..100, reverse : BOOLEAN]
    /\ motorPwm \in Channel
    /\ motorAt \in MotorStages
    /\ reversing \in [speed : 0..100, reverse : BOOLEAN, pending : BOOLEAN]

MotorInit ==
    /\ motor = [initialized |-> FALSE, enabled |-> FALSE, speed |-> 0, reverse |-> FALSE]
    /\ motorPwm \in StaleChannels
    /\ motorAt = "off"
    /\ reversing = NoCall

-----------------------------------------------------------------------------
(***************************************************************************)
(* The main thread: motor_init, start_motor and enable_motor in the order  *)
(* of their statements, then motor_cleanup.                                *)
(***************************************************************************)
MainDoes(stage, next) ==
    /\ process = "running"
    /\ motorAt = stage
    /\ motorAt' = next
    /\ UNCHANGED reversing

\* motor_init: assert(!initialized) holds at this stage.
BeginInit ==
    /\ MainDoes("off", "zero")
    /\ motor' = [motor EXCEPT !.initialized = TRUE]
    /\ UNCHANGED <<motorPwm, process>>

\* set_duty_cycle(duty), whose failure ends the process.
WritesDuty(duty) ==
    /\ motorPwm' = WithDuty(motorPwm, duty)
    /\ process' = IF DutyWriteFails(motorPwm, duty) THEN "failed" ELSE process

ZeroDutySkipped ==                                     \* mutant: set_period leaves the duty
    MainDoes("zero", "period") /\ UNCHANGED <<motor, motorPwm, process>>
ZeroDuty ==
    /\ MainDoes("zero", "period")
    /\ WritesDuty(0)
    /\ UNCHANGED motor

WritePeriod ==
    /\ MainDoes("period", "neutral")
    /\ motorPwm' = WithPeriod(motorPwm, Period)
    /\ process' = IF PeriodRefused(motorPwm, Period) THEN "failed" ELSE process
    /\ UNCHANGED motor

NeutralDuty ==
    /\ MainDoes("neutral", "flag")
    /\ WritesDuty(Neutral)
    /\ UNCHANGED motor

\* enable_motor sets the flag first and then looks at the enable file.
SetEnabled ==
    /\ MainDoes("flag", "switch")
    /\ motor' = [motor EXCEPT !.enabled = TRUE]
    /\ UNCHANGED <<motorPwm, process>>

SwitchOn ==
    /\ MainDoes("switch", "on")
    /\ motorPwm' = [motorPwm EXCEPT !.enable = 1]
    /\ UNCHANGED <<motor, process>>

\* motor_cleanup; its callers have joined every thread that sets the speed.
MotorCleanupKeepsOn ==                                 \* mutant: disable_motor writes nothing
    /\ MainDoes("on", "stopped")
    /\ motor' = [motor EXCEPT !.enabled = FALSE, !.initialized = FALSE]
    /\ UNCHANGED <<motorPwm, process>>
MotorCleanup ==
    /\ MainDoes("on", "stopped")
    /\ motor' = [motor EXCEPT !.enabled = FALSE, !.initialized = FALSE]
    /\ motorPwm' = [motorPwm EXCEPT !.enable = 0]
    /\ UNCHANGED process

MotorStarts ==
    BeginInit \/ ZeroDuty \/ WritePeriod \/ NeutralDuty \/ SetEnabled \/ SwitchOn

-----------------------------------------------------------------------------
(***************************************************************************)
(* motor_set_speed(speed, reverse), by its outcomes.  It sleeps 15 ms at   *)
(* neutral when the direction changes, and other threads run meanwhile.    *)
(***************************************************************************)
MotorAssertsUnranged(speed) == motor.initialized /\ motor.enabled   \* mutant
MotorAsserts(speed) == motor.initialized /\ speed \in 0..100 /\ motor.enabled

MotorAborts(speed) ==
    /\ ~MotorAsserts(speed)
    /\ process' = "aborted"
    /\ UNCHANGED motorVars

MotorSameSpeed(speed) ==
    /\ MotorAsserts(speed)
    /\ motor.speed = speed
    /\ UNCHANGED <<motorVars, process>>

MotorGoesNeutralUnwritten(speed, reverse) ==           \* mutant: neutral is not written
    /\ MotorAsserts(speed)
    /\ motor.speed # speed
    /\ motor.reverse # reverse
    /\ reversing' = Call(speed, reverse)
    /\ UNCHANGED <<motor, motorAt, motorPwm, process>>
MotorGoesNeutral(speed, reverse) ==
    /\ MotorAsserts(speed)
    /\ motor.speed # speed
    /\ motor.reverse # reverse
    /\ WritesDuty(Neutral)
    /\ reversing' = Call(speed, reverse)
    /\ UNCHANGED <<motor, motorAt>>

MotorApplies(speed, reverse) ==
    /\ MotorAsserts(speed)
    /\ motor.speed # speed
    /\ motor.reverse = reverse
    /\ WritesDuty(MotorDuty(speed, reverse))
    /\ motor' = [motor EXCEPT !.speed = speed]
    /\ UNCHANGED <<motorAt, reversing>>

\* The rest of the call after the sleep.
MotorReversesForgetful ==                              \* mutant: current_reverse not updated
    /\ reversing.pending
    /\ WritesDuty(MotorDuty(reversing.speed, reversing.reverse))
    /\ motor' = [motor EXCEPT !.speed = reversing.speed]
    /\ reversing' = NoCall
    /\ UNCHANGED motorAt
MotorReverses ==
    /\ reversing.pending
    /\ WritesDuty(MotorDuty(reversing.speed, reversing.reverse))
    /\ motor' = [motor EXCEPT !.speed = reversing.speed, !.reverse = reversing.reverse]
    /\ reversing' = NoCall
    /\ UNCHANGED motorAt

MotorSetSpeed(speed, reverse) ==
    \/ MotorAborts(speed)
    \/ MotorSameSpeed(speed)
    \/ MotorGoesNeutral(speed, reverse)
    \/ MotorApplies(speed, reverse)

\* motor_add_speed clamps the sum and keeps the direction; its first assert is
\* motor_set_speed's too.
AddedSpeedUnclamped(delta) == motor.speed + delta      \* mutant
AddedSpeed(delta) ==
    LET sum == motor.speed + delta
    IN  IF sum > 100 THEN 100 ELSE IF sum < 0 THEN 0 ELSE sum

MotorAddSpeed(delta) == MotorSetSpeed(AddedSpeed(delta), motor.reverse)

-----------------------------------------------------------------------------
(***************************************************************************)
(* What the driver promises while its process runs.                        *)
(***************************************************************************)

\* While no call is in flight the pulse is the one the statics stand for, and
\* a call that reverses the car sleeps at neutral (motor_set_speed's cached
\* current_speed and current_reverse decide whether the file is written).
DutyMatchesState ==
    process = "running" /\ motor.enabled =>
        motorPwm.duty = IF reversing.pending THEN Neutral
                        ELSE MotorDuty(motor.speed, motor.reverse)

\* No write of the start-up, from whatever an earlier process left in the
\* files, and no later change of speed, is refused by the kernel
\* (set_period's zero duty cycle, set_duty_cycle's early return).
NoPwmFault == process # "failed"

\* What the wheels see of a channel.
Pulse(ch) ==
    IF ch.enable = 0 \/ ch.duty = 0 THEN "none"
    ELSE IF ch.duty = Neutral THEN "neutral"
    ELSE IF ch.duty > Neutral THEN "forward" ELSE "backward"
==============================================================================
