-------------------------------- MODULE Servo --------------------------------
(***************************************************************************)
(* hal/src/servo.c: the steering servo, on the second PWM channel of the   *)
(* HAT.  Same life as the motor driver: the main thread initialises it in  *)
(* steps and cleans it up, another thread sets the angle.                  *)
(***************************************************************************)
EXTENDS Pwm

VARIABLES servo,     \* the driver's statics: initialized, enabled, angle
          servoPwm,  \* the channel's files
          servoAt    \* what the main thread does next to the servo

servoVars == <<servo, servoPwm, servoAt>>

LEFT_US == 1000
RIGHT_US == 2000
Centre == 90

\* us_to_ns(angle_to_duty(angle)): whole microseconds, rounded down.
ServoDuty(angle) == UsToNs(LEFT_US + ((RIGHT_US - LEFT_US) * angle) \div 180)

ServoStages ==
    {"off", "zero", "period", "centre", "flag", "switch", "on", "stopped"}

ServoTypeOK ==
    /\ servo \in [initialized : BOOLEAN, enabled : BOOLEAN, angle : 0..180]
    /\ servoPwm \in Channel
    /\ servoAt \in ServoStages

ServoInit ==
    /\ servo = [initialized |-> FALSE, enabled |-> FALSE, angle |-> Centre]
    /\ servoPwm \in StaleChannels
    /\ servoAt = "off"

-----------------------------------------------------------------------------
\* The main thread: servo_init, start_servo, enable_servo, servo_cleanup.
ServoDoes(stage, next) ==
    /\ process = "running"
    /\ servoAt = stage
    /\ servoAt' = next

WritesServoDuty(duty) ==
    /\ servoPwm' = WithDuty(servoPwm, duty)
    /\ process' = IF DutyWriteFails(servoPwm, duty) THEN "failed" ELSE process

ServoBeginInit ==
    /\ ServoDoes("off", "zero")
    /\ servo' = [servo EXCEPT !.initialized = TRUE]
    /\ UNCHANGED <<servoPwm, process>>

ServoZeroDuty ==
    /\ ServoDoes("zero", "period")
    /\ WritesServoDuty(0)
    /\ UNCHANGED servo

ServoWritePeriod ==
    /\ ServoDoes("period", "centre")
    /\ servoPwm' = WithPeriod(servoPwm, Period)
    /\ process' = IF PeriodRefused(servoPwm, Period) THEN "failed" ELSE process
    /\ UNCHANGED servo

ServoCentreDuty ==
    /\ ServoDoes("centre", "flag")
    /\ WritesServoDuty(ServoDuty(Centre))
    /\ UNCHANGED servo

ServoSetEnabled ==
    /\ ServoDoes("flag", "switch")
    /\ servo' = [servo EXCEPT !.enabled = TRUE]
    /\ UNCHANGED <<servoPwm, process>>

ServoSwitchOn ==
    /\ ServoDoes("switch", "on")
    /\ servoPwm' = [servoPwm EXCEPT !.enable = 1]
    /\ UNCHANGED <<servo, process>>

ServoStarts ==
    \/ ServoBeginInit
    \/ ServoZeroDuty
    \/ ServoWritePeriod
    \/ ServoCentreDuty
    \/ ServoSetEnabled
    \/ ServoSwitchOn

\* The last statement of the receiver's main: the process ends after it.
ServoCleanup ==
    /\ ServoDoes("on", "stopped")
    /\ servo' = [servo EXCEPT !.enabled = FALSE, !.initialized = FALSE]
    /\ servoPwm' = [servoPwm EXCEPT !.enable = 0]

-----------------------------------------------------------------------------
\* servo_set_angle, by its outcomes.
ServoAsserts(angle) == servo.initialized /\ servo.enabled /\ angle \in 0..180

ServoAborts(angle) ==
    /\ ~ServoAsserts(angle)
    /\ process' = "aborted"
    /\ UNCHANGED servoVars

ServoTurns(angle) ==
    /\ ServoAsserts(angle)
    /\ WritesServoDuty(ServoDuty(angle))
    /\ servo' = [servo EXCEPT !.angle = angle]
    /\ UNCHANGED servoAt

ServoSetAngle(angle) == ServoAborts(angle) \/ ServoTurns(angle)
==============================================================================
