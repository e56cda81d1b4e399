--------------------------------- MODULE Pwm ---------------------------------
(***************************************************************************)
(* What the motor driver (hal/src/motor.c) and the servo driver            *)
(* (hal/src/servo.c) have in common: a PWM channel of the HAT, which is    *)
(* three sysfs files (period, duty_cycle, enable) that outlive the process,*)
(* and the process itself, which the drivers end by a failed assert or by  *)
(* exit(EXIT_FAILURE).  Times are in nanoseconds, as the drivers write     *)
(* them.                                                                   *)
(***************************************************************************)
EXTENDS Integers

\* What an earlier process, killed or finished, may have left in the files.
CONSTANT StaleChannels

Channel == [period : Nat, duty : Nat, enable : {0, 1}]

ASSUME StaleChannelsAssumption ==
    \A ch \in StaleChannels : ch \in Channel /\ ch.duty <= ch.period

\* "aborted": an assert failed; "failed": exit(EXIT_FAILURE) after a file
\* operation; "finished": main returned.
VARIABLE process

ProcessStates == {"running", "aborted", "failed", "finished"}

\* us_to_ns and hz_to_period of both drivers, which both ask for 71 Hz.
UsToNs(us) == us * 1000
HzToPeriod(hz) == 1000000000 \div hz
Period == HzToPeriod(71)

(***************************************************************************)
(* The kernel refuses a duty cycle above the period and a period below the *)
(* duty cycle; the drivers' comments say that it also refuses the duty     *)
(* cycle it already has.                                                   *)
(***************************************************************************)
DutyRefused(ch, d) == d > ch.period \/ d = ch.duty
PeriodRefused(ch, p) == p < ch.duty

(***************************************************************************)
(* set_duty_cycle reads the file, returns early when the value is already  *)
(* there, and writes it otherwise.  A refused write shows at fclose, and   *)
(* the process exits; the file keeps its value.                            *)
(***************************************************************************)
DutyWriteFailsUnread(ch, d) == DutyRefused(ch, d)      \* mutant: no early return
DutyWriteFails(ch, d) == d # ch.duty /\ DutyRefused(ch, d)

WithDuty(ch, d) == IF DutyWriteFails(ch, d) THEN ch ELSE [ch EXCEPT !.duty = d]
WithPeriod(ch, p) == IF PeriodRefused(ch, p) THEN ch ELSE [ch EXCEPT !.period = p]
==============================================================================
