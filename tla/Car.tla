--------------------------------- MODULE Car ---------------------------------
(***************************************************************************)
(* The car on its own: the receiver program against a network that may     *)
(* bring any of Commands at any moment, in any order and number, which is  *)
(* what loss, duplication, reordering, a restarted controller and a second *)
(* one can amount to.                                                      *)
(***************************************************************************)
EXTENDS Receiver

CONSTANT Commands

ASSUME CommandsAssumption == Commands \subseteq Messages

vars == <<process, network, motorVars, servoVars, receiverVars>>

Init == ReceiverInit /\ toCar = <<>> /\ toCtl = <<>>

CommandArrives ==
    /\ Len(toCar) < MaxInFlight
    /\ \E m \in Commands : toCar' = Append(toCar, m)
    /\ UNCHANGED <<process, toCtl, motorVars, servoVars, receiverVars>>

\* Whoever listens for acknowledgements takes them, or the network loses them.
AckLeaves ==
    /\ toCtl # <<>>
    /\ toCtl' = Tail(toCtl)
    /\ UNCHANGED <<process, toCar, motorVars, servoVars, receiverVars>>

Next == MainSteps \/ ListenerSteps \/ CommandArrives \/ AckLeaves \/ CommandUnheard

Spec == Init /\ [][Next]_vars

(***************************************************************************)
(* Both threads run: the listener's blocking call times out and its sends  *)
(* do not wait (an acknowledgement leaves the channel), main's waits are   *)
(* sleeps and one join.                                                    *)
(***************************************************************************)
FairSpec == /\ Spec
            /\ WF_vars(MainSteps)
            /\ WF_vars(ListenerSteps)
            /\ WF_vars(AckLeaves)

-----------------------------------------------------------------------------
TypeOK ==
    /\ MotorTypeOK
    /\ ServoTypeOK
    /\ toCar \in Seq(Messages)
    /\ toCtl \in Seq({CODE_STOP} \cup 1..99)
    /\ mainAt \in MainStages
    /\ listener \in ListenerStages
    /\ command \in Messages
    /\ stop_thread \in BOOLEAN
    /\ curr_ack_timeout \in 0..MaxAckTimeout

\* An acknowledgement is never mistaken for CODE_STOP while the car drives:
\* sender.c:180 relies on it ("encoder should never give -1").  Only the last
\* message of recv_udp_cleanup is -1.
AckNeverStop ==
    mainAt \in MainStages \ {"motor_cleanup", "servo_cleanup", "done"} =>
        \A i \in DOMAIN toCtl : toCtl[i] \in 1..99

\* When an encoder command is about to be acknowledged, the motor runs at the
\* speed that is acknowledged, also after the sleep of a reversal during which
\* main and the network went on (process_cmd, CODE_ENCODER_VAL).
AckAfterApply ==
    process = "running" /\ listener = "ack" =>
        motorPwm.duty = MotorDuty(AckValue(command.val), motor.reverse)

\* The stop path leaves a still car: when main has returned both channels are
\* disabled and the listener is gone (recv_udp_cleanup joins it first).
DoneMeansOff ==
    mainAt = "done" =>
        /\ process = "finished"
        /\ motorPwm.enable = 0 /\ servoPwm.enable = 0
        /\ listener = "done"

\* While the listener lives, main disables neither driver, so that no command
\* meets a driver that has been cleaned up (the order of udp.c:112-114).
CleanupAfterListener ==
    motorAt = "stopped" \/ servoAt = "stopped" => listener = "done"

\* Once both drivers are up no command fails an assert, whatever its argument
\* (the clamps of process_cmd against the asserts of the drivers).
AbortOnlyDuringStartup ==
    [][process' = "aborted" => motorAt # "on" \/ servoAt # "on"]_vars

\* The motor driver keeps its promise inside the receiver.
Wheels == INSTANCE DriveTrain WITH pulse <- Pulse(motorPwm),
                                   over <- motorAt = "stopped"
ImplementsDriveTrain == Wheels!Spec

\* Once the stop command was taken, the program comes to its end with both
\* channels disabled, whatever else arrives.
StopStops ==
    stop_thread ~> (process = "finished" /\ motorPwm.enable = 0 /\ servoPwm.enable = 0)

-----------------------------------------------------------------------------
(***************************************************************************)
(* What the source says of itself and does not keep.                       *)
(***************************************************************************)

\* "assert(enabled); // The servo should be on" (servo.c:233), and the same of
\* the motor (motor.c:228): a command never meets a driver that is not up.
DriversUpWhenUsed == process # "aborted"

\* motor_set_speed takes a direction and says it changes it when needed
\* (motor.c:235-236): an encoder command that has been carried out, and is
\* about to be acknowledged, has set its direction.
DirectionFollows ==
    process = "running" /\ listener = "ack" => motor.reverse = EncoderReverse(command.val)
==============================================================================
