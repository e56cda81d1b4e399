----------------------------- MODULE ControlLink -----------------------------
(***************************************************************************)
(* The controller and the car with the network between them: the whole of  *)
(* the remote control.                                                     *)
(***************************************************************************)
EXTENDS Receiver, Sender

\* Whether the operator waits for the car's program to be up before starting
\* the controller's; nothing in the programs makes sure.
CONSTANT CarFirst

ASSUME CarFirstAssumption == CarFirst \in BOOLEAN

CarSide == <<process, motorVars, servoVars, receiverVars>>

vars == <<network, CarSide, senderVars>>

Init ==
    /\ ReceiverInit /\ SenderInit
    /\ toCar = <<>> /\ toCtl = <<>>

CarUp == mainAt \notin {"udp_init", "motor_init", "servo_init"} /\ listener # "bind"

Controller(step) == (CarFirst => CarUp) /\ step /\ UNCHANGED CarSide
OnCar(step) == step /\ UNCHANGED senderVars

Next ==
    \/ Controller(SenderSteps)
    \/ Controller(AckUnheard)
    \/ OnCar(MainSteps)
    \/ OnCar(ListenerSteps)
    \/ OnCar(CommandUnheard)

Spec == Init /\ [][Next]_vars

(***************************************************************************)
(* Every thread runs: each of their blocking calls has a timeout or is a   *)
(* sleep.  The operator owes nothing: knob, buttons and q are not fair.    *)
(***************************************************************************)
ThreadsRun ==
    /\ WF_vars(OnCar(MainSteps))
    /\ WF_vars(OnCar(ListenerSteps))
    /\ WF_vars(OnCar(CommandUnheard))
    /\ WF_vars(Controller(FinishTurn))
    /\ WF_vars(Controller(SendSteps))
    /\ WF_vars(Controller(TakeAck \/ ListenTimeout))
    /\ WF_vars(Controller(TellReceiver))
    /\ WF_vars(Controller(AckUnheard))

FairSpec == Spec /\ ThreadsRun

\* A network that loses datagrams, but not all of them for ever.
LossyFairSpec ==
    /\ FairSpec
    /\ SF_vars(Controller(SendEncoderVal /\ toCar' # toCar))
    /\ SF_vars(OnCar(Ack /\ toCtl' # toCtl))

-----------------------------------------------------------------------------
TypeOK ==
    /\ MotorTypeOK /\ ServoTypeOK /\ SenderTypeOK
    /\ toCar \in Seq(Messages) /\ toCtl \in Seq({CODE_STOP} \cup 1..99)
    /\ mainAt \in MainStages /\ listener \in ListenerStages
    /\ command \in Messages
    /\ stop_thread \in BOOLEAN /\ curr_ack_timeout \in 0..MaxAckTimeout

\* Neither side stops because of a message that was not meant to stop it: the
\* car only when the operator has quit, the controller only then or when the
\* car is closing (sender.c:180 tells an acknowledgement from CODE_STOP by its
\* value alone).
StopsOnlyOnQuit ==
    /\ stop_thread => ctlMain = "done"
    /\ ctlStop => \/ ctlMain # "wait"
                  \/ mainAt \in {"motor_cleanup", "servo_cleanup", "done"}

\* On a network that keeps order, nothing follows the stop command
\* (send_udp_cleanup joins the send thread before it sends it).
StopIsLast ==
    ctlMain = "done" /\ toCar # <<>> => Last(toCar).code = "stop"

\* "receiver already updated, so dont bother" (sender.c:133): a value that is
\* not sent because it is the acknowledged one, with no message in flight and
\* no command being handled, while nobody has quit, is the one the car drives with.
NothingUnderway ==
    /\ toCar = <<>> /\ toCtl = <<>>
    /\ listener = "recv" /\ process = "running"
    /\ ~ctlStop

SkipMeansUpdated ==
    NothingUnderway /\ sendAt = "enc_send" /\ readVal = acked_encoder_val =>
        motorPwm.duty = MotorDuty(Magnitude(readVal), readVal < 0)

\* With a terminal nothing is sent again on purpose, and what the default case
\* sends out of its uninitialised buffer does no harm: on a network that loses
\* nothing the car runs at what the last of j, l and e asked for (sender.c:257).
KeysObeyed ==
    CarUp /\ NothingUnderway /\ using_terminal =>
        motorPwm.duty = MotorDuty(IF keyed < 0 THEN 0 ELSE EncoderSpeed(keyed), FALSE)

\* A steering command is a deflection the stick can have, whatever the ADC
\* reads and in whatever order (joystick.c:123-128 widens the range first).
SteersInRange ==
    \A i \in DOMAIN toCar : toCar[i].code = "joystick" => toCar[i].val \in -100..100

\* The operator leaves the knob at v and goes on watching.
RestsAt(v) == counter = v /\ turn.at = "rest" /\ ctlMain = "wait"

\* A value the car can run at, left alone on a network that loses nothing, is
\* what the car runs at in the end (send_encoder_val sends it until it is
\* acknowledged).
Converges ==
    \A v \in Dialled \cap (1..99) :
        <>[]RestsAt(v) => <>[](motorPwm.duty = MotorDuty(v, FALSE))

\* The same of the acknowledgement alone, on a network that loses datagrams in
\* both directions: retransmission ends.
RestIsAcked ==
    \A v \in Dialled \cap (1..99) : <>[]RestsAt(v) => <>[](acked_encoder_val = v)

\* Quitting stops the car: on a network that loses nothing, and with the car
\* up, both channels end up disabled.
QuitStopsCar ==
    ctlMain # "wait" ~>
        process = "finished" /\ motorPwm.enable = 0 /\ servoPwm.enable = 0
==============================================================================
