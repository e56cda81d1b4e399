------------------------------- MODULE Receiver -------------------------------
(***************************************************************************)
(* The program on the car: app/src/receiver.c and the receiver's half of   *)
(* main in app/src/udp.c, on top of the two drivers.  Two threads: main    *)
(* starts the listener, then the motor, then the servo, polls until it is  *)
(* told to stop, and cleans up in the same order; the listener handles one *)
(* datagram at a time, from the moment its socket is bound.                *)
(***************************************************************************)
EXTENDS Network, Motor, Servo

VARIABLES mainAt,           \* what main does next
          listener,         \* what the listener thread does next
          command,          \* the datagram the listener is handling
          stop_thread,
          curr_ack_timeout

receiverVars == <<mainAt, listener, command, stop_thread, curr_ack_timeout>>

EncoderVal == -1        \* static encoder_val: no statement assigns it
MaxAckTimeout == 5

MainStages == {"udp_init", "motor_init", "servo_init", "poll", "join", "tell",
               "motor_cleanup", "servo_cleanup", "done"}
ListenerStages == {"none", "bind", "recv", "asleep", "ack", "loop_end", "done"}

NoCommand == Message("stop", 0)

ReceiverInit ==
    /\ MotorInit /\ ServoInit /\ process = "running"
    /\ mainAt = "udp_init"
    /\ listener = "none"
    /\ command = NoCommand
    /\ stop_thread = FALSE
    /\ curr_ack_timeout = 0

-----------------------------------------------------------------------------
(***************************************************************************)
(* Main.                                                                   *)
(***************************************************************************)
Main(stage) == process = "running" /\ mainAt = stage

RecvUdpInit ==
    /\ Main("udp_init")
    /\ listener' = "bind"
    /\ mainAt' = "motor_init"
    /\ UNCHANGED <<process, network, motorVars, servoVars, command, stop_thread,
                   curr_ack_timeout>>

InitMotor ==
    /\ Main("motor_init")
    /\ MotorStarts
    /\ mainAt' = IF motorAt' = "on" THEN "servo_init" ELSE mainAt
    /\ UNCHANGED <<network, servoVars, listener, command, stop_thread, curr_ack_timeout>>

InitServo ==
    /\ Main("servo_init")
    /\ ServoStarts
    /\ mainAt' = IF servoAt' = "on" THEN "poll" ELSE mainAt
    /\ UNCHANGED <<network, motorVars, listener, command, stop_thread, curr_ack_timeout>>

\* The loop over recv_is_active, every 500 ms.
Poll ==
    /\ Main("poll")
    /\ stop_thread
    /\ mainAt' = "join"
    /\ UNCHANGED <<process, network, motorVars, servoVars, listener, command,
                   stop_thread, curr_ack_timeout>>

JoinNotWaited ==                                       \* mutant: no pthread_join
    /\ Main("join")
    /\ mainAt' = "tell"
    /\ UNCHANGED <<process, network, motorVars, servoVars, listener, command,
                   stop_thread, curr_ack_timeout>>
Join ==
    /\ Main("join")
    /\ listener = "done"
    /\ mainAt' = "tell"
    /\ UNCHANGED <<process, network, motorVars, servoVars, listener, command,
                   stop_thread, curr_ack_timeout>>

\* CODE_STOP goes to whatever address the uninitialised remote holds: the
\* controller's is only one of the possible ones.
TellSender ==
    /\ Main("tell")
    /\ toCtl' \in Sent(toCtl, CODE_STOP) \cup {toCtl}
    /\ mainAt' = "motor_cleanup"
    /\ UNCHANGED <<process, toCar, motorVars, servoVars, listener, command,
                   stop_thread, curr_ack_timeout>>

CleanMotor ==
    /\ Main("motor_cleanup")
    /\ MotorCleanup
    /\ mainAt' = "servo_cleanup"
    /\ UNCHANGED <<network, servoVars, listener, command, stop_thread, curr_ack_timeout>>

CleanServo ==
    /\ Main("servo_cleanup")
    /\ ServoCleanup
    /\ process' = "finished"
    /\ mainAt' = "done"
    /\ UNCHANGED <<network, motorVars, listener, command, stop_thread, curr_ack_timeout>>

MainSteps ==
    \/ RecvUdpInit \/ InitMotor \/ InitServo \/ Poll
    \/ Join \/ TellSender \/ CleanMotor \/ CleanServo

-----------------------------------------------------------------------------
(***************************************************************************)
(* process_cmd: what it makes of a command's argument.                     *)
(***************************************************************************)
Magnitude(val) == IF val < 0 THEN -val ELSE val

EncoderSpeedOffByOne(val) == Magnitude(val) + 1        \* mutant
EncoderSpeed(val) ==
    IF Magnitude(val) >= 100 THEN 99
    ELSE IF Magnitude(val) <= 0 THEN 1 ELSE Magnitude(val)

EncoderReverse(val) == val < 0

\* (int)((y + 1) / 2 * 180), which cuts off towards zero, for y in hundredths.
\* Of the y a joystick can send, the code's single-precision sum gives one
\* degree less at -80, -60 and 30.
Degrees(y) ==
    IF y >= -100 THEN ((y + 100) * 180) \div 200 ELSE -(((-100 - y) * 180) \div 200)

SteeringAngleUnclamped(y) == Degrees(y)                \* mutant
SteeringAngle(y) ==
    IF Degrees(y) > 180 THEN 179 ELSE IF Degrees(y) < 0 THEN 1 ELSE Degrees(y)

\* The number that answers an encoder command: the speed, without the direction.
AckValueStatic(val) == EncoderVal                      \* mutant: the static, not the local
AckValueRaw(val) == Magnitude(val)                     \* mutant: before the clamp
AckValue(val) == EncoderSpeed(val)

-----------------------------------------------------------------------------
(***************************************************************************)
(* The listener.                                                           *)
(***************************************************************************)
Listener(stage) == process = "running" /\ listener = stage

Bind ==
    /\ Listener("bind")
    /\ listener' = "recv"
    /\ UNCHANGED <<process, network, motorVars, servoVars, mainAt, command,
                   stop_thread, curr_ack_timeout>>

\* The end of the do-while: the flag is the listener's own until main, which
\* has seen it set, joins the thread.
LoopEndIgnored(stop) == "recv"                         \* mutant: the flag is not read
LoopEnd(stop) == IF stop THEN "done" ELSE "recv"

Handles(m, code) ==
    /\ m.code = code
    /\ UNCHANGED <<toCtl, mainAt, curr_ack_timeout>>

\* motor_set_speed, up to its sleep if the direction changes.
HandleEncoder(m) ==
    /\ Handles(m, "encoder")
    /\ MotorSetSpeed(EncoderSpeed(m.val), EncoderReverse(m.val))
    /\ listener' = IF reversing'.pending THEN "asleep" ELSE "ack"
    /\ command' = m
    /\ UNCHANGED <<servoVars, stop_thread>>

HandleEncoderPush(m) ==
    /\ Handles(m, "encoder_push")
    /\ MotorSetSpeed(0, FALSE)
    /\ listener' = IF reversing'.pending THEN "asleep" ELSE LoopEnd(stop_thread)
    /\ command' = IF reversing'.pending THEN m ELSE NoCommand
    /\ UNCHANGED <<servoVars, stop_thread>>

HandleJoystick(m) ==
    /\ Handles(m, "joystick")
    /\ ServoSetAngle(SteeringAngle(m.val))
    /\ listener' = LoopEnd(stop_thread)
    /\ UNCHANGED <<motorVars, command, stop_thread>>

HandleJoystickPush(m) ==
    /\ Handles(m, "joystick_push")
    /\ listener' = LoopEnd(stop_thread)
    /\ UNCHANGED <<process, motorVars, servoVars, command, stop_thread>>

\* An early return, or the default of the switch.
HandleOther(m) ==
    /\ Handles(m, "other")
    /\ listener' = LoopEnd(stop_thread)
    /\ UNCHANGED <<process, motorVars, servoVars, command, stop_thread>>

HandleStop(m) ==
    /\ Handles(m, "stop")
    /\ stop_thread' = TRUE
    /\ listener' = "loop_end"
    /\ UNCHANGED <<process, motorVars, servoVars, command>>

Handle(m) ==
    \/ HandleEncoder(m)
    \/ HandleEncoderPush(m)
    \/ HandleJoystick(m)
    \/ HandleJoystickPush(m)
    \/ HandleOther(m)
    \/ HandleStop(m)

Receive ==
    /\ Listener("recv")
    /\ \E i \in Deliverable(toCar) :
          /\ toCar' \in After(toCar, i)
          /\ Handle(toCar[i])

\* motor_set_speed returns from its sleep; only an encoder command is answered.
WakeUp ==
    /\ Listener("asleep")
    /\ MotorReverses
    /\ listener' = IF command.code = "encoder" THEN "ack" ELSE LoopEnd(stop_thread)
    /\ command' = IF command.code = "encoder" THEN command ELSE NoCommand
    /\ UNCHANGED <<network, servoVars, mainAt, stop_thread, curr_ack_timeout>>

AckOnce ==                                             \* mutant: the countdown stands still
    /\ Listener("ack")
    /\ IF curr_ack_timeout <= 0
       THEN /\ toCtl' \in Sent(toCtl, AckValue(command.val))
            /\ curr_ack_timeout' = MaxAckTimeout
       ELSE UNCHANGED <<toCtl, curr_ack_timeout>>
    /\ listener' = LoopEnd(stop_thread)
    /\ command' = NoCommand
    /\ UNCHANGED <<process, toCar, motorVars, servoVars, mainAt, stop_thread>>
\* The answer; encoder_val is -1 for ever, so no value counts as a duplicate.
Ack ==
    /\ Listener("ack")
    /\ IF AckValue(command.val) # EncoderVal \/ curr_ack_timeout <= 0
       THEN /\ toCtl' \in Sent(toCtl, AckValue(command.val))
            /\ curr_ack_timeout' = MaxAckTimeout
       ELSE /\ curr_ack_timeout' = curr_ack_timeout - 1
            /\ UNCHANGED toCtl
    /\ listener' = LoopEnd(stop_thread)
    /\ command' = NoCommand
    /\ UNCHANGED <<process, toCar, motorVars, servoVars, mainAt, stop_thread>>

\* After the stop command the listener has still to return and to test the
\* flag, which main can see by then.
EndLoop ==
    /\ Listener("loop_end")
    /\ listener' = LoopEnd(stop_thread)
    /\ UNCHANGED <<process, network, motorVars, servoVars, mainAt, command,
                   stop_thread, curr_ack_timeout>>

ListenerSteps == Bind \/ Receive \/ WakeUp \/ Ack \/ EndLoop

-----------------------------------------------------------------------------
\* No socket of the car hears the commands: not bound yet, closed, or dead.
Deaf ==
    \/ process # "running"
    \/ listener \in {"none", "bind"}
    \/ mainAt \in {"motor_cleanup", "servo_cleanup", "done"}

CommandUnheard ==
    /\ Deaf
    /\ toCar # <<>>
    /\ toCar' = Tail(toCar)
    /\ UNCHANGED <<process, toCtl, motorVars, servoVars, receiverVars>>
==============================================================================
