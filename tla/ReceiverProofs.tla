---------------------------- MODULE ReceiverProofs ----------------------------
(***************************************************************************)
(* Lemmas about the servo driver and about the program on the car, for     *)
(* every command, every network and every state the PWM channels were left *)
(* in: an invariant that each of its steps keeps, whoever sends.  The      *)
(* theorems about the car alone and about the whole remote control rest on *)
(* them.                                                                   *)
(***************************************************************************)
EXTENDS Receiver, MotorProofs, SequenceTheorems

(***************************************************************************)
(* The servo driver.                                                       *)
(***************************************************************************)
ServoChannelInv ==
    /\ servoPwm.duty <= servoPwm.period
    /\ servoAt = "period" => servoPwm.duty = 0
    /\ servoAt \in {"centre", "flag", "switch", "on"} => servoPwm.period = Period
    /\ servoAt = "stopped" => servoPwm.enable = 0

ServoFlagInv ==
    /\ servo.enabled <=> servoAt \in {"switch", "on"}
    /\ servo.initialized <=> servoAt \notin {"off", "stopped"}

ServoInv ==
    /\ servo \in [initialized : BOOLEAN, enabled : BOOLEAN, angle : 0..180]
    /\ servoPwm \in Channel
    /\ servoAt \in ServoStages
    /\ ServoChannelInv
    /\ ServoFlagInv

LEMMA ServoDutyFacts ==
    ASSUME NEW angle \in 0..180
    PROVE  ServoDuty(angle) \in Nat /\ ServoDuty(angle) <= Period
  BY DEF ServoDuty, Period, HzToPeriod, UsToNs, LEFT_US, RIGHT_US

LEMMA ServoInvInit == ServoInit => ServoInv
  BY StaleChannelsAssumption
  DEF ServoInit, ServoInv, ServoChannelInv, ServoFlagInv, ServoStages, Channel, Centre

\* servo_init, statement by statement: no write is refused.
LEMMA ServoStartsKeeps ==
    ASSUME ServoInv, ServoStarts
    PROVE  ServoInv' /\ process' = process
<1> USE DEF ServoInv, ServoChannelInv, ServoFlagInv, ServoStages, Channel, ServoDoes
<1>1. CASE ServoBeginInit
  BY <1>1 DEF ServoBeginInit
<1>2. CASE ServoZeroDuty
  <2>1. ~DutyWriteFails(servoPwm, 0) /\ WithDuty(servoPwm, 0) = [servoPwm EXCEPT !.duty = 0]
    BY WriteSucceeds
  <2>2. QED BY <1>2, <2>1 DEF ServoZeroDuty, WritesServoDuty
<1>3. CASE ServoWritePeriod
  <2>1. Period \in Nat
    BY DEF Period, HzToPeriod
  <2>2. ~PeriodRefused(servoPwm, Period)
    BY <1>3, <2>1 DEF ServoWritePeriod, PeriodRefused
  <2>3. QED BY <1>3, <2>1, <2>2 DEF ServoWritePeriod, WithPeriod
<1>4. CASE ServoCentreDuty
  <2>. DEFINE d == ServoDuty(Centre)
  <2>1. d \in Nat /\ d <= Period
    BY ServoDutyFacts DEF Centre
  <2>2. ~DutyWriteFails(servoPwm, d) /\ WithDuty(servoPwm, d) = [servoPwm EXCEPT !.duty = d]
    BY <1>4, <2>1, WriteSucceeds DEF ServoCentreDuty
  <2>3. servoPwm' = [servoPwm EXCEPT !.duty = d] /\ process' = process
    BY <1>4, <2>2 DEF ServoCentreDuty, WritesServoDuty
  <2>. HIDE DEF d
  <2>4. QED BY <1>4, <2>1, <2>3 DEF ServoCentreDuty
<1>5. CASE ServoSetEnabled
  BY <1>5 DEF ServoSetEnabled
<1>6. CASE ServoSwitchOn
  BY <1>6 DEF ServoSwitchOn
<1>7. QED BY <1>1, <1>2, <1>3, <1>4, <1>5, <1>6 DEF ServoStarts

LEMMA ServoCleanupKeeps ==
    ASSUME ServoInv, ServoCleanup
    PROVE  ServoInv'
  BY DEF ServoInv, ServoChannelInv, ServoFlagInv, ServoStages, Channel, ServoDoes, ServoCleanup

\* servo_set_angle, for any angle and at any stage.
LEMMA ServoSetAngleKeeps ==
    ASSUME ServoInv, NEW angle \in Int, ServoSetAngle(angle)
    PROVE  /\ ServoInv'
           /\ servoAt' = servoAt
           /\ process' \in {process, "aborted"}
           /\ process' = "aborted" => process = "aborted" \/ ~ServoAsserts(angle)
<1>1. CASE ServoAborts(angle)
  BY <1>1 DEF ServoAborts, servoVars, ServoInv, ServoChannelInv, ServoFlagInv
<1>2. CASE ServoTurns(angle)
  <2>. DEFINE d == ServoDuty(angle)
  <2>1. d \in Nat /\ d <= Period
    BY <1>2, ServoDutyFacts DEF ServoTurns, ServoAsserts
  <2>2. servoPwm.period = Period
    BY <1>2 DEF ServoTurns, ServoAsserts, ServoInv, ServoFlagInv, ServoChannelInv
  <2>3. ~DutyWriteFails(servoPwm, d) /\ WithDuty(servoPwm, d) = [servoPwm EXCEPT !.duty = d]
    BY <2>1, <2>2, WriteSucceeds DEF ServoInv
  <2>4. servoPwm' = [servoPwm EXCEPT !.duty = d] /\ process' = process
    BY <1>2, <2>3 DEF ServoTurns, WritesServoDuty
  <2>. HIDE DEF d
  <2>5. QED
    BY <1>2, <2>1, <2>2, <2>4
    DEF ServoTurns, ServoAsserts, ServoInv, ServoChannelInv, ServoFlagInv, ServoStages, Channel
<1>3. QED BY <1>1, <1>2 DEF ServoSetAngle

-----------------------------------------------------------------------------
(***************************************************************************)
(* The program.                                                            *)
(***************************************************************************)
Closing == {"motor_cleanup", "servo_cleanup", "done"}

\* Where main is says how far each driver is, and that the listener has ended
\* before anything is cleaned up.
StageInv ==
    /\ mainAt \in MainStages /\ listener \in ListenerStages
    /\ listener = "none" <=> mainAt = "udp_init"
    /\ mainAt = "udp_init" => motorAt = "off"
    /\ mainAt = "motor_init" => motorAt \notin {"on", "stopped"}
    /\ mainAt \in {"servo_init", "poll", "join", "tell", "motor_cleanup"} => motorAt = "on"
    /\ mainAt \in {"servo_cleanup", "done"} => motorAt = "stopped"
    /\ mainAt \in {"udp_init", "motor_init"} => servoAt = "off"
    /\ mainAt = "servo_init" => servoAt \notin {"on", "stopped"}
    /\ mainAt \in {"poll", "join", "tell", "motor_cleanup", "servo_cleanup"} => servoAt = "on"
    /\ mainAt = "done" => servoAt = "stopped" /\ process = "finished"
    /\ mainAt \in {"tell"} \cup Closing => listener = "done"

\* What the listener has in hand agrees with what the motor is doing.
HandlingInv ==
    /\ command \in Messages
    /\ listener = "asleep" <=> reversing.pending
    /\ listener = "asleep" /\ command.code = "encoder" =>
           reversing.speed = EncoderSpeed(command.val)
    /\ process = "running" /\ listener = "ack" =>
           motor.enabled /\ motor.speed = EncoderSpeed(command.val)

ChannelsInv ==
    /\ toCar \in Seq(Messages)
    /\ toCtl \in Seq(IF mainAt \in Closing THEN {CODE_STOP} \cup 1..99 ELSE 1..99)

FlagsInv ==
    /\ process \in ProcessStates \ {"failed"}
    /\ stop_thread \in BOOLEAN
    /\ curr_ack_timeout \in 0..MaxAckTimeout

ReceiverInv ==
    MotorInv /\ ServoInv /\ StageInv /\ HandlingInv /\ ChannelsInv /\ FlagsInv


-----------------------------------------------------------------------------
(***************************************************************************)
(* The channels and the clamps.                                            *)
(***************************************************************************)
LEMMA SeqOfSubset ==
    ASSUME NEW S, NEW T, S \subseteq T, NEW s \in Seq(S)
    PROVE  s \in Seq(T)
  OBVIOUS

LEMMA SentInSeq ==
    ASSUME NEW S, NEW channel \in Seq(S), NEW m \in S, NEW next \in Sent(channel, m)
    PROVE  next \in Seq(S)
  BY AppendProperties DEF Sent

LEMMA AfterInSeq ==
    ASSUME NEW S, NEW channel \in Seq(S), NEW i \in DOMAIN channel,
           NEW next \in After(channel, i)
    PROVE  next \in Seq(S)
<1>1. i \in 1..Len(channel)
  OBVIOUS
<1>2. SubSeq(channel, 1, i - 1) \in Seq(S) /\ SubSeq(channel, i + 1, Len(channel)) \in Seq(S)
  <2>1. \A j \in 1..(i - 1) : channel[j] \in S
    BY <1>1, ElementOfSeq
  <2>2. \A j \in (i + 1)..Len(channel) : channel[j] \in S
    BY <1>1, ElementOfSeq
  <2>3. QED BY <1>1, <2>1, <2>2, SubSeqProperties
<1>3. RemoveAt(channel, i) \in Seq(S)
  BY <1>2, ConcatProperties DEF RemoveAt
<1>4. QED BY <1>3 DEF After

\* process_cmd gives motor_set_speed a speed it accepts, whatever arrives.
LEMMA EncoderSpeedRange ==
    ASSUME NEW val \in Int
    PROVE  EncoderSpeed(val) \in 1..99 /\ EncoderReverse(val) \in BOOLEAN
  BY DEF EncoderSpeed, Magnitude, EncoderReverse

\* And servo_set_angle an angle it accepts, whatever y arrives.
LEMMA SteeringRange ==
    ASSUME NEW y \in Int
    PROVE  SteeringAngle(y) \in 0..180
<1>. DEFINE degrees == Degrees(y)
<1>1. degrees \in Int
  BY DEF Degrees
<1>. HIDE DEF degrees
<1>2. SteeringAngle(y) = IF degrees > 180 THEN 179 ELSE IF degrees < 0 THEN 1 ELSE degrees
  BY DEF SteeringAngle, degrees
<1>3. QED BY <1>1, <1>2

LEMMA DeliveredCommand ==
    ASSUME ReceiverInv, NEW i \in Deliverable(toCar)
    PROVE  /\ i \in DOMAIN toCar
           /\ toCar[i] \in Messages
           /\ toCar[i].val \in Int
<1>1. i \in DOMAIN toCar
  BY DEF Deliverable
<1>2. toCar[i] \in Messages
  BY <1>1, ElementOfSeq DEF ReceiverInv, ChannelsInv
<1>3. QED BY <1>1, <1>2 DEF Messages

-----------------------------------------------------------------------------
(***************************************************************************)
(* How the motor's operations appear to the listener.                      *)
(***************************************************************************)
LEMMA MotorStartsEffect ==
    ASSUME MotorInv, MotorStarts
    PROVE  /\ motor'.speed = motor.speed
           /\ motor.enabled => motor'.enabled
           /\ reversing' = reversing
           /\ motorAt' \notin {"off", "stopped"}
           /\ motorAt \notin {"on", "stopped"}
  BY DEF MotorStarts, BeginInit, ZeroDuty, WritePeriod, NeutralDuty, SetEnabled, SwitchOn,
         MainDoes, MotorInv

LEMMA ServoStartsEffect ==
    ASSUME ServoInv, ServoStarts
    PROVE  servoAt' \notin {"off", "stopped"} /\ servoAt \notin {"on", "stopped"}
  BY DEF ServoStarts, ServoBeginInit, ServoZeroDuty, ServoWritePeriod, ServoCentreDuty,
         ServoSetEnabled, ServoSwitchOn, ServoDoes

LEMMA MotorSetSpeedEffect ==
    ASSUME MotorInv, ~reversing.pending, process = "running",
           NEW speed \in 0..100, NEW reverse \in BOOLEAN, MotorSetSpeed(speed, reverse)
    PROVE  /\ motorAt' = motorAt
           /\ reversing'.pending => reversing'.speed = speed
           /\ process' = "running" /\ ~reversing'.pending =>
                  motor'.enabled /\ motor'.speed = speed
<1>1. CASE MotorAborts(speed)
  BY <1>1 DEF MotorAborts, motorVars
<1>2. CASE MotorSameSpeed(speed)
  BY <1>2 DEF MotorSameSpeed, motorVars, MotorAsserts
<1>3. CASE MotorGoesNeutral(speed, reverse)
  BY <1>3 DEF MotorGoesNeutral, Call
<1>4. CASE MotorApplies(speed, reverse)
  BY <1>4 DEF MotorApplies, MotorAsserts, MotorInv
<1>5. QED BY <1>1, <1>2, <1>3, <1>4 DEF MotorSetSpeed

-----------------------------------------------------------------------------
(***************************************************************************)
(* The invariant: first the initial state, then the main thread, then the  *)
(* listener.                                                               *)
(***************************************************************************)
LEMMA ReceiverInvInit ==
    ASSUME ReceiverInit, toCar = <<>>, toCtl = <<>>
    PROVE  ReceiverInv
<1>1. MotorInv /\ ServoInv
  BY MotorInvInit, ServoInvInit DEF ReceiverInit
<1>2. <<>> \in Seq(Messages) /\ <<>> \in Seq(1..99)
  BY EmptySeq
<1>3. ChannelsInv
  BY <1>2 DEF ReceiverInit, ChannelsInv, Closing
<1>4. StageInv
  BY DEF ReceiverInit, MotorInit, ServoInit, StageInv, MainStages, ListenerStages, Closing
<1>5. FlagsInv
  <2>1. curr_ack_timeout \in 0..MaxAckTimeout
    BY DEF ReceiverInit, MaxAckTimeout
  <2>2. process \in ProcessStates \ {"failed"} /\ stop_thread = FALSE
    BY DEF ReceiverInit, ProcessStates
  <2>3. QED BY <2>1, <2>2 DEF FlagsInv
<1>6. HandlingInv
  BY DEF ReceiverInit, MotorInit, HandlingInv, NoCommand, Message, Messages, Codes, NoCall
<1>7. QED BY <1>1, <1>3, <1>4, <1>5, <1>6 DEF ReceiverInv

LEMMA ReceiverInvTypes == ASSUME ReceiverInv PROVE MotorTypeOK /\ ServoTypeOK
  BY DEF ReceiverInv, MotorInv, ServoInv, FlagsInv, MotorTypeOK, ServoTypeOK

\* What a step that leaves a driver's variables alone keeps.
LEMMA MotorUntouched == ASSUME MotorInv, UNCHANGED motorVars PROVE MotorInv'
  BY DEF MotorInv, motorVars, ChannelInv, FlagInv, PulseInv

LEMMA ServoUntouched == ASSUME ServoInv, UNCHANGED servoVars PROVE ServoInv'
  BY DEF ServoInv, servoVars, ServoChannelInv, ServoFlagInv

LEMMA MainKeeps ==
    ASSUME ReceiverInv, MainSteps
    PROVE  ReceiverInv'
<1> USE DEF ReceiverInv, Main
<1>1. CASE RecvUdpInit \/ Poll \/ Join
  <2>1. MotorInv' /\ ServoInv'
    BY <1>1, MotorUntouched, ServoUntouched DEF RecvUdpInit, Poll, Join
  <2>2. StageInv'
    BY <1>1 DEF RecvUdpInit, Poll, Join, StageInv, MainStages, ListenerStages, Closing,
                motorVars, servoVars
  <2>3. HandlingInv' /\ ChannelsInv' /\ FlagsInv'
    BY <1>1 DEF RecvUdpInit, Poll, Join, HandlingInv, ChannelsInv, FlagsInv, StageInv, Closing,
                motorVars, servoVars, network
  <2>4. QED BY <2>1, <2>2, <2>3
<1>2. CASE InitMotor
  <2>1. MotorInv' /\ ServoInv' /\ process' = process
    BY <1>2, MotorStartsKeeps, ServoUntouched DEF InitMotor
  <2>2. StageInv'
    BY <1>2, <2>1, MotorStartsEffect
    DEF InitMotor, StageInv, MainStages, Closing, servoVars, MotorInv
  <2>3. HandlingInv' /\ ChannelsInv' /\ FlagsInv'
    BY <1>2, <2>1, MotorStartsEffect
    DEF InitMotor, HandlingInv, ChannelsInv, FlagsInv, Closing, network
  <2>4. QED BY <2>1, <2>2, <2>3
<1>3. CASE InitServo
  <2>1. MotorInv' /\ ServoInv' /\ process' = process
    BY <1>3, ServoStartsKeeps, MotorUntouched DEF InitServo
  <2>2. StageInv'
    BY <1>3, <2>1, ServoStartsEffect
    DEF InitServo, StageInv, MainStages, Closing, motorVars, ServoInv
  <2>3. HandlingInv' /\ ChannelsInv' /\ FlagsInv'
    BY <1>3, <2>1
    DEF InitServo, HandlingInv, ChannelsInv, FlagsInv, Closing, network, motorVars
  <2>4. QED BY <2>1, <2>2, <2>3
<1>4. CASE TellSender
  <2>1. MotorInv' /\ ServoInv'
    BY <1>4, MotorUntouched, ServoUntouched DEF TellSender
  <2>2. StageInv' /\ HandlingInv' /\ FlagsInv'
    BY <1>4 DEF TellSender, StageInv, MainStages, Closing, HandlingInv, FlagsInv,
                motorVars, servoVars
  <2>3. ChannelsInv'
    <3>. DEFINE S == {CODE_STOP} \cup 1..99
    <3>1. mainAt' \in Closing /\ toCar' = toCar
      BY <1>4 DEF TellSender, Closing
    <3>2. toCtl \in Seq(1..99)
      BY <1>4 DEF TellSender, ChannelsInv, Closing
    <3>3. toCtl \in Seq(S) /\ CODE_STOP \in S
      BY <3>2
    <3>4. toCtl' \in Seq(S)
      BY <1>4, <3>3, SentInSeq DEF TellSender
    <3>5. QED BY <3>1, <3>4 DEF ChannelsInv
  <2>4. QED BY <2>1, <2>2, <2>3
<1>5. CASE CleanMotor
  <2>1. listener = "done" /\ ~reversing.pending
    BY <1>5 DEF CleanMotor, StageInv, HandlingInv, Closing
  <2>2. MotorInv' /\ ServoInv'
    BY <1>5, <2>1, MotorCleanupKeeps, ServoUntouched DEF CleanMotor
  <2>3. StageInv'
    BY <1>5, <2>1
    DEF CleanMotor, MotorCleanup, MainDoes, StageInv, MainStages, Closing, servoVars
  <2>4. HandlingInv' /\ ChannelsInv' /\ FlagsInv'
    BY <1>5, <2>1
    DEF CleanMotor, MotorCleanup, MainDoes, HandlingInv, ChannelsInv, FlagsInv, Closing, network
  <2>5. QED BY <2>2, <2>3, <2>4
<1>6. CASE CleanServo
  <2>1. MotorInv' /\ ServoInv'
    BY <1>6, MotorUntouched, ServoCleanupKeeps DEF CleanServo
  <2>2. StageInv'
    BY <1>6
    DEF CleanServo, ServoCleanup, ServoDoes, StageInv, MainStages, Closing, motorVars
  <2>3. HandlingInv' /\ ChannelsInv' /\ FlagsInv'
    BY <1>6
    DEF CleanServo, ServoCleanup, ServoDoes, HandlingInv, ChannelsInv, FlagsInv, Closing,
        network, motorVars, StageInv, ProcessStates
  <2>4. QED BY <2>1, <2>2, <2>3
<1>7. QED BY <1>1, <1>2, <1>3, <1>4, <1>5, <1>6 DEF MainSteps

\* Handling one datagram.  The listener hears only while main has cleaned up
\* nothing, so its stage tells that no driver is stopped.
LEMMA HandleKeeps ==
    ASSUME ReceiverInv, Listener("recv"), NEW m \in Messages, m.val \in Int,
           toCar' \in Seq(Messages), Handle(m)
    PROVE  ReceiverInv'
<1> USE DEF ReceiverInv, Listener
<1>0. mainAt \notin {"udp_init", "tell"} \cup Closing /\ ~reversing.pending
  BY DEF StageInv, HandlingInv, Closing
<1>1. CASE HandleEncoder(m)
  <2>. DEFINE speed == EncoderSpeed(m.val)
              reverse == EncoderReverse(m.val)
  <2>0. speed \in 1..99 /\ reverse \in BOOLEAN
    BY EncoderSpeedRange
  <2>2. MotorSetSpeed(speed, reverse)
    BY <1>1 DEF HandleEncoder
  <2>. HIDE DEF speed, reverse
  <2>1. speed \in Int /\ speed \in 0..100 /\ reverse \in BOOLEAN
    BY <2>0
  <2>3. MotorInv' /\ process' \in {process, "aborted"}
    BY <1>0, <2>1, <2>2, MotorSetSpeedKeeps
  <2>4. /\ motorAt' = motorAt
        /\ reversing'.pending => reversing'.speed = speed
        /\ process' = "running" /\ ~reversing'.pending =>
               motor'.enabled /\ motor'.speed = speed
    BY <1>0, <2>1, <2>2, MotorSetSpeedEffect
  <2>5. ServoInv'
    BY <1>1, ServoUntouched DEF HandleEncoder
  <2>6. StageInv'
    BY <1>0, <1>1, <2>3, <2>4
    DEF HandleEncoder, Handles, StageInv, ListenerStages, Closing, servoVars
  <2>7. HandlingInv'
    <3>1. reversing'.pending \in BOOLEAN
      BY <2>3 DEF MotorInv
    <3>2. QED
      BY <1>1, <2>4, <3>1 DEF speed, HandleEncoder, Handles, HandlingInv
  <2>8. ChannelsInv' /\ FlagsInv'
    BY <1>1, <2>3 DEF HandleEncoder, Handles, ChannelsInv, FlagsInv, ProcessStates
  <2>9. QED BY <2>3, <2>5, <2>6, <2>7, <2>8
<1>2. CASE HandleEncoderPush(m)
  <2>0. 0 \in Int /\ 0 \in 0..100 /\ FALSE \in BOOLEAN
    OBVIOUS
  <2>1. MotorSetSpeed(0, FALSE)
    BY <1>2 DEF HandleEncoderPush
  <2>2. MotorInv' /\ process' \in {process, "aborted"}
    BY <1>0, <2>0, <2>1, MotorSetSpeedKeeps
  <2>3. motorAt' = motorAt /\ reversing'.pending \in BOOLEAN
    BY <1>0, <2>0, <2>1, <2>2, MotorSetSpeedEffect DEF MotorInv
  <2>4. ServoInv'
    BY <1>2, ServoUntouched DEF HandleEncoderPush
  <2>5. listener' \in {"asleep", "done", "recv"} /\ (listener' = "asleep" <=> reversing'.pending)
    BY <1>2, <2>3 DEF HandleEncoderPush, LoopEnd
  <2>6. StageInv'
    BY <1>0, <1>2, <2>2, <2>3, <2>5
    DEF HandleEncoderPush, Handles, StageInv, ListenerStages, Closing, servoVars
  <2>7. HandlingInv'
    BY <1>2, <2>3, <2>5
    DEF HandleEncoderPush, Handles, HandlingInv, NoCommand, Message, Messages, Codes
  <2>8. ChannelsInv' /\ FlagsInv'
    BY <1>2, <2>2 DEF HandleEncoderPush, Handles, ChannelsInv, FlagsInv, ProcessStates
  <2>9. QED BY <2>2, <2>4, <2>6, <2>7, <2>8
<1>3. CASE HandleJoystick(m)
  <2>1. SteeringAngle(m.val) \in Int
    BY SteeringRange
  <2>2. ServoInv' /\ servoAt' = servoAt /\ process' \in {process, "aborted"}
    BY <1>3, <2>1, ServoSetAngleKeeps DEF HandleJoystick
  <2>3. MotorInv'
    BY <1>3, MotorUntouched DEF HandleJoystick
  <2>4. StageInv'
    BY <1>0, <1>3, <2>2
    DEF HandleJoystick, Handles, LoopEnd, StageInv, ListenerStages, Closing, motorVars
  <2>5. HandlingInv' /\ ChannelsInv' /\ FlagsInv'
    BY <1>0, <1>3, <2>2
    DEF HandleJoystick, Handles, LoopEnd, HandlingInv, ChannelsInv, FlagsInv, ProcessStates,
        motorVars
  <2>6. QED BY <2>2, <2>3, <2>4, <2>5
<1>4. CASE HandleJoystickPush(m) \/ HandleOther(m) \/ HandleStop(m)
  <2>1. MotorInv' /\ ServoInv'
    BY <1>4, MotorUntouched, ServoUntouched DEF HandleJoystickPush, HandleOther, HandleStop
  <2>2. StageInv'
    BY <1>0, <1>4
    DEF HandleJoystickPush, HandleOther, HandleStop, Handles, LoopEnd, StageInv, ListenerStages, Closing,
        motorVars, servoVars
  <2>3. HandlingInv' /\ ChannelsInv' /\ FlagsInv'
    BY <1>0, <1>4
    DEF HandleJoystickPush, HandleOther, HandleStop, Handles, LoopEnd, HandlingInv, ChannelsInv, FlagsInv,
        motorVars
  <2>4. QED BY <2>1, <2>2, <2>3
<1>5. QED BY <1>1, <1>2, <1>3, <1>4 DEF Handle

LEMMA ListenerKeeps ==
    ASSUME ReceiverInv, ListenerSteps
    PROVE  ReceiverInv'
<1> USE DEF ReceiverInv, Listener
<1>1. CASE Bind
  <2>1. MotorInv' /\ ServoInv'
    BY <1>1, MotorUntouched, ServoUntouched DEF Bind
  <2>2. StageInv' /\ HandlingInv' /\ ChannelsInv' /\ FlagsInv'
    BY <1>1
    DEF Bind, StageInv, ListenerStages, Closing, HandlingInv, ChannelsInv, FlagsInv,
        motorVars, servoVars, network
  <2>3. QED BY <2>1, <2>2
<1>2. CASE Receive
  <2>1. PICK i \in Deliverable(toCar) : toCar' \in After(toCar, i) /\ Handle(toCar[i])
    BY <1>2 DEF Receive
  <2>2. toCar[i] \in Messages /\ toCar[i].val \in Int
        /\ i \in DOMAIN toCar
    BY DeliveredCommand
  <2>3. toCar' \in Seq(Messages)
    BY <2>1, <2>2, AfterInSeq DEF ChannelsInv
  <2>4. QED BY <1>2, <2>1, <2>2, <2>3, HandleKeeps DEF Receive
<1>3. CASE WakeUp
  <2>1. MotorInv' /\ process' = process
    BY <1>3, MotorReversesKeeps DEF WakeUp
  <2>2. ServoInv'
    BY <1>3, ServoUntouched DEF WakeUp
  <2>3. /\ motorAt' = motorAt /\ ~reversing'.pending
        /\ motor'.enabled /\ motor'.speed = reversing.speed
    BY <1>3 DEF WakeUp, MotorReverses, MotorInv, FlagInv, NoCall
  <2>4. listener' \in {"ack", "done", "recv"}
        /\ (listener' = "ack" => command.code = "encoder" /\ command' = command)
    BY <1>3 DEF WakeUp, LoopEnd
  <2>5. mainAt \notin {"udp_init", "tell"} \cup Closing
    BY <1>3 DEF WakeUp, StageInv
  <2>6. StageInv'
    BY <1>3, <2>1, <2>3, <2>4, <2>5
    DEF WakeUp, StageInv, ListenerStages, Closing, servoVars
  <2>7. HandlingInv'
    BY <1>3, <2>3, <2>4
    DEF WakeUp, HandlingInv, NoCommand, Message, Messages, Codes
  <2>8. ChannelsInv' /\ FlagsInv'
    BY <1>3, <2>1 DEF WakeUp, ChannelsInv, FlagsInv, network
  <2>9. QED BY <2>1, <2>2, <2>6, <2>7, <2>8
<1>4. CASE Ack
  <2>1. MotorInv' /\ ServoInv'
    BY <1>4, MotorUntouched, ServoUntouched DEF Ack
  <2>2. mainAt \notin {"udp_init", "tell"} \cup Closing
    BY <1>4 DEF Ack, StageInv
  <2>3. StageInv' /\ HandlingInv'
    BY <1>4, <2>2
    DEF Ack, LoopEnd, StageInv, ListenerStages, Closing, HandlingInv, NoCommand, Message,
        Messages, Codes, motorVars, servoVars
  <2>4. AckValue(command.val) \in 1..99
    BY EncoderSpeedRange DEF AckValue, HandlingInv, Messages
  <2>5. toCtl \in Seq(1..99)
    BY <2>2 DEF ChannelsInv
  <2>6. toCtl' \in Seq(1..99)
    BY <1>4, <2>4, <2>5, SentInSeq DEF Ack
  <2>7. ChannelsInv' /\ FlagsInv'
    BY <1>4, <2>2, <2>6 DEF Ack, ChannelsInv, FlagsInv, MaxAckTimeout
  <2>8. QED BY <2>1, <2>3, <2>7
<1>5. CASE EndLoop
  <2>1. MotorInv' /\ ServoInv'
    BY <1>5, MotorUntouched, ServoUntouched DEF EndLoop
  <2>2. mainAt \notin {"udp_init", "tell"} \cup Closing
    BY <1>5 DEF EndLoop, StageInv
  <2>3. StageInv' /\ HandlingInv'
    BY <1>5, <2>2
    DEF EndLoop, LoopEnd, StageInv, ListenerStages, Closing, HandlingInv, motorVars, servoVars
  <2>4. ChannelsInv' /\ FlagsInv'
    BY <1>5 DEF EndLoop, ChannelsInv, FlagsInv, network
  <2>5. QED BY <2>1, <2>3, <2>4
<1>6. QED BY <1>1, <1>2, <1>3, <1>4, <1>5 DEF ListenerSteps


\* What happens in the network alone, as long as it carries what the two
\* programs send.
LEMMA ReceiverUntouched ==
    ASSUME ReceiverInv, UNCHANGED <<process, motorVars, servoVars, receiverVars>>, ChannelsInv'
    PROVE  ReceiverInv'
<1>1. MotorInv' /\ ServoInv'
  BY MotorUntouched, ServoUntouched DEF ReceiverInv
<1>2. StageInv' /\ HandlingInv' /\ FlagsInv'
  BY DEF ReceiverInv, StageInv, HandlingInv, FlagsInv, motorVars, servoVars, receiverVars
<1>3. QED BY <1>1, <1>2 DEF ReceiverInv

LEMMA CommandUnheardKeeps == ASSUME ReceiverInv, CommandUnheard PROVE ReceiverInv'
<1>1. ChannelsInv'
  BY HeadTailProperties DEF CommandUnheard, ReceiverInv, ChannelsInv, receiverVars
<1>2. QED BY <1>1, ReceiverUntouched DEF CommandUnheard
==============================================================================
