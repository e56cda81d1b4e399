------------------------------ MODULE CarProofs ------------------------------
(***************************************************************************)
(* What the car keeps for every set of commands, every channel capacity,   *)
(* every kind of network and every state an earlier process may have left  *)
(* the PWM channels in.                                                    *)
(***************************************************************************)
EXTENDS Car, ReceiverProofs

LEMMA NetworkKeeps ==
    ASSUME ReceiverInv, CommandArrives \/ AckLeaves \/ UNCHANGED vars
    PROVE  ReceiverInv'
<1>1. UNCHANGED <<process, motorVars, servoVars, receiverVars>>
  BY DEF CommandArrives, AckLeaves, vars
<1>2. ChannelsInv'
  <2>1. CASE CommandArrives
    BY <1>1, <2>1, CommandsAssumption, AppendProperties
    DEF CommandArrives, ReceiverInv, ChannelsInv, receiverVars
  <2>2. CASE AckLeaves
    BY <1>1, <2>2, HeadTailProperties DEF AckLeaves, ReceiverInv, ChannelsInv, receiverVars
  <2>3. CASE UNCHANGED vars
    BY <1>1, <2>3 DEF vars, network, ReceiverInv, ChannelsInv, receiverVars
  <2>4. QED BY <2>1, <2>2, <2>3
<1>3. QED BY <1>1, <1>2, ReceiverUntouched

LEMMA CarKeeps == ReceiverInv /\ [Next]_vars => ReceiverInv'
  BY MainKeeps, ListenerKeeps, NetworkKeeps, CommandUnheardKeeps DEF Next

LEMMA ReceiverInvariant == Spec => []ReceiverInv
<1>1. Init => ReceiverInv
  BY ReceiverInvInit DEF Init
<1>2. QED BY <1>1, CarKeeps, PTL DEF Spec

-----------------------------------------------------------------------------
\* The car's variables have their types; an acknowledgement is a speed the
\* motor runs at, or CODE_STOP.
THEOREM CarTypeCorrect == Spec => []TypeOK
<1>1. ASSUME ReceiverInv PROVE TypeOK
  <2>1. MotorTypeOK /\ ServoTypeOK
    BY <1>1, ReceiverInvTypes
  <2>2. toCar \in Seq(Messages)
    BY <1>1 DEF ReceiverInv, ChannelsInv
  <2>3. toCtl \in Seq({CODE_STOP} \cup 1..99)
    <3>1. CASE mainAt \in Closing
      BY <1>1, <3>1 DEF ReceiverInv, ChannelsInv
    <3>2. CASE mainAt \notin Closing
      <4>1. toCtl \in Seq(1..99)
        BY <1>1, <3>2 DEF ReceiverInv, ChannelsInv
      <4>2. 1..99 \subseteq {CODE_STOP} \cup 1..99
        OBVIOUS
      <4>3. QED BY <4>1, <4>2, SeqOfSubset
    <3>3. QED BY <3>1, <3>2
  <2>4. QED BY <1>1, <2>1, <2>2, <2>3 DEF ReceiverInv, StageInv, HandlingInv, FlagsInv, TypeOK
<1>2. QED BY <1>1, ReceiverInvariant, PTL

\* The motor's cached speed and direction agree with its file, also while a
\* reversal sleeps and main runs on.
THEOREM CarDutyMatches == Spec => []DutyMatchesState
<1>1. ReceiverInv => DutyMatchesState
  BY DEF ReceiverInv, MotorInv, PulseInv, DutyMatchesState
<1>2. QED BY <1>1, ReceiverInvariant, PTL

\* No write to either channel is refused, from whatever state they were left in.
THEOREM CarNeverFaults == Spec => []NoPwmFault
<1>1. ReceiverInv => NoPwmFault
  BY DEF ReceiverInv, FlagsInv, NoPwmFault
<1>2. QED BY <1>1, ReceiverInvariant, PTL

\* No acknowledgement can be taken for CODE_STOP before the car is closing.
THEOREM AcksNeverStop == Spec => []AckNeverStop
<1>1. ReceiverInv => AckNeverStop
  <2> SUFFICES ASSUME ReceiverInv, mainAt \notin Closing, NEW i \in DOMAIN toCtl
               PROVE  toCtl[i] \in 1..99
    BY DEF AckNeverStop, Closing
  <2>1. toCtl \in Seq(1..99)
    BY DEF ReceiverInv, ChannelsInv
  <2>2. i \in 1..Len(toCtl)
    BY <2>1
  <2>3. QED BY <2>1, <2>2, ElementOfSeq
<1>2. QED BY <1>1, ReceiverInvariant, PTL

\* What is acknowledged is what the motor does.
THEOREM AcksAreTrue == Spec => []AckAfterApply
<1>1. ReceiverInv => AckAfterApply
  <2> SUFFICES ASSUME ReceiverInv, process = "running", listener = "ack"
               PROVE  motorPwm.duty = MotorDuty(AckValue(command.val), motor.reverse)
    BY DEF AckAfterApply
  <2>1. motor.enabled /\ motor.speed = AckValue(command.val) /\ ~reversing.pending
    BY DEF ReceiverInv, HandlingInv, AckValue
  <2>2. QED BY <2>1 DEF ReceiverInv, MotorInv, PulseInv
<1>2. QED BY <1>1, ReceiverInvariant, PTL

\* When main has returned, the car stands still and nothing can move it.
THEOREM DoneIsOff == Spec => []DoneMeansOff
<1>1. ReceiverInv => DoneMeansOff
  BY DEF ReceiverInv, StageInv, Closing, DoneMeansOff, MotorInv, ChannelInv, ServoInv, ServoChannelInv
<1>2. QED BY <1>1, ReceiverInvariant, PTL

\* No driver is cleaned up under the listener's feet.
THEOREM CleanupFollows == Spec => []CleanupAfterListener
<1>1. ReceiverInv => CleanupAfterListener
  BY DEF ReceiverInv, StageInv, MainStages, Closing, CleanupAfterListener
<1>2. QED BY <1>1, ReceiverInvariant, PTL

-----------------------------------------------------------------------------
(***************************************************************************)
(* Aborts.  An assert can fail only in a driver call, and the arguments    *)
(* process_cmd passes are always in range; what is left is a driver that   *)
(* is not up yet.                                                          *)
(***************************************************************************)
AbortInv == process = "aborted" => motorAt # "on" \/ servoAt # "on"

LEMMA MotorCallAborts ==
    ASSUME ReceiverInv, process = "running", NEW speed \in 0..100, NEW reverse \in BOOLEAN,
           ~reversing.pending, MotorSetSpeed(speed, reverse), process' = "aborted"
    PROVE  motorAt # "on"
<1>1. speed \in Int
  OBVIOUS
<1>2. ~MotorAsserts(speed)
  BY <1>1, MotorSetSpeedKeeps DEF ReceiverInv
<1>3. QED BY <1>2 DEF MotorAsserts, ReceiverInv, MotorInv, FlagInv

LEMMA HandleAborts ==
    ASSUME ReceiverInv, Listener("recv"), NEW m \in Messages, m.val \in Int,
           Handle(m), process' = "aborted"
    PROVE  /\ motorAt' = motorAt /\ servoAt' = servoAt
           /\ motorAt # "on" \/ servoAt # "on"
<1>0. process = "running" /\ ~reversing.pending
  BY DEF Listener, ReceiverInv, HandlingInv
<1>1. CASE HandleEncoder(m)
  <2>. DEFINE speed == EncoderSpeed(m.val)
              reverse == EncoderReverse(m.val)
  <2>1. speed \in 1..99 /\ reverse \in BOOLEAN
    BY EncoderSpeedRange
  <2>2. MotorSetSpeed(speed, reverse)
    BY <1>1 DEF HandleEncoder
  <2>. HIDE DEF speed, reverse
  <2>3. speed \in 0..100
    BY <2>1
  <2>4. motorAt # "on" /\ motorAt' = motorAt
    BY <1>0, <2>1, <2>2, <2>3, MotorCallAborts, MotorSetSpeedEffect DEF ReceiverInv
  <2>5. QED BY <1>1, <2>4 DEF HandleEncoder, servoVars
<1>2. CASE HandleEncoderPush(m)
  <2>1. 0 \in 0..100 /\ FALSE \in BOOLEAN
    OBVIOUS
  <2>2. MotorSetSpeed(0, FALSE)
    BY <1>2 DEF HandleEncoderPush
  <2>3. motorAt # "on" /\ motorAt' = motorAt
    BY <1>0, <2>1, <2>2, MotorCallAborts, MotorSetSpeedEffect DEF ReceiverInv
  <2>4. QED BY <1>2, <2>3 DEF HandleEncoderPush, servoVars
<1>3. CASE HandleJoystick(m)
  <2>. DEFINE angle == SteeringAngle(m.val)
  <2>2. angle \in 0..180 /\ ServoSetAngle(angle)
    BY <1>3, SteeringRange DEF HandleJoystick
  <2>. HIDE DEF angle
  <2>3. angle \in Int
    BY <2>2
  <2>4. servoAt' = servoAt /\ ~ServoAsserts(angle)
    BY <1>0, <2>2, <2>3, ServoSetAngleKeeps DEF ReceiverInv
  <2>5. servoAt # "on"
    BY <2>2, <2>4 DEF ServoAsserts, ReceiverInv, ServoInv, ServoFlagInv
  <2>6. QED BY <1>3, <2>4, <2>5 DEF HandleJoystick, motorVars
<1>4. CASE HandleJoystickPush(m) \/ HandleOther(m) \/ HandleStop(m)
  BY <1>0, <1>4 DEF HandleJoystickPush, HandleOther, HandleStop
<1>5. QED BY <1>1, <1>2, <1>3, <1>4 DEF Handle

\* A step of a running program that ends aborted is a call of a driver that
\* is not up, and brings neither of them up.
LEMMA AbortingStep ==
    ASSUME ReceiverInv, Next, process # "aborted", process' = "aborted"
    PROVE  /\ motorAt' = motorAt /\ servoAt' = servoAt
           /\ motorAt # "on" \/ servoAt # "on"
<1>1. CASE MainSteps
  <2>1. process' = process \/ process' = "finished"
    BY <1>1, MotorStartsKeeps, ServoStartsKeeps
    DEF ReceiverInv, MainSteps, RecvUdpInit, InitMotor, InitServo, Poll, Join, TellSender,
        CleanMotor, MotorCleanup, CleanServo
  <2>2. QED BY <2>1
<1>2. CASE Receive
  <2>1. PICK i \in Deliverable(toCar) : Handle(toCar[i])
    BY <1>2 DEF Receive
  <2>2. toCar[i] \in Messages /\ toCar[i].val \in Int
    BY DeliveredCommand
  <2>3. QED BY <1>2, <2>1, <2>2, HandleAborts DEF Receive
<1>3. CASE Bind \/ WakeUp \/ Ack \/ EndLoop
  <2>1. process' = process
    BY <1>3, MotorReversesKeeps DEF ReceiverInv, Bind, WakeUp, Ack, EndLoop, Listener
  <2>2. QED BY <2>1
<1>4. CASE CommandArrives \/ AckLeaves \/ CommandUnheard
  BY <1>4 DEF CommandArrives, AckLeaves, CommandUnheard
<1>5. QED BY <1>1, <1>2, <1>3, <1>4 DEF Next, ListenerSteps

\* An aborted program does nothing more; what the network does leaves the
\* drivers as they were.
LEMMA AbortedStays ==
    ASSUME Next, process = "aborted"
    PROVE  motorAt' = motorAt /\ servoAt' = servoAt
BY DEF Next, MainSteps, RecvUdpInit, InitMotor, InitServo, Poll, Join, TellSender,
       CleanMotor, CleanServo, Main, ListenerSteps, Bind, Receive, WakeUp, Ack,
       EndLoop, Listener, CommandArrives, AckLeaves, CommandUnheard, motorVars, servoVars

LEMMA AbortInvNext == ReceiverInv /\ AbortInv /\ [Next]_vars => AbortInv'
<1> SUFFICES ASSUME ReceiverInv, AbortInv, [Next]_vars, process' = "aborted"
             PROVE  motorAt' # "on" \/ servoAt' # "on"
  BY DEF AbortInv
<1>1. CASE Next /\ process # "aborted"
  BY <1>1, AbortingStep
<1>2. CASE Next /\ process = "aborted"
  BY <1>2, AbortedStays DEF AbortInv
<1>3. CASE UNCHANGED vars
  BY <1>3 DEF vars, motorVars, servoVars, AbortInv
<1>4. QED BY <1>1, <1>2, <1>3

\* Once both drivers are up, no command that a joystick or an encoder can
\* produce takes the car's program down.
THEOREM AbortsOnlyAtStartup == Spec => AbortOnlyDuringStartup
<1>1. Init => AbortInv
  BY DEF Init, ReceiverInit, AbortInv
<1>2. ReceiverInv /\ AbortInv /\ [Next]_vars
        => [process' = "aborted" => motorAt # "on" \/ servoAt # "on"]_vars
  BY AbortingStep DEF AbortInv
<1>3. QED BY <1>1, <1>2, AbortInvNext, ReceiverInvariant, PTL DEF Spec, AbortOnlyDuringStartup

-----------------------------------------------------------------------------
(***************************************************************************)
(* The wheels.  Main's steps and the listener's each change the motor's    *)
(* channel through one operation of the driver.                            *)
(***************************************************************************)
Rolls == [Wheels!Drive \/ Wheels!ShutDown]_<<Pulse(motorPwm), motorAt = "stopped">>

LEMMA NoSwingRolls ==
    ASSUME NoSwing(motorPwm, motorPwm'), motorAt # "stopped", motorAt' # "stopped"
    PROVE  Rolls
<1>1. Wheels!Drive
  BY PulseValues DEF Wheels!Drive, Wheels!Opposite, Wheels!Pulses, NoSwing, Pulses
<1>2. QED BY <1>1 DEF Rolls

LEMMA MotorSetSpeedRolls ==
    ASSUME ReceiverInv, Listener("recv"),
           NEW speed \in 0..100, NEW reverse \in BOOLEAN, MotorSetSpeed(speed, reverse)
    PROVE  Rolls
<1>1. speed \in Int /\ process = "running" /\ ~reversing.pending
  BY DEF Listener, ReceiverInv, HandlingInv
<1>2. motorAt' = motorAt
  BY <1>1, MotorSetSpeedEffect DEF ReceiverInv
<1>3. NoSwing(motorPwm, motorPwm')
  BY <1>1, MotorSetSpeedNoSwing DEF ReceiverInv
<1>4. CASE motorAt = "stopped"
  <2>1. ~motor.enabled
    BY <1>4 DEF ReceiverInv, MotorInv, FlagInv
  <2>2. MotorAborts(speed)
    BY <2>1
    DEF MotorSetSpeed, MotorAsserts, MotorAborts, MotorSameSpeed, MotorGoesNeutral, MotorApplies
  <2>3. motorPwm' = motorPwm
    BY <2>2 DEF MotorAborts, motorVars
  <2>4. QED BY <1>2, <2>3 DEF Rolls
<1>5. QED BY <1>2, <1>3, <1>4, NoSwingRolls

LEMMA HandleRolls ==
    ASSUME ReceiverInv, Listener("recv"), NEW m \in Messages, m.val \in Int, Handle(m)
    PROVE  Rolls
<1>1. CASE HandleEncoder(m)
  <2>. DEFINE speed == EncoderSpeed(m.val)
              reverse == EncoderReverse(m.val)
  <2>1. speed \in 1..99 /\ reverse \in BOOLEAN
    BY EncoderSpeedRange
  <2>2. MotorSetSpeed(speed, reverse)
    BY <1>1 DEF HandleEncoder
  <2>. HIDE DEF speed, reverse
  <2>3. speed \in 0..100
    BY <2>1
  <2>4. QED BY <2>1, <2>2, <2>3, MotorSetSpeedRolls
<1>2. CASE HandleEncoderPush(m)
  <2>1. 0 \in 0..100 /\ FALSE \in BOOLEAN
    OBVIOUS
  <2>2. MotorSetSpeed(0, FALSE)
    BY <1>2 DEF HandleEncoderPush
  <2>3. QED BY <2>1, <2>2, MotorSetSpeedRolls
<1>3. CASE HandleJoystick(m) \/ HandleJoystickPush(m) \/ HandleOther(m) \/ HandleStop(m)
  BY <1>3 DEF HandleJoystick, HandleJoystickPush, HandleOther, HandleStop, motorVars, Rolls
<1>4. QED BY <1>1, <1>2, <1>3 DEF Handle

LEMMA CarStepRolls == ReceiverInv /\ [Next]_vars => Rolls
<1> SUFFICES ASSUME ReceiverInv, [Next]_vars PROVE Rolls
  OBVIOUS
<1>1. CASE InitMotor
  <2>1. motorAt # "stopped" /\ motorAt' # "stopped" /\ NoSwing(motorPwm, motorPwm')
    BY <1>1, MotorStartsEffect, MotorStartsNoSwing DEF InitMotor, ReceiverInv
  <2>2. QED BY <2>1, NoSwingRolls
<1>2. CASE CleanMotor
  <2>1. Pulse(motorPwm') = "none" /\ motorAt = "on" /\ motorAt' = "stopped"
    BY <1>2, MotorCleanupIsOff DEF CleanMotor, ReceiverInv, MotorCleanup, MainDoes
  <2>2. QED BY <2>1 DEF Rolls, Wheels!ShutDown
<1>3. CASE Receive
  <2>1. PICK i \in Deliverable(toCar) : Handle(toCar[i])
    BY <1>3 DEF Receive
  <2>2. toCar[i] \in Messages /\ toCar[i].val \in Int
    BY DeliveredCommand
  <2>3. QED BY <1>3, <2>1, <2>2, HandleRolls DEF Receive
<1>4. CASE WakeUp
  <2>1. motorAt # "stopped" /\ motorAt' = motorAt
    BY <1>4 DEF WakeUp, MotorReverses, ReceiverInv, MotorInv, FlagInv
  <2>2. NoSwing(motorPwm, motorPwm')
    BY <1>4, MotorReversesNoSwing DEF WakeUp, ReceiverInv
  <2>3. QED BY <2>1, <2>2, NoSwingRolls
<1>5. CASE RecvUdpInit \/ InitServo \/ Poll \/ Join \/ TellSender \/ CleanServo
  BY <1>5 DEF RecvUdpInit, InitServo, Poll, Join, TellSender, CleanServo, motorVars, Rolls
<1>6. CASE Bind \/ Ack \/ EndLoop \/ CommandArrives \/ AckLeaves \/ CommandUnheard \/ UNCHANGED vars
  BY <1>6
  DEF Bind, Ack, EndLoop, CommandArrives, AckLeaves, CommandUnheard, vars, motorVars, Rolls
<1>7. QED
  BY <1>1, <1>2, <1>3, <1>4, <1>5, <1>6 DEF Next, MainSteps, ListenerSteps

\* Whatever commands arrive and in whatever order, the wheels are never turned
\* straight from one direction into the other, and once the motor driver has
\* been cleaned up there is no pulse any more: the car implements DriveTrain.
THEOREM CarRefines == Spec => ImplementsDriveTrain
<1>1. Init => Wheels!Init
  BY PulseValues DEF Init, ReceiverInit, MotorInit, Wheels!Init, Wheels!Pulses, Pulses
<1>2. QED
  BY <1>1, CarStepRolls, ReceiverInvariant, PTL DEF Spec, Rolls, ImplementsDriveTrain, Wheels!Spec
==============================================================================
