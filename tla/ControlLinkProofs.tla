-------------------------- MODULE ControlLinkProofs --------------------------
(***************************************************************************)
(* What the whole remote control keeps, for every network, every set of    *)
(* readings, buttons and keys, and every use of them.                      *)
(***************************************************************************)
EXTENDS ControlLink, ReceiverProofs

(***************************************************************************)
(* What may be on its way to the car: the stop command only once main has  *)
(* sent it, and of steering only what the stick can stand for.  The buffer *)
(* of the terminal, which is sent again, never holds the stop command.     *)
(***************************************************************************)
Steers(m) == m.code = "joystick" => m.val \in -100..100
Typed == {m \in Messages : m.code # "stop" /\ Steers(m)}
InFlight == {m \in Messages : (m.code = "stop" => ctlMain = "done") /\ Steers(m)}

CommandsInv == toCar \in Seq(InFlight) /\ msg_rx \in Typed

\* Both programs wind up in the order quit, send and listen threads, stop
\* command, car.
WindUpInv ==
    /\ ctlMain # "wait" => ctlStop
    /\ ctlMain = "done" => sendAt = "done" /\ listenAt = "done"
    /\ ctlStop => ctlMain # "wait" \/ mainAt \in Closing
    /\ listenAt = "done" => ctlStop
    /\ stop_thread => ctlMain = "done"
    /\ mainAt \in {"join", "tell"} \cup Closing => stop_thread
    /\ using_terminal => sendAt = "done"

\* Until the car is up, a controller that is started after it has done nothing.
StartInv ==
    CarFirst /\ ~CarUp =>
        /\ toCar = <<>> /\ toCtl = <<>>
        /\ sendAt \in {"joy_push", "done"}
        /\ acked_encoder_val = 0 /\ keyed = -1
        /\ listenAt = "recv" /\ ~ctlStop
        /\ listener \in {"none", "bind", "recv"}

\* Where nothing is lost or overtaken, the stop command stays the last one.
InSequence == Faults \cap {"lose", "reorder"} = {}

OrderInv == InSequence => StopIsLast

-----------------------------------------------------------------------------
(***************************************************************************)
(* A network that at most duplicates, and a car that was there first: what *)
(* the car runs at, or will when what is in flight has been handled.       *)
(***************************************************************************)
Orderly == InSequence /\ CarFirst

\* Neither program has been told to stop, and the car's has not died.
Live == process = "running" /\ ~ctlStop

\* Who never asks for reverse never reverses: the direction is not set with a
\* speed the motor has already.
OnlyForward == using_terminal \/ Dialled \subseteq Nat
Ahead == {m \in Messages : m.code = "encoder" => m.val >= 0}

ForwardInv ==
    OnlyForward =>
        /\ ~motor.reverse /\ ~reversing.pending
        /\ toCar \in Seq(Ahead) /\ msg_rx \in Ahead
        /\ counter >= 0 /\ turn.val >= 0 /\ readVal >= 0

\* With a terminal: the last of the commands in flight that set the speed asks
\* for what was typed last; when there is none, the motor runs at it.  The
\* buffer asks for nothing else.
SetsSpeed(m) == m.code \in {"encoder", "encoder_push"}
SpeedOf(m) == IF m.code = "encoder" THEN EncoderSpeed(m.val) ELSE 0
KeyedSpeed == IF keyed < 0 THEN 0 ELSE EncoderSpeed(keyed)

LastToSet(channel, i) ==
    /\ SetsSpeed(channel[i])
    /\ \A j \in DOMAIN channel : j > i => ~SetsSpeed(channel[j])

AsksFor(channel, speed) ==
    \A i \in DOMAIN channel : LastToSet(channel, i) => SpeedOf(channel[i]) = speed

NoneSets(channel) == \A i \in DOMAIN channel : ~SetsSpeed(channel[i])

TypedInv ==
    Orderly /\ using_terminal /\ Live =>
        /\ AsksFor(toCar, KeyedSpeed)
        /\ NoneSets(toCar) => motor.speed = KeyedSpeed
        /\ SetsSpeed(msg_rx) => SpeedOf(msg_rx) = KeyedSpeed

\* With the knob, and no brake: the last acknowledgement on its way, the one
\* the listener is about to send included, is the speed of the motor; when
\* there is none, the one that was taken is.
NoBrake == ~using_terminal /\ "encoder" \notin Buttons /\ Dialled \subseteq Nat

Unbraked == {m \in Messages : m.code # "encoder_push"}

AckedInv ==
    Orderly /\ NoBrake /\ Live =>
        /\ toCar \in Seq(Unbraked)
        /\ listener # "ack" =>
               motor.speed = IF toCtl = <<>> THEN acked_encoder_val ELSE Last(toCtl)

LinkInv ==
    /\ ReceiverInv /\ SenderTypeOK
    /\ CommandsInv /\ WindUpInv /\ StartInv /\ OrderInv
    /\ ForwardInv /\ TypedInv /\ AckedInv

-----------------------------------------------------------------------------
(***************************************************************************)
(* The network.                                                            *)
(***************************************************************************)
LEMMA SentOnly ==
    ASSUME NEW S, NEW channel \in Seq(S), NEW m \in S, NEW next \in Sent(channel, m)
    PROVE  /\ next = channel \/ next = Append(channel, m)
           /\ InSequence => next = Append(channel, m)
  BY DEF Sent, InSequence

\* A channel that keeps order delivers its head, once or again.
LEMMA DeliveredInSequence ==
    ASSUME InSequence, NEW S, NEW channel \in Seq(S), NEW i \in Deliverable(channel),
           NEW next \in After(channel, i)
    PROVE  /\ channel # <<>> /\ i = 1
           /\ next = channel \/ next = Tail(channel)
<1>1. i = 1 /\ 1 \in DOMAIN channel
  BY DEF Deliverable, InSequence
<1>2. channel # <<>> /\ Len(channel) \in Nat /\ Len(channel) >= 1
  BY <1>1, LenProperties
<1>3. RemoveAt(channel, 1) = Tail(channel)
  <2>1. SubSeq(channel, 1, 0) = <<>>
    BY <1>2
  <2>2. SubSeq(channel, 2, Len(channel)) = Tail(channel)
    BY <1>2
  <2>3. RemoveAt(channel, 1) = SubSeq(channel, 1, 0) \o SubSeq(channel, 2, Len(channel))
    BY DEF RemoveAt
  <2>4. Tail(channel) \in Seq(S)
    BY <1>2, HeadTailProperties
  <2>5. QED BY <2>1, <2>2, <2>3, <2>4, ConcatEmptySeq
<1>4. QED BY <1>1, <1>2, <1>3 DEF After

\* Appending and taking the head, element by element.
LEMMA AppendedAt ==
    ASSUME NEW S, NEW channel \in Seq(S), NEW m \in S, NEW next, next = Append(channel, m)
    PROVE  /\ next \in Seq(S) /\ next # <<>> /\ Len(channel) \in Nat
           /\ DOMAIN channel = 1..Len(channel) /\ DOMAIN next = 1..(Len(channel) + 1)
           /\ \A i \in 1..Len(channel) : next[i] = channel[i]
           /\ next[Len(channel) + 1] = m
           /\ Last(next) = m
  BY AppendProperties, LenProperties DEF Last

LEMMA LastAppended ==
    ASSUME NEW S, NEW channel \in Seq(S), NEW m \in S
    PROVE  Append(channel, m) # <<>> /\ Last(Append(channel, m)) = m
<1>1. Len(Append(channel, m)) = Len(channel) + 1 /\ Append(channel, m)[Len(channel) + 1] = m
  BY AppendProperties, LenProperties
<1>2. Append(channel, m) # <<>>
  BY AppendProperties
<1>3. QED BY <1>1, <1>2 DEF Last

LEMMA TailAt ==
    ASSUME NEW S, NEW channel \in Seq(S), channel # <<>>, NEW next, next = Tail(channel)
    PROVE  /\ next \in Seq(S)
           /\ Len(channel) \in Nat /\ Len(channel) >= 1
           /\ DOMAIN channel = 1..Len(channel) /\ DOMAIN next = 1..(Len(channel) - 1)
           /\ \A i \in DOMAIN next : next[i] = channel[i + 1]
           /\ next # <<>> => Last(next) = Last(channel)
<1>1. /\ next \in Seq(S) /\ Len(channel) \in Nat /\ Len(channel) >= 1
      /\ Len(next) = Len(channel) - 1
      /\ \A i \in 1..Len(next) : next[i] = channel[i + 1]
  BY HeadTailProperties, LenProperties, EmptySeq
<1>2. DOMAIN channel = 1..Len(channel) /\ DOMAIN next = 1..Len(next)
  BY <1>1, LenProperties
<1>3. next # <<>> => Len(next) >= 1
  BY <1>1, EmptySeq
<1>4. QED BY <1>1, <1>2, <1>3 DEF Last

-----------------------------------------------------------------------------
(***************************************************************************)
(* The stick.                                                              *)
(***************************************************************************)
LEMMA Hundredths ==
    ASSUME NEW part \in Nat, NEW whole \in Nat, whole > 0, part <= whole
    PROVE  (part * 100) \div whole \in 0..100
  OBVIOUS

LEMMA PercentRange ==
    ASSUME NEW val \in Int, NEW max \in Int, NEW min \in Int,
           min <= val, val <= max, min < 628, max > 1028
    PROVE  Percent(val, neutral_y, max, min) \in -100..100
<1>1. CASE val > 1028
  <2>. DEFINE part == val - 1028
              whole == max - 1028
  <2>1. part \in Nat /\ whole \in Nat /\ whole > 0 /\ part <= whole
    BY <1>1
  <2>2. Percent(val, neutral_y, max, min) = (part * 100) \div whole
    BY <1>1 DEF Percent, neutral_y, THRESHOLD
  <2>. HIDE DEF part, whole
  <2>3. (part * 100) \div whole \in 0..100
    BY <2>1, Hundredths
  <2>4. QED BY <2>2, <2>3
<1>2. CASE val < 628
  <2>. DEFINE part == val - min
              whole == 628 - min
  <2>1. part \in Nat /\ whole \in Nat /\ whole > 0 /\ part <= whole
    BY <1>2
  <2>2. Percent(val, neutral_y, max, min) = -(100 - (part * 100) \div whole)
    BY <1>2 DEF Percent, neutral_y, THRESHOLD
  <2>. HIDE DEF part, whole
  <2>3. (part * 100) \div whole \in 0..100
    BY <2>1, Hundredths
  <2>4. QED BY <2>2, <2>3
<1>3. CASE ~(val > 1028) /\ ~(val < 628)
  <2>1. Percent(val, neutral_y, max, min) = 0
    BY <1>3 DEF Percent, neutral_y, THRESHOLD
  <2>2. QED BY <2>1
<1>4. QED BY <1>1, <1>2, <1>3

\* y as a percentage, with the ends it has just widened, is one.
LEMMA StickRange ==
    ASSUME JoystickTypeOK, NEW y \in YReadings, Calibrate(y)
    PROVE  JoystickTypeOK' /\ YPercent(y) \in -100..100
<1>1. y \in 0..4095
  BY ReadingsAssumption
<1>2. /\ up_max' \in 0..5 /\ down_max' \in 1620..4095
      /\ up_max' <= y /\ y <= down_max'
  BY <1>1 DEF JoystickTypeOK, Calibrate
<1>3. /\ y \in Int /\ up_max' \in Int /\ down_max' \in Int
      /\ up_max' < 628 /\ down_max' > 1028
  BY <1>1, <1>2
<1>4. PICK max \in Int, min \in Int : max = down_max' /\ min = up_max'
  BY <1>3
<1>5. Percent(y, neutral_y, max, min) \in -100..100
  <2>1. y \in Int /\ min <= y /\ y <= max /\ min < 628 /\ max > 1028
    BY <1>2, <1>3, <1>4
  <2>2. QED BY <2>1, PercentRange
<1>6. YPercent(y) = -Percent(y, neutral_y, max, min)
  BY <1>4 DEF YPercent, Percent, neutral_y, THRESHOLD
<1>7. QED BY <1>2, <1>5, <1>6 DEF JoystickTypeOK

-----------------------------------------------------------------------------
(***************************************************************************)
(* The controller's variables have their types.                            *)
(***************************************************************************)
LEMMA CounterKeepsType ==
    ASSUME CounterTypeOK,
           \/ \E dir \in {-1, 1} : Count(dir)
           \/ ReadToClamp \/ StoreClamped \/ SetCounter(0) \/ UNCHANGED counterVars
    PROVE  CounterTypeOK'
<1>1. CASE \E dir \in {-1, 1} : Count(dir)
  <2>1. PICK dir \in {-1, 1} : Count(dir)
    BY <1>1
  <2>2. counter \in Int /\ Step \in Int /\ dir \in Int
    BY CounterAssumption DEF CounterTypeOK
  <2>3. counter' \in Int
    BY <2>1, <2>2 DEF Count
  <2>4. turn' \in [at : {"rest", "clamp", "store"}, dir : {-1, 0, 1}, val : Int]
    BY <2>1 DEF Count
  <2>5. QED BY <2>3, <2>4 DEF CounterTypeOK
<1>2. CASE ReadToClamp
  <2>1. Clamped(turn.dir, counter) \in Int
    BY CounterAssumption DEF CounterTypeOK, Clamped
  <2>2. QED BY <1>2, <2>1 DEF ReadToClamp, CounterTypeOK
<1>3. CASE StoreClamped \/ SetCounter(0) \/ UNCHANGED counterVars
  BY <1>3 DEF StoreClamped, SetCounter, counterVars, CounterTypeOK, Resting
<1>4. QED BY <1>1, <1>2, <1>3

LEMMA KeysTyped == \A k \in Keys : KeyMessage[k] \in Typed /\ SpeedOf(KeyMessage[k]) = 0
  BY SenderAssumption
  DEF KeyMessage, Typed, Steers, Messages, Codes, Message, SpeedOf

\* What main types is what the buffer may hold.
LEMMA TerminalTypes ==
    ASSUME SenderTypeOK, msg_rx \in Typed, Terminal
    PROVE  /\ \E m \in Typed : Types(m)
           /\ msg_rx' \in Typed
           /\ curr_encoder' \in 0..MaxKeyed /\ keyed' \in -1..MaxKeyed
<1>0. /\ curr_encoder \in Int /\ curr_encoder >= 0 /\ curr_encoder <= MaxKeyed
      /\ keyed \in -1..MaxKeyed /\ MaxKeyed \in Nat /\ -1 \in -1..MaxKeyed
  BY SenderAssumption DEF SenderTypeOK
<1>1. CASE TypeKey
  BY <1>0, <1>1, KeysTyped DEF TypeKey, Types
<1>2. CASE TypeEncoder
  <2>1. curr_encoder' \in 0..MaxKeyed
    BY <1>0, <1>2 DEF TypeEncoder, Down
  <2>2. Message("encoder", curr_encoder') \in Typed
    BY <2>1 DEF Typed, Steers, Messages, Codes, Message
  <2>3. keyed' \in -1..MaxKeyed
    BY <1>2, <2>1 DEF TypeEncoder
  <2>4. QED BY <1>2, <2>1, <2>2, <2>3 DEF TypeEncoder, Types
<1>3. CASE TypeOther
  <2>1. Leftover \subseteq Typed
    BY DEF Leftover, Typed, Steers, Messages, Codes, Message
  <2>2. QED BY <1>0, <1>3, <2>1 DEF TypeOther, Types
<1>4. QED BY <1>1, <1>2, <1>3 DEF Terminal

LEMMA JoystickKeepsType == JoystickTypeOK /\ UNCHANGED joystickVars => JoystickTypeOK'
  BY DEF JoystickTypeOK, joystickVars

LEMMA SenderKeepsTypes ==
    ASSUME SenderTypeOK, msg_rx \in Typed, toCtl \in Seq(Int), SenderSteps
    PROVE  SenderTypeOK'
<1> USE DEF SenderTypeOK
<1>1. CASE Turn \/ FinishTurn
  <2>1. CounterTypeOK'
    BY <1>1, CounterKeepsType DEF Turn, FinishTurn
  <2>2. JoystickTypeOK'
    BY <1>1, JoystickKeepsType DEF Turn, FinishTurn, inputVars
  <2>3. UNCHANGED <<sendAt, readVal, acked_encoder_val, listenAt, ctlStop, ctlMain,
                    using_terminal, curr_encoder, msg_rx, keyed>>
    BY <1>1 DEF Turn, FinishTurn, inputVars, terminalVars
  <2>4. QED BY <2>1, <2>2, <2>3, Zenon
<1>2. CASE SendJoyVals
  <2>1. JoystickTypeOK'
    BY <1>2, StickRange DEF SendJoyVals
  <2>2. CounterTypeOK'
    BY <1>2 DEF SendJoyVals, SendThread, CounterTypeOK
  <2>3. QED BY <1>2, <2>1, <2>2 DEF SendJoyVals, SendThread, SendStages, terminalVars
<1>3. CASE SendJoyPush \/ SendEncoderPush \/ EncoderNotPushed \/ ReadEncoder \/ SendEncoderVal
             \/ NextRound
  <2>1. UNCHANGED counterVars /\ UNCHANGED joystickVars
    BY <1>3
    DEF SendJoyPush, SendEncoderPush, EncoderNotPushed, ReadEncoder, SendEncoderVal, NextRound,
        SendThread, counterVars
  <2>2. readVal' \in Int
    BY <1>3
    DEF SendJoyPush, SendEncoderPush, EncoderNotPushed, ReadEncoder, SendEncoderVal, NextRound,
        CounterTypeOK
  <2>3. sendAt' \in SendStages
    BY <1>3
    DEF SendJoyPush, SendEncoderPush, EncoderNotPushed, ReadEncoder, SendEncoderVal, NextRound,
        SendThread, SendStages
  <2>4. UNCHANGED <<acked_encoder_val, listenAt, ctlStop, ctlMain, using_terminal, terminalVars>>
    BY <1>3
    DEF SendJoyPush, SendEncoderPush, EncoderNotPushed, ReadEncoder, SendEncoderVal, NextRound,
        SendThread
  <2>5. CounterTypeOK' /\ JoystickTypeOK'
    BY <2>1, CounterKeepsType, JoystickKeepsType
  <2>6. QED BY <2>2, <2>3, <2>4, <2>5, Zenon DEF terminalVars
<1>4. CASE ResetCounter
  <2>1. CounterTypeOK'
    BY <1>4, CounterKeepsType DEF ResetCounter
  <2>2. QED
    BY <1>4, <2>1
    DEF ResetCounter, SendStages, inputVars, terminalVars, joystickVars, JoystickTypeOK
<1>5. CASE TakeAck
  <2>1. \A i \in Deliverable(toCtl) : toCtl[i] \in Int
    BY LenProperties, ElementOfSeq DEF Deliverable
  <2>2. acked_encoder_val' \in Int
    BY <1>5, <2>1 DEF TakeAck
  <2>3. CounterTypeOK' /\ JoystickTypeOK'
    BY <1>5 DEF TakeAck, counterVars, inputVars, joystickVars, CounterTypeOK, JoystickTypeOK
  <2>4. ctlStop' \in BOOLEAN
    <3>1. PICK i \in Deliverable(toCtl) : ctlStop' = StopsOn(toCtl[i])
      BY <1>5 DEF TakeAck
    <3>2. QED BY <3>1, Zenon DEF StopsOn
  <2>5. listenAt' \in {"recv", "done"}
    BY <1>5 DEF TakeAck
  <2>6. QED BY <1>5, <2>2, <2>3, <2>4, <2>5 DEF TakeAck, inputVars, terminalVars
<1>6. CASE ListenTimeout \/ Quit \/ TellReceiver
  <2>1. CounterTypeOK' /\ JoystickTypeOK'
    BY <1>6, CounterKeepsType, JoystickKeepsType DEF ListenTimeout, Quit, TellReceiver, inputVars
  <2>2. UNCHANGED <<sendAt, readVal, acked_encoder_val, using_terminal, curr_encoder, msg_rx, keyed>>
    BY <1>6 DEF ListenTimeout, Quit, TellReceiver, inputVars, terminalVars
  <2>3. ctlStop' \in BOOLEAN
    BY <1>6, Zenon DEF ListenTimeout, Quit, TellReceiver
  <2>4. listenAt' \in {"recv", "done"} /\ ctlMain' \in {"wait", "join", "done"}
    BY <1>6 DEF ListenTimeout, Quit, TellReceiver
  <2>5. QED BY <2>1, <2>2, <2>3, <2>4, Zenon
<1>7. CASE Terminal
  <2>1. PICK m \in Typed : Types(m)
    BY <1>7, TerminalTypes
  <2>2. CounterTypeOK' /\ JoystickTypeOK'
    BY <2>1 DEF Types, counterVars, joystickVars, CounterTypeOK, JoystickTypeOK
  <2>3. msg_rx' \in Messages /\ curr_encoder' \in 0..MaxKeyed /\ keyed' \in -1..MaxKeyed
    BY <1>7, TerminalTypes DEF Typed
  <2>4. QED BY <2>1, <2>2, <2>3 DEF Types
<1>8. QED
  BY <1>1, <1>2, <1>3, <1>4, <1>5, <1>6, <1>7 DEF SenderSteps, SendSteps

-----------------------------------------------------------------------------
(***************************************************************************)
(* What a step of either side does to the commands in flight.              *)
(***************************************************************************)
LEMMA SenderSends ==
    ASSUME SenderTypeOK, CommandsInv, SenderSteps
    PROVE  \/ UNCHANGED toCar
           \/ \E m \in Typed : /\ toCar' \in Sent(toCar, m)
                               /\ UNCHANGED ctlMain
                               /\ sendAt # "done" \/ ctlMain = "wait"
           \/ TellReceiver
<1>1. CASE SendSteps
  <2>1. CASE SendJoyVals
    <3>1. PICK y \in YReadings :
             Calibrate(y) /\ (UNCHANGED toCar \/ Sends("joystick", YPercent(y)))
      BY <2>1 DEF SendJoyVals
    <3>2. YPercent(y) \in -100..100
      BY <3>1, StickRange DEF SenderTypeOK
    <3>. DEFINE val == YPercent(y)
    <3>. HIDE DEF val
    <3>3. val \in -100..100 /\ (UNCHANGED toCar \/ Sends("joystick", val))
      BY <3>1, <3>2 DEF val
    <3>4. Message("joystick", val) \in Typed
      BY <3>3 DEF Typed, Steers, Messages, Codes, Message
    <3>5. sendAt # "done" /\ UNCHANGED ctlMain
      BY <2>1 DEF SendJoyVals, SendThread
    <3>6. QED BY <3>3, <3>4, <3>5 DEF Sends
  <2>2. CASE SendEncoderVal
    <3>1. Message("encoder", readVal) \in Typed
      BY DEF SenderTypeOK, Typed, Steers, Messages, Codes, Message
    <3>2. QED BY <2>2, <3>1 DEF SendEncoderVal, SendThread, Sends
  <2>3. CASE SendJoyPush \/ SendEncoderPush
    <3>1. Message("joystick_push", 0) \in Typed /\ Message("encoder_push", 0) \in Typed
      BY DEF Typed, Steers, Messages, Codes, Message
    <3>2. QED BY <2>3, <3>1 DEF SendJoyPush, SendEncoderPush, SendThread, Sends
  <2>4. CASE EncoderNotPushed \/ ResetCounter \/ ReadEncoder \/ NextRound
    BY <2>4 DEF EncoderNotPushed, ResetCounter, ReadEncoder, NextRound, network
  <2>5. QED BY <1>1, <2>1, <2>2, <2>3, <2>4 DEF SendSteps
<1>2. CASE Terminal
  <2>1. PICK m \in Typed : Types(m)
    BY <1>2, TerminalTypes DEF CommandsInv
  <2>2. QED BY <2>1 DEF Types
<1>3. CASE Turn \/ FinishTurn \/ TakeAck \/ ListenTimeout \/ Quit
  BY <1>3 DEF Turn, FinishTurn, TakeAck, ListenTimeout, Quit, network
<1>4. QED BY <1>1, <1>2, <1>3 DEF SenderSteps

\* The car takes commands and adds none; where they keep their order, the
\* first, which may come once more.
LEMMA CarTakes ==
    ASSUME NEW S, toCar \in Seq(S), MainSteps \/ ListenerSteps \/ CommandUnheard
    PROVE  /\ toCar' \in Seq(S)
           /\ InSequence => toCar' = toCar \/ (toCar # <<>> /\ toCar' = Tail(toCar))
           /\ toCar = <<>> => toCar' = <<>>
<1>1. CASE Receive
  <2>1. PICK i \in Deliverable(toCar) : toCar' \in After(toCar, i)
    BY <1>1 DEF Receive
  <2>2. i \in DOMAIN toCar
    BY <2>1 DEF Deliverable
  <2>3. toCar' \in Seq(S)
    BY <2>1, <2>2, AfterInSeq
  <2>4. toCar # <<>>
    BY <2>2
  <2>5. InSequence => toCar' = toCar \/ (toCar # <<>> /\ toCar' = Tail(toCar))
    BY <2>1, DeliveredInSequence
  <2>6. QED BY <2>3, <2>4, <2>5
<1>2. CASE CommandUnheard
  BY <1>2, HeadTailProperties DEF CommandUnheard
<1>3. CASE MainSteps \/ Bind \/ WakeUp \/ Ack \/ EndLoop
  <2>1. UNCHANGED toCar
    BY <1>3
    DEF MainSteps, RecvUdpInit, InitMotor, InitServo, Poll, Join, TellSender, CleanMotor,
        CleanServo, Bind, WakeUp, Ack, EndLoop, network
  <2>2. QED BY <2>1
<1>4. QED BY <1>1, <1>2, <1>3 DEF ListenerSteps

-----------------------------------------------------------------------------
(***************************************************************************)
(* The invariant, part by part.  A step is the controller's, the car's, or *)
(* one of neither.                                                         *)
(***************************************************************************)
ControllerStep == (CarFirst => CarUp) /\ UNCHANGED CarSide /\ (SenderSteps \/ AckUnheard)
CarStep == UNCHANGED senderVars /\ (MainSteps \/ ListenerSteps \/ CommandUnheard)

LEMMA Steps == [Next]_vars <=> ControllerStep \/ CarStep \/ UNCHANGED vars
  BY DEF Next, Controller, OnCar, ControllerStep, CarStep

\* Nothing becomes unsendable.
LEMMA InFlightGrows ==
    ASSUME ctlMain = "done" => ctlMain' = "done"
    PROVE  InFlight \subseteq InFlight'
  BY DEF InFlight

LEMMA MainStaysDone ==
    ASSUME [Next]_vars
    PROVE  ctlMain = "done" => ctlMain' = "done"
<1>1. CASE ControllerStep
  BY <1>1
  DEF ControllerStep, SenderSteps, Turn, FinishTurn, SendSteps, SendJoyPush, SendJoyVals,
      SendEncoderPush, EncoderNotPushed, ResetCounter, ReadEncoder, SendEncoderVal, NextRound,
      SendThread, TakeAck, ListenTimeout, AckUnheard, Terminal, TypeKey, TypeEncoder, TypeOther,
      Types, Quit, TellReceiver, senderVars
<1>2. CASE CarStep \/ UNCHANGED vars
  BY <1>2 DEF CarStep, vars, senderVars
<1>3. QED BY <1>1, <1>2, Steps

LEMMA CommandsKeep ==
    ASSUME SenderTypeOK, CommandsInv, [Next]_vars
    PROVE  CommandsInv'
<1>0. toCar \in Seq(InFlight') /\ Typed \subseteq InFlight'
  <2>1. toCar \in Seq(InFlight) /\ InFlight \subseteq InFlight' /\ Typed \subseteq InFlight
    BY MainStaysDone, InFlightGrows DEF CommandsInv, Typed, InFlight
  <2>2. QED BY <2>1, SeqOfSubset
<1>1. CASE ControllerStep
  <2>1. CASE SenderSteps
    <3>1. toCar' \in Seq(InFlight')
      <4>1. CASE UNCHANGED toCar
        BY <1>0, <4>1
      <4>2. CASE \E m \in Typed : toCar' \in Sent(toCar, m)
        <5>1. PICK m \in Typed : toCar' \in Sent(toCar, m)
          BY <4>2
        <5>2. m \in InFlight'
          BY <1>0
        <5>3. QED BY <1>0, <5>1, <5>2, SentInSeq
      <4>3. CASE TellReceiver
        <5>1. Message("stop", 0) \in InFlight'
          BY <4>3 DEF TellReceiver, InFlight, Messages, Codes, Message, Steers
        <5>2. toCar' \in Sent(toCar, Message("stop", 0))
          BY <4>3 DEF TellReceiver, Sends
        <5>3. QED BY <1>0, <5>1, <5>2, SentInSeq
      <4>4. QED BY <2>1, <4>1, <4>2, <4>3, SenderSends
    <3>2. msg_rx' \in Typed
      <4>1. CASE Terminal
        BY <4>1, TerminalTypes DEF CommandsInv
      <4>2. CASE ~Terminal
        <5>1. UNCHANGED msg_rx
          BY <2>1, <4>2
          DEF SenderSteps, Turn, FinishTurn, SendSteps, SendJoyPush, SendJoyVals,
              SendEncoderPush, EncoderNotPushed, ResetCounter, ReadEncoder, SendEncoderVal,
              NextRound, SendThread, TakeAck, ListenTimeout, Quit, TellReceiver, inputVars,
              terminalVars
        <5>2. QED BY <5>1 DEF CommandsInv
      <4>3. QED BY <4>1, <4>2
    <3>3. QED BY <3>1, <3>2 DEF CommandsInv
  <2>2. CASE AckUnheard
    BY <1>0, <2>2 DEF AckUnheard, CommandsInv, senderVars, inputVars, terminalVars
  <2>3. QED BY <1>1, <2>1, <2>2 DEF ControllerStep
<1>2. CASE CarStep
  <2>1. toCar' \in Seq(InFlight')
    BY <1>0, <1>2, CarTakes DEF CarStep
  <2>2. msg_rx' = msg_rx
    BY <1>2 DEF CarStep, senderVars, inputVars, terminalVars
  <2>3. QED BY <2>1, <2>2 DEF CommandsInv
<1>3. CASE UNCHANGED vars
  <2>1. toCar' = toCar /\ msg_rx' = msg_rx
    BY <1>3 DEF vars, network, senderVars, inputVars, terminalVars
  <2>2. QED BY <1>0, <2>1 DEF CommandsInv
<1>4. QED BY <1>1, <1>2, <1>3, Steps

\* CODE_STOP is on its way back only when the car is closing.
LEMMA AcksTyped ==
    ASSUME ReceiverInv
    PROVE  /\ toCtl \in Seq(Int)
           /\ \A i \in DOMAIN toCtl : toCtl[i] = CODE_STOP => mainAt \in Closing
<1>1. toCtl \in Seq({CODE_STOP} \cup 1..99)
  <2>1. CASE mainAt \in Closing
    BY <2>1 DEF ReceiverInv, ChannelsInv
  <2>2. CASE mainAt \notin Closing
    <3>1. toCtl \in Seq(1..99)
      BY <2>2 DEF ReceiverInv, ChannelsInv
    <3>2. QED BY <3>1, SeqOfSubset
  <2>3. QED BY <2>1, <2>2
<1>2. {CODE_STOP} \cup 1..99 \subseteq Int
  BY DEF CODE_STOP
<1>3. toCtl \in Seq(Int)
  BY <1>1, <1>2, SeqOfSubset
<1>4. ASSUME NEW i \in DOMAIN toCtl, toCtl[i] = CODE_STOP, mainAt \notin Closing PROVE FALSE
  <2>1. toCtl \in Seq(1..99)
    BY <1>4 DEF ReceiverInv, ChannelsInv
  <2>2. toCtl[i] \in 1..99
    BY <1>4, <2>1, LenProperties, ElementOfSeq
  <2>3. QED BY <1>4, <2>2 DEF CODE_STOP
<1>5. QED BY <1>3, <1>4

LEMMA LinkReceiverKeeps ==
    ASSUME ReceiverInv, SenderTypeOK, CommandsInv, [Next]_vars
    PROVE  ReceiverInv'
<1>1. CASE ControllerStep
  <2>1. UNCHANGED <<process, motorVars, servoVars, receiverVars>>
    BY <1>1 DEF ControllerStep, CarSide
  <2>2. CommandsInv'
    BY CommandsKeep
  <2>3. toCar' \in Seq(Messages)
    <3>1. toCar' \in Seq(InFlight')
      BY <2>2 DEF CommandsInv
    <3>2. InFlight' \subseteq Messages
      BY DEF InFlight
    <3>3. QED BY <3>1, <3>2, SeqOfSubset
  <2>4. ASSUME NEW S, toCtl \in Seq(S) PROVE toCtl' \in Seq(S)
    <3>1. CASE TakeAck
      <4>1. PICK i \in Deliverable(toCtl) : toCtl' \in After(toCtl, i)
        BY <3>1 DEF TakeAck
      <4>2. i \in DOMAIN toCtl
        BY <4>1 DEF Deliverable
      <4>3. QED BY <2>4, <4>1, <4>2, AfterInSeq
    <3>2. CASE AckUnheard
      BY <2>4, <3>2, HeadTailProperties DEF AckUnheard
    <3>3. CASE ~TakeAck /\ SenderSteps
      <4>1. UNCHANGED toCtl
        BY <3>3
        DEF SenderSteps, Turn, FinishTurn, SendSteps, SendJoyPush, SendJoyVals,
            SendEncoderPush, EncoderNotPushed, ResetCounter, ReadEncoder, SendEncoderVal,
            NextRound, SendThread, ListenTimeout, Terminal, TypeKey, TypeEncoder, TypeOther,
            Types, Quit, TellReceiver, network
      <4>2. QED BY <2>4, <4>1
    <3>4. QED BY <1>1, <3>1, <3>2, <3>3 DEF ControllerStep
  <2>5. ChannelsInv'
    BY <2>1, <2>3, <2>4 DEF ReceiverInv, ChannelsInv, receiverVars
  <2>6. QED BY <2>1, <2>5, ReceiverUntouched
<1>2. CASE CarStep
  BY <1>2, MainKeeps, ListenerKeeps, CommandUnheardKeeps DEF CarStep
<1>3. CASE UNCHANGED vars
  <2>1. UNCHANGED <<process, motorVars, servoVars, receiverVars>> /\ UNCHANGED network
    BY <1>3 DEF vars, CarSide
  <2>2. ChannelsInv'
    BY <2>1 DEF ReceiverInv, ChannelsInv, receiverVars, network
  <2>3. QED BY <2>1, <2>2, ReceiverUntouched
<1>4. QED BY <1>1, <1>2, <1>3, Steps

LEMMA LinkTypesKeep ==
    ASSUME ReceiverInv, SenderTypeOK, CommandsInv, [Next]_vars
    PROVE  SenderTypeOK'
<1>1. CASE SenderSteps
  BY <1>1, AcksTyped, SenderKeepsTypes DEF CommandsInv
<1>2. CASE UNCHANGED senderVars
  <2>1. CounterTypeOK' /\ JoystickTypeOK'
    BY <1>2, CounterKeepsType, JoystickKeepsType DEF SenderTypeOK, senderVars, inputVars
  <2>2. UNCHANGED <<sendAt, readVal, acked_encoder_val, listenAt, ctlStop, ctlMain,
                    using_terminal, curr_encoder, msg_rx, keyed>>
    BY <1>2 DEF senderVars, inputVars, terminalVars
  <2>3. QED BY <2>1, <2>2, Zenon DEF SenderTypeOK
<1>3. QED BY <1>1, <1>2, Steps DEF ControllerStep, CarStep, AckUnheard, vars

\* The stages of the car's main, and its flag, only go forward.
LEMMA CarStages ==
    ASSUME ReceiverInv, MainSteps \/ ListenerSteps \/ CommandUnheard
    PROVE  /\ mainAt \in Closing => mainAt' \in Closing
           /\ mainAt' \in {"join", "tell"} \cup Closing
                => stop_thread \/ mainAt \in {"join", "tell"} \cup Closing
           /\ stop_thread => stop_thread'
           /\ CarUp => CarUp'
<1>1. CASE MainSteps
  BY <1>1
  DEF MainSteps, RecvUdpInit, InitMotor, InitServo, Poll, Join, TellSender, CleanMotor,
      CleanServo, Main, Closing, CarUp
<1>2. CASE Receive
  <2>1. PICK i \in Deliverable(toCar) : Handle(toCar[i])
    BY <1>2 DEF Receive
  <2>2. UNCHANGED mainAt /\ listener' # "bind"
    BY <2>1
    DEF Handle, HandleEncoder, HandleEncoderPush, HandleJoystick, HandleJoystickPush,
        HandleOther, HandleStop, Handles, LoopEnd
  <2>3. stop_thread => stop_thread'
    BY <2>1
    DEF Handle, HandleEncoder, HandleEncoderPush, HandleJoystick, HandleJoystickPush,
        HandleOther, HandleStop
  <2>4. QED BY <2>2, <2>3 DEF CarUp
<1>3. CASE Bind \/ WakeUp \/ Ack \/ EndLoop \/ CommandUnheard
  <2>1. UNCHANGED mainAt /\ UNCHANGED stop_thread
    BY <1>3 DEF Bind, WakeUp, Ack, EndLoop, CommandUnheard, receiverVars
  <2>2. listener # "bind" => listener' # "bind"
    BY <1>3 DEF Bind, WakeUp, Ack, EndLoop, LoopEnd, CommandUnheard, receiverVars
  <2>3. QED BY <2>1, <2>2 DEF CarUp
<1>4. QED BY <1>1, <1>2, <1>3 DEF ListenerSteps

\* The car's flag is set by the stop command alone.
LEMMA StopTaken ==
    ASSUME CommandsInv, MainSteps \/ ListenerSteps \/ CommandUnheard, stop_thread'
    PROVE  stop_thread \/ ctlMain = "done"
<1>1. CASE Receive
  <2>1. PICK i \in Deliverable(toCar) : Handle(toCar[i])
    BY <1>1 DEF Receive
  <2>2. i \in DOMAIN toCar
    BY <2>1 DEF Deliverable
  <2>3. toCar[i] \in InFlight
    BY <2>2, LenProperties, ElementOfSeq DEF CommandsInv
  <2>4. CASE toCar[i].code = "stop"
    BY <2>3, <2>4 DEF InFlight
  <2>5. CASE toCar[i].code # "stop"
    BY <2>1, <2>5
    DEF Handle, HandleEncoder, HandleEncoderPush, HandleJoystick, HandleJoystickPush,
        HandleOther, HandleStop, Handles
  <2>6. QED BY <2>4, <2>5
<1>2. CASE MainSteps \/ Bind \/ WakeUp \/ Ack \/ EndLoop \/ CommandUnheard
  BY <1>2
  DEF MainSteps, RecvUdpInit, InitMotor, InitServo, Poll, Join, TellSender, CleanMotor,
      CleanServo, Bind, WakeUp, Ack, EndLoop, CommandUnheard, receiverVars
<1>3. QED BY <1>1, <1>2 DEF ListenerSteps

LEMMA WindUpKeeps ==
    ASSUME ReceiverInv, CommandsInv, WindUpInv, [Next]_vars
    PROVE  WindUpInv'
<1>1. CASE ControllerStep
  <2>0. UNCHANGED <<mainAt, stop_thread>>
    BY <1>1 DEF ControllerStep, CarSide, receiverVars
  <2>1. CASE TakeAck
    <3>1. PICK i \in Deliverable(toCtl) :
             /\ ctlStop' = StopsOn(toCtl[i])
             /\ listenAt' = IF StopsOn(toCtl[i]) THEN "done" ELSE "recv"
      BY <2>1 DEF TakeAck
    <3>2. toCtl[i] = CODE_STOP => mainAt \in Closing
      BY <3>1, AcksTyped DEF Deliverable
    <3>3. UNCHANGED <<sendAt, ctlMain, using_terminal>> /\ listenAt = "recv"
      BY <2>1 DEF TakeAck, inputVars
    <3>4. QED BY <2>0, <3>1, <3>2, <3>3 DEF StopsOn, WindUpInv
  <2>2. CASE SendSteps
    <3>1. UNCHANGED <<ctlStop, ctlMain, listenAt, using_terminal>> /\ sendAt # "done"
      BY <2>2
      DEF SendSteps, SendJoyPush, SendJoyVals, SendEncoderPush, EncoderNotPushed, ResetCounter,
          ReadEncoder, SendEncoderVal, NextRound, SendThread, inputVars
    <3>2. QED BY <2>0, <3>1 DEF WindUpInv
  <2>3. CASE Turn \/ FinishTurn \/ Terminal \/ AckUnheard
    <3>1. UNCHANGED <<ctlStop, ctlMain, listenAt, using_terminal, sendAt>>
      BY <2>3
      DEF Turn, FinishTurn, Terminal, TypeKey, TypeEncoder, TypeOther, Types, AckUnheard,
          senderVars, inputVars
    <3>2. QED BY <2>0, <3>1 DEF WindUpInv
  <2>4. CASE ListenTimeout \/ Quit \/ TellReceiver
    BY <2>0, <2>4 DEF ListenTimeout, Quit, TellReceiver, inputVars, WindUpInv
  <2>5. QED BY <1>1, <2>1, <2>2, <2>3, <2>4 DEF ControllerStep, SenderSteps
<1>2. CASE CarStep
  <2>1. UNCHANGED <<ctlStop, ctlMain, listenAt, using_terminal, sendAt>>
    BY <1>2 DEF CarStep, senderVars, inputVars
  <2>2. /\ mainAt \in Closing => mainAt' \in Closing
        /\ mainAt' \in {"join", "tell"} \cup Closing
             => stop_thread \/ mainAt \in {"join", "tell"} \cup Closing
        /\ stop_thread => stop_thread'
        /\ stop_thread' => stop_thread \/ ctlMain = "done"
    BY <1>2, CarStages, StopTaken DEF CarStep
  <2>3. QED BY <2>1, <2>2 DEF WindUpInv
<1>3. CASE UNCHANGED vars
  BY <1>3 DEF vars, CarSide, receiverVars, senderVars, inputVars, WindUpInv
<1>4. QED BY <1>1, <1>2, <1>3, Steps

LEMMA StartKeeps ==
    ASSUME ReceiverInv, SenderTypeOK, CommandsInv, WindUpInv, StartInv, [Next]_vars
    PROVE  StartInv'
<1> SUFFICES ASSUME CarFirst, ~CarUp' PROVE StartInv'
  BY DEF StartInv
<1>1. CASE ControllerStep
  <2>1. CarUp /\ CarUp' = CarUp
    BY <1>1 DEF ControllerStep, CarSide, receiverVars, CarUp
  <2>2. QED BY <2>1
<1>2. CASE CarStep
  <2>1. ~CarUp
    BY <1>2, CarStages DEF CarStep
  <2>2. /\ toCar = <<>> /\ toCtl = <<>> /\ ~ctlStop
        /\ listener \in {"none", "bind", "recv"}
    BY <2>1 DEF StartInv
  <2>3. toCar' = <<>>
    BY <1>2, <2>2, CarTakes DEF CarStep, CommandsInv
  <2>4. mainAt \notin {"join", "tell"} \cup Closing
    BY <2>2 DEF WindUpInv
  <2>5. ~Receive /\ ~CommandUnheard
    BY <2>2 DEF Receive, Deliverable, CommandUnheard
  <2>6. toCtl' = <<>> /\ listener' \in {"none", "bind", "recv"}
    BY <1>2, <2>2, <2>4, <2>5
    DEF CarStep, MainSteps, RecvUdpInit, InitMotor, InitServo, Poll, Join, TellSender,
        CleanMotor, CleanServo, Main, ListenerSteps, Bind, WakeUp, Ack, EndLoop, Listener, network
  <2>7. UNCHANGED <<sendAt, acked_encoder_val, keyed, listenAt, ctlStop>>
    BY <1>2 DEF CarStep, senderVars, inputVars, terminalVars
  <2>8. QED BY <2>1, <2>3, <2>6, <2>7 DEF StartInv
<1>3. CASE UNCHANGED vars
  BY <1>3
  DEF vars, CarSide, receiverVars, network, senderVars, inputVars, terminalVars, StartInv, CarUp
<1>4. QED BY <1>1, <1>2, <1>3, Steps

\* The stop command is sent last, and who is taken is the first.
LEMMA OrderKeeps ==
    ASSUME SenderTypeOK, CommandsInv, WindUpInv, OrderInv, [Next]_vars
    PROVE  OrderInv'
<1> SUFFICES ASSUME InSequence, ctlMain' = "done", toCar' # <<>>
             PROVE  Last(toCar').code = "stop"
  BY DEF OrderInv, StopIsLast
<1>0. toCar \in Seq(InFlight) /\ (ctlMain = "done" /\ toCar # <<>> => Last(toCar).code = "stop")
  BY DEF CommandsInv, OrderInv, StopIsLast
<1>1. CASE TellReceiver
  <2>. DEFINE m == Message("stop", 0)
  <2>1. m \in Messages /\ m.code = "stop"
    BY DEF Messages, Codes, Message
  <2>2. toCar' \in Sent(toCar, m)
    BY <1>1 DEF TellReceiver, Sends
  <2>. HIDE DEF m
  <2>3. toCar \in Seq(Messages)
    <3>1. InFlight \subseteq Messages
      BY DEF InFlight
    <3>2. QED BY <1>0, <3>1, SeqOfSubset
  <2>4. toCar' = Append(toCar, m)
    BY <2>1, <2>2, <2>3, SentOnly
  <2>5. Last(Append(toCar, m)) = m
    BY <2>1, <2>3, LastAppended
  <2>6. QED BY <2>1, <2>4, <2>5
<1>2. CASE ControllerStep /\ ~TellReceiver
  <2>1. ctlMain = "done"
    BY <1>2
    DEF ControllerStep, SenderSteps, Turn, FinishTurn, SendSteps, SendJoyPush, SendJoyVals,
        SendEncoderPush, EncoderNotPushed, ResetCounter, ReadEncoder, SendEncoderVal, NextRound,
        SendThread, TakeAck, ListenTimeout, AckUnheard, Terminal, TypeKey, TypeEncoder,
        TypeOther, Types, Quit, senderVars
  <2>2. sendAt = "done"
    BY <2>1 DEF WindUpInv
  <2>3. UNCHANGED toCar
    BY <1>2, <2>1, <2>2, SenderSends DEF ControllerStep, AckUnheard
  <2>4. QED BY <1>0, <2>1, <2>3
<1>3. CASE CarStep
  <2>1. ctlMain = "done"
    BY <1>3 DEF CarStep, senderVars
  <2>2. toCar' = toCar \/ (toCar # <<>> /\ toCar' = Tail(toCar))
    BY <1>0, <1>3, CarTakes DEF CarStep
  <2>3. CASE toCar' = toCar
    BY <1>0, <2>1, <2>3
  <2>4. CASE toCar # <<>> /\ toCar' = Tail(toCar)
    BY <1>0, <2>1, <2>4, TailAt
  <2>5. QED BY <2>2, <2>3, <2>4
<1>4. CASE UNCHANGED vars
  BY <1>0, <1>4 DEF vars, network, senderVars
<1>5. QED BY <1>1, <1>2, <1>3, <1>4, Steps

-----------------------------------------------------------------------------
(***************************************************************************)
(* Forward only.                                                           *)
(***************************************************************************)
LEMMA ModeStays == ASSUME [Next]_vars PROVE using_terminal' = using_terminal
<1>1. CASE ControllerStep
  BY <1>1
  DEF ControllerStep, SenderSteps, Turn, FinishTurn, SendSteps, SendJoyPush, SendJoyVals,
      SendEncoderPush, EncoderNotPushed, ResetCounter, ReadEncoder, SendEncoderVal, NextRound,
      SendThread, TakeAck, ListenTimeout, AckUnheard, Terminal, TypeKey, TypeEncoder, TypeOther,
      Types, Quit, TellReceiver, senderVars, inputVars
<1>2. CASE CarStep \/ UNCHANGED vars
  BY <1>2 DEF CarStep, vars, senderVars, inputVars
<1>3. QED BY <1>1, <1>2, Steps

\* Who does not reverse sets the speed at once.
LEMMA SetSpeedForward ==
    ASSUME MotorInv, ~motor.reverse, ~reversing.pending,
           NEW speed \in 0..100, MotorSetSpeed(speed, FALSE)
    PROVE  ~motor'.reverse /\ ~reversing'.pending
<1>1. motor.reverse = FALSE
  BY Zenon DEF MotorInv
<1>2. CASE MotorAborts(speed) \/ MotorSameSpeed(speed)
  BY <1>2 DEF MotorAborts, MotorSameSpeed, motorVars
<1>3. CASE MotorGoesNeutral(speed, FALSE)
  BY <1>1, <1>3 DEF MotorGoesNeutral
<1>4. CASE MotorApplies(speed, FALSE)
  BY <1>4 DEF MotorApplies, MotorInv
<1>5. QED BY <1>2, <1>3, <1>4 DEF MotorSetSpeed

\* What a step of the car does to the motor, when it goes forward only: only
\* a command that sets the speed does anything.
LEMMA Handled ==
    ASSUME ReceiverInv, ~motor.reverse, ~reversing.pending, Listener("recv"),
           NEW m \in Ahead, Handle(m)
    PROVE  /\ ~motor'.reverse /\ ~reversing'.pending
           /\ UNCHANGED <<toCtl, mainAt>>
           /\ SetsSpeed(m) /\ process' = "running" => motor'.speed = SpeedOf(m)
           /\ ~SetsSpeed(m) => motor'.speed = motor.speed
           /\ listener' = "ack" => m.code = "encoder"
<1>0. m.val \in Int /\ MotorInv /\ process = "running"
  BY DEF Ahead, Messages, ReceiverInv, Listener
<1>1. CASE HandleEncoder(m)
  <2>. DEFINE speed == EncoderSpeed(m.val)
  <2>1. speed \in 0..100 /\ FALSE \in BOOLEAN
    <3>1. speed \in 1..99
      BY <1>0, EncoderSpeedRange
    <3>2. QED BY <3>1
  <2>2. EncoderReverse(m.val) = FALSE
    BY <1>0, <1>1 DEF HandleEncoder, Handles, Ahead, EncoderReverse
  <2>3. MotorSetSpeed(speed, FALSE)
    BY <1>1, <2>2, Zenon DEF HandleEncoder
  <2>4. SpeedOf(m) = speed /\ SetsSpeed(m) /\ m.code = "encoder" /\ UNCHANGED <<toCtl, mainAt>>
    BY <1>1 DEF HandleEncoder, Handles, SpeedOf, SetsSpeed
  <2>. HIDE DEF speed
  <2>5. ~motor'.reverse /\ ~reversing'.pending
    BY <1>0, <2>1, <2>3, SetSpeedForward
  <2>6. process' = "running" => motor'.speed = speed
    BY <1>0, <2>1, <2>3, <2>5, MotorSetSpeedEffect
  <2>7. QED BY <2>4, <2>5, <2>6
<1>2. CASE HandleEncoderPush(m)
  <2>1. 0 \in 0..100 /\ FALSE \in BOOLEAN
    OBVIOUS
  <2>2. MotorSetSpeed(0, FALSE)
    BY <1>2 DEF HandleEncoderPush
  <2>3. ~motor'.reverse /\ ~reversing'.pending
    BY <1>0, <2>1, <2>2, SetSpeedForward
  <2>4. process' = "running" => motor'.speed = 0
    BY <1>0, <2>1, <2>2, <2>3, MotorSetSpeedEffect
  <2>5. SpeedOf(m) = 0 /\ SetsSpeed(m) /\ UNCHANGED <<toCtl, mainAt>>
    BY <1>2 DEF HandleEncoderPush, Handles, SpeedOf, SetsSpeed
  <2>6. listener' # "ack"
    BY <1>2 DEF HandleEncoderPush, LoopEnd
  <2>7. QED BY <2>3, <2>4, <2>5, <2>6
<1>3. CASE HandleJoystick(m) \/ HandleJoystickPush(m) \/ HandleOther(m) \/ HandleStop(m)
  <2>1. UNCHANGED motorVars /\ UNCHANGED <<toCtl, mainAt>> /\ ~SetsSpeed(m)
    BY <1>3
    DEF HandleJoystick, HandleJoystickPush, HandleOther, HandleStop, Handles, SetsSpeed
  <2>2. listener' # "ack"
    BY <1>3 DEF HandleJoystick, HandleJoystickPush, HandleOther, HandleStop, LoopEnd
  <2>3. QED BY <2>1, <2>2 DEF motorVars
<1>4. QED BY <1>1, <1>2, <1>3 DEF Handle

LEMMA NotHandled ==
    ASSUME ReceiverInv, ~reversing.pending,
           MainSteps \/ (ListenerSteps /\ ~Receive) \/ CommandUnheard
    PROVE  /\ motor'.speed = motor.speed /\ motor'.reverse = motor.reverse
           /\ reversing' = reversing
           /\ listener' = "ack" <=> listener = "ack" /\ ~Ack
<1>0. Ack => listener = "ack" /\ listener' # "ack"
  BY DEF Ack, Listener, LoopEnd
<1>1. CASE InitMotor
  <2>1. motor'.reverse = motor.reverse
    BY <1>1
    DEF InitMotor, MotorStarts, BeginInit, ZeroDuty, WritePeriod, NeutralDuty, SetEnabled,
        SwitchOn, ReceiverInv, MotorInv
  <2>2. motor'.speed = motor.speed /\ reversing' = reversing
    BY <1>1, MotorStartsEffect DEF InitMotor, ReceiverInv
  <2>3. listener' = listener
    BY <1>1 DEF InitMotor
  <2>4. QED BY <1>0, <2>1, <2>2, <2>3
<1>2. CASE CleanMotor
  <2>1. motor'.speed = motor.speed /\ motor'.reverse = motor.reverse /\ reversing' = reversing
    BY <1>2 DEF CleanMotor, MotorCleanup, MainDoes, ReceiverInv, MotorInv
  <2>2. listener' = listener
    BY <1>2 DEF CleanMotor
  <2>3. QED BY <1>0, <2>1, <2>2
<1>3. CASE RecvUdpInit
  <2>1. listener = "none" /\ listener' = "bind"
    BY <1>3 DEF RecvUdpInit, Main, ReceiverInv, StageInv
  <2>2. QED BY <1>0, <1>3, <2>1 DEF RecvUdpInit, motorVars
<1>4. CASE InitServo \/ Poll \/ Join \/ TellSender \/ CleanServo
  BY <1>0, <1>4 DEF InitServo, Poll, Join, TellSender, CleanServo, motorVars
<1>5. CASE WakeUp
  BY <1>5 DEF WakeUp, MotorReverses
<1>6. CASE Bind \/ Ack \/ EndLoop
  BY <1>0, <1>6 DEF Bind, Ack, EndLoop, Listener, LoopEnd, motorVars
<1>7. CASE CommandUnheard
  BY <1>0, <1>7 DEF CommandUnheard, motorVars, receiverVars
<1>8. QED
  BY <1>1, <1>2, <1>3, <1>4, <1>5, <1>6, <1>7 DEF MainSteps, ListenerSteps

\* The keys ask for no reverse.
LEMMA TypesAhead ==
    ASSUME SenderTypeOK, msg_rx \in Ahead, Terminal
    PROVE  \E m \in Ahead : Types(m)
<1>1. CASE TypeKey
  <2>1. \A k \in Keys : KeyMessage[k] \in Ahead
    BY SenderAssumption DEF KeyMessage, Ahead, Messages, Codes, Message
  <2>2. QED BY <1>1, <2>1 DEF TypeKey
<1>2. CASE TypeEncoder
  <2>1. curr_encoder' \in Nat
    BY <1>2, SenderAssumption DEF TypeEncoder, Down, SenderTypeOK
  <2>2. Message("encoder", curr_encoder') \in Ahead
    BY <2>1 DEF Ahead, Messages, Codes, Message
  <2>3. QED BY <1>2, <2>2 DEF TypeEncoder
<1>3. CASE TypeOther
  <2>1. Leftover \subseteq Ahead
    BY DEF Leftover, Ahead, Messages, Codes, Message
  <2>2. QED BY <1>3, <2>1 DEF TypeOther
<1>4. QED BY <1>1, <1>2, <1>3 DEF Terminal

\* The commands of a controller that does not ask for reverse.
LEMMA SenderAhead ==
    ASSUME SenderTypeOK, CommandsInv, OnlyForward, ForwardInv, SenderSteps
    PROVE  /\ toCar' \in Seq(Ahead) /\ msg_rx' \in Ahead
           /\ counter' >= 0 /\ turn'.val >= 0 /\ readVal' >= 0
<1>0. /\ toCar \in Seq(Ahead) /\ msg_rx \in Ahead
      /\ counter >= 0 /\ turn.val >= 0 /\ readVal >= 0
      /\ counter \in Int /\ turn.val \in Int /\ readVal \in Int
  BY DEF ForwardInv, SenderTypeOK, CounterTypeOK
<1>1. CASE Turn
  <2>1. PICK dir \in {-1, 1} : counter + dir * Step \in Dialled /\ Count(dir) /\ ~using_terminal
    BY <1>1 DEF Turn
  <2>2. counter' \in Nat
    BY <2>1 DEF Count, OnlyForward
  <2>3. turn'.val = 0
    BY <2>1 DEF Count
  <2>4. UNCHANGED <<toCar, msg_rx, readVal>>
    BY <1>1 DEF Turn, network, inputVars, terminalVars
  <2>5. QED BY <1>0, <2>2, <2>3, <2>4
<1>2. CASE FinishTurn
  <2>1. Clamped(turn.dir, counter) >= 0
    BY <1>0, CounterAssumption DEF Clamped
  <2>2. counter' >= 0 /\ turn'.val >= 0
    <3>1. CASE ReadToClamp
      <4>1. turn'.val = Clamped(turn.dir, counter) /\ counter' = counter
        BY <3>1 DEF ReadToClamp, SenderTypeOK, CounterTypeOK
      <4>2. QED BY <1>0, <2>1, <4>1
    <3>2. CASE StoreClamped
      BY <1>0, <3>2 DEF StoreClamped, Resting
    <3>3. QED BY <1>2, <3>1, <3>2 DEF FinishTurn
  <2>3. UNCHANGED <<toCar, msg_rx, readVal>>
    BY <1>2 DEF FinishTurn, network, inputVars, terminalVars
  <2>4. QED BY <1>0, <2>2, <2>3
<1>3. CASE SendJoyVals
  <2>1. PICK y \in YReadings :
           Calibrate(y) /\ (UNCHANGED toCar \/ Sends("joystick", YPercent(y)))
    BY <1>3 DEF SendJoyVals
  <2>2. YPercent(y) \in -100..100
    BY <2>1, StickRange DEF SenderTypeOK
  <2>. DEFINE val == YPercent(y)
              m == Message("joystick", val)
  <2>3. m \in Ahead
    BY <2>2 DEF Ahead, Messages, Codes, Message
  <2>4. toCar' = toCar \/ toCar' \in Sent(toCar, m)
    BY <2>1 DEF Sends
  <2>. HIDE DEF m
  <2>5. toCar' \in Seq(Ahead)
    BY <1>0, <2>3, <2>4, SentInSeq
  <2>6. UNCHANGED <<msg_rx, counter, turn, readVal>>
    BY <1>3 DEF SendJoyVals, SendThread, terminalVars
  <2>7. QED BY <1>0, <2>5, <2>6
<1>4. CASE SendEncoderVal
  <2>. DEFINE m == Message("encoder", readVal)
  <2>1. m \in Ahead
    BY <1>0 DEF Ahead, Messages, Codes, Message
  <2>2. toCar' = toCar \/ toCar' \in Sent(toCar, m)
    BY <1>4 DEF SendEncoderVal, Sends
  <2>. HIDE DEF m
  <2>3. toCar' \in Seq(Ahead)
    BY <1>0, <2>1, <2>2, SentInSeq
  <2>4. UNCHANGED <<msg_rx, counter, turn>> /\ readVal' = 0
    BY <1>4 DEF SendEncoderVal, SendThread, terminalVars
  <2>5. QED BY <1>0, <2>3, <2>4
<1>5. CASE SendJoyPush \/ SendEncoderPush
  <2>1. PICK m \in {Message("joystick_push", 0), Message("encoder_push", 0)} :
           toCar' = toCar \/ toCar' \in Sent(toCar, m)
    BY <1>5 DEF SendJoyPush, SendEncoderPush, Sends
  <2>2. m \in Ahead
    BY <2>1 DEF Ahead, Messages, Codes, Message
  <2>3. toCar' \in Seq(Ahead)
    BY <1>0, <2>1, <2>2, SentInSeq
  <2>4. UNCHANGED <<msg_rx, counter, turn, readVal>>
    BY <1>5 DEF SendJoyPush, SendEncoderPush, SendThread, terminalVars
  <2>5. QED BY <1>0, <2>3, <2>4
<1>6. CASE EncoderNotPushed \/ ResetCounter \/ ReadEncoder \/ NextRound
  <2>1. UNCHANGED <<toCar, msg_rx, turn>>
    BY <1>6
    DEF EncoderNotPushed, ResetCounter, SetCounter, ReadEncoder, NextRound, SendThread, network,
        inputVars, terminalVars
  <2>2. counter' \in {0, counter} /\ readVal' \in {readVal, counter}
    BY <1>6 DEF EncoderNotPushed, ResetCounter, SetCounter, ReadEncoder, NextRound
  <2>3. QED BY <1>0, <2>1, <2>2
<1>7. CASE TakeAck \/ ListenTimeout \/ Quit
  BY <1>0, <1>7
  DEF TakeAck, ListenTimeout, Quit, network, counterVars, inputVars, terminalVars
<1>8. CASE TellReceiver
  <2>. DEFINE m == Message("stop", 0)
  <2>1. m \in Ahead
    BY DEF Ahead, Messages, Codes, Message
  <2>2. toCar' \in Sent(toCar, m)
    BY <1>8 DEF TellReceiver, Sends
  <2>. HIDE DEF m
  <2>3. toCar' \in Seq(Ahead)
    BY <1>0, <2>1, <2>2, SentInSeq
  <2>4. UNCHANGED <<msg_rx, counter, turn, readVal>>
    BY <1>8 DEF TellReceiver, counterVars, inputVars, terminalVars
  <2>5. QED BY <1>0, <2>3, <2>4
<1>9. CASE Terminal
  <2>1. PICK m \in Ahead : Types(m)
    BY <1>0, <1>9, TypesAhead
  <2>2. toCar' \in Sent(toCar, m) /\ msg_rx' = m
    BY <2>1 DEF Types
  <2>3. toCar' \in Seq(Ahead)
    BY <1>0, <2>2, SentInSeq
  <2>4. UNCHANGED <<counter, turn, readVal>>
    BY <2>1 DEF Types, counterVars
  <2>5. QED BY <1>0, <2>1, <2>2, <2>3, <2>4
<1>10. QED
  BY <1>1, <1>2, <1>3, <1>4, <1>5, <1>6, <1>7, <1>8, <1>9 DEF SenderSteps, SendSteps

LEMMA ForwardKeeps ==
    ASSUME ReceiverInv, SenderTypeOK, CommandsInv, ForwardInv, [Next]_vars
    PROVE  ForwardInv'
<1> SUFFICES ASSUME OnlyForward PROVE ForwardInv'
  BY ModeStays DEF ForwardInv, OnlyForward
<1>0. /\ ~motor.reverse /\ ~reversing.pending
      /\ toCar \in Seq(Ahead) /\ msg_rx \in Ahead
      /\ counter >= 0 /\ turn.val >= 0 /\ readVal >= 0
  BY DEF ForwardInv
<1>1. CASE ControllerStep
  <2>1. ~motor'.reverse /\ ~reversing'.pending
    BY <1>0, <1>1 DEF ControllerStep, CarSide, motorVars
  <2>2. CASE SenderSteps
    BY <2>1, <2>2, SenderAhead DEF ForwardInv
  <2>3. CASE AckUnheard
    BY <1>0, <2>1, <2>3
    DEF AckUnheard, senderVars, counterVars, inputVars, terminalVars, ForwardInv
  <2>4. QED BY <1>1, <2>2, <2>3 DEF ControllerStep
<1>2. CASE CarStep
  <2>1. UNCHANGED <<msg_rx, counter, turn, readVal>>
    BY <1>2 DEF CarStep, senderVars, counterVars, inputVars, terminalVars
  <2>2. toCar' \in Seq(Ahead)
    BY <1>0, <1>2, CarTakes DEF CarStep
  <2>3. ~motor'.reverse /\ ~reversing'.pending
    <3>1. CASE Receive
      <4>1. PICK i \in Deliverable(toCar) : Handle(toCar[i]) /\ Listener("recv")
        BY <3>1 DEF Receive
      <4>2. toCar[i] \in Ahead
        BY <1>0, <4>1, LenProperties, ElementOfSeq DEF Deliverable
      <4>3. QED BY <1>0, <4>1, <4>2, Handled
    <3>2. CASE ~Receive
      BY <1>0, <1>2, <3>2, NotHandled DEF CarStep
    <3>3. QED BY <3>1, <3>2
  <2>4. QED BY <1>0, <2>1, <2>2, <2>3 DEF ForwardInv
<1>3. CASE UNCHANGED vars
  BY <1>0, <1>3
  DEF vars, network, CarSide, motorVars, senderVars, counterVars, inputVars, terminalVars,
      ForwardInv
<1>4. QED BY <1>1, <1>2, <1>3, Steps

-----------------------------------------------------------------------------
(***************************************************************************)
(* What the commands in flight ask for, after one was sent or taken.       *)
(***************************************************************************)
LEMMA AppendAsks ==
    ASSUME NEW S, NEW channel \in Seq(S), NEW m \in S, NEW next, next = Append(channel, m),
           NEW speed
    PROVE  /\ SetsSpeed(m) => /\ ~NoneSets(next)
                              /\ SpeedOf(m) = speed => AsksFor(next, speed)
           /\ ~SetsSpeed(m) => /\ NoneSets(next) => NoneSets(channel)
                               /\ AsksFor(channel, speed) => AsksFor(next, speed)
<1>. DEFINE n == Len(channel)
<1>0. /\ n \in Nat /\ DOMAIN channel = 1..n /\ DOMAIN next = 1..(n + 1)
      /\ \A i \in 1..n : next[i] = channel[i]
      /\ next[n + 1] = m
  BY AppendedAt
<1>. HIDE DEF n
<1>1. CASE SetsSpeed(m)
  <2>1. ~NoneSets(next)
    BY <1>0, <1>1 DEF NoneSets
  <2>2. ASSUME SpeedOf(m) = speed, NEW i \in DOMAIN next, LastToSet(next, i)
        PROVE  SpeedOf(next[i]) = speed
    <3>1. i = n + 1
      BY <1>0, <1>1, <2>2 DEF LastToSet
    <3>2. QED BY <1>0, <2>2, <3>1
  <2>3. QED BY <1>1, <2>1, <2>2 DEF AsksFor
<1>2. CASE ~SetsSpeed(m)
  <2>1. NoneSets(next) => NoneSets(channel)
    BY <1>0 DEF NoneSets
  <2>2. ASSUME AsksFor(channel, speed), NEW i \in DOMAIN next, LastToSet(next, i)
        PROVE  SpeedOf(next[i]) = speed
    <3>1. i \in 1..n /\ next[i] = channel[i]
      BY <1>0, <1>2, <2>2 DEF LastToSet
    <3>2. LastToSet(channel, i)
      BY <1>0, <2>2, <3>1 DEF LastToSet
    <3>3. QED BY <1>0, <2>2, <3>1, <3>2 DEF AsksFor
  <2>3. QED BY <1>2, <2>1, <2>2 DEF AsksFor
<1>3. QED BY <1>1, <1>2

LEMMA TailAsks ==
    ASSUME NEW S, NEW channel \in Seq(S), channel # <<>>, NEW next, next = Tail(channel),
           NEW speed, AsksFor(channel, speed)
    PROVE  /\ AsksFor(next, speed)
           /\ NoneSets(next) => \/ NoneSets(channel)
                                \/ SetsSpeed(channel[1]) /\ SpeedOf(channel[1]) = speed
           /\ NoneSets(channel) => ~SetsSpeed(channel[1])
<1>. DEFINE n == Len(channel)
<1>0. /\ n \in Nat /\ n >= 1 /\ DOMAIN channel = 1..n /\ DOMAIN next = 1..(n - 1)
      /\ \A i \in DOMAIN next : next[i] = channel[i + 1]
  BY TailAt
<1>. HIDE DEF n
<1>1. ASSUME NEW i \in DOMAIN next, LastToSet(next, i)
      PROVE  SpeedOf(next[i]) = speed
  <2>1. i + 1 \in DOMAIN channel /\ next[i] = channel[i + 1]
    BY <1>0
  <2>2. ASSUME NEW j \in DOMAIN channel, j > i + 1 PROVE ~SetsSpeed(channel[j])
    <3>1. j - 1 \in DOMAIN next /\ j - 1 > i /\ next[j - 1] = channel[j]
      BY <1>0, <2>2
    <3>2. QED BY <1>1, <3>1 DEF LastToSet
  <2>3. LastToSet(channel, i + 1)
    BY <1>1, <2>1, <2>2 DEF LastToSet
  <2>4. QED BY <2>1, <2>3 DEF AsksFor
<1>2. ASSUME NoneSets(next), SetsSpeed(channel[1]) PROVE SpeedOf(channel[1]) = speed
  <2>1. ASSUME NEW j \in DOMAIN channel, j > 1 PROVE ~SetsSpeed(channel[j])
    <3>1. j - 1 \in DOMAIN next /\ next[j - 1] = channel[j]
      BY <1>0, <2>1
    <3>2. QED BY <1>2, <3>1 DEF NoneSets
  <2>2. 1 \in DOMAIN channel /\ LastToSet(channel, 1)
    BY <1>0, <1>2, <2>1 DEF LastToSet
  <2>3. QED BY <2>2 DEF AsksFor
<1>3. ASSUME NoneSets(next), ~SetsSpeed(channel[1]) PROVE NoneSets(channel)
  <2>1. ASSUME NEW j \in DOMAIN channel PROVE ~SetsSpeed(channel[j])
    <3>1. CASE j = 1
      BY <1>3, <3>1
    <3>2. CASE j # 1
      <4>1. j - 1 \in DOMAIN next /\ next[j - 1] = channel[j]
        BY <1>0, <3>2
      <4>2. QED BY <1>3, <4>1 DEF NoneSets
    <3>3. QED BY <3>1, <3>2
  <2>2. QED BY <2>1 DEF NoneSets
<1>4. NoneSets(channel) => ~SetsSpeed(channel[1])
  BY <1>0 DEF NoneSets
<1>5. QED BY <1>1, <1>2, <1>3, <1>4 DEF AsksFor

-----------------------------------------------------------------------------
(***************************************************************************)
(* What was typed last.                                                    *)
(***************************************************************************)

\* Nothing revives a program.
LEMMA LiveBefore == ASSUME ReceiverInv, [Next]_vars, Live' PROVE Live
<1>1. CASE ControllerStep
  <2>1. ctlStop => ctlStop'
    BY <1>1
    DEF ControllerStep, SenderSteps, Turn, FinishTurn, SendSteps, SendJoyPush, SendJoyVals,
        SendEncoderPush, EncoderNotPushed, ResetCounter, ReadEncoder, SendEncoderVal, NextRound,
        SendThread, TakeAck, StopsOn, ListenTimeout, AckUnheard, Terminal, TypeKey, TypeEncoder,
        TypeOther, Types, Quit, TellReceiver, senderVars
  <2>2. process' = process
    BY <1>1 DEF ControllerStep, CarSide
  <2>3. QED BY <2>1, <2>2 DEF Live
<1>2. CASE CarStep
  <2>1. ctlStop' = ctlStop
    BY <1>2 DEF CarStep, senderVars
  <2>2. process = "running"
    <3>1. CASE MainSteps
      BY <3>1
      DEF MainSteps, RecvUdpInit, InitMotor, InitServo, Poll, Join, TellSender, CleanMotor,
          CleanServo, Main
    <3>2. CASE ListenerSteps
      BY <3>2 DEF ListenerSteps, Bind, Receive, WakeUp, Ack, EndLoop, Listener
    <3>3. CASE CommandUnheard
      BY <3>3 DEF CommandUnheard, Live
    <3>4. QED BY <1>2, <3>1, <3>2, <3>3 DEF CarStep
  <2>3. QED BY <2>1, <2>2 DEF Live
<1>3. CASE UNCHANGED vars
  BY <1>3 DEF vars, CarSide, senderVars, Live
<1>4. QED BY <1>1, <1>2, <1>3, Steps

\* A car that was there first hears everything until the operator quits.
LEMMA Hears ==
    ASSUME ReceiverInv, WindUpInv, StartInv, CarFirst, Live
    PROVE  /\ ~CommandUnheard
           /\ mainAt \notin {"join", "tell"} \cup Closing
           /\ ctlMain = "wait" /\ listenAt # "done"
<1>1. mainAt \notin {"join", "tell"} \cup Closing /\ ctlMain = "wait" /\ listenAt # "done"
  BY DEF WindUpInv, Live
<1>2. ~CommandUnheard
  <2>1. CASE listener \in {"none", "bind"}
    <3>1. ~CarUp
      BY <2>1 DEF CarUp, ReceiverInv, StageInv
    <3>2. QED BY <3>1 DEF CommandUnheard, StartInv
  <2>2. CASE listener \notin {"none", "bind"}
    BY <1>1, <2>2 DEF CommandUnheard, Deaf, Live, Closing
  <2>3. QED BY <2>1, <2>2
<1>3. QED BY <1>1, <1>2

\* What a key does to the channel, the buffer and the value asked for.
LEMMA KeyAsks ==
    ASSUME SenderTypeOK, CommandsInv, InSequence,
           AsksFor(toCar, KeyedSpeed), SetsSpeed(msg_rx) => SpeedOf(msg_rx) = KeyedSpeed,
           Terminal
    PROVE  /\ AsksFor(toCar', KeyedSpeed')
           /\ NoneSets(toCar') => NoneSets(toCar) /\ KeyedSpeed' = KeyedSpeed
           /\ SetsSpeed(msg_rx') => SpeedOf(msg_rx') = KeyedSpeed'
<1>1. PICK m \in Typed : Types(m)
  BY TerminalTypes DEF CommandsInv
<1>2. toCar \in Seq(Messages) /\ m \in Messages /\ m \in Typed
  <2>1. InFlight \subseteq Messages /\ Typed \subseteq Messages
    BY DEF InFlight, Typed
  <2>2. QED BY <2>1, SeqOfSubset DEF CommandsInv
<1>3. msg_rx' = m /\ toCar' = Append(toCar, m)
  BY <1>1, <1>2, SentOnly DEF Types
<1>4. \/ SetsSpeed(m) /\ SpeedOf(m) = KeyedSpeed'
      \/ ~SetsSpeed(m) /\ KeyedSpeed' = KeyedSpeed
  <2>1. CASE TypeKey
    <3>1. PICK k \in Keys : m = KeyMessage[k] /\ keyed' = IF k = "e" THEN -1 ELSE keyed
      BY <1>3, <2>1 DEF TypeKey, Types
    <3>2. k \in {"w", "s", "a", "d", "space", "e"}
      BY SenderAssumption
    <3>3. CASE k = "e"
      <4>1. SetsSpeed(m) /\ SpeedOf(m) = 0
        BY <3>1, <3>3 DEF KeyMessage, Message, SetsSpeed, SpeedOf
      <4>2. KeyedSpeed' = 0
        BY <3>1, <3>3 DEF KeyedSpeed
      <4>3. QED BY <4>1, <4>2
    <3>4. CASE k # "e"
      <4>1. ~SetsSpeed(m)
        BY <3>1, <3>2, <3>4 DEF KeyMessage, Message, SetsSpeed
      <4>2. KeyedSpeed' = KeyedSpeed
        BY <3>1, <3>4 DEF KeyedSpeed
      <4>3. QED BY <4>1, <4>2
    <3>5. QED BY <3>3, <3>4
  <2>2. CASE TypeEncoder
    <3>1. m = Message("encoder", curr_encoder') /\ keyed' = curr_encoder'
      BY <1>3, <2>2 DEF TypeEncoder, Types
    <3>2. curr_encoder' \in Nat
      BY <2>2, SenderAssumption DEF TypeEncoder, Down, SenderTypeOK
    <3>3. KeyedSpeed' = EncoderSpeed(curr_encoder')
      BY <3>1, <3>2 DEF KeyedSpeed
    <3>4. SetsSpeed(m) /\ SpeedOf(m) = EncoderSpeed(curr_encoder')
      BY <3>1 DEF Message, SetsSpeed, SpeedOf
    <3>5. QED BY <3>3, <3>4
  <2>3. CASE TypeOther
    <3>1. m \in {msg_rx, Message("other", 0)} /\ keyed' = keyed
      BY <1>3, <2>3 DEF TypeOther, Types, Leftover
    <3>2. KeyedSpeed' = KeyedSpeed
      BY <3>1 DEF KeyedSpeed
    <3>3. ~SetsSpeed(Message("other", 0))
      BY DEF Message, SetsSpeed
    <3>4. QED BY <3>1, <3>2, <3>3
  <2>4. QED BY <2>1, <2>2, <2>3 DEF Terminal
<1>5. PICK next, speed, asked : next = toCar' /\ speed = KeyedSpeed' /\ asked = KeyedSpeed
  OBVIOUS
<1>6. /\ SetsSpeed(m) => ~NoneSets(next) /\ (SpeedOf(m) = speed => AsksFor(next, speed))
      /\ ~SetsSpeed(m) => /\ NoneSets(next) => NoneSets(toCar)
                          /\ AsksFor(toCar, speed) => AsksFor(next, speed)
  BY <1>2, <1>3, <1>5, AppendAsks
<1>7. AsksFor(next, speed) /\ (NoneSets(next) => NoneSets(toCar) /\ speed = asked)
  BY <1>4, <1>5, <1>6
<1>8. SetsSpeed(msg_rx') => SpeedOf(msg_rx') = KeyedSpeed'
  BY <1>3, <1>4
<1>9. QED BY <1>5, <1>7, <1>8

\* What a command does that the listener takes while nothing overtakes another.
LEMMA TakenInSequence ==
    ASSUME ReceiverInv, ForwardInv, OnlyForward, InSequence, Receive
    PROVE  /\ toCar # <<>>
           /\ toCar' = toCar \/ toCar' = Tail(toCar)
           /\ toCar[1] \in Ahead /\ Handle(toCar[1])
           /\ SetsSpeed(toCar[1]) /\ process' = "running" => motor'.speed = SpeedOf(toCar[1])
           /\ ~SetsSpeed(toCar[1]) => motor'.speed = motor.speed
           /\ listener' = "ack" => toCar[1].code = "encoder"
           /\ toCtl' = toCtl
<1>1. PICK i \in Deliverable(toCar) : /\ toCar' \in After(toCar, i)
                                      /\ Handle(toCar[i]) /\ Listener("recv")
  BY DEF Receive
<1>2. toCar \in Seq(Ahead) /\ ~motor.reverse /\ ~reversing.pending
  BY DEF ForwardInv
<1>3. /\ toCar # <<>> /\ i = 1
      /\ toCar' = toCar \/ toCar' = Tail(toCar)
  BY <1>1, <1>2, DeliveredInSequence
<1>4. toCar[1] \in Ahead
  BY <1>1, <1>2, <1>3, LenProperties, ElementOfSeq DEF Deliverable
<1>5. PICK m \in Ahead : m = toCar[1]
  BY <1>4
<1>6. Handle(m) /\ Listener("recv")
  BY <1>1, <1>3, <1>5
<1>7. /\ toCtl' = toCtl
      /\ SetsSpeed(m) /\ process' = "running" => motor'.speed = SpeedOf(m)
      /\ ~SetsSpeed(m) => motor'.speed = motor.speed
      /\ listener' = "ack" => m.code = "encoder"
  BY <1>2, <1>6, Handled
<1>8. QED BY <1>3, <1>4, <1>5, <1>6, <1>7

LEMMA TypedKeeps ==
    ASSUME ReceiverInv, SenderTypeOK, CommandsInv, WindUpInv, StartInv, ForwardInv, TypedInv,
           [Next]_vars
    PROVE  TypedInv'
<1> SUFFICES ASSUME Orderly, using_terminal', Live'
             PROVE  /\ AsksFor(toCar, KeyedSpeed)'
                    /\ NoneSets(toCar)' => motor'.speed = KeyedSpeed'
                    /\ SetsSpeed(msg_rx') => SpeedOf(msg_rx') = KeyedSpeed'
  BY DEF TypedInv
<1>0. /\ InSequence /\ CarFirst /\ using_terminal /\ Live /\ OnlyForward
      /\ ~motor.reverse /\ ~reversing.pending
  BY ModeStays, LiveBefore DEF Orderly, OnlyForward, ForwardInv
<1>a. /\ AsksFor(toCar, KeyedSpeed)
      /\ NoneSets(toCar) => motor.speed = KeyedSpeed
      /\ SetsSpeed(msg_rx) => SpeedOf(msg_rx) = KeyedSpeed
  BY <1>0 DEF TypedInv
<1>1. ASSUME UNCHANGED <<toCar, msg_rx, keyed>>, motor'.speed = motor.speed
      PROVE  /\ AsksFor(toCar, KeyedSpeed)'
             /\ NoneSets(toCar)' => motor'.speed = KeyedSpeed'
             /\ SetsSpeed(msg_rx') => SpeedOf(msg_rx') = KeyedSpeed'
  BY <1>a, <1>1
  DEF AsksFor, NoneSets, LastToSet, SetsSpeed, SpeedOf, KeyedSpeed
<1>2. CASE ControllerStep
  <2>0. motor'.speed = motor.speed
    BY <1>2 DEF ControllerStep, CarSide, motorVars
  <2>1. CASE Terminal
    BY <1>0, <1>a, <2>0, <2>1, KeyAsks
  <2>2. CASE SendSteps \/ TellReceiver \/ Turn
    <3>1. sendAt = "done" /\ ctlMain = "wait"
      BY <1>0, Hears DEF WindUpInv
    <3>2. QED
      BY <1>0, <2>2, <3>1
      DEF SendSteps, SendJoyPush, SendJoyVals, SendEncoderPush, EncoderNotPushed, ResetCounter,
          ReadEncoder, SendEncoderVal, NextRound, SendThread, TellReceiver, Turn
  <2>3. CASE FinishTurn \/ TakeAck \/ ListenTimeout \/ Quit \/ AckUnheard
    <3>1. UNCHANGED <<toCar, msg_rx, keyed>>
      BY <2>3
      DEF FinishTurn, TakeAck, ListenTimeout, Quit, AckUnheard, network, senderVars, inputVars,
          terminalVars
    <3>2. QED BY <1>1, <2>0, <3>1
  <2>4. QED BY <1>2, <2>1, <2>2, <2>3 DEF ControllerStep, SenderSteps
<1>3. CASE CarStep
  <2>1. UNCHANGED <<msg_rx, keyed>>
    BY <1>3 DEF CarStep, senderVars, inputVars, terminalVars
  <2>2. CASE Receive
    <3>. DEFINE m == toCar[1]
    <3>1. /\ toCar # <<>>
          /\ toCar' = toCar \/ toCar' = Tail(toCar)
          /\ SetsSpeed(m) /\ process' = "running" => motor'.speed = SpeedOf(m)
          /\ ~SetsSpeed(m) => motor'.speed = motor.speed
      BY <1>0, <2>2, TakenInSequence
    <3>2. process' = "running"
      BY DEF Live
    <3>3. KeyedSpeed' = KeyedSpeed
      BY <2>1 DEF KeyedSpeed
    <3>4. SetsSpeed(msg_rx') => SpeedOf(msg_rx') = KeyedSpeed'
      BY <1>a, <2>1, <3>3
    <3>5. PICK next, asked : next = toCar' /\ asked = KeyedSpeed /\ asked = KeyedSpeed'
      BY <3>3
    <3>6. toCar \in Seq(Ahead) /\ 1 \in DOMAIN toCar
      BY <1>0, <3>1, TailAt DEF ForwardInv
    <3>7. AsksFor(next, asked) /\ (NoneSets(next) => motor'.speed = asked)
      <4>1. CASE next = toCar
        <5>1. NoneSets(next) => ~SetsSpeed(m)
          BY <3>6, <4>1 DEF NoneSets
        <5>2. QED BY <1>a, <3>1, <3>5, <4>1, <5>1
      <4>2. CASE next = Tail(toCar)
        <5>1. AsksFor(toCar, asked)
          BY <1>a, <3>5
        <5>2. /\ AsksFor(next, asked)
              /\ NoneSets(next) => NoneSets(toCar) \/ (SetsSpeed(m) /\ SpeedOf(m) = asked)
              /\ NoneSets(toCar) => ~SetsSpeed(m)
          BY <3>1, <3>6, <4>2, <5>1, TailAsks
        <5>3. QED BY <1>a, <3>1, <3>2, <3>5, <5>2
      <4>3. QED BY <3>1, <3>5, <4>1, <4>2
    <3>8. QED BY <3>4, <3>5, <3>7
  <2>3. CASE ~Receive
    <3>1. motor'.speed = motor.speed
      BY <1>0, <1>3, <2>3, NotHandled DEF CarStep
    <3>2. UNCHANGED toCar
      BY <1>0, <1>3, <2>3, Hears
      DEF CarStep, ListenerSteps, MainSteps, RecvUdpInit, InitMotor, InitServo, Poll, Join,
          TellSender, CleanMotor, CleanServo, Bind, WakeUp, Ack, EndLoop, network
    <3>3. QED BY <1>1, <2>1, <3>1, <3>2
  <2>4. QED BY <2>2, <2>3
<1>4. CASE UNCHANGED vars
  <2>1. UNCHANGED <<toCar, msg_rx, keyed>> /\ motor'.speed = motor.speed
    BY <1>4 DEF vars, network, CarSide, motorVars, senderVars, inputVars, terminalVars
  <2>2. QED BY <1>1, <2>1
<1>5. QED BY <1>2, <1>3, <1>4, Steps

-----------------------------------------------------------------------------
(***************************************************************************)
(* What was acknowledged last.                                             *)
(***************************************************************************)
LEMMA SendsUnbraked ==
    ASSUME SenderTypeOK, CommandsInv, NoBrake, ctlMain = "wait",
           toCar \in Seq(Unbraked), SenderSteps
    PROVE  toCar' \in Seq(Unbraked)
<1>1. CASE SendJoyVals
  <2>1. PICK y \in YReadings :
           Calibrate(y) /\ (UNCHANGED toCar \/ Sends("joystick", YPercent(y)))
    BY <1>1 DEF SendJoyVals
  <2>2. YPercent(y) \in -100..100
    BY <2>1, StickRange DEF SenderTypeOK
  <2>3. PICK val \in -100..100 : toCar' = toCar \/ toCar' \in Sent(toCar, Message("joystick", val))
    BY <2>1, <2>2 DEF Sends
  <2>4. Message("joystick", val) \in Unbraked
    BY DEF Unbraked, Messages, Codes, Message
  <2>5. QED BY <2>3, <2>4, SentInSeq
<1>2. CASE SendEncoderVal \/ SendJoyPush
  <2>1. PICK m \in {Message("encoder", readVal), Message("joystick_push", 0)} :
           toCar' = toCar \/ toCar' \in Sent(toCar, m)
    BY <1>2 DEF SendEncoderVal, SendJoyPush, Sends
  <2>2. m \in Unbraked
    BY <2>1 DEF Unbraked, Messages, Codes, Message, SenderTypeOK
  <2>3. QED BY <2>1, <2>2, SentInSeq
<1>3. CASE SendEncoderPush \/ Terminal \/ TellReceiver
  BY <1>3
  DEF SendEncoderPush, Terminal, TypeKey, TypeEncoder, TypeOther, Types, TellReceiver, NoBrake
<1>4. CASE \/ EncoderNotPushed \/ ResetCounter \/ ReadEncoder \/ NextRound
           \/ Turn \/ FinishTurn \/ TakeAck \/ ListenTimeout \/ Quit
  <2>1. UNCHANGED toCar
    BY <1>4
    DEF EncoderNotPushed, ResetCounter, ReadEncoder, NextRound, SendThread, Turn, FinishTurn,
        TakeAck, ListenTimeout, Quit, network
  <2>2. QED BY <2>1
<1>5. QED BY <1>1, <1>2, <1>3, <1>4 DEF SenderSteps, SendSteps

\* The last acknowledgement in flight, or the one that was taken.
LastAck == IF toCtl = <<>> THEN acked_encoder_val ELSE Last(toCtl)

LEMMA TakingKeepsLast ==
    ASSUME ReceiverInv, InSequence, TakeAck
    PROVE  LastAck' = LastAck
<1>1. toCtl \in Seq(Int)
  BY AcksTyped
<1>2. PICK i \in Deliverable(toCtl) : toCtl' \in After(toCtl, i) /\ acked_encoder_val' = toCtl[i]
  BY DEF TakeAck
<1>3. toCtl # <<>> /\ i = 1 /\ (toCtl' = toCtl \/ toCtl' = Tail(toCtl))
  BY <1>1, <1>2, DeliveredInSequence
<1>4. CASE toCtl' = toCtl
  BY <1>3, <1>4 DEF LastAck, Last
<1>5. CASE toCtl' = Tail(toCtl)
  <2>1. PICK next : next = toCtl'
    OBVIOUS
  <2>2. /\ Len(toCtl) \in Nat /\ Len(toCtl) >= 1
        /\ DOMAIN next = 1..(Len(toCtl) - 1)
        /\ next # <<>> => Last(next) = Last(toCtl)
    BY <1>1, <1>3, <1>5, <2>1, TailAt
  <2>3. CASE next = <<>>
    <3>1. Len(toCtl) = 1
      <4>1. Len(next) = Len(toCtl) - 1
        BY <1>1, <1>3, <1>5, <2>1, HeadTailProperties
      <4>2. QED BY <2>2, <2>3, <4>1
    <3>2. QED BY <1>2, <1>3, <2>1, <2>3, <3>1 DEF LastAck, Last
  <2>4. CASE next # <<>>
    <3>1. LastAck' = Last(next)
      BY <2>1, <2>4 DEF LastAck, Last
    <3>2. QED BY <1>3, <2>2, <2>4, <3>1 DEF LastAck
  <2>5. QED BY <2>3, <2>4
<1>6. QED BY <1>3, <1>4, <1>5

\* What the car answers is the speed it has set.
LEMMA AnswersItsSpeed ==
    ASSUME ReceiverInv, InSequence, Ack
    PROVE  LastAck' = motor.speed /\ motor' = motor
<1>1. process = "running" /\ listener = "ack" /\ command.val \in Int
  BY DEF Ack, Listener, ReceiverInv, HandlingInv, Messages
<1>2. motor.speed = EncoderSpeed(command.val)
  BY <1>1 DEF ReceiverInv, HandlingInv
<1>. DEFINE v == AckValue(command.val)
<1>3. v = motor.speed /\ v \in Int /\ v # EncoderVal
  <2>1. v = EncoderSpeed(command.val) /\ EncoderSpeed(command.val) \in 1..99
    BY <1>1, EncoderSpeedRange DEF AckValue
  <2>2. QED BY <1>2, <2>1 DEF EncoderVal
<1>4. toCtl' \in Sent(toCtl, v) /\ motor' = motor
  BY <1>3 DEF Ack, motorVars
<1>. HIDE DEF v
<1>5. toCtl' = Append(toCtl, v)
  BY <1>3, <1>4, AcksTyped, SentOnly
<1>6. PICK next : next = toCtl'
  OBVIOUS
<1>7. next # <<>> /\ Last(next) = v
  <2>1. toCtl \in Seq(Int)
    BY AcksTyped
  <2>2. Append(toCtl, v) # <<>> /\ Last(Append(toCtl, v)) = v
    BY <1>3, <2>1, LastAppended
  <2>3. QED BY <1>5, <1>6, <2>2
<1>8. LastAck' = Last(next)
  BY <1>6, <1>7 DEF LastAck, Last
<1>9. QED BY <1>3, <1>4, <1>7, <1>8

LEMMA AckedKeeps ==
    ASSUME ReceiverInv, SenderTypeOK, CommandsInv, WindUpInv, StartInv, ForwardInv, AckedInv,
           [Next]_vars
    PROVE  AckedInv'
<1> SUFFICES ASSUME Orderly, NoBrake', Live'
             PROVE  /\ toCar' \in Seq(Unbraked)
                    /\ listener' # "ack" => motor'.speed = LastAck'
  BY DEF AckedInv, LastAck
<1>0. /\ InSequence /\ CarFirst /\ NoBrake /\ Live /\ OnlyForward
      /\ ~motor.reverse /\ ~reversing.pending
  BY ModeStays, LiveBefore DEF Orderly, NoBrake, OnlyForward, ForwardInv
<1>a. toCar \in Seq(Unbraked) /\ (listener # "ack" => motor.speed = LastAck)
  BY <1>0 DEF AckedInv, LastAck
<1>b. /\ ~CommandUnheard /\ mainAt \notin {"join", "tell"} \cup Closing
      /\ ctlMain = "wait" /\ listenAt # "done"
  BY <1>0, Hears
<1>1. ASSUME UNCHANGED <<toCtl, acked_encoder_val>> PROVE LastAck' = LastAck
  BY <1>1 DEF LastAck, Last
<1>2. CASE ControllerStep
  <2>1. motor'.speed = motor.speed /\ listener' = listener
    BY <1>2 DEF ControllerStep, CarSide, motorVars, receiverVars
  <2>2. SenderSteps
    BY <1>2, <1>b DEF ControllerStep, AckUnheard
  <2>3. toCar' \in Seq(Unbraked)
    BY <1>0, <1>a, <1>b, <2>2, SendsUnbraked
  <2>4. LastAck' = LastAck
    <3>1. CASE TakeAck
      BY <1>0, <3>1, TakingKeepsLast
    <3>2. CASE ~TakeAck
      <4>1. UNCHANGED <<toCtl, acked_encoder_val>>
        BY <2>2, <3>2
        DEF SenderSteps, Turn, FinishTurn, SendSteps, SendJoyPush, SendJoyVals, SendEncoderPush,
            EncoderNotPushed, ResetCounter, ReadEncoder, SendEncoderVal, NextRound, SendThread,
            ListenTimeout, Terminal, TypeKey, TypeEncoder, TypeOther, Types, Quit, TellReceiver,
            network
      <4>2. QED BY <1>1, <4>1
    <3>3. QED BY <3>1, <3>2
  <2>5. QED BY <1>a, <2>1, <2>3, <2>4
<1>3. CASE CarStep
  <2>1. acked_encoder_val' = acked_encoder_val
    BY <1>3 DEF CarStep, senderVars
  <2>2. toCar' \in Seq(Unbraked)
    BY <1>3, <1>a, CarTakes DEF CarStep
  <2>3. CASE Receive
    <3>. DEFINE m == toCar[1]
    <3>1. /\ toCar # <<>> /\ toCtl' = toCtl
          /\ ~SetsSpeed(m) => motor'.speed = motor.speed
          /\ Handle(m)
      BY <1>0, <2>3, TakenInSequence
    <3>2. m \in Unbraked
      <4>1. 1 \in DOMAIN toCar
        BY <1>a, <3>1, TailAt
      <4>2. QED BY <1>a, <4>1, LenProperties, ElementOfSeq
    <3>3. CASE m.code = "encoder"
      <4>1. HandleEncoder(m)
        BY <3>1, <3>3
        DEF Handle, HandleEncoderPush, HandleJoystick, HandleJoystickPush, HandleOther,
            HandleStop, Handles
      <4>2. ~reversing'.pending
        <5>1. m \in Ahead /\ Listener("recv")
          BY <1>0, <2>3, TakenInSequence DEF Receive
        <5>2. QED BY <1>0, <3>1, <5>1, Handled
      <4>3. listener' = "ack"
        BY <4>1, <4>2 DEF HandleEncoder
      <4>4. QED BY <2>2, <4>3
    <3>4. CASE m.code # "encoder"
      <4>1. ~SetsSpeed(m)
        BY <3>2, <3>4 DEF SetsSpeed, Unbraked
      <4>2. listener # "ack"
        BY <2>3 DEF Receive, Listener
      <4>3. QED BY <1>1, <1>a, <2>1, <2>2, <3>1, <4>1, <4>2
    <3>5. QED BY <3>3, <3>4
  <2>4. CASE Ack
    BY <1>0, <2>2, <2>4, AnswersItsSpeed
  <2>5. CASE ~Receive /\ ~Ack
    <3>1. motor'.speed = motor.speed /\ (listener' = "ack" <=> listener = "ack")
      BY <1>0, <1>3, <2>5, NotHandled DEF CarStep
    <3>2. UNCHANGED toCtl
      BY <1>3, <1>b, <2>5
      DEF CarStep, ListenerSteps, MainSteps, RecvUdpInit, InitMotor, InitServo, Poll, Join,
          TellSender, CleanMotor, CleanServo, Main, Bind, WakeUp, EndLoop, network
    <3>3. QED BY <1>1, <1>a, <2>1, <2>2, <3>1, <3>2
  <2>6. QED BY <2>3, <2>4, <2>5
<1>4. CASE UNCHANGED vars
  <2>1. /\ UNCHANGED <<toCar, toCtl, acked_encoder_val, listener>>
        /\ motor'.speed = motor.speed
    BY <1>4 DEF vars, network, CarSide, motorVars, receiverVars, senderVars
  <2>2. QED BY <1>1, <1>a, <2>1
<1>5. QED BY <1>2, <1>3, <1>4, Steps

-----------------------------------------------------------------------------
(***************************************************************************)
(* The invariant.                                                          *)
(***************************************************************************)
LEMMA LinkInvInit == Init => LinkInv
<1> SUFFICES ASSUME Init PROVE LinkInv
  OBVIOUS
<1> USE DEF Init
<1>1. ReceiverInv
  BY ReceiverInvInit
<1>2. SenderTypeOK
  <2>1. CounterTypeOK
    BY DEF SenderInit, CounterInit, CounterTypeOK, Resting
  <2>2. JoystickTypeOK
    BY DEF SenderInit, JoystickInit, JoystickTypeOK
  <2>3. 0 \in 0..MaxKeyed /\ -1 \in -1..MaxKeyed /\ Message("other", 0) \in Messages
    BY SenderAssumption DEF Messages, Codes, Message
  <2>4. using_terminal \in BOOLEAN
    BY SenderAssumption DEF SenderInit
  <2>5. /\ sendAt \in SendStages /\ listenAt \in {"recv", "done"}
        /\ ctlMain \in {"wait", "join", "done"}
        /\ readVal \in Int /\ acked_encoder_val \in Int
    BY DEF SenderInit, SendStages
  <2>6. ctlStop \in BOOLEAN
    BY DEF SenderInit
  <2>7. curr_encoder \in 0..MaxKeyed /\ msg_rx \in Messages /\ keyed \in -1..MaxKeyed
    BY <2>3 DEF SenderInit
  <2>8. QED BY <2>1, <2>2, <2>4, <2>5, <2>6, <2>7 DEF SenderTypeOK
<1>3. \A S : <<>> \in Seq(S)
  BY EmptySeq
<1>4. CommandsInv
  BY <1>3 DEF SenderInit, CommandsInv, Typed, Steers, Messages, Codes, Message
<1>5. WindUpInv
  BY DEF SenderInit, ReceiverInit, WindUpInv, Closing
<1>6. StartInv
  BY DEF SenderInit, ReceiverInit, StartInv
<1>7. OrderInv
  BY DEF SenderInit, OrderInv, StopIsLast
<1>8. ForwardInv
  BY <1>3
  DEF SenderInit, CounterInit, Resting, ReceiverInit, MotorInit, NoCall, ForwardInv, Ahead,
      Messages, Codes, Message
<1>9. TypedInv
  BY DEF SenderInit, ReceiverInit, MotorInit, TypedInv, AsksFor, KeyedSpeed, SetsSpeed, Message
<1>10. AckedInv
  BY <1>3 DEF SenderInit, ReceiverInit, MotorInit, AckedInv
<1>11. QED BY <1>1, <1>2, <1>4, <1>5, <1>6, <1>7, <1>8, <1>9, <1>10 DEF LinkInv

LEMMA LinkInvKeeps == LinkInv /\ [Next]_vars => LinkInv'
  BY LinkReceiverKeeps, LinkTypesKeep, CommandsKeep, WindUpKeeps, StartKeeps, OrderKeeps,
     ForwardKeeps, TypedKeeps, AckedKeeps
  DEF LinkInv

\* The remote control as a whole: every step of either program, and every
\* whim of the network, keeps what the theorems below need.
THEOREM LinkInvariant == Spec => []LinkInv
  BY LinkInvInit, LinkInvKeeps, PTL DEF Spec

-----------------------------------------------------------------------------
(***************************************************************************)
(* What a state of the invariant promises.                                 *)
(***************************************************************************)
LEMMA LinkTyped == LinkInv => TypeOK
<1> SUFFICES ASSUME LinkInv PROVE TypeOK
  OBVIOUS
<1>1. MotorTypeOK /\ ServoTypeOK /\ SenderTypeOK
  BY ReceiverInvTypes DEF LinkInv
<1>2. toCar \in Seq(Messages)
  BY DEF LinkInv, ReceiverInv, ChannelsInv
<1>3. toCtl \in Seq({CODE_STOP} \cup 1..99)
  <2>1. CASE mainAt \in Closing
    BY <2>1 DEF LinkInv, ReceiverInv, ChannelsInv
  <2>2. CASE mainAt \notin Closing
    <3>1. toCtl \in Seq(1..99)
      BY <2>2 DEF LinkInv, ReceiverInv, ChannelsInv
    <3>2. QED BY <3>1, SeqOfSubset
  <2>3. QED BY <2>1, <2>2
<1>4. /\ mainAt \in MainStages /\ listener \in ListenerStages /\ command \in Messages
      /\ stop_thread \in BOOLEAN /\ curr_ack_timeout \in 0..MaxAckTimeout
  BY DEF LinkInv, ReceiverInv, StageInv, HandlingInv, FlagsInv
<1>5. QED BY <1>1, <1>2, <1>3, <1>4 DEF TypeOK

LEMMA LinkStops == LinkInv => StopsOnlyOnQuit
  BY DEF LinkInv, WindUpInv, Closing, StopsOnlyOnQuit

LEMMA LinkSteers == LinkInv => SteersInRange
<1> SUFFICES ASSUME LinkInv, NEW i \in DOMAIN toCar, toCar[i].code = "joystick"
             PROVE  toCar[i].val \in -100..100
  BY DEF SteersInRange
<1>1. toCar \in Seq(InFlight)
  BY DEF LinkInv, CommandsInv
<1>2. toCar[i] \in InFlight
  BY <1>1, LenProperties, ElementOfSeq
<1>3. QED BY <1>2 DEF InFlight, Steers

\* A car that is up, and has not been told to stop, has its motor at the speed
\* of its statics.
LEMMA RunsAtItsSpeed ==
    ASSUME LinkInv, OnlyForward, CarUp, Live, CarFirst
    PROVE  motorPwm.duty = MotorDuty(motor.speed, FALSE)
<1>1. mainAt \notin {"join", "tell"} \cup Closing
  BY Hears DEF LinkInv
<1>2. motorAt = "on"
  BY <1>1 DEF CarUp, LinkInv, ReceiverInv, StageInv, MainStages, Closing
<1>3. ~motor.reverse /\ ~reversing.pending
  BY DEF LinkInv, ForwardInv
<1>4. motor.reverse = FALSE
  BY <1>3, Zenon DEF LinkInv, ReceiverInv, MotorInv
<1>5. motorPwm.duty = MotorDuty(motor.speed, motor.reverse)
  BY <1>2, <1>3 DEF Live, LinkInv, ReceiverInv, MotorInv, FlagInv, PulseInv
<1>6. QED BY <1>4, <1>5

LEMMA LinkObeys == ASSUME LinkInv, Orderly PROVE KeysObeyed
<1> SUFFICES ASSUME CarUp, NothingUnderway, using_terminal
             PROVE  motorPwm.duty = MotorDuty(KeyedSpeed, FALSE)
  BY DEF KeysObeyed, KeyedSpeed
<1>1. Live /\ OnlyForward /\ CarFirst /\ toCar = <<>>
  BY DEF NothingUnderway, Live, OnlyForward, Orderly
<1>2. motor.speed = KeyedSpeed
  BY <1>1 DEF LinkInv, TypedInv, NoneSets
<1>3. motorPwm.duty = MotorDuty(motor.speed, FALSE)
  BY <1>1, RunsAtItsSpeed
<1>4. QED BY <1>2, <1>3

LEMMA LinkSkips ==
    ASSUME LinkInv, Orderly, Dialled \subseteq Nat, "encoder" \notin Buttons
    PROVE  SkipMeansUpdated
<1> SUFFICES ASSUME NothingUnderway, sendAt = "enc_send", readVal = acked_encoder_val
             PROVE  motorPwm.duty = MotorDuty(Magnitude(readVal), readVal < 0)
  BY DEF SkipMeansUpdated
<1>1. ~using_terminal
  BY DEF LinkInv, WindUpInv
<1>2. Live /\ OnlyForward /\ CarFirst /\ NoBrake /\ toCtl = <<>> /\ listener # "ack"
  BY <1>1 DEF NothingUnderway, Live, OnlyForward, Orderly, NoBrake
<1>3. CarUp
  BY <1>2 DEF LinkInv, StartInv
<1>4. motor.speed = readVal
  BY <1>2 DEF LinkInv, AckedInv
<1>5. readVal \in Int /\ readVal >= 0
  BY <1>2 DEF LinkInv, SenderTypeOK, ForwardInv
<1>6. Magnitude(readVal) = readVal /\ (readVal < 0) = FALSE
  BY <1>5 DEF Magnitude
<1>7. motorPwm.duty = MotorDuty(motor.speed, FALSE)
  BY <1>2, <1>3, RunsAtItsSpeed
<1>8. QED BY <1>4, <1>6, <1>7

-----------------------------------------------------------------------------
(***************************************************************************)
(* The theorems.                                                           *)
(***************************************************************************)

\* Every variable of both programs, and all that is in flight, has its type:
\* no command carries something the car's drivers would not accept.
THEOREM LinkTypeCorrect == Spec => []TypeOK
  BY LinkInvariant, LinkTyped, PTL

\* Neither side is stopped by a message not meant to stop it (sender.c:180
\* takes an acknowledgement of -1 for CODE_STOP: no other one ever is -1).
THEOREM StopsOnQuitOnly == Spec => []StopsOnlyOnQuit
  BY LinkInvariant, LinkStops, PTL

\* Every steering command in flight is a deflection the stick can have,
\* whatever the ADC reads (joystick.c:123-128).
THEOREM SteersWithinRange == Spec => []SteersInRange
  BY LinkInvariant, LinkSteers, PTL

\* On a network that neither loses nor reorders, nothing follows the stop
\* command: send_udp_cleanup joins the threads before it sends it.
THEOREM StopCommandIsLast ==
    ASSUME InSequence PROVE Spec => []StopIsLast
<1>1. LinkInv => StopIsLast
  BY DEF LinkInv, OrderInv
<1>2. QED BY <1>1, LinkInvariant, PTL

\* With a terminal, on a network that at most duplicates: once everything in
\* flight has been handled the car runs at what was typed last, although the
\* buffer that no statement initialised is sent again and again
\* (sender.c:257).
THEOREM KeysAreObeyed ==
    ASSUME Orderly PROVE Spec => []KeysObeyed
<1>1. LinkInv => KeysObeyed
  BY LinkObeys
<1>2. QED BY <1>1, LinkInvariant, PTL

\* With the knob turned forward only and its button left alone, on a network
\* that at most duplicates: a value that is not sent because it was the one
\* acknowledged (sender.c:133) is the one the car runs at.
THEOREM SkipsAreUpdated ==
    ASSUME Orderly, Dialled \subseteq Nat, "encoder" \notin Buttons
    PROVE  Spec => []SkipMeansUpdated
<1>1. LinkInv => SkipMeansUpdated
  BY LinkSkips
<1>2. QED BY <1>1, LinkInvariant, PTL

-----------------------------------------------------------------------------
(***************************************************************************)
(* The asserts of the drivers.                                             *)
(***************************************************************************)
RunsUntilTold == process = "running" \/ (process = "finished" /\ ctlMain = "done")

\* Who hears a command of a controller that waited has both drivers up.
LEMMA NoAssertFails ==
    ASSUME LinkInv, CarFirst, Receive
    PROVE  process' # "aborted"
<1>1. PICK i \in Deliverable(toCar) : Handle(toCar[i]) /\ Listener("recv")
  BY DEF Receive
<1>2. toCar # <<>> /\ toCar[i].val \in Int
  BY <1>1, DeliveredCommand DEF Deliverable, LinkInv
<1>3. mainAt \in {"poll", "join"}
  <2>1. CarUp
    BY <1>2 DEF LinkInv, StartInv
  <2>2. mainAt \notin {"tell"} \cup Closing
    BY <1>1 DEF Listener, LinkInv, ReceiverInv, StageInv
  <2>3. mainAt \in MainStages
    BY DEF LinkInv, ReceiverInv, StageInv
  <2>4. QED BY <2>1, <2>2, <2>3 DEF CarUp, MainStages, Closing
<1>4. motorAt = "on" /\ servoAt = "on"
  BY <1>3 DEF LinkInv, ReceiverInv, StageInv
<1>5. motor.initialized /\ motor.enabled /\ servo.initialized /\ servo.enabled
  BY <1>4 DEF LinkInv, ReceiverInv, MotorInv, FlagInv, ServoInv, ServoFlagInv
<1>6. process = "running"
  BY <1>1 DEF Listener
<1>7. ASSUME NEW speed \in 0..100, NEW reverse, MotorSetSpeed(speed, reverse)
      PROVE  process' # "aborted"
  BY <1>5, <1>6, <1>7
  DEF MotorSetSpeed, MotorAborts, MotorAsserts, MotorSameSpeed, MotorGoesNeutral, MotorApplies,
      WritesDuty
<1>8. CASE HandleEncoder(toCar[i])
  <2>1. EncoderSpeed(toCar[i].val) \in 0..100
    <3>1. EncoderSpeed(toCar[i].val) \in 1..99
      BY <1>2, EncoderSpeedRange
    <3>2. QED BY <3>1
  <2>2. MotorSetSpeed(EncoderSpeed(toCar[i].val), EncoderReverse(toCar[i].val))
    BY <1>8 DEF HandleEncoder
  <2>3. QED BY <1>7, <2>1, <2>2
<1>9. CASE HandleEncoderPush(toCar[i])
  <2>1. 0 \in 0..100
    OBVIOUS
  <2>2. MotorSetSpeed(0, FALSE)
    BY <1>9 DEF HandleEncoderPush
  <2>3. QED BY <1>7, <2>1, <2>2
<1>10. CASE HandleJoystick(toCar[i])
  <2>. DEFINE angle == SteeringAngle(toCar[i].val)
  <2>1. angle \in 0..180
    BY <1>2, SteeringRange
  <2>2. ServoSetAngle(angle)
    BY <1>10 DEF HandleJoystick
  <2>. HIDE DEF angle
  <2>3. QED
    BY <1>5, <1>6, <2>1, <2>2
    DEF ServoSetAngle, ServoAborts, ServoAsserts, ServoTurns, WritesServoDuty
<1>11. CASE HandleJoystickPush(toCar[i]) \/ HandleOther(toCar[i]) \/ HandleStop(toCar[i])
  BY <1>6, <1>11 DEF HandleJoystickPush, HandleOther, HandleStop
<1>12. QED BY <1>1, <1>8, <1>9, <1>10, <1>11 DEF Handle

LEMMA RunsOn ==
    ASSUME LinkInv, CarFirst, RunsUntilTold, [Next]_vars
    PROVE  RunsUntilTold'
<1>0. ctlMain = "done" => ctlMain' = "done"
  BY MainStaysDone
<1>1. process' # "failed"
  <2>1. ReceiverInv'
    BY LinkReceiverKeeps DEF LinkInv
  <2>2. QED BY <2>1 DEF ReceiverInv, FlagsInv
<1>2. CASE ControllerStep \/ UNCHANGED vars
  BY <1>0, <1>2 DEF ControllerStep, CarSide, vars, RunsUntilTold
<1>3. CASE CarStep
  <2>1. CASE Receive
    <3>1. process' \in ProcessStates \ {"aborted", "failed", "finished"}
      <4>1. PICK i \in Deliverable(toCar) : Handle(toCar[i]) /\ process = "running"
        BY <2>1 DEF Receive, Listener
      <4>2. process' \in {"running", "aborted", "failed"}
        BY <4>1
        DEF Handle, HandleEncoder, HandleEncoderPush, HandleJoystick, HandleJoystickPush,
            HandleOther, HandleStop, MotorSetSpeed, MotorAborts, MotorSameSpeed,
            MotorGoesNeutral, MotorApplies, WritesDuty, ServoSetAngle, ServoAborts, ServoTurns,
            WritesServoDuty
      <4>3. QED BY <1>1, <2>1, <4>2, NoAssertFails DEF ProcessStates
    <3>2. QED BY <3>1 DEF RunsUntilTold, ProcessStates
  <2>2. CASE CleanServo
    BY <1>0, <2>2 DEF CleanServo, Main, LinkInv, WindUpInv, Closing, RunsUntilTold
  <2>3. CASE ~Receive /\ ~CleanServo
    <3>1. process' \in {process, "failed"}
      BY <1>3, <2>3
      DEF CarStep, MainSteps, RecvUdpInit, InitMotor, MotorStarts, BeginInit, ZeroDuty,
          WritePeriod, NeutralDuty, SetEnabled, SwitchOn, InitServo, ServoStarts,
          ServoBeginInit, ServoZeroDuty, ServoWritePeriod, ServoCentreDuty, ServoSetEnabled,
          ServoSwitchOn, Poll, Join, TellSender, CleanMotor, MotorCleanup, ListenerSteps, Bind,
          WakeUp, MotorReverses, Ack, EndLoop, CommandUnheard, WritesDuty, WritesServoDuty
    <3>2. QED BY <1>0, <1>1, <3>1 DEF RunsUntilTold
  <2>4. QED BY <2>1, <2>2, <2>3
<1>4. QED BY <1>2, <1>3, Steps

\* With a controller that is started after the car is up, no assert of a
\* driver fails (motor.c:225-228, servo.c:232-234): the car's program runs until
\* the operator has quit, whatever the network does.
THEOREM CarRunsUntilTold ==
    ASSUME CarFirst PROVE Spec => []RunsUntilTold
<1>1. Init => RunsUntilTold
  BY DEF Init, ReceiverInit, RunsUntilTold
<1>2. LinkInv /\ RunsUntilTold /\ [Next]_vars => RunsUntilTold'
  BY RunsOn
<1>3. QED BY <1>1, <1>2, LinkInvariant, PTL DEF Spec
==============================================================================
