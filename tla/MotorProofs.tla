----------------------------- MODULE MotorProofs -----------------------------
(***************************************************************************)
(* Lemmas about the motor driver, for every speed and every file content:  *)
(* an invariant that each operation keeps, whoever calls it.  The theorems *)
(* about the driver alone and about the car rest on them.                  *)
(***************************************************************************)
EXTENDS Motor, TLAPS

\* The channel is well formed at all times, and during start-up it is where
\* the previous statement left it.
ChannelInv ==
    /\ motorPwm.duty <= motorPwm.period
    /\ motorAt = "period" => motorPwm.duty = 0
    /\ motorAt = "neutral" => motorPwm.duty = 0 /\ motorPwm.period = Period
    /\ motorAt \in {"flag", "switch", "on"} => motorPwm.period = Period
    /\ motorAt = "flag" => motorPwm.duty = Neutral
    /\ motorAt = "stopped" => motorPwm.enable = 0

\* The flags follow the main thread; before the first call the statics have
\* their initial values.
FlagInv ==
    /\ motor.enabled <=> motorAt \in {"switch", "on"}
    /\ motor.initialized <=> motorAt \notin {"off", "stopped"}
    /\ motorAt \notin {"switch", "on", "stopped"} => motor.speed = 0 /\ motor.reverse = FALSE
    /\ reversing.pending => motorAt \in {"switch", "on"}
    /\ ~reversing.pending => reversing = NoCall

\* A pending call is one that changes the direction; the wheels are neutral.
PulseInv ==
    motor.enabled =>
        motorPwm.duty = IF reversing.pending THEN Neutral
                        ELSE MotorDuty(motor.speed, motor.reverse)

MotorInv == 
    /\ motor \in [initialized : BOOLEAN, enabled : BOOLEAN,
                  speed : 0..100, reverse : BOOLEAN]
    /\ motorPwm \in Channel
    /\ motorAt \in MotorStages
    /\ reversing \in [speed : 0..100, reverse : BOOLEAN, pending : BOOLEAN]
    /\ ChannelInv
    /\ FlagInv
    /\ PulseInv

-----------------------------------------------------------------------------
\* Every pulse the driver asks for is shorter than the period, and which side
\* of neutral it is on is its direction.
LEMMA MotorDutyFacts ==
    ASSUME NEW speed \in 0..100, NEW reverse \in BOOLEAN
    PROVE  /\ MotorDuty(speed, reverse) \in Nat
           /\ MotorDuty(speed, reverse) <= Period
           /\ MotorDuty(speed, reverse) > 0
           /\ reverse => MotorDuty(speed, reverse) <= Neutral
           /\ ~reverse => MotorDuty(speed, reverse) >= Neutral
           /\ MotorDuty(0, FALSE) = Neutral
  BY DEF MotorDuty, Period, HzToPeriod, UsToNs, Neutral, NEUTRAL_US, FORWARD_US, BACKWARD_US

LEMMA NeutralFacts == Neutral \in Nat /\ Neutral <= Period /\ Neutral > 0 /\ Period \in Nat
  BY DEF Period, HzToPeriod, UsToNs, Neutral, NEUTRAL_US

\* set_duty_cycle with a value below the period always succeeds.
LEMMA WriteSucceeds ==
    ASSUME NEW ch \in Channel, NEW d \in Nat, d <= ch.period
    PROVE  /\ ~DutyWriteFails(ch, d)
           /\ WithDuty(ch, d) \in Channel
           /\ WithDuty(ch, d) = [ch EXCEPT !.duty = d]
  BY DEF Channel, DutyWriteFails, DutyRefused, WithDuty

LEMMA MotorInvInit == MotorInit => MotorInv
  BY StaleChannelsAssumption, MotorDutyFacts
  DEF MotorInit, MotorInv, ChannelInv, FlagInv, PulseInv, NoCall, MotorStages, Channel

\* motor_init, statement by statement: no write is refused.
LEMMA MotorStartsKeeps ==
    ASSUME MotorInv, MotorStarts
    PROVE  MotorInv' /\ process' = process
<1> USE DEF MotorInv, ChannelInv, FlagInv, PulseInv, MotorStages, Channel, MainDoes
<1>1. CASE BeginInit
  BY <1>1 DEF BeginInit
<1>2. CASE ZeroDuty
  <2>1. ~DutyWriteFails(motorPwm, 0) /\ WithDuty(motorPwm, 0) = [motorPwm EXCEPT !.duty = 0]
    BY WriteSucceeds
  <2>2. QED BY <1>2, <2>1 DEF ZeroDuty, WritesDuty
<1>3. CASE WritePeriod
  <2>1. ~PeriodRefused(motorPwm, Period)
    BY <1>3, NeutralFacts DEF WritePeriod, PeriodRefused
  <2>2. QED BY <1>3, <2>1, NeutralFacts DEF WritePeriod, WithPeriod
<1>4. CASE NeutralDuty
  <2>1. /\ ~DutyWriteFails(motorPwm, Neutral)
        /\ WithDuty(motorPwm, Neutral) = [motorPwm EXCEPT !.duty = Neutral]
    BY <1>4, WriteSucceeds, NeutralFacts DEF NeutralDuty
  <2>2. QED BY <1>4, <2>1, NeutralFacts DEF NeutralDuty, WritesDuty
<1>5. CASE SetEnabled
  <2>1. MotorDuty(0, FALSE) = Neutral
    BY MotorDutyFacts
  <2>2. QED BY <1>5, <2>1 DEF SetEnabled
<1>6. CASE SwitchOn
  BY <1>6 DEF SwitchOn
<1>7. QED BY <1>1, <1>2, <1>3, <1>4, <1>5, <1>6 DEF MotorStarts

\* motor_cleanup, with no call in flight.
LEMMA MotorCleanupKeeps ==
    ASSUME MotorInv, MotorCleanup, ~reversing.pending
    PROVE  MotorInv'
  BY DEF MotorInv, ChannelInv, FlagInv, PulseInv, MotorStages, Channel, MainDoes, MotorCleanup

\* motor_set_speed up to its sleep, for any arguments and at any stage.
LEMMA MotorSetSpeedKeeps ==
    ASSUME MotorInv, ~reversing.pending,
           NEW speed \in Int, NEW reverse \in BOOLEAN, MotorSetSpeed(speed, reverse)
    PROVE  /\ MotorInv'
           /\ process' \in {process, "aborted"}
           /\ process' = "aborted" => process = "aborted" \/ ~MotorAsserts(speed)
<1>1. CASE MotorAborts(speed)
  BY <1>1 DEF MotorAborts, motorVars, MotorInv, ChannelInv, FlagInv, PulseInv
<1>2. CASE MotorSameSpeed(speed)
  BY <1>2 DEF MotorSameSpeed, motorVars, MotorInv, ChannelInv, FlagInv, PulseInv
<1>3. CASE MotorGoesNeutral(speed, reverse)
  <2>1. /\ ~DutyWriteFails(motorPwm, Neutral)
        /\ WithDuty(motorPwm, Neutral) = [motorPwm EXCEPT !.duty = Neutral]
    BY <1>3, WriteSucceeds, NeutralFacts
    DEF MotorGoesNeutral, MotorAsserts, MotorInv, FlagInv, ChannelInv
  <2>2. QED
    BY <1>3, <2>1, NeutralFacts
    DEF MotorGoesNeutral, MotorAsserts, WritesDuty, Call, Channel,
        MotorInv, ChannelInv, FlagInv, PulseInv, MotorStages
<1>4. CASE MotorApplies(speed, reverse)
  <2>. DEFINE d == MotorDuty(speed, reverse)
  <2>1. d \in Nat /\ d <= Period
    BY <1>4, MotorDutyFacts DEF MotorApplies, MotorAsserts
  <2>2. motorPwm.period = Period
    BY <1>4 DEF MotorApplies, MotorAsserts, MotorInv, FlagInv, ChannelInv
  <2>3. ~DutyWriteFails(motorPwm, d) /\ WithDuty(motorPwm, d) = [motorPwm EXCEPT !.duty = d]
    BY <2>1, <2>2, WriteSucceeds DEF MotorInv
  <2>4. motorPwm' = [motorPwm EXCEPT !.duty = d] /\ process' = process
    BY <1>4, <2>3 DEF MotorApplies, WritesDuty
  <2>. HIDE DEF d
  <2>5. motorPwm' \in Channel /\ motorPwm'.duty = d /\ motorPwm'.period = Period
    BY <2>1, <2>2, <2>4 DEF MotorInv, Channel
  <2>6. PulseInv'
    BY <1>4, <2>5 DEF d, MotorApplies, MotorInv, PulseInv
  <2>7. QED
    BY <1>4, <2>1, <2>4, <2>5, <2>6
    DEF MotorApplies, MotorAsserts, MotorInv, ChannelInv, FlagInv, MotorStages
<1>5. QED BY <1>1, <1>2, <1>3, <1>4 DEF MotorSetSpeed

\* The rest of a call that reverses the car.
LEMMA MotorReversesKeeps ==
    ASSUME MotorInv, MotorReverses
    PROVE  MotorInv' /\ process' = process
<1>. DEFINE d == MotorDuty(reversing.speed, reversing.reverse)
<1>1. d \in Nat /\ d <= Period
  BY MotorDutyFacts DEF MotorInv
<1>2. motorPwm.period = Period
  BY DEF MotorReverses, MotorInv, FlagInv, ChannelInv
<1>3. ~DutyWriteFails(motorPwm, d) /\ WithDuty(motorPwm, d) = [motorPwm EXCEPT !.duty = d]
  BY <1>1, <1>2, WriteSucceeds DEF MotorInv
<1>4. motorPwm' = [motorPwm EXCEPT !.duty = d] /\ process' = process
  BY <1>3 DEF MotorReverses, WritesDuty
<1>. HIDE DEF d
<1>5. motorPwm' \in Channel /\ motorPwm'.duty = d /\ motorPwm'.period = Period
  BY <1>1, <1>2, <1>4 DEF MotorInv, Channel
<1>6. PulseInv'
  BY <1>5 DEF d, MotorReverses, MotorInv, PulseInv, NoCall
<1>7. motor' \in [initialized : BOOLEAN, enabled : BOOLEAN, speed : 0..100, reverse : BOOLEAN]
  BY DEF MotorReverses, MotorInv
<1>8. /\ motor'.enabled = motor.enabled /\ motor'.initialized = motor.initialized
      /\ reversing' = NoCall /\ motorAt' = motorAt
      /\ motorAt \in {"switch", "on"}
  BY DEF MotorReverses, MotorInv, FlagInv
<1>9. reversing' \in [speed : 0..100, reverse : BOOLEAN, pending : BOOLEAN] /\ ~reversing'.pending
  BY <1>8 DEF NoCall
<1>10. ChannelInv' /\ FlagInv'
  BY <1>1, <1>5, <1>8, <1>9 DEF ChannelInv, FlagInv, MotorInv
<1>11. QED
  BY <1>4, <1>5, <1>6, <1>7, <1>8, <1>9, <1>10 DEF MotorInv

-----------------------------------------------------------------------------
\* The wheels never see a pulse to one side directly after one to the other.
Pulses == {"none", "neutral", "forward", "backward"}
NoSwing(ch, next) == {Pulse(ch), Pulse(next)} # {"forward", "backward"}

LEMMA PulseValues == ASSUME NEW ch PROVE Pulse(ch) \in Pulses
  BY DEF Pulse, Pulses

\* A channel on or next to a rest is never part of a swing.
LEMMA RestNoSwing ==
    ASSUME NEW ch, NEW next,
           Pulse(ch) \in {"none", "neutral"} \/ Pulse(next) \in {"none", "neutral"}
           \/ Pulse(ch) = Pulse(next)
    PROVE  NoSwing(ch, next)
  BY DEF NoSwing

\* The side of neutral is the direction.
LEMMA DirectionOfDuty ==
    ASSUME NEW ch \in Channel, NEW speed \in 0..100, NEW reverse \in BOOLEAN,
           ch.duty = MotorDuty(speed, reverse)
    PROVE  /\ reverse => Pulse(ch) # "forward"
           /\ ~reverse => Pulse(ch) # "backward"
<1>1. /\ reverse => ch.duty <= Neutral
      /\ ~reverse => ch.duty >= Neutral
  BY MotorDutyFacts
<1>2. ch.duty \in Nat /\ Neutral \in Nat
  BY NeutralFacts DEF Channel
<1>3. QED BY <1>1, <1>2 DEF Pulse

LEMMA MotorStartsNoSwing ==
    ASSUME MotorInv, MotorStarts
    PROVE  NoSwing(motorPwm, motorPwm')
<1>1. CASE BeginInit \/ SetEnabled
  BY <1>1, RestNoSwing DEF BeginInit, SetEnabled
<1>2. CASE ZeroDuty
  <2>1. WithDuty(motorPwm, 0) = [motorPwm EXCEPT !.duty = 0]
    BY WriteSucceeds DEF MotorInv, Channel
  <2>2. Pulse(motorPwm') = "none"
    BY <1>2, <2>1 DEF ZeroDuty, WritesDuty, Pulse, MotorInv, Channel
  <2>3. QED BY <2>2, RestNoSwing
<1>3. CASE WritePeriod \/ NeutralDuty
  <2>1. Pulse(motorPwm) = "none"
    BY <1>3 DEF WritePeriod, NeutralDuty, MainDoes, MotorInv, ChannelInv, Pulse
  <2>2. QED BY <2>1, RestNoSwing
<1>4. CASE SwitchOn
  <2>1. CASE motorPwm.enable = 0
    BY <2>1, RestNoSwing DEF Pulse
  <2>2. CASE motorPwm.enable = 1
    BY <1>4, <2>2, RestNoSwing DEF SwitchOn, Pulse, MotorInv, Channel
  <2>3. QED BY <2>1, <2>2 DEF MotorInv, Channel
<1>5. QED BY <1>1, <1>2, <1>3, <1>4 DEF MotorStarts

LEMMA MotorSetSpeedNoSwing ==
    ASSUME MotorInv, ~reversing.pending,
           NEW speed \in Int, NEW reverse \in BOOLEAN, MotorSetSpeed(speed, reverse)
    PROVE  NoSwing(motorPwm, motorPwm')
<1>0. MotorInv'
  BY MotorSetSpeedKeeps
<1>1. CASE MotorAborts(speed) \/ MotorSameSpeed(speed)
  BY <1>1, RestNoSwing DEF MotorAborts, MotorSameSpeed, motorVars
<1>2. CASE MotorGoesNeutral(speed, reverse)
  <2>1. motorPwm'.duty = Neutral
    BY <1>0, <1>2
    DEF MotorGoesNeutral, MotorAsserts, MotorInv, PulseInv, Call
  <2>2. Pulse(motorPwm') \in {"none", "neutral"}
    BY <2>1 DEF Pulse
  <2>3. QED BY <2>2, RestNoSwing
<1>3. CASE MotorApplies(speed, reverse)
  <2>1. /\ motorPwm.duty = MotorDuty(motor.speed, reverse)
        /\ motorPwm'.duty = MotorDuty(speed, reverse)
        /\ motor.speed \in 0..100 /\ speed \in 0..100
    BY <1>0, <1>3 DEF MotorApplies, MotorAsserts, MotorInv, PulseInv
  <2>2. motorPwm \in Channel /\ motorPwm' \in Channel
    BY <1>0 DEF MotorInv
  <2>3. /\ reverse => Pulse(motorPwm) # "forward" /\ Pulse(motorPwm') # "forward"
        /\ ~reverse => Pulse(motorPwm) # "backward" /\ Pulse(motorPwm') # "backward"
    BY <2>1, <2>2, DirectionOfDuty
  <2>4. QED BY <2>3 DEF NoSwing
<1>4. QED BY <1>1, <1>2, <1>3 DEF MotorSetSpeed

LEMMA MotorReversesNoSwing ==
    ASSUME MotorInv, MotorReverses
    PROVE  NoSwing(motorPwm, motorPwm')
<1>1. motorPwm.duty = Neutral
  BY DEF MotorReverses, MotorInv, FlagInv, PulseInv
<1>2. Pulse(motorPwm) \in {"none", "neutral"}
  BY <1>1 DEF Pulse
<1>3. QED BY <1>2, RestNoSwing

LEMMA MotorCleanupIsOff ==
    ASSUME MotorInv, MotorCleanup
    PROVE  Pulse(motorPwm') = "none"
  BY DEF MotorInv, Channel, MotorCleanup, Pulse
==============================================================================
