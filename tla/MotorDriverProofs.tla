--------------------------- MODULE MotorDriverProofs ---------------------------
(***************************************************************************)
(* The motor driver's promises for every set of speeds and increments its  *)
(* callers may pass, and every content an earlier process may have left in *)
(* the channel's files.                                                    *)
(***************************************************************************)
EXTENDS MotorDriver, MotorProofs

DriverInv == MotorInv /\ process \in ProcessStates \ {"failed"}

LEMMA DriverInvInit == Init => DriverInv
  BY MotorInvInit DEF Init, DriverInv, ProcessStates

\* One step per action; the driver's lemmas do the work.
LEMMA DriverInvNext == DriverInv /\ [Next]_vars => DriverInv'
<1> SUFFICES ASSUME DriverInv, [Next]_vars
             PROVE  DriverInv'
  OBVIOUS
<1>1. CASE MotorStarts
  BY <1>1, MotorStartsKeeps DEF DriverInv
<1>2. CASE Stop
  BY <1>2, MotorCleanupKeeps DEF DriverInv, Stop, MotorCleanup
<1>3. ASSUME NEW speed \in Speeds, NEW reverse \in BOOLEAN, SetSpeed(speed, reverse)
      PROVE  DriverInv'
  <2>1. speed \in Int
    BY ArgumentsAssumption
  <2>2. QED
    BY <1>3, <2>1, MotorSetSpeedKeeps DEF DriverInv, SetSpeed, CallerFree, ProcessStates
<1>4. ASSUME NEW delta \in Increments, AddSpeed(delta)
      PROVE  DriverInv'
  <2>1. AddedSpeed(delta) \in Int /\ motor.reverse \in BOOLEAN
    BY ArgumentsAssumption DEF AddedSpeed, DriverInv, MotorInv
  <2>2. QED
    BY <1>4, <2>1, MotorSetSpeedKeeps
    DEF DriverInv, AddSpeed, CallerFree, MotorAddSpeed, ProcessStates
<1>5. CASE WakeUp
  BY <1>5, MotorReversesKeeps DEF DriverInv, WakeUp
<1>6. CASE UNCHANGED vars
  BY <1>6
  DEF vars, motorVars, DriverInv, MotorInv, ChannelInv, FlagInv, PulseInv
<1>7. QED BY <1>1, <1>2, <1>3, <1>4, <1>5, <1>6 DEF Next

LEMMA DriverInvariant == Spec => []DriverInv
  BY DriverInvInit, DriverInvNext, PTL DEF Spec

-----------------------------------------------------------------------------
\* The driver's variables always have their types (motor.c's asserts keep the
\* speed within 0..100).
THEOREM MotorTypeCorrect == Spec => []MotorTypeOK
<1>1. DriverInv => MotorTypeOK
  BY DEF DriverInv, MotorInv, MotorTypeOK
<1>2. QED BY <1>1, DriverInvariant, PTL

\* The statics current_speed and current_reverse, which decide whether the
\* file is written at all, always agree with the file.
THEOREM DutyAlwaysMatches == Spec => []DutyMatchesState
<1>1. DriverInv => DutyMatchesState
  BY DEF DriverInv, MotorInv, PulseInv, DutyMatchesState
<1>2. QED BY <1>1, DriverInvariant, PTL

\* No write is ever refused by the kernel: set_period's zero duty cycle and
\* set_duty_cycle's early return suffice.
THEOREM NeverFaults == Spec => []NoPwmFault
<1>1. DriverInv => NoPwmFault
  BY DEF DriverInv, NoPwmFault
<1>2. QED BY <1>1, DriverInvariant, PTL

\* Increments are clamped into the range the assert of motor_set_speed checks.
LEMMA AddedSpeedInRange ==
    ASSUME NEW delta \in Int, motor.speed \in 0..100
    PROVE  AddedSpeed(delta) \in 0..100
<1>1. PICK sum \in Int : sum = motor.speed + delta
  OBVIOUS
<1>2. AddedSpeed(delta) = IF sum > 100 THEN 100 ELSE IF sum < 0 THEN 0 ELSE sum
  BY <1>1 DEF AddedSpeed
<1>3. QED BY <1>2, SMTT(30)

\* motor_add_speed never takes the process down once the driver is up.
THEOREM IncrementsNeverAbort == Spec => IncrementsAreSafe
<1>1. ASSUME DriverInv, [Next]_vars, motor.enabled,
             NEW delta \in Increments, AddSpeed(delta)
      PROVE  process' # "aborted"
  <2>1. AddedSpeed(delta) \in 0..100 /\ AddedSpeed(delta) \in Int
    BY <1>1, ArgumentsAssumption, AddedSpeedInRange DEF DriverInv, MotorInv
  <2>2. MotorAsserts(AddedSpeed(delta))
    BY <1>1, <2>1 DEF MotorAsserts, DriverInv, MotorInv, FlagInv
  <2>3. /\ process # "aborted" /\ motor.reverse \in BOOLEAN /\ ~reversing.pending
        /\ MotorSetSpeed(AddedSpeed(delta), motor.reverse)
    BY <1>1 DEF AddSpeed, CallerFree, MotorAddSpeed, DriverInv, MotorInv
  <2>4. QED
    BY <1>1, <2>1, <2>2, <2>3, MotorSetSpeedKeeps DEF DriverInv
<1>2. DriverInv /\ [Next]_vars
        => [motor.enabled /\ (\E delta \in Increments : AddSpeed(delta))
              => process' # "aborted"]_vars
  BY <1>1
<1>3. QED BY <1>2, DriverInvariant, PTL DEF Spec, IncrementsAreSafe

-----------------------------------------------------------------------------
LEMMA DriverInitRefines == Init => Wheels!Init
  BY PulseValues DEF Init, MotorInit, Wheels!Init, Wheels!Pulses, Pulses

\* Every step is one of DriveTrain's, or leaves the wheels alone.
LEMMA DriverStepRefines ==
    DriverInv /\ [Next]_vars =>
        [Wheels!Drive \/ Wheels!ShutDown]_<<Pulse(motorPwm), motorAt = "stopped">>
<1> SUFFICES ASSUME DriverInv, [Next]_vars
             PROVE  [Wheels!Drive \/ Wheels!ShutDown]_<<Pulse(motorPwm), motorAt = "stopped">>
  OBVIOUS
<1>0. ASSUME NoSwing(motorPwm, motorPwm'), motorAt # "stopped", motorAt' # "stopped"
      PROVE  Wheels!Drive
  BY <1>0, PulseValues DEF Wheels!Drive, Wheels!Opposite, Wheels!Pulses, NoSwing, Pulses
<1>1. CASE MotorStarts
  <2>1. motorAt # "stopped" /\ motorAt' # "stopped"
    BY <1>1
    DEF MotorStarts, BeginInit, ZeroDuty, WritePeriod, NeutralDuty, SetEnabled, SwitchOn, MainDoes
  <2>2. QED BY <1>0, <1>1, <2>1, MotorStartsNoSwing DEF DriverInv
<1>2. CASE Stop
  <2>1. Pulse(motorPwm') = "none" /\ motorAt = "on" /\ motorAt' = "stopped"
    BY <1>2, MotorCleanupIsOff DEF Stop, DriverInv, MotorCleanup, MainDoes
  <2>2. QED BY <2>1 DEF Wheels!ShutDown
<1>3. ASSUME CallerFree, NEW speed \in Int, NEW reverse \in BOOLEAN,
             MotorSetSpeed(speed, reverse)
      PROVE  Wheels!Drive
  <2>1. motorAt # "stopped" /\ motorAt' = motorAt
    BY <1>3
    DEF CallerFree, MotorSetSpeed, MotorAborts, MotorSameSpeed, MotorGoesNeutral,
        MotorApplies, motorVars
  <2>2. QED BY <1>0, <1>3, <2>1, MotorSetSpeedNoSwing DEF DriverInv, CallerFree
<1>4. ASSUME NEW speed \in Speeds, NEW reverse \in BOOLEAN, SetSpeed(speed, reverse)
      PROVE  Wheels!Drive
  BY <1>3, <1>4, ArgumentsAssumption DEF SetSpeed
<1>5. ASSUME NEW delta \in Increments, AddSpeed(delta)
      PROVE  Wheels!Drive
  <2>1. AddedSpeed(delta) \in Int /\ motor.reverse \in BOOLEAN
    BY ArgumentsAssumption DEF AddedSpeed, DriverInv, MotorInv
  <2>2. QED BY <1>3, <1>5, <2>1 DEF AddSpeed, MotorAddSpeed
<1>6. CASE WakeUp
  <2>1. motorAt # "stopped" /\ motorAt' = motorAt
    BY <1>6 DEF WakeUp, MotorReverses, DriverInv, MotorInv, FlagInv
  <2>2. QED BY <1>0, <1>6, <2>1, MotorReversesNoSwing DEF DriverInv, WakeUp
<1>7. CASE UNCHANGED vars
  BY <1>7 DEF vars, motorVars
<1>8. QED BY <1>1, <1>2, <1>4, <1>5, <1>6, <1>7 DEF Next

\* The motor driver implements DriveTrain: no direct change of direction, and
\* no pulse after motor_cleanup.
THEOREM DriverRefines == Spec => ImplementsDriveTrain
  BY DriverInitRefines, DriverStepRefines, DriverInvariant, PTL
  DEF Spec, ImplementsDriveTrain, Wheels!Spec
==============================================================================
