------------------------------ MODULE CrashProofs ------------------------------
(***************************************************************************)
(* What the crash detectors keep for every stream, whatever its colours    *)
(* and whatever its clock does.                                            *)
(***************************************************************************)
EXTENDS CrashDetect, TLAPS

CrashTypes ==
    /\ program \in Programs
    /\ now \in Int /\ frame_number \in 0..MaxFrames
    /\ lastReport \in Int /\ reports \in Nat
    /\ prev_avg_color \in -1..255
    /\ moving_sum \in Nat /\ moving_count \in Nat /\ (moving_count = 0 => moving_sum = 0)
    /\ crash_check_mode \in BOOLEAN /\ crash_check_counter \in 0..Consecutive - 1
    /\ slipped \in BOOLEAN /\ inARow \in Nat /\ farInARow \in Nat

\* The cooldown counts from the last message.
CooldownInv == cooldown_end_time = lastReport + Cooldown

\* The frames counted are frames that deviate, one after another, as long as no
\* clock set back lets the warm-up come again while a check is under way.
CountInv ==
    ~slipped /\ crash_check_mode => now > Warmup /\ crash_check_counter <= inARow

\* No far frame goes uncounted.
FarInv ==
    /\ crash_check_mode => farInARow <= crash_check_counter
    /\ ~crash_check_mode => farInARow = 0

CrashInv ==
    /\ CrashTypes /\ CooldownInv
    /\ program = "detection3" => CountInv /\ FarInv

-----------------------------------------------------------------------------
(***************************************************************************)
(* Averages.                                                               *)
(***************************************************************************)

\* A frame that deviates from the average it is part of deviates from the
\* average of those before it.
LEMMA OwnWeight ==
    ASSUME NEW sum \in Nat, NEW count \in Nat, NEW colour \in Nat,
           Changed(sum + colour, count + 1, colour, crash_threshold)
    PROVE  Changed(sum, count, colour, crash_threshold)
<1>1. colour * (count + 1) - (sum + colour) = colour * count - sum
  OBVIOUS
<1>2. crash_threshold * (count + 1) = crash_threshold * count + crash_threshold
  BY DEF crash_threshold
<1>3. colour * count \in Int /\ crash_threshold * count \in Int
  BY DEF crash_threshold
<1>4. QED BY <1>1, <1>2, <1>3 DEF Changed, Magnitude, crash_threshold

\* One that is twice as far off deviates even from the average it is part of.
LEMMA FarEnough ==
    ASSUME NEW sum \in Nat, NEW count \in Nat, NEW colour \in Nat,
           Changed(sum, count, colour, 2 * crash_threshold), count = 0 => sum = 0
    PROVE  /\ Changed(sum, count, colour, crash_threshold)
           /\ Changed(sum + colour, count + 1, colour, crash_threshold)
<1>1. colour * (count + 1) - (sum + colour) = colour * count - sum
  OBVIOUS
<1>2. PICK c \in Int : c = colour * count
  OBVIOUS
<1>3. 40 * count < Magnitude(c - sum)
  BY <1>2 DEF Changed, crash_threshold
<1>4. count # 0
  BY <1>2, <1>3 DEF Magnitude
<1>5. 20 * count + 20 <= 40 * count
  BY <1>4
<1>6. Magnitude(c - sum) > 20 * count /\ Magnitude(c - sum) > 20 * (count + 1)
  BY <1>3, <1>5 DEF Magnitude
<1>7. QED BY <1>1, <1>2, <1>6 DEF Changed, crash_threshold

-----------------------------------------------------------------------------
(***************************************************************************)
(* One frame.                                                              *)
(***************************************************************************)
LEMMA CrashInit == Init => CrashInv
<1>1. Init => CrashTypes
  <2>1. Init => program \in Programs /\ crash_check_mode \in BOOLEAN /\ slipped \in BOOLEAN
    BY Zenon DEF Init
  <2>2. Init => /\ now \in Int /\ cooldown_end_time \in Int /\ lastReport \in Int /\ reports \in Nat
                /\ prev_avg_color \in -1..255 /\ frame_number \in 0..MaxFrames
    BY CrashAssumption DEF Init, Cooldown
  <2>3. Init => /\ moving_sum \in Nat /\ moving_count \in Nat /\ inARow \in Nat /\ farInARow \in Nat
                /\ crash_check_counter \in 0..Consecutive - 1
                /\ (moving_count = 0 => moving_sum = 0)
    BY DEF Init, Consecutive
  <2>4. QED BY <2>1, <2>2, <2>3 DEF CrashTypes
<1>2. Init => CooldownInv
  BY DEF Init, CooldownInv, Cooldown
<1>3. Init => CountInv /\ FarInv
  BY DEF Init, CountInv, FarInv
<1>4. QED BY <1>1, <1>2, <1>3 DEF CrashInv

\* The parts of a frame that do not depend on which case of the average it is.
OfFrame(colour) ==
    /\ colour \in Nat /\ now' \in Int
    /\ ~slipped' => ~slipped /\ ~(now' < now)
    /\ inARow' = RunWith(inARow, colour, crash_threshold)
    /\ farInARow' = IF reports' # reports THEN 0
                    ELSE RunWith(farInARow, colour, 2 * crash_threshold)

LEMMA RunType ==
    ASSUME NEW run \in Nat, NEW colour, NEW threshold
    PROVE  /\ RunWith(run, colour, threshold) \in Nat
           /\ RunWith(run, colour, threshold) \in {0, run + 1}
  BY DEF RunWith

LEMMA AverageTypes ==
    ASSUME CrashTypes, NEW colour, OfFrame(colour), Average(colour)
    PROVE  /\ moving_sum' \in Nat /\ moving_count' \in Nat
           /\ moving_count' = 0 => moving_sum' = 0
           /\ crash_check_mode' \in BOOLEAN /\ crash_check_counter' \in 0..Consecutive - 1
           /\ lastReport' \in Int /\ reports' \in Nat
<1>1. crash_check_mode' \in BOOLEAN
  BY DEF Average, WarmUp, CoolDown, Watch, Count, Cancel, checkVars, CrashTypes
<1>2. /\ moving_sum \in Nat /\ moving_count \in Nat /\ (moving_count = 0 => moving_sum = 0)
      /\ crash_check_counter \in 0..4 /\ lastReport \in Int /\ reports \in Nat
      /\ colour \in Nat /\ now' \in Int
  BY DEF CrashTypes, OfFrame, Consecutive
<1>3. CASE WarmUp(colour) \/ CoolDown(colour)
  BY <1>1, <1>2, <1>3 DEF WarmUp, CoolDown, IntoAverage, checkVars, reportVars, Consecutive
<1>4. CASE Watch(colour) \/ Cancel(colour)
  <2>1. moving_sum' = moving_sum + colour /\ moving_count' = moving_count + 1
          /\ UNCHANGED <<lastReport, reports>>
    BY <1>4 DEF Watch, Cancel, IntoAverage, reportVars
  <2>2. crash_check_counter' \in {0, 1, crash_check_counter}
    BY <1>4 DEF Watch, Cancel, checkVars
  <2>3. QED BY <1>1, <1>2, <2>1, <2>2 DEF Consecutive
<1>5. CASE Count(colour)
  <2>1. CASE Enough(crash_check_counter + 1)
    <3>1. lastReport' = now' /\ reports' = reports + 1 /\ moving_sum' = colour
            /\ moving_count' = 1 /\ crash_check_counter' = 0
      BY <1>5, <2>1 DEF Count, Report
    <3>2. QED BY <1>1, <1>2, <3>1 DEF Consecutive
  <2>2. CASE ~Enough(crash_check_counter + 1)
    <3>1. crash_check_counter' = crash_check_counter + 1
            /\ UNCHANGED <<moving_sum, moving_count, lastReport, reports>>
      BY <1>5, <2>2 DEF Count, averageVars, reportVars
    <3>2. crash_check_counter + 1 < 5
      BY <1>2, <2>2 DEF Enough, Consecutive
    <3>3. QED BY <1>1, <1>2, <3>1, <3>2 DEF Consecutive
  <2>3. QED BY <2>1, <2>2
<1>6. QED BY <1>3, <1>4, <1>5 DEF Average

LEMMA AverageCounts ==
    ASSUME CrashTypes, CountInv, NEW colour, OfFrame(colour), Average(colour)
    PROVE  CountInv'
<1> SUFFICES ASSUME ~slipped', crash_check_mode'
             PROVE  now' > Warmup /\ crash_check_counter' <= inARow'
  BY DEF CountInv
<1>1. ~slipped /\ now' >= now /\ now \in Int /\ now' \in Int
  BY DEF OfFrame, CrashTypes
<1>2. CASE WarmUp(colour)
  <2>1. crash_check_mode /\ now' <= Warmup
    BY <1>2 DEF WarmUp, WarmingUp, checkVars
  <2>2. QED BY <1>1, <2>1 DEF CountInv, Warmup
<1>3. CASE Watch(colour)
  <2>1. Detecting /\ Changed(moving_sum + colour, moving_count + 1, colour, crash_threshold)
          /\ crash_check_counter' = 1
    BY <1>3 DEF Watch, IntoAverage, checkVars
  <2>2. Changed(moving_sum, moving_count, colour, crash_threshold)
    BY <2>1, OwnWeight DEF OfFrame, CrashTypes
  <2>3. inARow' = inARow + 1
    BY <2>1, <2>2 DEF OfFrame, RunWith
  <2>4. now' > Warmup
    BY <1>1, <2>1 DEF Detecting, WarmingUp, Warmup
  <2>5. QED BY <2>1, <2>3, <2>4 DEF CrashTypes
<1>4. CASE Count(colour)
  <2>1. Detecting /\ crash_check_mode
          /\ Changed(moving_sum, moving_count, colour, crash_threshold)
          /\ crash_check_counter' = crash_check_counter + 1
    BY <1>4 DEF Count
  <2>2. inARow' = inARow + 1
    BY <2>1 DEF OfFrame, RunWith
  <2>3. now' > Warmup
    BY <1>1, <2>1 DEF Detecting, WarmingUp, Warmup
  <2>4. crash_check_counter <= inARow
    BY <1>1, <2>1 DEF CountInv
  <2>5. QED BY <2>1, <2>2, <2>3, <2>4 DEF CrashTypes, Consecutive
<1>5. CASE CoolDown(colour) \/ Cancel(colour)
  BY <1>5 DEF CoolDown, Cancel
<1>6. QED BY <1>2, <1>3, <1>4, <1>5 DEF Average

LEMMA AverageFar ==
    ASSUME CrashTypes, FarInv, NEW colour, OfFrame(colour), Average(colour)
    PROVE  FarInv'
<1> DEFINE far == Changed(moving_sum, moving_count, colour, 2 * crash_threshold)
<1>1. CASE WarmUp(colour) \/ CoolDown(colour)
  <2>1. ~Detecting /\ reports' = reports
    BY <1>1 DEF WarmUp, CoolDown, Detecting, reportVars
  <2>2. farInARow' = 0
    BY <2>1 DEF OfFrame, RunWith
  <2>3. crash_check_counter' \in Nat
    BY AverageTypes DEF Consecutive
  <2>4. QED BY <2>2, <2>3 DEF FarInv
<1>2. CASE Watch(colour)
  <2>1. reports' = reports /\ farInARow = 0
    BY <1>2 DEF Watch, reportVars, FarInv
  <2>2. CASE far
    <3>1. Changed(moving_sum + colour, moving_count + 1, colour, crash_threshold)
      BY <2>2, FarEnough DEF OfFrame, CrashTypes
    <3>2. crash_check_mode' /\ crash_check_counter' = 1
      BY <1>2, <3>1 DEF Watch, IntoAverage
    <3>3. farInARow' \in {0, 1}
      BY <2>1, RunType DEF OfFrame
    <3>4. QED BY <3>2, <3>3 DEF FarInv
  <2>3. CASE ~far
    <3>1. farInARow' = 0
      BY <2>1, <2>3 DEF OfFrame, RunWith
    <3>2. crash_check_counter' \in Nat
      BY AverageTypes DEF Consecutive
    <3>3. QED BY <3>1, <3>2 DEF FarInv
  <2>4. QED BY <2>2, <2>3
<1>3. CASE Count(colour)
  <2>1. CASE Enough(crash_check_counter + 1)
    <3>1. reports' # reports /\ ~crash_check_mode'
      BY <1>3, <2>1 DEF Count, Report, CrashTypes
    <3>2. QED BY <3>1 DEF OfFrame, FarInv
  <2>2. CASE ~Enough(crash_check_counter + 1)
    <3>1. reports' = reports /\ crash_check_mode' = crash_check_mode /\ crash_check_mode
            /\ crash_check_counter' = crash_check_counter + 1
      BY <1>3, <2>2 DEF Count, reportVars
    <3>2. farInARow' \in {0, farInARow + 1}
      BY <3>1, RunType DEF OfFrame, CrashTypes
    <3>3. farInARow <= crash_check_counter
      BY <3>1 DEF FarInv
    <3>4. QED BY <3>1, <3>2, <3>3 DEF FarInv, CrashTypes, Consecutive
  <2>3. QED BY <2>1, <2>2
<1>4. CASE Cancel(colour)
  <2>1. ~Changed(moving_sum, moving_count, colour, crash_threshold) /\ reports' = reports
          /\ ~crash_check_mode'
    BY <1>4 DEF Cancel, reportVars
  <2>2. ~far
    BY <2>1, FarEnough DEF OfFrame, CrashTypes
  <2>3. farInARow' = 0
    BY <2>1, <2>2 DEF OfFrame, RunWith
  <2>4. QED BY <2>1, <2>3 DEF FarInv
<1>5. QED BY <1>1, <1>2, <1>3, <1>4 DEF Average

LEMMA FrameKeeps == ASSUME CrashInv, Frame PROVE CrashInv'
<1>1. PICK colour \in Colours :
          /\ Compare(colour) \/ Average(colour)
          /\ inARow' = RunWith(inARow, colour, crash_threshold)
          /\ farInARow' = IF reports' # reports THEN 0
                          ELSE RunWith(farInARow, colour, 2 * crash_threshold)
  BY DEF Frame
<1>2. colour \in 0..255 /\ now' \in Int
  BY CrashAssumption DEF Frame
<1>3. OfFrame(colour)
  <2>1. ~slipped' => ~slipped /\ ~(now' < now)
    BY Zenon DEF Frame
  <2>2. QED BY <1>1, <1>2, <2>1 DEF OfFrame
<1>4. frame_number' \in 0..MaxFrames /\ program' = program
  BY CrashAssumption DEF Frame, CrashInv, CrashTypes
<1>5. slipped' \in BOOLEAN /\ inARow' \in Nat /\ farInARow' \in Nat
  <2>1. slipped' \in BOOLEAN
    BY Zenon DEF Frame
  <2>2. inARow \in Nat /\ farInARow \in Nat
    BY DEF CrashInv, CrashTypes
  <2>3. RunWith(inARow, colour, crash_threshold) \in Nat
    BY <2>2, RunType
  <2>4. RunWith(farInARow, colour, 2 * crash_threshold) \in Nat
    BY <2>2, RunType
  <2>5. QED BY <1>1, <2>1, <2>3, <2>4
<1>6. CASE Compare(colour)
  <2>1. program = "detection2" /\ UNCHANGED <<averageVars, checkVars>> /\ prev_avg_color' = colour
    BY <1>6 DEF Compare
  <2>2. CooldownInv' /\ lastReport' \in Int /\ reports' \in Nat
    BY <1>2, <1>6 DEF Compare, Report, reportVars, CooldownInv, CrashInv, CrashTypes
  <2>3. CrashTypes'
    BY <1>2, <1>4, <1>5, <2>1, <2>2 DEF CrashInv, CrashTypes, averageVars, checkVars
  <2>4. QED BY <1>4, <2>1, <2>2, <2>3 DEF CrashInv
<1>7. CASE Average(colour)
  <2>1. CrashTypes'
    BY <1>2, <1>3, <1>4, <1>5, <1>7, AverageTypes DEF CrashInv, CrashTypes, Average
  <2>2. CooldownInv'
    BY <1>7 DEF Average, WarmUp, CoolDown, Watch, Count, Cancel, Report, reportVars, CooldownInv,
                CrashInv
  <2>3. CountInv' /\ FarInv'
    BY <1>3, <1>7, AverageCounts, AverageFar DEF CrashInv, Average
  <2>4. QED BY <2>1, <2>2, <2>3 DEF CrashInv
<1>8. QED BY <1>1, <1>6, <1>7

LEMMA CrashInvariant == Spec => []CrashInv
<1>1. CrashInv /\ [Next]_vars => CrashInv'
  <2>1. ASSUME CrashInv, UNCHANGED vars PROVE CrashInv'
    BY <2>1 DEF vars, averageVars, checkVars, reportVars, CrashInv, CrashTypes, CooldownInv,
                CountInv, FarInv
  <2>2. QED BY <2>1, FrameKeeps DEF Next
<1>2. QED BY <1>1, CrashInit, PTL DEF Spec

-----------------------------------------------------------------------------
\* The detectors' variables keep their types; the count of a check under way
\* stays below the five that end it.
THEOREM CrashTypeCorrect == Spec => []TypeOK
<1>1. CrashInv => TypeOK
  BY DEF CrashInv, CrashTypes, CooldownInv, TypeOK, Cooldown
<1>2. QED BY <1>1, CrashInvariant, PTL

\* Five frames in a row that are far from the average do not go unreported,
\* whatever the average was made of.
THEOREM FarFramesAreReported == Spec => []FarFramesReport
<1>1. CrashInv => FarFramesReport
  BY DEF CrashInv, CrashTypes, FarInv, FarFramesReport, Consecutive
<1>2. QED BY <1>1, CrashInvariant, PTL

\* The average detector reports five frames in a row or nothing.
THEOREM ReportsAfterFive == Spec => FiveInARow
<1>1. CrashInv /\ [Next]_vars
        => [reports' # reports /\ program = "detection3" /\ ~slipped'
              => inARow' >= Consecutive]_vars
  <2> SUFFICES ASSUME CrashInv, Frame, reports' # reports, program = "detection3", ~slipped'
               PROVE  inARow' >= Consecutive
    BY DEF Next
  <2>1. PICK colour \in Colours :
            Average(colour) /\ inARow' = RunWith(inARow, colour, crash_threshold)
    BY DEF Frame, Compare
  <2>2. Count(colour) /\ Enough(crash_check_counter + 1)
    BY <2>1 DEF Average, WarmUp, CoolDown, Watch, Count, Cancel, reportVars
  <2>3. crash_check_counter <= inARow
    BY <2>2 DEF Count, Frame, CrashInv, CountInv
  <2>4. inARow' = inARow + 1
    BY <2>1, <2>2 DEF Count, RunWith
  <2>5. QED BY <2>2, <2>3, <2>4 DEF Enough, Consecutive, CrashInv, CrashTypes
<1>2. QED BY <1>1, CrashInvariant, PTL DEF Spec, FiveInARow

\* Both detectors send their messages as CrashReports says, by the clock they
\* read, whichever way that clock is set.
THEOREM DetectorsRefine == Spec => ImplementsCrashReports
<1>1. Init => Messages!Init
  BY DEF Init, Messages!Init, Cooldown
<1>2. CrashInv /\ [Next]_vars => [Messages!Next]_Messages!reportVars
  <2>1. ASSUME UNCHANGED vars PROVE UNCHANGED Messages!reportVars
    BY <2>1 DEF vars, reportVars, Messages!reportVars
  <2>2. ASSUME CrashInv, Frame PROVE Messages!Next
    <3>1. now' \in Int
      BY <2>2, CrashAssumption DEF Frame
    <3>2. PICK colour \in Colours : Compare(colour) \/ Average(colour)
      BY <2>2 DEF Frame
    <3>3. UNCHANGED <<lastReport, reports>> \/ (Detecting /\ Report)
      BY <3>2 DEF Compare, Average, WarmUp, CoolDown, Watch, Count, Cancel, reportVars
    <3>4. CASE UNCHANGED <<lastReport, reports>>
      BY <3>1, <3>4 DEF Messages!Next, Messages!NoReport
    <3>5. CASE Detecting /\ Report
      <4>1. cooldown_end_time = lastReport + Cooldown /\ lastReport \in Int
        BY <2>2 DEF CrashInv, CooldownInv, CrashTypes
      <4>2. now' > Warmup /\ now' >= lastReport + Cooldown
        BY <3>1, <3>5, <4>1 DEF Detecting, WarmingUp, CoolingDown, Warmup, Cooldown
      <4>3. QED BY <3>1, <3>5, <4>2 DEF Report, Messages!Next, Messages!Report
    <3>6. QED BY <3>3, <3>4, <3>5
  <2>3. QED BY <2>1, <2>2 DEF Next
<1>3. QED BY <1>1, <1>2, CrashInvariant, PTL DEF Spec, ImplementsCrashReports, Messages!Spec
==============================================================================
