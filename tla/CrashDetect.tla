------------------------------ MODULE CrashDetect ------------------------------
(***************************************************************************)
(* The two crash detectors of the car's camera, of which the operator      *)
(* starts one: webcam/crash-detection2.py compares each frame with the one *)
(* before it, crash-detection3.py with a moving average.  A frame is the   *)
(* average colour of its lower half, here one channel of it.  Frames that  *)
(* cannot be decoded are skipped and change nothing.  Both read the wall   *)
(* clock once per frame, and the clock may be set.                         *)
(***************************************************************************)
EXTENDS Integers

CONSTANTS Colours,     \* average colours
          Times,       \* readings of the clock, in seconds since the stream started
          MaxFrames    \* bound on the frames of the stream

ASSUME CrashAssumption ==
    /\ Colours \subseteq 0..255
    /\ Times \subseteq Int
    /\ MaxFrames \in Nat

Programs == {"detection2", "detection3"}
Warmup == 5
Cooldown == 5
crash_threshold == 20
Consecutive == 5

VARIABLES program,
          now,         \* the clock as read for the last frame
          frame_number,
          cooldown_end_time,
          prev_avg_color,             \* crash-detection2.py: -1 for None
          moving_sum, moving_count,   \* crash-detection3.py: None is an empty sum
          crash_check_mode, crash_check_counter,
          lastReport, reports,   \* history: the messages sent, and the last one's time
          slipped,     \* history: the clock was set back
          inARow,      \* history: frames up to this one that deviate, one after another
          farInARow    \* history: the same for frames beyond twice the threshold

averageVars == <<moving_sum, moving_count>>
checkVars == <<crash_check_mode, crash_check_counter>>
reportVars == <<cooldown_end_time, lastReport, reports>>
vars == <<program, now, frame_number, prev_avg_color, averageVars, checkVars, reportVars,
          slipped, inARow, farInARow>>

Init ==
    /\ program \in Programs
    /\ now = 0 /\ frame_number = 0
    /\ cooldown_end_time = 0
    /\ prev_avg_color = -1
    /\ moving_sum = 0 /\ moving_count = 0
    /\ crash_check_mode = FALSE /\ crash_check_counter = 0
    /\ lastReport = -Cooldown /\ reports = 0
    /\ slipped = FALSE /\ inARow = 0 /\ farInARow = 0

Magnitude(n) == IF n < 0 THEN -n ELSE n

\* color_change_detected: the colour is further than threshold from the average
\* sum / count.
Changed(sum, count, colour, threshold) ==
    Magnitude(colour * count - sum) > threshold * count

WarmingUp == now' <= Warmup
CoolingDown == now' < cooldown_end_time
Detecting == ~WarmingUp /\ ~CoolingDown

\* The message, and the cooldown it starts.
ReportUncooled ==                                      \* mutant: no cooldown
    /\ lastReport' = now' /\ reports' = reports + 1
    /\ UNCHANGED cooldown_end_time
Report ==
    /\ lastReport' = now' /\ reports' = reports + 1
    /\ cooldown_end_time' = now' + Cooldown

-----------------------------------------------------------------------------
(***************************************************************************)
(* crash-detection2.py                                                     *)
(***************************************************************************)
Differs(colour) == prev_avg_color # -1 /\ Changed(prev_avg_color, 1, colour, crash_threshold)

Compare(colour) ==
    /\ program = "detection2"
    /\ IF Detecting /\ Differs(colour) THEN Report ELSE UNCHANGED reportVars
    /\ prev_avg_color' = colour
    /\ UNCHANGED <<averageVars, checkVars>>

-----------------------------------------------------------------------------
(***************************************************************************)
(* crash-detection3.py                                                     *)
(***************************************************************************)
IntoAverage(colour) ==
    /\ moving_sum' = moving_sum + colour
    /\ moving_count' = moving_count + 1

WarmUp(colour) ==
    /\ WarmingUp
    /\ IntoAverage(colour)
    /\ UNCHANGED <<checkVars, reportVars>>

CoolDown(colour) ==
    /\ ~WarmingUp /\ CoolingDown
    /\ IntoAverage(colour)
    /\ crash_check_mode' = FALSE /\ crash_check_counter' = 0
    /\ UNCHANGED reportVars

\* A frame is part of the average it is compared with.
Watch(colour) ==
    /\ Detecting /\ ~crash_check_mode
    /\ IntoAverage(colour)
    /\ IF Changed(moving_sum', moving_count', colour, crash_threshold)
       THEN crash_check_mode' = TRUE /\ crash_check_counter' = 1
       ELSE UNCHANGED checkVars
    /\ UNCHANGED reportVars

\* "5 is arbitrary threshold"
EnoughLate(counter) == counter > Consecutive           \* mutant: off by one
Enough(counter) == counter >= Consecutive

\* In check mode the average stands still.
Count(colour) ==
    /\ Detecting /\ crash_check_mode
    /\ Changed(moving_sum, moving_count, colour, crash_threshold)
    /\ IF Enough(crash_check_counter + 1)
       THEN /\ Report
            /\ moving_sum' = colour /\ moving_count' = 1
            /\ crash_check_mode' = FALSE /\ crash_check_counter' = 0
       ELSE /\ crash_check_counter' = crash_check_counter + 1
            /\ UNCHANGED <<averageVars, crash_check_mode, reportVars>>

CancelNot(colour) ==                                   \* mutant: the check goes on
    /\ Detecting /\ crash_check_mode
    /\ ~Changed(moving_sum, moving_count, colour, crash_threshold)
    /\ IntoAverage(colour)
    /\ UNCHANGED <<checkVars, reportVars>>
Cancel(colour) ==
    /\ Detecting /\ crash_check_mode
    /\ ~Changed(moving_sum, moving_count, colour, crash_threshold)
    /\ IntoAverage(colour)
    /\ crash_check_mode' = FALSE /\ crash_check_counter' = 0
    /\ UNCHANGED reportVars

Average(colour) ==
    /\ program = "detection3"
    /\ WarmUp(colour) \/ CoolDown(colour) \/ Watch(colour) \/ Count(colour) \/ Cancel(colour)
    /\ UNCHANGED prev_avg_color

-----------------------------------------------------------------------------
\* One more frame that deviates from the average of the frames before it, while
\* the detector is at work; a frame without an average to deviate from does not.
RunWith(run, colour, threshold) ==
    IF Detecting /\ Changed(moving_sum, moving_count, colour, threshold) THEN run + 1 ELSE 0

Frame ==
    /\ frame_number < MaxFrames
    /\ frame_number' = frame_number + 1
    /\ now' \in Times
    /\ slipped' = (slipped \/ now' < now)
    /\ \E colour \in Colours :
          /\ Compare(colour) \/ Average(colour)
          /\ inARow' = RunWith(inARow, colour, crash_threshold)
          /\ farInARow' = IF reports' # reports THEN 0
                          ELSE RunWith(farInARow, colour, 2 * crash_threshold)
    /\ UNCHANGED program

Next == Frame

Spec == Init /\ [][Next]_vars

-----------------------------------------------------------------------------
TypeOK ==
    /\ program \in Programs
    /\ now \in Int /\ frame_number \in 0..MaxFrames
    /\ cooldown_end_time \in Int /\ prev_avg_color \in -1..255
    /\ moving_sum \in Nat /\ moving_count \in Nat
    /\ crash_check_mode \in BOOLEAN /\ crash_check_counter \in 0..Consecutive - 1
    /\ lastReport \in Int /\ reports \in Nat
    /\ slipped \in BOOLEAN /\ inARow \in Nat /\ farInARow \in Nat

\* Neither detector reports while the stream warms up, nor twice within a
\* cooldown by the clock it reads, also when that clock is set in between
\* (crash-detection2.py:116-124, crash-detection3.py:127-191).
Messages == INSTANCE CrashReports
ImplementsCrashReports == Messages!Spec

\* "if 5 consecutive frames deviate from the moving average": the average
\* detector reports nothing less, though it lets the first of the five into the
\* average and stops counting in between, unless the clock was set back into
\* the warm-up, where the count stands still (crash-detection3.py:127-178).
FiveInARow ==
    [][reports' # reports /\ program = "detection3" /\ ~slipped' => inARow' >= Consecutive]_vars

\* Five frames in a row far from the average are reported with the last of them
\* at the latest, although each may fall into a check that is under way, and
\* the first of them draws the average towards itself.  Frames no further than
\* twice the threshold can be missed.
FarFramesReport == program = "detection3" => farInARow < Consecutive
==============================================================================
