----------------------------- MODULE CrashReports -----------------------------
(***************************************************************************)
(* What both crash detectors promise of the messages they send, by the     *)
(* clock they read for every frame: none in the first seconds of the       *)
(* stream, and a cooldown after each (README.md, Run Webcam Python).       *)
(***************************************************************************)
EXTENDS Integers

CONSTANTS Warmup, Cooldown      \* in seconds

VARIABLES now,         \* the clock at the last frame; it may be set
          lastReport,  \* the clock at the last message
          reports      \* messages sent

reportVars == <<now, lastReport, reports>>

Init == now = 0 /\ lastReport = -Cooldown /\ reports = 0

NoReport == UNCHANGED <<lastReport, reports>>

Report ==
    /\ now' > Warmup
    /\ now' >= lastReport + Cooldown
    /\ lastReport' = now'
    /\ reports' = reports + 1

Next == now' \in Int /\ (NoReport \/ Report)

Spec == Init /\ [][Next]_reportVars
==============================================================================
