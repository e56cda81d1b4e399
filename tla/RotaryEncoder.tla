----------------------------- MODULE RotaryEncoder -----------------------------
(***************************************************************************)
(* hal/src/rotary_encoder.c: the thread that turns edges of the knob's two *)
(* lines into counts, its start by rot_encoder_init and its end by         *)
(* rot_encoder_cleanup.  Edges wait in the kernel, one queue per line; a   *)
(* wake-up of the thread takes at most one of each line, line A first.     *)
(***************************************************************************)
EXTENDS EncoderCounter, Sequences

CONSTANTS MaxTurn,     \* bound: how far the knob is turned, in quarter detents
          MaxBehind    \* bound: edges the kernel holds that the thread has not read

ASSUME EncoderAssumption ==
    MaxTurn \in Nat /\ MaxBehind \in Nat

VARIABLES pos,         \* the knob, in quarter detents; clockwise is up
          edges,       \* for each line, the edges not read yet
          batch,       \* lines of this wake-up still to be read
          current_state, clkwise,
          threadAt, stop_thread,
          initialized, linesOpen,
          mainAt,      \* rot_encoder_init, use, rot_encoder_cleanup
          lastRest,    \* history: the detent the knob came from
          expected,    \* history: the count the knob's turns call for, and
          sure         \* history: whether that is known (see Reset)

knobVars == <<pos, lastRest, expected, sure>>
machineVars == <<batch, current_state, clkwise>>
lifeVars == <<stop_thread, initialized, linesOpen, mainAt>>
vars == <<counterVars, edges, knobVars, machineVars, threadAt, lifeVars>>

Lines == {"a", "b"}
Edges == {"rise", "fall"}

Init ==
    /\ CounterInit
    /\ pos = 0 /\ lastRest = 0 /\ expected = 0 /\ sure = TRUE
    /\ edges = [l \in Lines |-> <<>>]
    /\ batch = <<>>
    /\ current_state = 0 /\ clkwise = FALSE
    /\ threadAt = "none"
    /\ stop_thread = FALSE /\ initialized = FALSE /\ linesOpen = FALSE
    /\ mainAt = "open"

-----------------------------------------------------------------------------
(***************************************************************************)
(* The knob.  Line A is high at quarters 0 and 3 of a detent, B at 0 and   *)
(* 1; the knob may turn back anywhere, and a bouncing contact does.        *)
(***************************************************************************)
High(l, p) == p % 4 \in (IF l = "a" THEN {0, 3} ELSE {0, 1})

Moved(p, q) == CHOOSE l \in Lines : High(l, p) # High(l, q)

AtDetent(p) == p % 4 = 0

\* What one detent in direction dir makes of a count: a right turn is clamped
\* at the upper bound only, a left turn at the lower one.
Counted(count, dir) == Clamped(dir, count + dir * Step)

Behind == Len(edges["a"]) + Len(edges["b"])

TurnKnob ==
    /\ mainAt = "use" /\ threadAt \in {"wait", "read"}
    /\ Behind < MaxBehind
    /\ \E dir \in {-1, 1} :
          LET next == pos + dir
              line == Moved(pos, next)
          IN  /\ next \in -MaxTurn..MaxTurn
              /\ pos' = next
              /\ edges' = [edges EXCEPT ![line] =
                              Append(@, IF High(line, next) THEN "rise" ELSE "fall")]
              /\ lastRest' = IF AtDetent(next) THEN next ELSE lastRest
              /\ expected' = IF AtDetent(next) /\ next # lastRest
                             THEN Counted(expected, dir) ELSE expected
    /\ UNCHANGED <<counterVars, sure, machineVars, threadAt, lifeVars>>

\* Every edge has been read and counted.
Quiet == Behind = 0 /\ batch = <<>> /\ turn.at = "rest"

\* rot_encoder_set_counter(0), by the send thread, at any moment.  One that
\* meets a turn under way comes before or after its count.
Reset ==
    /\ mainAt = "use"
    /\ counter # 0
    /\ SetCounter(0)
    /\ expected' = 0
    /\ sure' = (Quiet /\ AtDetent(pos))
    /\ UNCHANGED <<edges, pos, lastRest, machineVars, threadAt, lifeVars>>

-----------------------------------------------------------------------------
(***************************************************************************)
(* The thread.                                                             *)
(***************************************************************************)

\* INIT_CHECK: a thread that starts before rot_encoder_init has finished
\* initialises again, and a line that is already requested cannot be requested
\* once more (gpio_set_input exits).
InitCheck ==
    /\ threadAt = "check"
    /\ threadAt' = IF initialized THEN "wait" ELSE "failed"
    /\ UNCHANGED <<counterVars, edges, knobVars, machineVars, lifeVars>>

\* The end of the do-while.
LoopEndIgnored == "wait"                    \* mutant: the flag is not read
LoopEnd == IF stop_thread THEN "done" ELSE "wait"

\* gpio_wait_line_change returns the lines that have edges, or nothing after a
\* second.
WaitLineChange ==
    /\ threadAt = "wait"
    /\ batch' = (IF edges["a"] # <<>> THEN <<"a">> ELSE <<>>)
                    \o (IF edges["b"] # <<>> THEN <<"b">> ELSE <<>>)
    /\ threadAt' = IF batch' # <<>> THEN "read" ELSE LoopEnd
    /\ UNCHANGED <<counterVars, edges, knobVars, current_state, clkwise, lifeVars>>

\* The table, by line, edge and state.
NextState ==
    [a |-> [rise |-> <<0, 0, 3, 3>>, fall |-> <<1, 1, 2, 2>>],
     b |-> [rise |-> <<0, 1, 1, 0>>, fall |-> <<3, 2, 2, 3>>]]

\* set_clkwise and set_counter_clkwise
Direction(s, line, edge) ==
    IF s = 0 /\ edge = "fall" THEN line = "a" ELSE clkwise

\* handle_1_to_0 and handle_3_to_0
CountsLeftAlways(s, line, edge) == s = 1 /\ line = "a" /\ edge = "rise"  \* mutant: no test
CountsLeft(s, line, edge) == s = 1 /\ line = "a" /\ edge = "rise" /\ ~clkwise
CountsRight(s, line, edge) == s = 3 /\ line = "b" /\ edge = "rise" /\ clkwise

ReadEdge ==
    /\ threadAt = "read" /\ turn.at = "rest"
    /\ LET line == Head(batch)
           edge == Head(edges[line])
           s == current_state
       IN  /\ edges' = [edges EXCEPT ![line] = Tail(@)]
           /\ current_state' = NextState[line][edge][s + 1]
           /\ clkwise' = Direction(s, line, edge)
           /\ IF CountsLeft(s, line, edge) THEN Count(-1)
              ELSE IF CountsRight(s, line, edge) THEN Count(1)
              ELSE UNCHANGED counterVars
    /\ batch' = Tail(batch)
    /\ threadAt' = IF Len(batch) > 1 THEN "read" ELSE LoopEnd
    /\ UNCHANGED <<knobVars, lifeVars>>

\* The clamp of the count just made, before the thread reads or waits again.
Clamp ==
    /\ ReadToClamp \/ StoreClamped
    /\ UNCHANGED <<edges, knobVars, machineVars, threadAt, lifeVars>>

Thread == InitCheck \/ (turn.at = "rest" /\ WaitLineChange) \/ ReadEdge \/ Clamp

-----------------------------------------------------------------------------
(***************************************************************************)
(* The thread that calls rot_encoder_init and rot_encoder_cleanup.         *)
(***************************************************************************)
Main(stage, next) ==
    /\ threadAt # "failed"
    /\ mainAt = stage
    /\ mainAt' = next
    /\ UNCHANGED <<counterVars, edges, knobVars, machineVars>>

OpenLines ==
    /\ Main("open", "create")
    /\ linesOpen' = TRUE
    /\ UNCHANGED <<threadAt, stop_thread, initialized>>

CreateThread ==
    /\ Main("create", "created")
    /\ threadAt' = "check"
    /\ UNCHANGED <<stop_thread, initialized, linesOpen>>

SetInitialized ==
    /\ Main("created", "use")
    /\ initialized' = TRUE
    /\ UNCHANGED <<threadAt, stop_thread, linesOpen>>

StopThreadUninitialises ==                  \* mutant: initialized is cleared first
    /\ Main("use", "join")
    /\ stop_thread' = TRUE
    /\ initialized' = FALSE
    /\ UNCHANGED <<threadAt, linesOpen>>
StopThread ==
    /\ Main("use", "join")
    /\ stop_thread' = TRUE
    /\ UNCHANGED <<threadAt, initialized, linesOpen>>

JoinThreadSkipped ==                        \* mutant: no pthread_join
    /\ Main("join", "close")
    /\ UNCHANGED <<threadAt, stop_thread, initialized, linesOpen>>
JoinThread ==
    /\ Main("join", "close")
    /\ threadAt = "done"
    /\ UNCHANGED <<threadAt, stop_thread, initialized, linesOpen>>

CloseLines ==
    /\ Main("close", "over")
    /\ linesOpen' = FALSE
    /\ initialized' = FALSE
    /\ UNCHANGED <<threadAt, stop_thread>>

MainSteps ==
    OpenLines \/ CreateThread \/ SetInitialized \/ StopThread \/ JoinThread \/ CloseLines

Next == TurnKnob \/ Reset \/ Thread \/ MainSteps

Spec == Init /\ [][Next]_vars

\* The thread's wait times out and its reads do not block; when main cleans up
\* is not promised, that its cleanup goes on is.
FairSpec == Spec /\ WF_vars(Thread) /\ WF_vars(JoinThread) /\ WF_vars(CloseLines)

-----------------------------------------------------------------------------
TypeOK ==
    /\ CounterTypeOK
    /\ pos \in -MaxTurn..MaxTurn /\ lastRest \in -MaxTurn..MaxTurn
    /\ expected \in MinCounter..MaxCounter /\ sure \in BOOLEAN
    /\ edges \in [Lines -> Seq(Edges)]
    /\ batch \in Seq(Lines)
    /\ current_state \in 0..3 /\ clkwise \in BOOLEAN
    /\ threadAt \in {"none", "check", "wait", "read", "done", "failed"}
    /\ stop_thread \in BOOLEAN /\ initialized \in BOOLEAN /\ linesOpen \in BOOLEAN
    /\ mainAt \in {"open", "create", "created", "use", "join", "close", "over"}

\* The counter is the number of detents the knob was turned by, clamped, once
\* all edges have been handled and the knob rests in a detent: whatever turning
\* back and bouncing went on in between (the states array).
CountsDetents == Quiet /\ AtDetent(pos) /\ sure => counter = expected

\* Whatever the send thread resets, a count that is over leaves the counter
\* within its bounds (the clamps of handle_1_to_0 and handle_3_to_0).
RestInBounds == turn.at = "rest" => counter \in MinCounter..MaxCounter

\* The thread gets one line event for every line it was told of, from lines
\* that are still open (rot_encoder_cleanup joins before it closes).
ReadsOpenLines ==
    /\ threadAt \in {"wait", "read"} => linesOpen
    /\ \A l \in Lines : l \in {batch[i] : i \in DOMAIN batch} => edges[l] # <<>>

\* Only a thread that overtakes the end of rot_encoder_init fails, never one
\* that starts late, cleanup included.
FailsOnlyInInit == [][threadAt' = "failed" => mainAt = "created"]_vars

\* rot_encoder_cleanup returns.
CleanupEnds == stop_thread ~> mainAt = "over" \/ threadAt = "failed"
==============================================================================
