----------------------------- MODULE EncoderProofs -----------------------------
(***************************************************************************)
(* What the rotary encoder keeps for every bound, step and length of the   *)
(* kernel's queues: the counter's bounds, and the lives of thread, lines   *)
(* and main relative to each other.                                        *)
(***************************************************************************)
EXTENDS RotaryEncoder, SequenceTheorems, TLAPS

(***************************************************************************)
(* The counter.  Between a count and the store of its clamped value it may *)
(* be beyond the bound in the direction of the turn, but not beyond the    *)
(* other one.                                                              *)
(***************************************************************************)
Bounds == MinCounter..MaxCounter

CountInv ==
    /\ CounterTypeOK
    /\ turn.at = "rest" => counter \in Bounds
    /\ turn.at = "clamp" =>
           IF turn.dir < 0 THEN counter <= MaxCounter ELSE counter >= MinCounter
    /\ turn.at = "store" => turn.val \in Bounds

LEMMA CountBegins ==
    ASSUME CountInv, NEW dir \in {-1, 1}, Count(dir)
    PROVE  CountInv'
<1>1. counter \in Int /\ counter \in Bounds /\ Step \in Nat
  BY CounterAssumption DEF CountInv, CounterTypeOK, Count
<1>2. counter' = counter + dir * Step /\ counter' \in Int
  BY <1>1 DEF Count
<1>3. turn' = [at |-> "clamp", dir |-> dir, val |-> 0]
  BY DEF Count
<1>4. IF dir < 0 THEN counter' <= MaxCounter ELSE counter' >= MinCounter
  BY <1>1, <1>2, CounterAssumption DEF Bounds
<1>5. CounterTypeOK'
  BY <1>2, <1>3 DEF CounterTypeOK
<1>6. QED BY <1>3, <1>4, <1>5 DEF CountInv

LEMMA ClampBounds ==
    ASSUME NEW dir \in {-1, 0, 1}, NEW val \in Int,
           IF dir < 0 THEN val <= MaxCounter ELSE val >= MinCounter
    PROVE  Clamped(dir, val) \in Bounds
  BY CounterAssumption DEF Clamped, Bounds

LEMMA ClampKeeps == ASSUME CountInv, ReadToClamp \/ StoreClamped PROVE CountInv'
<1>1. Bounds \subseteq Int
  BY CounterAssumption DEF Bounds
<1>2. CASE ReadToClamp
  <2>1. Clamped(turn.dir, counter) \in Bounds
    BY <1>2, ClampBounds DEF ReadToClamp, CountInv, CounterTypeOK
  <2>2. turn' = [turn EXCEPT !.at = "store", !.val = Clamped(turn.dir, counter)]
          /\ counter' = counter
    BY <1>2 DEF ReadToClamp
  <2>3. turn'.at = "store" /\ turn'.val \in Bounds
    BY <2>1, <2>2 DEF CountInv, CounterTypeOK
  <2>4. CounterTypeOK'
    BY <1>1, <2>1, <2>2 DEF CountInv, CounterTypeOK
  <2>5. QED BY <2>3, <2>4 DEF CountInv
<1>3. CASE StoreClamped
  BY <1>1, <1>3 DEF StoreClamped, Resting, CountInv, CounterTypeOK
<1>4. QED BY <1>2, <1>3

LEMMA ResetKeeps == ASSUME CountInv, SetCounter(0) PROVE CountInv'
  BY CounterAssumption DEF SetCounter, CountInv, CounterTypeOK, Bounds

LEMMA CountStep == ASSUME CountInv, [Next]_vars PROVE CountInv'
<1>1. CASE UNCHANGED counterVars
  BY <1>1 DEF counterVars, CountInv, CounterTypeOK
<1>2. CASE ReadEdge
  BY <1>1, <1>2, CountBegins DEF ReadEdge
<1>3. CASE Clamp
  BY <1>3, ClampKeeps DEF Clamp
<1>4. CASE Reset
  BY <1>4, ResetKeeps DEF Reset
<1>5. QED
  BY <1>1, <1>2, <1>3, <1>4 DEF Next, TurnKnob, Thread, InitCheck, WaitLineChange, MainSteps,
     Main, OpenLines, CreateThread, SetInitialized, StopThread, JoinThread, CloseLines, vars

LEMMA CountInvariant == Spec => []CountInv
<1>1. Init => CountInv
  BY CounterAssumption DEF Init, CounterInit, Resting, CountInv, CounterTypeOK, Bounds
<1>2. QED BY <1>1, CountStep, PTL DEF Spec

\* Whatever is reset and whenever, a count that is over leaves the counter
\* within its bounds (rotary_encoder.c:97-110).
THEOREM RestsInBounds == Spec => []RestInBounds
<1>1. CountInv => RestInBounds
  BY DEF CountInv, RestInBounds, Bounds
<1>2. QED BY <1>1, CountInvariant, PTL

-----------------------------------------------------------------------------
(***************************************************************************)
(* The lives of thread, lines and main.                                    *)
(***************************************************************************)
LifeInv ==
    /\ mainAt \in {"open", "create", "created", "use", "join", "close", "over"}
    /\ threadAt \in {"none", "check", "wait", "read", "done", "failed"}
    /\ threadAt = "none" <=> mainAt \in {"open", "create"}
    /\ threadAt = "failed" => mainAt = "created"
    /\ threadAt \in {"wait", "read"} => mainAt \in {"use", "join"}
    /\ mainAt \in {"close", "over"} => threadAt = "done"

FlagInv ==
    /\ initialized = IF mainAt \in {"use", "join", "close"} THEN TRUE ELSE FALSE
    /\ linesOpen = IF mainAt \in {"open", "over"} THEN FALSE ELSE TRUE
    /\ stop_thread = IF mainAt \in {"join", "close", "over"} THEN TRUE ELSE FALSE
    /\ threadAt = "done" => stop_thread = TRUE

LifeAndFlags == LifeInv /\ FlagInv

\* The thread may end and go on only as main's stage allows.
LEMMA ThreadLives ==
    ASSUME LifeAndFlags, Thread \/ TurnKnob \/ Reset
    PROVE  LifeAndFlags'
<1> USE DEF LifeAndFlags, LifeInv, FlagInv
<1>1. UNCHANGED lifeVars
  BY DEF Thread, InitCheck, WaitLineChange, ReadEdge, Clamp, TurnKnob, Reset
<1>2. CASE UNCHANGED threadAt
  BY <1>1, <1>2 DEF lifeVars
<1>3. CASE InitCheck
  BY <1>1, <1>3 DEF InitCheck, lifeVars
<1>4. CASE WaitLineChange \/ ReadEdge
  <2>1. threadAt \in {"wait", "read"} /\ threadAt' \in {"read", LoopEnd}
    BY <1>4 DEF WaitLineChange, ReadEdge
  <2>2. QED BY <1>1, <2>1 DEF LoopEnd, lifeVars
<1>5. QED BY <1>2, <1>3, <1>4 DEF Thread, Clamp, TurnKnob, Reset

LEMMA MainLives == ASSUME LifeAndFlags, MainSteps PROVE LifeAndFlags'
<1> USE DEF LifeAndFlags, LifeInv, FlagInv, Main
<1>1. CASE OpenLines BY <1>1 DEF OpenLines
<1>2. CASE CreateThread BY <1>2 DEF CreateThread
<1>3. CASE SetInitialized BY <1>3 DEF SetInitialized
<1>4. CASE StopThread BY <1>4 DEF StopThread
<1>5. CASE JoinThread BY <1>5 DEF JoinThread
<1>6. CASE CloseLines BY <1>6 DEF CloseLines
<1>7. QED BY <1>1, <1>2, <1>3, <1>4, <1>5, <1>6 DEF MainSteps

LEMMA LifeInvariant == Spec => []LifeAndFlags
<1>1. Init => LifeAndFlags
  BY DEF Init, LifeAndFlags, LifeInv, FlagInv
<1>2. LifeAndFlags /\ [Next]_vars => LifeAndFlags'
  <2>1. ASSUME LifeAndFlags, UNCHANGED vars PROVE LifeAndFlags'
    BY <2>1 DEF LifeAndFlags, LifeInv, FlagInv, vars, lifeVars
  <2>2. QED BY <2>1, ThreadLives, MainLives DEF Next
<1>3. QED BY <1>1, <1>2, PTL DEF Spec

\* Only a thread that overtakes the end of rot_encoder_init fails
\* (rotary_encoder.c:113), never one that starts late.
THEOREM FailsInInitOnly == Spec => FailsOnlyInInit
<1>1. LifeAndFlags /\ LifeAndFlags' /\ [Next]_vars => [threadAt' = "failed" => mainAt = "created"]_vars
  <2>1. ASSUME LifeAndFlags, Next, threadAt' = "failed" PROVE mainAt = "created"
    <3>1. CASE Thread \/ TurnKnob \/ Reset
      <4>1. mainAt' = "created"
        BY <2>1, <3>1, ThreadLives DEF LifeAndFlags, LifeInv
      <4>2. UNCHANGED mainAt
        BY <3>1 DEF Thread, InitCheck, WaitLineChange, ReadEdge, Clamp, TurnKnob, Reset, lifeVars
      <4>3. QED BY <4>1, <4>2
    <3>2. CASE MainSteps
      BY <2>1, <3>2 DEF MainSteps, Main, OpenLines, CreateThread, SetInitialized, StopThread,
         JoinThread, CloseLines
    <3>3. QED BY <2>1, <3>1, <3>2 DEF Next
  <2>2. QED BY <2>1
<1>2. QED BY <1>1, LifeInvariant, PTL DEF Spec, FailsOnlyInInit

-----------------------------------------------------------------------------
(***************************************************************************)
(* The lines' queues, and the lines of the wake-up that is being handled.  *)
(***************************************************************************)
Batches == {<<>>, <<"a">>, <<"b">>, <<"a", "b">>}

EdgeInv ==
    /\ edges \in [Lines -> Seq(Edges)]
    /\ batch \in Batches
    /\ batch \in {<<"a">>, <<"a", "b">>} => edges["a"] # <<>>
    /\ batch \in {<<"b">>, <<"a", "b">>} => edges["b"] # <<>>
    /\ threadAt = "read" <=> batch # <<>>

LEMMA KnobKeepsEdges ==
    ASSUME EdgeInv, TurnKnob
    PROVE  EdgeInv'
<1> USE DEF EdgeInv
<1>1. PICK line : \E edge \in Edges : edges' = [edges EXCEPT ![line] = Append(@, edge)]
  BY DEF TurnKnob, Edges
<1> PICK edge \in Edges : edges' = [edges EXCEPT ![line] = Append(@, edge)]
  BY <1>1
<1>2. batch' = batch /\ threadAt' = threadAt
  BY DEF TurnKnob, machineVars
<1>3. CASE line \in Lines
  <2>1. Append(edges[line], edge) \in Seq(Edges) /\ Append(edges[line], edge) # <<>>
    BY <1>3, AppendProperties
  <2>2. edges' \in [Lines -> Seq(Edges)]
    BY <2>1
  <2>3. \A l \in Lines : edges[l] # <<>> => edges'[l] # <<>>
    BY <2>1
  <2>4. QED BY <1>2, <2>2, <2>3 DEF Lines
<1>4. CASE line \notin Lines
  <2>1. edges' = edges
    BY <1>4
  <2>2. QED BY <1>2, <2>1
<1>5. QED BY <1>3, <1>4

LEMMA BatchOfWait ==
    ASSUME EdgeInv, WaitLineChange
    PROVE  EdgeInv'
<1> USE DEF EdgeInv
<1>1. edges' = edges /\ (threadAt' = "read" <=> batch' # <<>>)
  BY DEF WaitLineChange, LoopEnd
<1>2. batch' = (IF edges["a"] # <<>> THEN <<"a">> ELSE <<>>)
                  \o (IF edges["b"] # <<>> THEN <<"b">> ELSE <<>>)
  BY DEF WaitLineChange
<1>3. batch' = IF edges["a"] # <<>> THEN IF edges["b"] # <<>> THEN <<"a", "b">> ELSE <<"a">>
               ELSE IF edges["b"] # <<>> THEN <<"b">> ELSE <<>>
  BY <1>2
<1>4. QED BY <1>1, <1>3 DEF Batches

LEMMA TailsOfBatches ==
    /\ Tail(<<"a">>) = <<>> /\ Tail(<<"b">>) = <<>> /\ Tail(<<"a", "b">>) = <<"b">>
    /\ Len(<<"a">>) = 1 /\ Len(<<"b">>) = 1 /\ Len(<<"a", "b">>) = 2
    /\ <<"a", "b">> # <<"a">> /\ <<"a", "b">> # <<"b">>
  OBVIOUS

LEMMA ReadTakesHead ==
    ASSUME EdgeInv, ReadEdge
    PROVE  /\ Head(batch) \in Lines /\ Head(edges[Head(batch)]) \in Edges
           /\ edges[Head(batch)] # <<>>
           /\ edges' = [edges EXCEPT ![Head(batch)] = Tail(@)]
           /\ batch' = IF batch = <<"a", "b">> THEN <<"b">> ELSE <<>>
           /\ EdgeInv'
<1> USE DEF EdgeInv
<1>1. batch \in {<<"a">>, <<"b">>, <<"a", "b">>}
  BY DEF ReadEdge, Batches
<1>2. Head(batch) = IF batch = <<"b">> THEN "b" ELSE "a"
  BY <1>1
<1>3. batch' = IF batch = <<"a", "b">> THEN <<"b">> ELSE <<>>
  BY <1>1, TailsOfBatches DEF ReadEdge
<1>4. threadAt' = IF batch = <<"a", "b">> THEN "read" ELSE LoopEnd
  <2>1. threadAt' = IF Len(batch) > 1 THEN "read" ELSE LoopEnd
    BY DEF ReadEdge
  <2>2. Len(batch) > 1 <=> batch = <<"a", "b">>
    <3>1. CASE batch = <<"a">> BY <3>1, TailsOfBatches
    <3>2. CASE batch = <<"b">> BY <3>2, TailsOfBatches
    <3>3. CASE batch = <<"a", "b">> BY <3>3, TailsOfBatches
    <3>4. QED BY <1>1, <3>1, <3>2, <3>3
  <2>3. QED BY <2>1, <2>2
<1>5. Head(batch) \in Lines /\ edges[Head(batch)] \in Seq(Edges) /\ edges[Head(batch)] # <<>>
  BY <1>1, <1>2 DEF Lines
<1>6. Head(edges[Head(batch)]) \in Edges /\ Tail(edges[Head(batch)]) \in Seq(Edges)
  BY <1>5, HeadTailProperties
<1>7. edges' = [edges EXCEPT ![Head(batch)] = Tail(@)]
  BY DEF ReadEdge
<1>8. edges' \in [Lines -> Seq(Edges)]
  BY <1>5, <1>6, <1>7
<1>9. batch' \in Batches /\ (threadAt' = "read" <=> batch' # <<>>)
  BY <1>3, <1>4 DEF Batches, LoopEnd
<1>10. batch' \in {<<"b">>, <<"a", "b">>} => edges'["b"] # <<>>
  BY <1>1, <1>2, <1>3, <1>7 DEF Lines
<1>11. batch' \notin {<<"a">>, <<"a", "b">>}
  BY <1>3
<1>12. QED BY <1>3, <1>5, <1>6, <1>7, <1>8, <1>9, <1>10, <1>11

LEMMA EdgeStep == ASSUME LifeAndFlags, EdgeInv, [Next]_vars PROVE EdgeInv'
<1>1. CASE UNCHANGED <<edges, batch, threadAt>>
  BY <1>1 DEF EdgeInv
<1>2. CASE TurnKnob BY <1>2, KnobKeepsEdges
<1>3. CASE WaitLineChange BY <1>3, BatchOfWait
<1>4. CASE ReadEdge BY <1>4, ReadTakesHead
<1>5. CASE InitCheck
  BY <1>5 DEF InitCheck, EdgeInv, machineVars
<1>6. CASE CreateThread
  BY <1>6 DEF CreateThread, Main, EdgeInv, machineVars, LifeAndFlags, LifeInv
<1>7. CASE Reset \/ Clamp \/ UNCHANGED vars
  BY <1>1, <1>7 DEF Reset, Clamp, vars, machineVars
<1>8. CASE OpenLines \/ SetInitialized \/ StopThread \/ JoinThread \/ CloseLines
  BY <1>1, <1>8 DEF OpenLines, SetInitialized, StopThread, JoinThread, CloseLines, Main,
                    machineVars
<1>9. QED
  BY <1>2, <1>3, <1>4, <1>5, <1>6, <1>7, <1>8 DEF Next, Thread, MainSteps

LEMMA EdgeInvariant == Spec => []EdgeInv
<1>1. Init => EdgeInv
  BY EmptySeq DEF Init, EdgeInv, Batches, Lines
<1>2. QED BY <1>1, EdgeStep, LifeInvariant, PTL DEF Spec

\* The thread waits for and reads lines that are open, and has an event waiting
\* on each line it was told of (rotary_encoder.c:119, 170).
THEOREM ReadsOnlyOpenLines == Spec => []ReadsOpenLines
<1>1. LifeAndFlags /\ EdgeInv => ReadsOpenLines
  <2>1. SUFFICES ASSUME LifeAndFlags, EdgeInv PROVE ReadsOpenLines
    OBVIOUS
  <2>2. threadAt \in {"wait", "read"} => linesOpen
    BY <2>1 DEF LifeAndFlags, LifeInv, FlagInv
  <2>3. ASSUME NEW l \in Lines, NEW i \in DOMAIN batch, l = batch[i] PROVE edges[l] # <<>>
    BY <2>1, <2>3 DEF EdgeInv, Batches, Lines
  <2>4. QED BY <2>2, <2>3 DEF ReadsOpenLines
<1>2. QED BY <1>1, LifeInvariant, EdgeInvariant, PTL

-----------------------------------------------------------------------------
(***************************************************************************)
(* Types.                                                                  *)
(***************************************************************************)
KnobTypes ==
    /\ pos \in -MaxTurn..MaxTurn /\ lastRest \in -MaxTurn..MaxTurn
    /\ expected \in Bounds
    /\ sure \in BOOLEAN

MachineTypes == current_state \in 0..3 /\ clkwise \in BOOLEAN

LEMMA KnobTypesStep == ASSUME KnobTypes, [Next]_vars PROVE KnobTypes'
<1>1. CASE UNCHANGED knobVars
  BY <1>1 DEF KnobTypes, knobVars
<1>2. CASE Reset
  <2>1. sure' \in BOOLEAN
    BY <1>2, Zenon DEF Reset, Quiet, AtDetent
  <2>2. expected' \in Bounds /\ pos' = pos /\ lastRest' = lastRest
    BY <1>2, CounterAssumption DEF Reset, Bounds
  <2>3. QED BY <2>1, <2>2 DEF KnobTypes
<1>3. CASE TurnKnob
  <2>1. PICK dir \in {-1, 1} :
           /\ pos + dir \in -MaxTurn..MaxTurn
           /\ pos' = pos + dir
           /\ lastRest' = IF AtDetent(pos + dir) THEN pos + dir ELSE lastRest
           /\ expected' \in {expected, Counted(expected, dir)}
    BY <1>3 DEF TurnKnob
  <2>2. Bounds \subseteq Int /\ expected \in Int /\ Step \in Nat /\ Step > 0
    BY CounterAssumption DEF KnobTypes, Bounds
  <2>3. Counted(expected, dir) \in Bounds
    <3>1. expected + dir * Step \in Int
      BY <2>2
    <3>2. IF dir < 0 THEN expected + dir * Step <= MaxCounter
          ELSE expected + dir * Step >= MinCounter
      BY <2>2, CounterAssumption DEF KnobTypes, Bounds
    <3>3. QED BY <3>1, <3>2, ClampBounds DEF Counted
  <2>4. sure' = sure
    BY <1>3 DEF TurnKnob
  <2>5. QED BY <2>1, <2>3, <2>4 DEF KnobTypes
<1>4. QED
  BY <1>1, <1>2, <1>3 DEF Next, Thread, InitCheck, WaitLineChange, ReadEdge, Clamp, MainSteps,
     Main, OpenLines, CreateThread, SetInitialized, StopThread, JoinThread, CloseLines, vars

LEMMA MachineTypesStep == ASSUME EdgeInv, MachineTypes, [Next]_vars PROVE MachineTypes'
<1>1. CASE UNCHANGED <<current_state, clkwise>>
  BY <1>1 DEF MachineTypes
<1>2. CASE ReadEdge
  <2>1. Head(batch) \in Lines /\ Head(edges[Head(batch)]) \in Edges
    BY <1>2, ReadTakesHead
  <2>2. \A line \in Lines : \A edge \in Edges : NextState[line][edge][current_state + 1] \in 0..3
    BY DEF NextState, Lines, Edges, MachineTypes
  <2>3. current_state' \in 0..3
    BY <1>2, <2>1, <2>2 DEF ReadEdge
  <2>4. clkwise' = Direction(current_state, Head(batch), Head(edges[Head(batch)]))
    BY <1>2 DEF ReadEdge
  <2>5. clkwise' \in BOOLEAN
    BY <2>4, Zenon DEF Direction, MachineTypes
  <2>6. QED BY <2>3, <2>5 DEF MachineTypes
<1>3. QED
  BY <1>1, <1>2 DEF Next, TurnKnob, Reset, Thread, InitCheck, WaitLineChange, Clamp, MainSteps,
     Main, OpenLines, CreateThread, SetInitialized, StopThread, JoinThread, CloseLines, vars,
     machineVars

LEMMA TypesInvariant == Spec => [](KnobTypes /\ MachineTypes)
<1>1. ASSUME Init PROVE KnobTypes /\ MachineTypes
  <2>1. sure \in BOOLEAN /\ clkwise \in BOOLEAN
    BY <1>1, Zenon DEF Init
  <2>2. pos = 0 /\ lastRest = 0 /\ expected = 0 /\ current_state = 0
    BY <1>1, Zenon DEF Init
  <2>3. 0 \in -MaxTurn..MaxTurn /\ 0 \in MinCounter..MaxCounter /\ 0 \in 0..3
    BY CounterAssumption, EncoderAssumption
  <2>4. QED BY <2>1, <2>2, <2>3, Zenon DEF KnobTypes, MachineTypes, Bounds
<1>2. QED BY <1>1, KnobTypesStep, MachineTypesStep, EdgeInvariant, PTL DEF Spec

\* The encoder's state has its types.
THEOREM EncoderTypeCorrect == Spec => []TypeOK
<1>1. ASSUME CountInv, LifeAndFlags, EdgeInv, KnobTypes, MachineTypes PROVE TypeOK
  <2>1. batch \in Seq(Lines)
    <3>1. <<>> \in Seq(Lines) /\ <<"a">> \in Seq(Lines) /\ <<"b">> \in Seq(Lines)
      BY DEF Lines
    <3>2. <<"a", "b">> \in Seq(Lines)
      BY DEF Lines
    <3>3. batch \in {<<>>, <<"a">>, <<"b">>, <<"a", "b">>}
      BY <1>1, Zenon DEF EdgeInv, Batches
    <3>4. QED BY <3>1, <3>2, <3>3, Zenon
  <2>2. stop_thread \in BOOLEAN /\ initialized \in BOOLEAN /\ linesOpen \in BOOLEAN
    BY <1>1 DEF LifeAndFlags, FlagInv
  <2>3. QED
    BY <1>1, <2>1, <2>2 DEF TypeOK, CountInv, LifeAndFlags, LifeInv, EdgeInv, KnobTypes,
       MachineTypes, Bounds
<1>2. QED BY <1>1, CountInvariant, LifeInvariant, EdgeInvariant, TypesInvariant, PTL

-----------------------------------------------------------------------------
(***************************************************************************)
(* Counting detents, when the thread keeps up with the knob: at most one   *)
(* edge waits in the kernel.  The states array then follows the knob edge  *)
(* by edge, and clkwise tells on which side of its last detent the knob is.*)
(***************************************************************************)
KeepsUp == MaxBehind <= 1

\* The machine is at quarter p, and came there from the detent rest.
Tracks(p, rest) ==
    /\ rest % 4 = 0
    /\ current_state = p % 4
    /\ IF clkwise THEN p - rest \in 0..3 ELSE p - rest \in -3..0

\* The counter once a count that is under way is over.
Settled ==
    IF turn.at = "rest" THEN counter
    ELSE IF turn.at = "clamp" THEN Clamped(turn.dir, counter) ELSE turn.val

CaughtUp ==
    /\ edges = [l \in Lines |-> <<>>]
    /\ Tracks(pos, lastRest)
    /\ sure => expected = Settled

EdgeTo(p, q) == IF High(Moved(p, q), q) THEN "rise" ELSE "fall"
OneEdge(p, q) == [l \in Lines |-> IF l = Moved(p, q) THEN <<EdgeTo(p, q)>> ELSE <<>>]

\* The last quarter turn, in direction dir, has not been read.
OneBehind(dir, rest) ==
    /\ edges = OneEdge(pos - dir, pos)
    /\ Tracks(pos - dir, rest)
    /\ lastRest = IF AtDetent(pos) THEN pos ELSE rest
    /\ sure => expected = IF AtDetent(pos) /\ pos # rest THEN Counted(Settled, dir) ELSE Settled

DetentInv == CaughtUp \/ \E dir \in {-1, 1}, rest \in -MaxTurn..MaxTurn : OneBehind(dir, rest)

\* The quarters of a detent, and the line that changes between two of them.
LEMMA Quarters ==
    ASSUME NEW p \in Int, NEW dir \in {-1, 1}
    PROVE  /\ p % 4 \in 0..3
           /\ (p + dir) % 4 = IF dir = 1 THEN (IF p % 4 = 3 THEN 0 ELSE (p % 4) + 1)
                              ELSE (IF p % 4 = 0 THEN 3 ELSE (p % 4) - 1)
  OBVIOUS

LEMMA LineMoved ==
    ASSUME NEW p \in Int, NEW dir \in {-1, 1}
    PROVE  /\ Moved(p, p + dir) = IF dir = 1 THEN (IF p % 4 \in {0, 2} THEN "a" ELSE "b")
                                  ELSE (IF p % 4 \in {1, 3} THEN "a" ELSE "b")
           /\ EdgeTo(p, p + dir) = IF dir = 1 THEN (IF p % 4 \in {2, 3} THEN "rise" ELSE "fall")
                                   ELSE (IF p % 4 \in {1, 2} THEN "rise" ELSE "fall")
<1>. DEFINE s == p % 4
            t == (p + dir) % 4
<1>1. /\ s \in 0..3
      /\ t = IF dir = 1 THEN (IF s = 3 THEN 0 ELSE s + 1) ELSE (IF s = 0 THEN 3 ELSE s - 1)
  BY Quarters
<1>2. /\ High("a", p) <=> s \in {0, 3}
      /\ High("b", p) <=> s \in {0, 1}
      /\ High("a", p + dir) <=> t \in {0, 3}
      /\ High("b", p + dir) <=> t \in {0, 1}
  BY DEF High
<1>. DEFINE line == IF dir = 1 THEN (IF s \in {0, 2} THEN "a" ELSE "b")
                    ELSE (IF s \in {1, 3} THEN "a" ELSE "b")
<1>. HIDE DEF s, t
<1>3. \A l \in Lines : (High(l, p) # High(l, p + dir)) <=> l = line
  <2>1. /\ (High("a", p) <=> High("a", p + dir)) <=> line # "a"
        /\ (High("b", p) <=> High("b", p + dir)) <=> line # "b"
    BY <1>1, <1>2
  <2>. HIDE DEF line
  <2>2. \A l, q : High(l, q) \in BOOLEAN
    BY DEF High
  <2>3. \A l \in Lines : (High(l, p) <=> High(l, p + dir)) <=> line # l
    BY <2>1 DEF Lines
  <2>4. \A l : (High(l, p) <=> High(l, p + dir)) <=> (High(l, p) = High(l, p + dir))
    BY <2>2, Zenon
  <2>5. QED BY <2>3, <2>4, Zenon
<1>4. line \in Lines
  BY DEF Lines
<1>5. Moved(p, p + dir) = line
  <2>1. \A l \in Lines : High(l, p) # High(l, p + dir) <=> l = line
    BY <1>3
  <2>. HIDE DEF line
  <2>2. QED BY <1>4, <2>1 DEF Moved
<1>6. High(line, p + dir) <=> IF dir = 1 THEN s \in {2, 3} ELSE s \in {1, 2}
  BY <1>1, <1>2
<1>7. EdgeTo(p, p + dir) = IF High(line, p + dir) THEN "rise" ELSE "fall"
  BY <1>5 DEF EdgeTo
<1>8. QED BY <1>5, <1>6, <1>7 DEF s

\* The state after the edge is the quarter it led to; the direction is set
\* where the knob leaves a detent, and a count where it comes to another.
Follows(p, dir, s, line, edge) ==
    /\ NextState[line][edge][s + 1] = (p + dir) % 4
    /\ Direction(s, line, edge) = IF s = 0 THEN dir = 1 ELSE clkwise
    /\ CountsLeft(s, line, edge) <=> s = 1 /\ dir = -1 /\ ~clkwise
    /\ CountsRight(s, line, edge) <=> s = 3 /\ dir = 1 /\ clkwise

\* The states array and its two handlers do so, for every edge the knob makes.
LEMMA TableFollows ==
    ASSUME NEW p \in Int, NEW dir \in {-1, 1},
           NEW s \in 0..3, s = p % 4,
           NEW line \in Lines, line = Moved(p, p + dir),
           NEW edge \in {"rise", "fall"}, edge = EdgeTo(p, p + dir)
    PROVE  Follows(p, dir, s, line, edge)
<1>1. /\ line = IF dir = 1 THEN (IF s \in {0, 2} THEN "a" ELSE "b")
                ELSE (IF s \in {1, 3} THEN "a" ELSE "b")
      /\ edge = IF dir = 1 THEN (IF s \in {2, 3} THEN "rise" ELSE "fall")
                ELSE (IF s \in {1, 2} THEN "rise" ELSE "fall")
      /\ (p + dir) % 4 = IF dir = 1 THEN (IF s = 3 THEN 0 ELSE s + 1)
                         ELSE (IF s = 0 THEN 3 ELSE s - 1)
  BY LineMoved, Quarters
<1>2. NextState[line][edge][s + 1] = (p + dir) % 4
  BY <1>1 DEF NextState
<1>3. Direction(s, line, edge) = IF s = 0 THEN dir = 1 ELSE clkwise
  BY <1>1 DEF Direction
<1>4. /\ CountsLeft(s, line, edge) <=> s = 1 /\ dir = -1 /\ ~clkwise
      /\ CountsRight(s, line, edge) <=> s = 3 /\ dir = 1 /\ clkwise
  BY <1>1 DEF CountsLeft, CountsRight
<1>5. QED BY <1>2, <1>3, <1>4, Zenon DEF Follows

\* Between two detents the side of the last one is known: the next one is
\* reached only from the quarter where the machine counts.
LEMMA DetentReached ==
    ASSUME NEW p \in Int, NEW rest \in Int, rest % 4 = 0, NEW dir \in {-1, 1}, NEW up,
           IF up THEN p - rest \in 0..3 ELSE p - rest \in -3..0
    PROVE  LET q == p + dir
               next == IF q % 4 = 0 THEN q ELSE rest
               side == IF p % 4 = 0 THEN dir = 1 ELSE up
           IN  /\ next % 4 = 0
               /\ IF side THEN q - next \in 0..3 ELSE q - next \in -3..0
               /\ q % 4 = 0 /\ q # rest <=> \/ p % 4 = 1 /\ dir = -1 /\ ~up
                                            \/ p % 4 = 3 /\ dir = 1 /\ up
<1>1. PICK m \in Int : rest = 4 * m
  OBVIOUS
<1>2. p - rest \in -3..3
  OBVIOUS
<1>3. CASE p - rest = 0
  <2>1. p = rest /\ p % 4 = 0 /\ (p + dir) % 4 # 0
    BY <1>1, <1>3
  <2>2. QED BY <2>1
<1>4. CASE p - rest \in 1..3
  <2>1. up
    BY <1>4
  <2>2. p % 4 = p - rest
    BY <1>1, <1>4
  <2>3. QED BY <1>1, <1>4, <2>1, <2>2
<1>5. CASE p - rest \in -3..-1
  <2>1. ~up
    BY <1>5
  <2>2. p % 4 = p - rest + 4
    BY <1>1, <1>5
  <2>3. QED BY <1>1, <1>5, <2>1, <2>2
<1>6. QED BY <1>2, <1>3, <1>4, <1>5

LEMMA BehindCounts ==
    ASSUME EdgeInv
    PROVE  Behind \in Nat /\ (Behind = 0 <=> edges["a"] = <<>> /\ edges["b"] = <<>>)
<1>1. PICK ea \in Seq(Edges), eb \in Seq(Edges) : ea = edges["a"] /\ eb = edges["b"]
  BY DEF EdgeInv, Lines
<1>2. PICK na \in Nat, nb \in Nat : na = Len(ea) /\ nb = Len(eb)
  BY LenProperties
<1>3. (na = 0 <=> ea = <<>>) /\ (nb = 0 <=> eb = <<>>)
  BY <1>2, EmptySeq
<1>4. Behind = na + nb
  BY <1>1, <1>2 DEF Behind
<1>5. QED BY <1>1, <1>3, <1>4

\* One edge is behind; none is not.
LEMMA OneIsBehind ==
    ASSUME EdgeInv, KnobTypes, NEW dir \in {-1, 1}, edges = OneEdge(pos - dir, pos)
    PROVE  Behind # 0
<1>1. PICK p \in Int : p = pos - dir /\ pos = p + dir
  BY DEF KnobTypes
<1>2. Moved(p, p + dir) \in Lines
  BY LineMoved DEF Lines
<1>3. edges = OneEdge(p, p + dir)
  BY <1>1
<1>4. PICK line \in Lines : edges[line] # <<>>
  BY <1>2, <1>3 DEF OneEdge
<1>5. QED BY <1>4, BehindCounts DEF Lines

LEMMA KnobFallsBehind ==
    ASSUME KeepsUp, EdgeInv, KnobTypes, DetentInv, TurnKnob
    PROVE  DetentInv'
<1>1. Behind < MaxBehind /\ Behind \in Nat
  BY BehindCounts DEF TurnKnob
<1>2. Behind = 0
  BY <1>1, EncoderAssumption DEF KeepsUp
<1>3. CaughtUp
  BY <1>2, OneIsBehind DEF DetentInv, OneBehind
<1>4. PICK dir \in {-1, 1} :
         LET next == pos + dir
             line == Moved(pos, next)
         IN  /\ pos' = next
             /\ edges' = [edges EXCEPT ![line] =
                             Append(@, IF High(line, next) THEN "rise" ELSE "fall")]
             /\ lastRest' = IF AtDetent(next) THEN next ELSE lastRest
             /\ expected' = IF AtDetent(next) /\ next # lastRest
                            THEN Counted(expected, dir) ELSE expected
  BY DEF TurnKnob
<1>5. /\ pos \in Int /\ lastRest \in -MaxTurn..MaxTurn
      /\ pos' = pos + dir /\ pos' - dir = pos
  BY <1>4 DEF KnobTypes
<1>6. UNCHANGED <<counter, turn, sure, current_state, clkwise>>
  BY DEF TurnKnob, counterVars, machineVars
<1>7. edges' = OneEdge(pos, pos + dir)
  <2>1. PICK edge : edge = EdgeTo(pos, pos + dir)
    OBVIOUS
  <2>2. PICK line \in Lines : line = Moved(pos, pos + dir)
    BY <1>5, LineMoved DEF Lines
  <2>3. edges' = [edges EXCEPT ![line] = Append(@, edge)]
    BY <1>4, <2>1, <2>2 DEF EdgeTo
  <2>4. Append(<<>>, edge) = <<edge>>
    OBVIOUS
  <2>5. edges' = [l \in Lines |-> IF l = line THEN <<edge>> ELSE <<>>]
    BY <1>3, <2>3, <2>4 DEF CaughtUp
  <2>6. QED BY <2>1, <2>2, <2>5 DEF OneEdge
<1>8. PICK rest \in -MaxTurn..MaxTurn : rest = lastRest
  BY <1>5
<1>9. OneBehind(dir, rest)'
  <2>1. edges' = OneEdge(pos' - dir, pos')
    BY <1>5, <1>7
  <2>2. Tracks(pos, rest) /\ (sure => expected = Settled)
    BY <1>3, <1>8 DEF CaughtUp
  <2>3. Tracks(pos - dir, rest)'
    BY <1>5, <1>6, <2>2 DEF Tracks
  <2>4. lastRest' = IF AtDetent(pos') THEN pos' ELSE rest
    BY <1>4, <1>8
  <2>5. Settled' = Settled /\ sure' = sure
    BY <1>6 DEF Settled
  <2>6. expected' = IF AtDetent(pos') /\ pos' # rest THEN Counted(expected, dir) ELSE expected
    BY <1>4, <1>8
  <2>7. sure' => expected' = IF AtDetent(pos') /\ pos' # rest THEN Counted(Settled', dir)
                             ELSE Settled'
    BY <2>2, <2>5, <2>6
  <2>8. QED BY <2>1, <2>3, <2>4, <2>7 DEF OneBehind
<1>10. QED BY <1>9 DEF DetentInv

\* Where nothing is read and the knob is still, nothing changes but how far a
\* count has come.
LEMMA StillKeeps ==
    ASSUME DetentInv, UNCHANGED <<edges, pos, lastRest, current_state, clkwise>>,
           sure' => sure /\ expected' = expected /\ Settled' = Settled
    PROVE  DetentInv'
<1>1. CASE CaughtUp
  <2>1. CaughtUp'
    BY <1>1 DEF CaughtUp, Tracks
  <2>2. QED BY <2>1 DEF DetentInv
<1>2. CASE \E dir \in {-1, 1}, rest \in -MaxTurn..MaxTurn : OneBehind(dir, rest)
  <2>1. PICK dir \in {-1, 1}, rest \in -MaxTurn..MaxTurn : OneBehind(dir, rest)
    BY <1>2
  <2>2. PICK settled : settled = Settled
    OBVIOUS
  <2>3. sure' => sure /\ expected' = expected /\ Settled' = settled
    BY <2>2
  <2>4. Tracks(pos - dir, rest)'
    BY <2>1 DEF OneBehind, Tracks
  <2>5. edges' = OneEdge(pos' - dir, pos') /\ lastRest' = IF AtDetent(pos') THEN pos' ELSE rest
    BY <2>1 DEF OneBehind
  <2>6. sure' => expected' = IF AtDetent(pos') /\ pos' # rest THEN Counted(settled, dir)
                             ELSE settled
    BY <2>1, <2>2, <2>3 DEF OneBehind
  <2>7. OneBehind(dir, rest)'
    BY <2>3, <2>4, <2>5, <2>6 DEF OneBehind
  <2>8. QED BY <2>7 DEF DetentInv
<1>3. QED BY <1>1, <1>2 DEF DetentInv

LEMMA ClampSettles ==
    ASSUME CountInv, Clamp
    PROVE  Settled' = Settled
<1>1. CASE ReadToClamp
  <2>1. turn' = [turn EXCEPT !.at = "store", !.val = Clamped(turn.dir, counter)]
        /\ turn.at = "clamp"
    BY <1>1 DEF ReadToClamp
  <2>2. turn'.at = "store" /\ turn'.val = Clamped(turn.dir, counter)
    BY <2>1 DEF CountInv, CounterTypeOK
  <2>3. QED BY <2>1, <2>2 DEF Settled
<1>2. CASE StoreClamped
  BY <1>2 DEF StoreClamped, Resting, Settled
<1>3. QED BY <1>1, <1>2 DEF Clamp

LEMMA ResetSettles ==
    ASSUME EdgeInv, KnobTypes, DetentInv, Reset
    PROVE  DetentInv'
<1>1. UNCHANGED <<edges, pos, lastRest, current_state, clkwise, turn>>
  BY DEF Reset, SetCounter, machineVars
<1>2. counter' = 0 /\ expected' = 0 /\ (sure' => Quiet)
  BY DEF Reset, SetCounter
<1>3. sure' => expected' = Settled'
  BY <1>1, <1>2 DEF Quiet, Settled
<1>4. CASE CaughtUp
  <2>1. CaughtUp'
    BY <1>1, <1>3, <1>4 DEF CaughtUp, Tracks
  <2>2. QED BY <2>1 DEF DetentInv
<1>5. CASE ~CaughtUp
  <2>1. ~sure'
    BY <1>2, <1>5, OneIsBehind DEF DetentInv, OneBehind, Quiet
  <2>2. QED BY <1>1, <2>1, StillKeeps
<1>6. QED BY <1>4, <1>5

\* The thread takes the one edge there is.
LEMMA EdgeReadSettles ==
    ASSUME CountInv, EdgeInv, KnobTypes, MachineTypes, DetentInv, ReadEdge
    PROVE  DetentInv'
<1>0. Head(batch) \in Lines /\ edges[Head(batch)] # <<>>
  BY ReadTakesHead
<1>1. ~CaughtUp
  BY <1>0 DEF CaughtUp
<1>2. PICK dir \in {-1, 1}, rest \in -MaxTurn..MaxTurn : OneBehind(dir, rest)
  BY <1>1 DEF DetentInv
<1>3. PICK p \in Int : p = pos - dir /\ pos = p + dir
  BY DEF KnobTypes
<1>4. PICK line \in Lines, edge \in {"rise", "fall"} :
          /\ line = Moved(p, p + dir) /\ edge = EdgeTo(p, p + dir)
          /\ edges = [l \in Lines |-> IF l = line THEN <<edge>> ELSE <<>>]
  <2>1. Moved(p, p + dir) \in Lines
    BY LineMoved DEF Lines
  <2>2. edges = OneEdge(p, p + dir)
    BY <1>2, <1>3 DEF OneBehind
  <2>3. EdgeTo(p, p + dir) \in {"rise", "fall"}
    BY DEF EdgeTo
  <2>4. QED BY <2>1, <2>2, <2>3 DEF OneEdge
<1>5. Head(batch) = line /\ Head(edges[line]) = edge /\ Tail(edges[line]) = <<>>
  BY <1>0, <1>4
<1>6. edges' = [l \in Lines |-> <<>>]
  <2>1. edges' = [edges EXCEPT ![line] = Tail(@)]
    BY <1>5, ReadTakesHead
  <2>2. QED BY <1>4, <1>5, <2>1
<1>7. PICK s \in 0..3 : s = current_state /\ s = p % 4
  BY <1>2, <1>3 DEF MachineTypes, OneBehind, Tracks
<1>8. /\ current_state' = NextState[line][edge][s + 1]
      /\ clkwise' = Direction(s, line, edge)
      /\ IF CountsLeft(s, line, edge) THEN Count(-1)
         ELSE IF CountsRight(s, line, edge) THEN Count(1)
         ELSE UNCHANGED counterVars
  BY <1>5, <1>7 DEF ReadEdge
<1>9. UNCHANGED <<pos, lastRest, expected, sure>> /\ turn.at = "rest"
  BY DEF ReadEdge, knobVars
<1>a. /\ NextState[line][edge][s + 1] = (p + dir) % 4
      /\ Direction(s, line, edge) = IF s = 0 THEN dir = 1 ELSE clkwise
      /\ CountsLeft(s, line, edge) <=> s = 1 /\ dir = -1 /\ ~clkwise
      /\ CountsRight(s, line, edge) <=> s = 3 /\ dir = 1 /\ clkwise
  <2>1. s = p % 4 /\ line = Moved(p, p + dir) /\ edge = EdgeTo(p, p + dir)
    BY <1>4, <1>7
  <2>2. Follows(p, dir, s, line, edge)
    BY <2>1, TableFollows
  <2>3. QED BY <2>2, Zenon DEF Follows
<1>10. /\ current_state' = pos % 4
       /\ clkwise' = IF s = 0 THEN dir = 1 ELSE clkwise
  <2>1. current_state' = pos % 4
    BY <1>3, <1>8, <1>a
  <2>2. clkwise' = IF s = 0 THEN dir = 1 ELSE clkwise
    BY <1>8, <1>a, Zenon
  <2>3. QED BY <2>1, <2>2
<1>11. /\ lastRest % 4 = 0
       /\ IF clkwise' THEN pos - lastRest \in 0..3 ELSE pos - lastRest \in -3..0
       /\ AtDetent(pos) /\ pos # rest <=> \/ s = 1 /\ dir = -1 /\ ~clkwise
                                          \/ s = 3 /\ dir = 1 /\ clkwise
  <2>1. /\ rest \in Int /\ rest % 4 = 0
        /\ IF clkwise THEN p - rest \in 0..3 ELSE p - rest \in -3..0
        /\ lastRest = IF AtDetent(pos) THEN pos ELSE rest
    BY <1>2, <1>3 DEF OneBehind, Tracks
  <2>2. PICK up, side : up = clkwise /\ side = clkwise'
    OBVIOUS
  <2>3. LET q == p + dir
            next == IF q % 4 = 0 THEN q ELSE rest
            turned == IF p % 4 = 0 THEN dir = 1 ELSE up
        IN  /\ next % 4 = 0
            /\ IF turned THEN q - next \in 0..3 ELSE q - next \in -3..0
            /\ q % 4 = 0 /\ q # rest <=> \/ p % 4 = 1 /\ dir = -1 /\ ~up
                                         \/ p % 4 = 3 /\ dir = 1 /\ up
    BY <2>1, <2>2, DetentReached
  <2>4. side = IF p % 4 = 0 THEN dir = 1 ELSE up
    BY <1>7, <1>10, <2>2, Zenon
  <2>5. lastRest = IF pos % 4 = 0 THEN pos ELSE rest
    BY <2>1 DEF AtDetent
  <2>6. /\ lastRest % 4 = 0
        /\ IF side THEN pos - lastRest \in 0..3 ELSE pos - lastRest \in -3..0
        /\ pos % 4 = 0 /\ pos # rest <=> \/ s = 1 /\ dir = -1 /\ ~up
                                         \/ s = 3 /\ dir = 1 /\ up
    <3>1. pos = p + dir /\ lastRest = IF (p + dir) % 4 = 0 THEN p + dir ELSE rest
      BY <1>3, <2>5
    <3>2. side <=> IF p % 4 = 0 THEN dir = 1 ELSE up
      BY <2>4, Zenon
    <3>3. QED BY <1>7, <2>3, <3>1, <3>2
  <2>7. QED BY <2>2, <2>6 DEF AtDetent
<1>12. Settled' = IF AtDetent(pos) /\ pos # rest THEN Counted(Settled, dir) ELSE Settled
  <2>1. Settled = counter
    BY <1>9 DEF Settled
  <2>2. CASE AtDetent(pos) /\ pos # rest
    <3>1. Count(dir)
      BY <1>8, <1>a, <1>11, <2>2
    <3>2. /\ turn' = [at |-> "clamp", dir |-> dir, val |-> 0]
          /\ counter' = counter + dir * Step
      BY <3>1 DEF Count
    <3>3. Settled' = Clamped(dir, counter + dir * Step)
      BY <3>2 DEF Settled
    <3>4. QED BY <2>1, <2>2, <3>3 DEF Counted
  <2>3. CASE ~(AtDetent(pos) /\ pos # rest)
    <3>1. UNCHANGED counterVars
      BY <1>8, <1>a, <1>11, <2>3
    <3>2. QED BY <2>3, <3>1 DEF counterVars, Settled
  <2>4. QED BY <2>2, <2>3
<1>13. sure' => expected' = Settled'
  BY <1>2, <1>9, <1>12 DEF OneBehind
<1>14. Tracks(pos, lastRest)'
  BY <1>9, <1>10, <1>11 DEF Tracks
<1>15. CaughtUp'
  BY <1>6, <1>13, <1>14 DEF CaughtUp
<1>16. QED BY <1>15 DEF DetentInv

LEMMA DetentStep ==
    ASSUME KeepsUp, CountInv, EdgeInv, KnobTypes, MachineTypes, DetentInv, [Next]_vars
    PROVE  DetentInv'
<1>1. CASE TurnKnob BY <1>1, KnobFallsBehind
<1>2. CASE Reset BY <1>2, ResetSettles
<1>3. CASE ReadEdge BY <1>3, EdgeReadSettles
<1>4. CASE Clamp
  <2>1. UNCHANGED <<edges, knobVars, machineVars>>
    BY <1>4 DEF Clamp
  <2>2. QED BY <1>4, <2>1, ClampSettles, StillKeeps DEF knobVars, machineVars
<1>5. CASE InitCheck \/ WaitLineChange \/ MainSteps \/ UNCHANGED vars
  <2>1. UNCHANGED <<counterVars, edges, knobVars, current_state, clkwise>>
    BY <1>5
    DEF InitCheck, WaitLineChange, MainSteps, Main, OpenLines, CreateThread, SetInitialized,
        StopThread, JoinThread, CloseLines, vars, machineVars
  <2>2. UNCHANGED <<edges, pos, lastRest, expected, sure, current_state, clkwise>>
        /\ Settled' = Settled
    BY <2>1 DEF counterVars, knobVars, Settled
  <2>3. QED BY <2>2, StillKeeps
<1>6. QED BY <1>1, <1>2, <1>3, <1>4, <1>5 DEF Next, Thread

\* The counter is the number of detents the knob was turned by, as long as the
\* thread keeps up with the edges (rotary_encoder.c:67-110): turning back and a
\* bouncing contact included.  After a reset in the middle of a turn nothing is
\* said until the next one at rest.
THEOREM DetentsAreCounted ==
    ASSUME KeepsUp PROVE Spec => []CountsDetents
<1>1. Init => DetentInv
  <2>1. ASSUME Init PROVE CaughtUp
    <3>1. /\ edges = [l \in Lines |-> <<>>] /\ pos = 0 /\ lastRest = 0 /\ expected = 0
          /\ current_state = 0 /\ clkwise = FALSE /\ counter = 0 /\ turn = Resting
      BY <2>1, Zenon DEF Init, CounterInit
    <3>2. Tracks(pos, lastRest)
      BY <3>1 DEF Tracks
    <3>3. expected = Settled
      BY <3>1 DEF Settled, Resting
    <3>4. QED BY <3>1, <3>2, <3>3 DEF CaughtUp
  <2>2. QED BY <2>1 DEF DetentInv
<1>2. /\ CountInv /\ EdgeInv /\ KnobTypes /\ MachineTypes /\ DetentInv /\ [Next]_vars
      => DetentInv'
  BY DetentStep
<1>3. DetentInv /\ EdgeInv /\ KnobTypes => CountsDetents
  <2>1. ASSUME CaughtUp, Quiet, sure PROVE counter = expected
    BY <2>1 DEF CaughtUp, Quiet, Settled
  <2>2. ASSUME EdgeInv, KnobTypes, NEW dir \in {-1, 1}, NEW rest \in -MaxTurn..MaxTurn,
               OneBehind(dir, rest)
        PROVE  ~Quiet
    BY <2>2, OneIsBehind DEF OneBehind, Quiet
  <2>3. QED BY <2>1, <2>2 DEF DetentInv, CountsDetents
<1>4. QED
  BY <1>1, <1>2, <1>3, CountInvariant, EdgeInvariant, TypesInvariant, PTL DEF Spec
==============================================================================
