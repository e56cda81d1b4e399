---------------------------- MODULE ControllerProofs ----------------------------
(***************************************************************************)
(* What the display keeps for a stream of any length, and the controller   *)
(* program, which runs it, for every number of pages and of frames.        *)
(***************************************************************************)
EXTENDS Controller, FiniteSetTheorems, TLAPS

(***************************************************************************)
(* The display.                                                            *)
(***************************************************************************)
LcdTypes ==
    /\ process \in {"running", "exited"}
    /\ mainAt \in MainStages /\ decoderAt \in DecoderStages /\ frameAt \in FrameStages
    /\ frame_lock \in {"none", "decoder", "frame"}
    /\ dirty_frame \in BOOLEAN /\ stop_thread \in BOOLEAN

\* Each thread is started before the next one and joined in the opposite
\* order.  The frame thread ends only once it was told to, when the decoder
\* has ended: this is what makes its last unlock harmless.
Stopping == {"signal", "join_frame", "free", "done"}

LifeInv ==
    /\ decoderAt = "none" <=> mainAt = "init"
    /\ decoderAt \in {"none", "open"} => frameAt = "none"
    /\ mainAt \in {"stop"} \cup Stopping => decoderAt = "done"
    /\ mainAt \in {"free", "done"} => frameAt = "done"
    /\ stop_thread => mainAt \in Stopping
    /\ frameAt \in {"unlock", "done"} => stop_thread

\* The frame that waits is the last one handed over and newer than the one
\* that was drawn last; one clone was made for each.
FrameInv ==
    /\ handed \in 0..MaxFrames
    /\ decoderAt \in {"show", "hand"} => handed < MaxFrames
    /\ queued_frame \in 0..handed
    /\ mainAt # "done" => buffered_frame = handed /\ clones = handed
    /\ mainAt = "done" => buffered_frame = 0 /\ clones \in 0..MaxFrames
    /\ mainAt # "done" /\ dirty_frame => queued_frame < handed
    /\ frameAt = "copy" => dirty_frame

LcdInv == LcdTypes /\ LifeInv /\ LockHeldInside /\ FrameInv

-----------------------------------------------------------------------------
LEMMA LcdInvInit == Init => LcdInv
<1>1. Init => LcdTypes
  BY DEF Init, LcdTypes, MainStages, DecoderStages, FrameStages
<1>2. Init => LifeInv /\ LockHeldInside
  BY DEF Init, LifeInv, LockHeldInside, Stopping
<1>3. Init => FrameInv
  BY FramesAssumption DEF Init, FrameInv
<1>4. QED BY <1>1, <1>2, <1>3 DEF LcdInv

\* The exits change nothing but the process.
LEMMA ExitsKeep == ASSUME LcdInv, Exits PROVE LcdInv'
  BY DEF Exits, lcdVars, LcdInv, LcdTypes, LifeInv, LockHeldInside, FrameInv

LEMMA DecoderKeeps ==
    ASSUME LcdInv, DecoderSteps \/ ReadPacket
    PROVE  LcdInv'
<1> USE DEF LcdInv, Decoder, lcdVars
<1>1. CASE OpenVideo
  <2>1. LcdTypes' /\ LifeInv'
    BY <1>1 DEF OpenVideo, LcdTypes, LifeInv, Stopping, DecoderStages, FrameStages
  <2>2. LockHeldInside' /\ FrameInv'
    BY <1>1 DEF OpenVideo, LcdTypes, LifeInv, LockHeldInside, FrameInv
  <2>3. QED BY <2>1, <2>2
<1>2. CASE OpenFails \/ DecodingFails
  BY <1>2, ExitsKeep DEF OpenFails, DecodingFails
<1>3. CASE ReadPacket \/ StreamEnds \/ ReceiveFrame \/ ReceiveNothing
  <2>1. LcdTypes' /\ LifeInv'
    BY <1>3
    DEF ReadPacket, StreamEnds, ReceiveFrame, ReceiveNothing, LcdTypes, LifeInv, Stopping,
        DecoderStages
  <2>2. LockHeldInside' /\ FrameInv'
    BY <1>3
    DEF ReadPacket, StreamEnds, ReceiveFrame, ReceiveNothing, LockHeldInside, FrameInv
  <2>3. QED BY <2>1, <2>2
<1>4. CASE LockToShow
  <2>1. LcdTypes' /\ LifeInv'
    BY <1>4 DEF LockToShow, LcdTypes, LifeInv, Stopping, DecoderStages
  <2>2. LockHeldInside' /\ FrameInv'
    BY <1>4 DEF LockToShow, LockHeldInside, FrameInv
  <2>3. QED BY <2>1, <2>2
<1>5. CASE HandOver
  <2>1. mainAt \notin {"init", "stop"} \cup Stopping
    BY <1>5 DEF HandOver, LifeInv
  <2>2. frameAt' = frameAt \/ (frameAt = "waiting" /\ frameAt' = "lock")
    BY <1>5 DEF HandOver, Signal
  <2>3. LcdTypes' /\ LifeInv'
    BY <1>5, <2>1, <2>2
    DEF HandOver, LcdTypes, LifeInv, Stopping, DecoderStages, FrameStages
  <2>4. LockHeldInside'
    BY <1>5, <2>2 DEF HandOver, LockHeldInside
  <2>5. mainAt' # "done" /\ frameAt' # "copy"
    BY <1>5, <2>1, <2>2 DEF HandOver, Stopping, LockHeldInside
  <2>6. FrameInv'
    BY <1>5, <2>1, <2>5, FramesAssumption DEF HandOver, FrameInv, Stopping
  <2>7. QED BY <2>3, <2>4, <2>6
<1>6. QED BY <1>1, <1>2, <1>3, <1>4, <1>5 DEF DecoderSteps

LEMMA FrameKeeps ==
    ASSUME LcdInv, FrameSteps \/ WakesUnasked
    PROVE  LcdInv'
<1> USE DEF LcdInv, Frame, lcdVars
<1>1. LcdTypes'
  BY DEF FrameSteps, WakesUnasked, Lock, MustWait, Wait, HasFrame, NoFrameLeft, Copy, Draw,
         EndLoop, UnlockAgain, LcdTypes, FrameStages
<1>2. LifeInv'
  BY DEF FrameSteps, WakesUnasked, Lock, MustWait, Wait, HasFrame, NoFrameLeft, Copy, Draw,
         EndLoop, UnlockAgain, LifeInv, Stopping
<1>3. LockHeldInside'
  <2>1. CASE UnlockAgain
    <3>1. frame_lock = "none"
      BY <2>1 DEF UnlockAgain, LcdTypes, LifeInv, Stopping, LockHeldInside
    <3>2. QED BY <2>1, <3>1 DEF UnlockAgain, LockHeldInside
  <2>2. CASE ~UnlockAgain
    BY <2>2
    DEF FrameSteps, WakesUnasked, Lock, MustWait, Wait, HasFrame, NoFrameLeft, Copy, Draw,
        EndLoop, LockHeldInside
  <2>3. QED BY <2>1, <2>2
<1>4. FrameInv'
  <2>1. mainAt # "done"
    BY DEF FrameSteps, WakesUnasked, Lock, MustWait, Wait, HasFrame, NoFrameLeft, Copy, Draw,
           EndLoop, UnlockAgain, LifeInv
  <2>2. CASE Copy
    BY <2>1, <2>2 DEF Copy, FrameInv
  <2>3. CASE ~Copy
    BY <2>1, <2>3
    DEF FrameSteps, WakesUnasked, Lock, MustWait, Wait, HasFrame, NoFrameLeft, Draw,
        EndLoop, UnlockAgain, FrameInv
  <2>4. QED BY <2>2, <2>3
<1>5. QED BY <1>1, <1>2, <1>3, <1>4

LEMMA MainKeeps ==
    ASSUME LcdInv, MainSteps \/ ServerStops
    PROVE  LcdInv'
<1> USE DEF LcdInv, Main, lcdVars
<1>1. CASE LcdInitFails
  BY <1>1, ExitsKeep DEF LcdInitFails
<1>2. CASE Construct \/ ServerStops \/ JoinDecoder \/ StopFrameThread \/ JoinFrameThread
  <2>0. LcdTypes'
    BY <1>2
    DEF Construct, ServerStops, JoinDecoder, StopFrameThread, JoinFrameThread, LcdTypes,
        MainStages, DecoderStages
  <2>1. LifeInv'
    <3>1. CASE StopFrameThread
      BY <3>1 DEF StopFrameThread, LifeInv, Stopping
    <3>2. CASE Construct
      BY <3>2 DEF Construct, LifeInv, Stopping
    <3>3. CASE ServerStops \/ JoinDecoder \/ JoinFrameThread
      BY <3>3 DEF ServerStops, JoinDecoder, JoinFrameThread, LifeInv, Stopping
    <3>4. QED BY <1>2, <3>1, <3>2, <3>3
  <2>2. LockHeldInside' /\ FrameInv'
    BY <1>2
    DEF Construct, ServerStops, JoinDecoder, StopFrameThread, JoinFrameThread,
        LockHeldInside, FrameInv, LifeInv
  <2>3. QED BY <2>0, <2>1, <2>2
<1>3. CASE SignalStop
  <2>1. frameAt' = frameAt \/ (frameAt = "waiting" /\ frameAt' = "lock")
    BY <1>3 DEF SignalStop, Signal
  <2>2. LcdTypes' /\ LifeInv'
    BY <1>3, <2>1
    DEF SignalStop, LcdTypes, LifeInv, Stopping, MainStages, FrameStages
  <2>3. LockHeldInside' /\ FrameInv'
    BY <1>3, <2>1 DEF SignalStop, LockHeldInside, FrameInv
  <2>4. QED BY <2>2, <2>3
<1>4. CASE FreeFrames
  <2>1. LcdTypes' /\ LifeInv'
    BY <1>4 DEF FreeFrames, LcdTypes, LifeInv, Stopping, MainStages
  <2>2. LockHeldInside'
    BY <1>4 DEF FreeFrames, LockHeldInside
  <2>3. decoderAt = "done" /\ frameAt = "done"
    BY <1>4 DEF FreeFrames, LifeInv, Stopping
  <2>4. clones' \in 0..MaxFrames
    BY <1>4, FramesAssumption DEF FreeFrames, Freed, FrameInv
  <2>5. FrameInv'
    BY <1>4, <2>3, <2>4 DEF FreeFrames, FrameInv
  <2>6. QED BY <2>1, <2>2, <2>5
<1>5. QED BY <1>1, <1>2, <1>3, <1>4 DEF MainSteps

LEMMA LcdInvariant == Spec => []LcdInv
<1>1. LcdInv /\ [Next]_vars => LcdInv'
  <2>1. ASSUME LcdInv, UNCHANGED vars PROVE LcdInv'
    BY <2>1 DEF vars, lcdVars, LcdInv, LcdTypes, LifeInv, LockHeldInside, FrameInv
  <2>2. QED BY <2>1, DecoderKeeps, FrameKeeps, MainKeeps, ExitsKeep DEF Next, EndedElsewhere
<1>2. QED BY <1>1, LcdInvInit, PTL DEF Spec

-----------------------------------------------------------------------------
\* The variables have their types, the clones left over after cleanup included.
THEOREM LcdTypeCorrect == Spec => []TypeOK
<1>1. LcdInv => TypeOK
  BY FramesAssumption DEF LcdInv, LcdTypes, FrameInv, TypeOK, ProcessTypeOK
<1>2. QED BY <1>1, LcdInvariant, PTL

\* The mutex is held exactly by the thread that is inside, although the frame
\* thread unlocks it once more than it locks it.
THEOREM LockRightlyHeld == Spec => []LockHeldInside
<1>1. LcdInv => LockHeldInside
  BY DEF LcdInv
<1>2. QED BY <1>1, LcdInvariant, PTL

\* The frames are freed when both threads that use them have ended.
THEOREM FreedWhenUnused == Spec => []FreedUnused
<1>1. LcdInv => FreedUnused
  BY DEF LcdInv, LifeInv, Stopping, FreedUnused
<1>2. QED BY <1>1, LcdInvariant, PTL

\* No frame is drawn twice and none before it was handed over.
THEOREM OnlyNewFrames == Spec => DrawsNewFrames
<1>1. LcdInv /\ [Next]_vars
        => [frameAt = "copy" /\ frameAt' = "draw" => queued_frame' > queued_frame]_vars
  <2> SUFFICES ASSUME LcdInv, Next, frameAt = "copy", frameAt' = "draw"
               PROVE  queued_frame' > queued_frame
    OBVIOUS
  <2>1. Copy
    BY DEF Next, MainSteps, Construct, LcdInitFails, JoinDecoder, StopFrameThread, SignalStop,
           JoinFrameThread, FreeFrames, ServerStops, DecoderSteps, OpenVideo, OpenFails,
           StreamEnds, ReceiveFrame, ReceiveNothing, DecodingFails, LockToShow, HandOver,
           ReadPacket, FrameSteps, Lock, MustWait, Wait, HasFrame, NoFrameLeft, Draw, EndLoop,
           UnlockAgain, WakesUnasked, EndedElsewhere, Exits, Signal, Main, Decoder, Frame, lcdVars
  <2>2. mainAt # "done" /\ dirty_frame
    BY DEF LcdInv, LifeInv, FrameInv
  <2>3. QED BY <2>1, <2>2 DEF Copy, LcdInv, FrameInv
<1>2. QED BY <1>1, LcdInvariant, PTL DEF Spec, DrawsNewFrames

-----------------------------------------------------------------------------
(***************************************************************************)
(* The display within the controller: what was proved of it holds in the   *)
(* whole program.                                                          *)
(***************************************************************************)
LEMMA VideoEndsOnly ==
    ASSUME NEW p \in Pages,
           OpenPage(p) \/ ClosePage(p) \/ PipeOrForkFails(p) \/ Fork(p) \/ StartReader(p)
             \/ WaitForChild(p) \/ CloseRead(p) \/ CloseWrite(p) \/ Exec(p) \/ ChildEnds(p)
             \/ ChildObeys(p) \/ Reading(p) \/ ReadingLucky(p)
    PROVE  UNCHANGED process \/ (process = "running" /\ process' = "exited")
  BY DEF OpenPage, ClosePage, PipeOrForkFails, Fork, StartReader, WaitForChild, CloseRead,
         CloseWrite, Exec, ChildEnds, ChildObeys, ChildGoes, Reading, CallRead, ReadFails,
         ReadEnd, Send, CloseOwn, ReadingLucky, ReadData, SendToNobody, Handler, Reader, Aborts

LEMMA DisplayStep == ASSUME ControllerNext PROVE [Next]_vars
<1>1. CASE ControllerMain
  <2>1. CASE StartDisplay \/ Return \/ Destroy
    BY <2>1 DEF StartDisplay, Return, Destroy, Next, MainSteps
  <2>2. CASE OpenInputs \/ StartSender \/ StartServer \/ LeaveServer \/ JoinSend \/ JoinListen
               \/ TellCar \/ CloseInputs
    BY <2>2 DEF OpenInputs, StartSender, StartServer, LeaveServer, JoinSend, JoinListen, TellCar,
                CloseInputs, Close
  <2>3. QED BY <1>1, <2>1, <2>2 DEF ControllerMain
<1>2. CASE StartFails \/ SampleFails
  BY <1>2 DEF StartFails, SampleFails, Next, EndedElsewhere
<1>3. CASE Sample \/ NextRound \/ ListenTimeout \/ CarStops
  BY <1>3 DEF Sample, NextRound, ListenTimeout, CarStops, SenderThreads
<1>4. CASE FromCamera(DecoderSteps) \/ FromCamera(ReadPacket) \/ Display(FrameSteps)
             \/ Display(WakesUnasked)
  BY <1>4 DEF FromCamera, Display, Next
<1>5. CASE Video(Interrupt) \/ Video(StopServer)
  BY <1>5 DEF Video, Interrupt, StopServer, vars
<1>6. CASE \/ Video(BrowserDoes) \/ \E p \in Pages : Video(Handling(p))
           \/ \E p \in Pages : \/ Video(Exec(p)) \/ Video(ChildEnds(p)) \/ Video(ChildObeys(p))
                               \/ Video(Reading(p)) \/ Video(ReadingLucky(p))
  <2>1. UNCHANGED <<mainAt, decoderAt, frameAt, frame_lock, lcdVars>>
    BY <1>6 DEF Video
  <2>2. UNCHANGED process \/ (process = "running" /\ process' = "exited")
    <3>1. CASE Video(BrowserDoes)
      <4>1. PICK p \in load.pages : OpenPage(p) \/ ClosePage(p) \/ PipeOrForkFails(p)
        BY <3>1 DEF Video, BrowserDoes
      <4>2. QED BY <4>1
              DEF OpenPage, ClosePage, PipeOrForkFails, Handler, Aborts
    <3>2. CASE \E p \in Pages : Video(Handling(p))
      BY <3>2, VideoEndsOnly DEF Video, Handling
    <3>3. CASE \E p \in Pages : \/ Video(Exec(p)) \/ Video(ChildEnds(p)) \/ Video(ChildObeys(p))
                                \/ Video(Reading(p)) \/ Video(ReadingLucky(p))
      BY <3>3, VideoEndsOnly DEF Video
    <3>4. QED BY <1>6, <3>1, <3>2, <3>3
  <2>3. CASE UNCHANGED process
    BY <2>1, <2>3 DEF vars
  <2>4. CASE process = "running" /\ process' = "exited"
    BY <2>1, <2>4 DEF Next, EndedElsewhere, Exits
  <2>5. QED BY <2>2, <2>3, <2>4
<1>7. QED BY <1>1, <1>2, <1>3, <1>4, <1>5, <1>6 DEF ControllerNext

\* Whatever main, the sender's threads, the web server and its children do,
\* the display runs as LcdFrames says: the worst they do to it is to end the
\* process.
THEOREM ControllerRunsDisplay == ControllerSpec => Spec
<1>1. ControllerInit => Init
  BY DEF ControllerInit
<1>2. [ControllerNext]_allVars => [Next]_vars
  <2>1. UNCHANGED allVars => UNCHANGED vars
    BY DEF allVars
  <2>2. QED BY <2>1, DisplayStep
<1>3. QED BY <1>1, <1>2, PTL DEF ControllerSpec, Spec

\* The mutex of the display is held by the thread that is inside, in the whole
\* program.
THEOREM ControllerLocksRightly == ControllerSpec => []LockHeldInside
  BY ControllerRunsDisplay, LockRightlyHeld, PTL

\* Main frees the frames only when decoder and frame thread have ended, in the
\* whole program.
THEOREM ControllerFreesUnused == ControllerSpec => []FreedUnused
  BY ControllerRunsDisplay, FreedWhenUnused, PTL

\* No frame is drawn twice, in the whole program.
THEOREM ControllerDrawsNew == ControllerSpec => DrawsNewFrames
  BY ControllerRunsDisplay, OnlyNewFrames, PTL

-----------------------------------------------------------------------------
(***************************************************************************)
(* The inputs.                                                             *)
(***************************************************************************)

\* The send thread lives between its start and main's join, and the inputs are
\* open for longer than that.
InputsInv ==
    /\ sendAt \in {"sample", "sleep"} =>
           ctlAt \in {"display", "server", "serving", "join_send"}
    /\ ctlAt \in {"sender", "display", "server", "serving", "join_send"} => open = Inputs

\* Nothing but main and the sender's threads touches what InputsInv is about.
LEMMA OthersKeepInputs ==
    ASSUME ControllerNext
    PROVE  ControllerMain \/ Sample \/ NextRound
           \/ (ctlAt' = ctlAt /\ open' = open /\ (sendAt' = sendAt \/ sendAt' = "done"))
  BY DEF ControllerNext, StartFails, SampleFails, ListenTimeout, CarStops, SenderThreads,
         FromCamera, Display, Video, controllerVars

LEMMA InputsStep == ASSUME InputsInv, ControllerNext PROVE InputsInv'
<1>1. CASE ControllerMain
  <2>1. CASE OpenInputs \/ StartSender \/ StartServer \/ LeaveServer
    BY <2>1 DEF OpenInputs, StartSender, StartServer, LeaveServer, At, InputsInv
  <2>2. CASE JoinSend \/ JoinListen \/ TellCar \/ CloseInputs
    BY <2>2 DEF JoinSend, JoinListen, TellCar, CloseInputs, Close, At, InputsInv
  <2>3. CASE StartDisplay \/ Return \/ Destroy
    BY <2>3 DEF StartDisplay, Return, Destroy, At, InputsInv, controllerVars
  <2>4. QED BY <1>1, <2>1, <2>2, <2>3 DEF ControllerMain
<1>2. CASE Sample \/ NextRound
  BY <1>2 DEF Sample, NextRound, SenderThreads, InputsInv
<1>3. CASE ctlAt' = ctlAt /\ open' = open /\ (sendAt' = sendAt \/ sendAt' = "done")
  BY <1>3 DEF InputsInv
<1>4. QED BY <1>1, <1>2, <1>3, OthersKeepInputs

\* The send thread samples only inputs that are initialised: main starts it
\* after them and joins it before it closes the first.
THEOREM InputsAreOpen == ControllerSpec => []InputsOpenWhenUsed
<1>1. ControllerInit => InputsInv
  BY DEF ControllerInit, InputsInv
<1>2. InputsInv /\ [ControllerNext]_allVars => InputsInv'
  <2>1. ASSUME InputsInv, UNCHANGED allVars PROVE InputsInv'
    BY <2>1 DEF allVars, controllerVars, InputsInv
  <2>2. QED BY <2>1, InputsStep
<1>3. InputsInv => InputsOpenWhenUsed
  BY DEF InputsInv, InputsOpenWhenUsed
<1>4. QED BY <1>1, <1>2, <1>3, PTL DEF ControllerSpec

-----------------------------------------------------------------------------
(***************************************************************************)
(* The video pages.                                                        *)
(***************************************************************************)
PageAction(p) ==
    \/ OpenPage(p) \/ ClosePage(p) \/ Fork(p) \/ StartReader(p) \/ WaitForChild(p)
    \/ CloseRead(p) \/ CloseWrite(p)
ReaderAction(p) == CallRead(p) \/ ReadEnd(p) \/ Send(p) \/ CloseOwn(p) \/ ReadData(p)
ChildAction(p) == Exec(p) \/ ChildEnds(p) \/ ChildObeys(p)
OnlyServer ==
    UNCHANGED <<page, pipe_fd, fds, child, held, target, reader, fd, source, overlapped>>

\* What a step of the program is to the pages.
LEMMA VideoCases ==
    ASSUME load \in Loads, ControllerNext
    PROVE  \/ \E p \in Pages : PageAction(p) \/ ReaderAction(p) \/ ChildAction(p)
           \/ OnlyServer
<1>1. load.pages \subseteq Pages
  BY LoadsAssumption
<1>2. CASE ControllerMain
  <2>1. CASE OpenInputs \/ StartSender \/ StartDisplay \/ StartServer \/ LeaveServer \/ JoinSend
    BY <2>1 DEF OpenInputs, StartSender, StartDisplay, StartServer, LeaveServer, JoinSend,
                OnlyServer, videoVars
  <2>2. CASE JoinListen \/ TellCar \/ CloseInputs \/ Return \/ Destroy
    BY <2>2 DEF JoinListen, TellCar, CloseInputs, Close, Return, Destroy, OnlyServer, videoVars
  <2>3. QED BY <1>2, <2>1, <2>2 DEF ControllerMain
<1>3. CASE StartFails \/ Sample \/ SampleFails \/ NextRound \/ ListenTimeout \/ CarStops
  BY <1>3 DEF StartFails, Sample, SampleFails, NextRound, ListenTimeout, CarStops,
              SenderThreads, OnlyServer, videoVars
<1>4. CASE FromCamera(DecoderSteps) \/ FromCamera(ReadPacket) \/ Display(FrameSteps)
             \/ Display(WakesUnasked)
  BY <1>4 DEF FromCamera, Display, OnlyServer, videoVars
<1>5. CASE Video(Interrupt) \/ Video(StopServer)
  BY <1>5 DEF Video, Interrupt, StopServer, OnlyServer
<1>6. CASE Video(BrowserDoes)
  <2>1. PICK p \in load.pages : OpenPage(p) \/ ClosePage(p) \/ PipeOrForkFails(p)
    BY <1>6 DEF Video, BrowserDoes
  <2>2. QED BY <1>1, <2>1 DEF PageAction, PipeOrForkFails, Aborts, OnlyServer, videoVars
<1>7. CASE \E p \in Pages : Video(Handling(p))
  BY <1>7 DEF Video, Handling, PageAction
<1>8. CASE \E p \in Pages : \/ Video(Exec(p)) \/ Video(ChildEnds(p)) \/ Video(ChildObeys(p))
                            \/ Video(Reading(p)) \/ Video(ReadingLucky(p))
  BY <1>8 DEF Video, Reading, ReadingLucky, ReadFails, SendToNobody, Aborts, ReaderAction,
              ChildAction, OnlyServer, videoVars
<1>9. QED BY <1>2, <1>3, <1>4, <1>5, <1>6, <1>7, <1>8 DEF ControllerNext

PageTypes ==
    /\ page \in [Pages -> PageStages]
    /\ pipe_fd \in [{"read", "write"} -> Fds \cup {0}]
    /\ fds \in [Fds -> Ends]
    /\ child \in [Pages -> ChildStages] /\ held \in [Pages -> SUBSET Pages]
    /\ target \in [Pages -> Pages \cup {None}]
    /\ reader \in [Pages -> ReaderStages]
    /\ fd \in [Pages -> Fds \cup {0}] /\ source \in [Pages -> Pages \cup {None}]
    /\ overlapped \subseteq Pages
    /\ \A p \in Pages : page[p] # "new" => pipe_fd["read"] \in Fds /\ pipe_fd["write"] \in Fds
    /\ \A p \in Pages : reader[p] # "none" => fd[p] \in Fds

LEMMA EndTypes ==
    /\ Free \in Ends
    /\ \A p \in Pages : \A way \in {"read", "write"} :
          End(p, way) \in Ends /\ End(p, way) # Free
    /\ \A way \in {"read", "write"} : \A e \in Ends :
          e.way = way => \E p \in Pages : e = End(p, way)
<1>1. None \notin Pages
  BY PagesAssumption
<1>2. Free \in Ends
  BY DEF Ends
<1>3. ASSUME NEW p \in Pages, NEW way \in {"read", "write"}
      PROVE  End(p, way) \in Ends /\ End(p, way) # Free
  <2>1. End(p, way).pipe = p /\ Free.pipe = None
    BY DEF End, Free
  <2>2. QED BY <1>1, <2>1 DEF Ends
<1>4. ASSUME NEW way \in {"read", "write"}, NEW e \in Ends, e.way = way
      PROVE  \E p \in Pages : e = End(p, way)
  <2>1. e # Free
    BY <1>4 DEF Free, End
  <2>2. PICK p \in Pages, w \in {"read", "write"} : e = End(p, w)
    BY <2>1 DEF Ends
  <2>3. w = way
    BY <1>4, <2>2 DEF End
  <2>4. QED BY <2>2, <2>3
<1>5. QED BY <1>2, <1>3, <1>4

LEMMA ClosedType == ASSUME NEW f, fds \in [Fds -> Ends] PROVE Closed(f) \in [Fds -> Ends]
  BY EndTypes DEF Closed

LEMMA PageActionTypes ==
    ASSUME PageTypes, NEW p \in Pages, PageAction(p)
    PROVE  PageTypes'
<1> USE DEF PageTypes, Handler
<1>1. page' \in [Pages -> PageStages]
  BY DEF PageAction, OpenPage, ClosePage, Fork, StartReader, WaitForChild, CloseRead, CloseWrite,
         PageStages, Opening, Closing
<1>2. pipe_fd' \in [{"read", "write"} -> Fds \cup {0}]
  BY DEF PageAction, OpenPage, ClosePage, Fork, StartReader, WaitForChild, CloseRead, CloseWrite
<1>3. fds' \in [Fds -> Ends]
  BY ClosedType, EndTypes
  DEF PageAction, OpenPage, ClosePage, Fork, StartReader, WaitForChild, CloseRead, CloseWrite
<1>4. child' \in [Pages -> ChildStages] /\ held' \in [Pages -> SUBSET Pages]
  BY DEF PageAction, OpenPage, ClosePage, Fork, StartReader, WaitForChild, CloseRead, CloseWrite,
         ChildStages, Alive
<1>5. reader' \in [Pages -> ReaderStages] /\ source' \in [Pages -> Pages \cup {None}]
  BY DEF PageAction, OpenPage, ClosePage, Fork, StartReader, WaitForChild, CloseRead, CloseWrite,
         ReaderStages
<1>6. fd' \in [Pages -> Fds \cup {0}]
  BY DEF PageAction, OpenPage, ClosePage, Fork, StartReader, WaitForChild, CloseRead, CloseWrite
<1>7. \A q \in Pages :
          page'[q] # "new" => pipe_fd'["read"] \in Fds /\ pipe_fd'["write"] \in Fds
  BY DEF PageAction, OpenPage, ClosePage, Fork, StartReader, WaitForChild, CloseRead, CloseWrite
<1>8. \A q \in Pages : reader'[q] # "none" => fd'[q] \in Fds
  BY DEF PageAction, OpenPage, ClosePage, Fork, StartReader, WaitForChild, CloseRead, CloseWrite
<1>9. target' \in [Pages -> Pages \cup {None}]
  <2>1. CASE Fork(p)
    <3>1. pipe_fd["write"] \in Fds /\ fds[pipe_fd["write"]] \in Ends
      BY <2>1 DEF Fork
    <3>2. fds[pipe_fd["write"]].way = "write" => fds[pipe_fd["write"]].pipe \in Pages
      BY <3>1, EndTypes DEF End
    <3>3. QED BY <2>1, <3>2 DEF Fork
  <2>2. CASE ~Fork(p)
    BY <2>2 DEF PageAction, OpenPage, ClosePage, StartReader, WaitForChild, CloseRead, CloseWrite
  <2>3. QED BY <2>1, <2>2
<1>10. overlapped' \subseteq Pages
  BY DEF PageAction, OpenPage, ClosePage, Fork, StartReader, WaitForChild, CloseRead, CloseWrite
<1>11. QED BY <1>1, <1>2, <1>3, <1>4, <1>5, <1>6, <1>7, <1>8, <1>9, <1>10

LEMMA ReaderActionTypes ==
    ASSUME PageTypes, NEW p \in Pages, ReaderAction(p)
    PROVE  PageTypes'
<1> USE DEF PageTypes, Reader
<1>1. UNCHANGED <<page, pipe_fd, child, held, target, fd, overlapped>>
  BY DEF ReaderAction, CallRead, ReadEnd, Send, CloseOwn, ReadData
<1>2. reader' \in [Pages -> ReaderStages]
  BY DEF ReaderAction, CallRead, ReadEnd, Send, CloseOwn, ReadData, ReaderStages
<1>3. fds' \in [Fds -> Ends]
  BY ClosedType DEF ReaderAction, CallRead, ReadEnd, Send, CloseOwn, ReadData
<1>4. source' \in [Pages -> Pages \cup {None}]
  <2>1. CASE CallRead(p)
    <3>1. fds[ReadFd(p)].way = "read" /\ source' = [source EXCEPT ![p] = fds[ReadFd(p)].pipe]
      BY <2>1 DEF CallRead
    <3>2. fds[ReadFd(p)].pipe \in Pages \cup {None}
      <4>1. fd[p] \in Fds
        BY <2>1 DEF CallRead
      <4>2. fds[fd[p]] \in Ends
        BY <4>1
      <4>3. PICK q \in Pages : fds[fd[p]] = End(q, "read")
        BY <3>1, <4>2, EndTypes DEF ReadFd
      <4>4. QED BY <4>3 DEF ReadFd, End
    <3>3. QED BY <3>1, <3>2
  <2>2. CASE ReadEnd(p) \/ Send(p) \/ CloseOwn(p) \/ ReadData(p)
    BY <2>2 DEF ReadEnd, Send, CloseOwn, ReadData
  <2>3. QED BY <2>1, <2>2 DEF ReaderAction
<1>5. \A q \in Pages : reader'[q] # "none" => fd'[q] \in Fds
  BY <1>1 DEF ReaderAction, CallRead, ReadEnd, Send, CloseOwn, ReadData
<1>6. QED BY <1>1, <1>2, <1>3, <1>4, <1>5

LEMMA ChildActionTypes ==
    ASSUME PageTypes, NEW p \in Pages, ChildAction(p)
    PROVE  PageTypes'
  BY DEF PageTypes, ChildAction, Exec, ChildEnds, ChildObeys, ChildGoes, ChildStages, Alive

\* As long as no page is closed no descriptor is, so that what a thread or a
\* child was given stays what it was.  It was given the pipe the globals stood
\* for: that of its own page, or of one whose onopen and its own ran at once.
Current(o) ==
    /\ page[o] # "new"
    /\ fds[pipe_fd["read"]] = End(o, "read") /\ fds[pipe_fd["write"]] = End(o, "write")

Given(p) ==
    /\ page[p] # "new" => \E f \in Fds : fds[f] = End(p, "write")
    /\ page[p] \in Opening =>
          \E o \in Pages : Current(o) /\ (o = p \/ {o, p} \subseteq overlapped)
    /\ target[p] # None =>
          page[target[p]] # "new" /\ (target[p] = p \/ target[p] \in overlapped)
    /\ reader[p] # "none" =>
          /\ page[p] = "open" /\ reader[p] \in {"call", "blocked", "send"}
          /\ \E o \in Pages : /\ page[o] # "new" /\ fds[fd[p]] = End(o, "read")
                              /\ o = p \/ p \in overlapped
    /\ reader[p] = "blocked" =>
          /\ source[p] \in Pages /\ page[source[p]] # "new"
          /\ source[p] = p \/ p \in overlapped

OwnInv == NoneClosed => \A p \in Pages : Given(p)

LEMMA FdsAreNat == Fds \subseteq Nat
<1>1. Cardinality(Pages) \in Nat
  BY PagesAssumption, FS_CardinalityType
<1>2. QED BY <1>1 DEF Fds

\* A page that is being closed, or was, stays that way.
LEMMA NoneClosedBefore ==
    ASSUME PageTypes, NEW p \in Pages, PageAction(p), NoneClosed'
    PROVE  NoneClosed /\ (OpenPage(p) \/ Fork(p) \/ StartReader(p))
<1> USE DEF PageTypes, Handler
<1>1. page'[p] \in {"new", "open"} \cup Opening
  BY DEF NoneClosed
<1>2. OpenPage(p) \/ Fork(p) \/ StartReader(p)
  BY <1>1 DEF PageAction, ClosePage, WaitForChild, CloseRead, CloseWrite, Opening
<1>3. page[p] \in {"new", "open"} \cup Opening
  BY <1>2 DEF OpenPage, Fork, StartReader, Opening
<1>4. \A q \in Pages \ {p} : page'[q] = page[q]
  BY <1>2 DEF OpenPage, Fork, StartReader
<1>5. NoneClosed
  BY <1>3, <1>4 DEF NoneClosed
<1>6. QED BY <1>2, <1>5

LEMMA OpenPageOwn ==
    ASSUME PageTypes, NoneClosed, \A q \in Pages : Given(q),
           NEW p \in Pages, OpenPage(p), NEW q \in Pages
    PROVE  Given(q)'
<1> USE DEF PageTypes
<1>1. PICK r, w \in Fds :
          /\ LowestFree(r, w)
          /\ pipe_fd' = [read |-> r, write |-> w]
          /\ fds' = [fds EXCEPT ![r] = End(p, "read"), ![w] = End(p, "write")]
  BY DEF OpenPage
<1>2. r # w /\ fds[r] = Free /\ fds[w] = Free
  <2>1. r \in Nat /\ w \in Nat /\ r < w
    BY <1>1, FdsAreNat DEF LowestFree
  <2>2. r # w
    BY <2>1
  <2>3. QED BY <1>1, <2>2 DEF LowestFree
<1>3. /\ fds'[r] = End(p, "read") /\ fds'[w] = End(p, "write")
      /\ pipe_fd'["read"] = r /\ pipe_fd'["write"] = w
  BY <1>1, <1>2
<1>4. \A f \in Fds : fds[f] # Free => fds'[f] = fds[f]
  BY <1>1, <1>2
<1>5. /\ UNCHANGED <<target, reader, fd, source>>
      /\ page[p] = "new" /\ page' = [page EXCEPT ![p] = "fork"]
  BY DEF OpenPage, Handler
<1>6. \A o \in Pages : page[o] # "new" => page'[o] # "new"
  BY <1>5
<1>7. overlapped \subseteq overlapped'
  BY DEF OpenPage
<1>8. Current(p)'
  BY <1>3, <1>5 DEF Current
<1>9. page'[q] # "new" => \E f \in Fds : fds'[f] = End(q, "write")
  <2>1. CASE q = p
    BY <2>1, <1>3
  <2>2. CASE q # p /\ page[q] # "new"
    <3>1. PICK f \in Fds : fds[f] = End(q, "write")
      BY <2>2 DEF Given
    <3>2. QED BY <3>1, <1>4, EndTypes
  <2>3. QED BY <2>1, <2>2, <1>5
<1>10. page'[q] \in Opening =>
          \E o \in Pages : Current(o)' /\ (o = q \/ {o, q} \subseteq overlapped')
  <2>1. CASE q = p
    BY <2>1, <1>8
  <2>2. CASE q # p /\ page'[q] \in Opening
    <3>1. q \in {o \in Pages : page[o] \in Opening}
      BY <2>2, <1>5
    <3>2. {p, q} \subseteq overlapped'
      BY <3>1 DEF OpenPage
    <3>3. QED BY <3>2, <1>8
  <2>3. QED BY <2>1, <2>2
<1>11. target'[q] # None =>
          page'[target'[q]] # "new" /\ (target'[q] = q \/ target'[q] \in overlapped')
  BY <1>5, <1>6, <1>7 DEF Given
<1>12. reader'[q] # "none" =>
          /\ page'[q] = "open" /\ reader'[q] \in {"call", "blocked", "send"}
          /\ \E o \in Pages : /\ page'[o] # "new" /\ fds'[fd'[q]] = End(o, "read")
                              /\ o = q \/ q \in overlapped'
  <2>1. SUFFICES ASSUME reader[q] # "none"
                 PROVE  /\ page'[q] = "open" /\ reader[q] \in {"call", "blocked", "send"}
                        /\ \E o \in Pages : /\ page'[o] # "new" /\ fds'[fd[q]] = End(o, "read")
                                            /\ o = q \/ q \in overlapped'
    BY <1>5
  <2>2. page[q] = "open" /\ reader[q] \in {"call", "blocked", "send"}
    BY <2>1 DEF Given
  <2>3. PICK o \in Pages : /\ page[o] # "new" /\ fds[fd[q]] = End(o, "read")
                           /\ o = q \/ q \in overlapped
    BY <2>1 DEF Given
  <2>4. fds'[fd[q]] = End(o, "read")
    BY <2>1, <2>3, <1>4, EndTypes
  <2>5. page'[q] = "open"
    BY <2>2, <1>5
  <2>6. QED BY <2>2, <2>3, <2>4, <2>5, <1>6, <1>7
<1>13. reader'[q] = "blocked" =>
          /\ source'[q] \in Pages /\ page'[source'[q]] # "new"
          /\ source'[q] = q \/ q \in overlapped'
  BY <1>5, <1>6, <1>7 DEF Given
<1>14. QED BY <1>9, <1>10, <1>11, <1>12, <1>13 DEF Given

LEMMA PageActionOwn ==
    ASSUME PageTypes, OwnInv, NEW p \in Pages, PageAction(p)
    PROVE  OwnInv'
<1> SUFFICES ASSUME NoneClosed', NEW q \in Pages PROVE Given(q)'
  BY DEF OwnInv
<1>1. NoneClosed /\ (OpenPage(p) \/ Fork(p) \/ StartReader(p))
  BY NoneClosedBefore
<1>2. \A o \in Pages : Given(o)
  BY <1>1 DEF OwnInv
<1>3. CASE OpenPage(p)
  BY <1>1, <1>2, <1>3, OpenPageOwn
<1>4. CASE Fork(p) \/ StartReader(p)
  <2> USE DEF PageTypes
  <2>1. UNCHANGED <<pipe_fd, fds, source, overlapped>> /\ page[p] \in Opening
    BY <1>4 DEF Fork, StartReader, Handler, Opening
  <2>2. \A o \in Pages : page'[o] = page[o] \/ (o = p /\ page'[o] \in {"thread", "open"})
    BY <1>4 DEF Fork, StartReader, Handler
  <2>3. \A o \in Pages : page[o] # "new" <=> page'[o] # "new"
    BY <2>1, <2>2 DEF Opening
  <2>4. \A o \in Pages : Current(o) => Current(o)'
    BY <2>1, <2>3 DEF Current
  <2>5. PICK o \in Pages : Current(o) /\ (o = p \/ {o, p} \subseteq overlapped)
    BY <2>1, <1>2 DEF Given
  <2>6. page'[q] # "new" => \E f \in Fds : fds'[f] = End(q, "write")
    BY <2>1, <2>3, <1>2 DEF Given
  <2>7. page'[q] \in Opening =>
            \E x \in Pages : Current(x)' /\ (x = q \/ {x, q} \subseteq overlapped')
    BY <2>1, <2>2, <2>4, <2>5, <1>2 DEF Given
  <2>8. target'[q] # None =>
            page'[target'[q]] # "new" /\ (target'[q] = q \/ target'[q] \in overlapped')
    <3>1. CASE target'[q] = target[q]
      BY <3>1, <2>1, <2>3, <1>2 DEF Given
    <3>2. CASE target'[q] # target[q]
      <4>1. Fork(p) /\ q = p
        BY <3>2, <1>4 DEF Fork, StartReader
      <4>2. fds[pipe_fd["write"]] = End(o, "write")
        BY <2>5 DEF Current
      <4>3. target'[p] = o
        BY <4>1, <4>2 DEF Fork, End
      <4>4. QED BY <4>1, <4>3, <2>1, <2>3, <2>5 DEF Current
    <3>3. QED BY <3>1, <3>2
  <2>9. reader'[q] # "none" =>
            /\ page'[q] = "open" /\ reader'[q] \in {"call", "blocked", "send"}
            /\ \E x \in Pages : /\ page'[x] # "new" /\ fds'[fd'[q]] = End(x, "read")
                                /\ x = q \/ q \in overlapped'
    <3>1. CASE StartReader(p) /\ q = p
      <4>1. page'[q] = "open" /\ reader'[q] = "call" /\ fd'[q] = pipe_fd["read"]
        BY <3>1 DEF StartReader, Handler
      <4>2. fds'[fd'[q]] = End(o, "read") /\ page'[o] # "new"
        BY <4>1, <2>1, <2>3, <2>5 DEF Current
      <4>3. QED BY <4>1, <4>2, <3>1, <2>1, <2>5
    <3>2. CASE Fork(p) \/ q # p
      <4>1. reader'[q] = reader[q] /\ fd'[q] = fd[q]
        BY <3>2, <1>4 DEF Fork, StartReader
      <4>2. reader[q] # "none" => page'[q] = "open"
        BY <2>1, <2>2, <1>2 DEF Given, Opening
      <4>3. QED BY <4>1, <4>2, <2>1, <2>3, <1>2 DEF Given
    <3>3. QED BY <3>1, <3>2, <1>4
  <2>10. reader'[q] = "blocked" =>
            /\ source'[q] \in Pages /\ page'[source'[q]] # "new"
            /\ source'[q] = q \/ q \in overlapped'
    <3>1. reader'[q] = "blocked" => reader[q] = "blocked"
      BY <1>4 DEF Fork, StartReader
    <3>2. QED BY <3>1, <2>1, <2>3, <1>2 DEF Given
  <2>11. QED BY <2>6, <2>7, <2>8, <2>9, <2>10 DEF Given
<1>5. QED BY <1>1, <1>3, <1>4

LEMMA ReaderActionOwn ==
    ASSUME PageTypes, OwnInv, NEW p \in Pages, ReaderAction(p)
    PROVE  OwnInv'
<1> SUFFICES ASSUME NoneClosed', NEW q \in Pages PROVE Given(q)'
  BY DEF OwnInv
<1> USE DEF PageTypes, Reader
<1>1. UNCHANGED <<page, pipe_fd, child, held, target, fd, overlapped>>
  BY DEF ReaderAction, CallRead, ReadEnd, Send, CloseOwn, ReadData
<1>2. \A o \in Pages : Given(o)
  BY <1>1 DEF NoneClosed, OwnInv
<1>3. ~CloseOwn(p)
  BY <1>2 DEF CloseOwn, Given
<1>4. ~ReadEnd(p)
  BY <1>2 DEF ReadEnd, HasWriter, Given
<1>5. fds' = fds
  BY <1>3, <1>4 DEF ReaderAction, CallRead, Send, ReadData
<1>6. reader[p] # "none" /\ reader'[p] \in {"call", "blocked", "send"}
  BY <1>3, <1>4 DEF ReaderAction, CallRead, Send, ReadData
<1>7. \A o \in Pages : Current(o)' <=> Current(o)
  BY <1>1, <1>5 DEF Current
<1>8. CASE q # p
  <2>1. reader'[q] = reader[q] /\ source'[q] = source[q]
    BY <1>8 DEF ReaderAction, CallRead, ReadEnd, Send, CloseOwn, ReadData
  <2>2. Given(q)
    BY <1>2
  <2>3. QED BY <1>1, <1>5, <1>7, <2>1, <2>2 DEF Given
<1>9. CASE q = p
  <2>1. reader'[p] = "blocked" =>
            /\ source'[p] \in Pages /\ page[source'[p]] # "new"
            /\ source'[p] = p \/ p \in overlapped
    <3>1. SUFFICES ASSUME CallRead(p)
                   PROVE  /\ source'[p] \in Pages /\ page[source'[p]] # "new"
                          /\ source'[p] = p \/ p \in overlapped
      BY <1>3, <1>4 DEF ReaderAction, Send, ReadData
    <3>2. PICK o \in Pages : /\ page[o] # "new" /\ fds[fd[p]] = End(o, "read")
                             /\ o = p \/ p \in overlapped
      BY <1>2, <1>6 DEF Given
    <3>3. source'[p] = o
      BY <3>1, <3>2 DEF CallRead, ReadFd, End
    <3>4. QED BY <3>2, <3>3
  <2>2. Given(p)
    BY <1>2
  <2>3. Given(p)'
    BY <1>1, <1>5, <1>6, <1>7, <2>1, <2>2 DEF Given
  <2>4. QED BY <1>9, <2>3
<1>10. QED BY <1>8, <1>9

PagesInv == load \in Loads /\ PageTypes /\ OwnInv

LEMMA PagesInvariant == ControllerSpec => []PagesInv
<1> USE DEF PagesInv
<1>1. ControllerInit => PagesInv
  BY DEF ControllerInit, VideoInit, PageTypes, PageStages, ChildStages, ReaderStages, Ends,
         OwnInv, Given, Opening
<1>2. PagesInv /\ [ControllerNext]_allVars => PagesInv'
  <2>1. ASSUME PagesInv, UNCHANGED load, OnlyServer PROVE PagesInv'
    BY <2>1 DEF OnlyServer, PageTypes, OwnInv, NoneClosed, Given, Current
  <2>2. ASSUME PagesInv, ControllerNext PROVE UNCHANGED load
    BY <2>2 DEF ControllerNext, ControllerMain, OpenInputs, StartSender, StartDisplay,
         StartServer, LeaveServer, JoinSend, JoinListen, TellCar, CloseInputs, Close, Return,
         Destroy, At, StartFails, SampleFails, Sample, NextRound, ListenTimeout, CarStops,
         SenderThreads, FromCamera, Display, Video, controllerVars
  <2>3. ASSUME PagesInv, ControllerNext, NEW p \in Pages, ChildAction(p) PROVE PagesInv'
    <3>1. UNCHANGED <<page, pipe_fd, fds, target, reader, fd, source, overlapped>>
      BY <2>3 DEF ChildAction, Exec, ChildEnds, ChildObeys, ChildGoes
    <3>2. PageTypes'
      BY <2>3, ChildActionTypes
    <3>3. OwnInv'
      BY <2>3, <3>1 DEF OwnInv, NoneClosed, Given, Current
    <3>4. QED BY <2>2, <2>3, <3>2, <3>3
  <2>4. ASSUME PagesInv, ControllerNext, NEW p \in Pages, PageAction(p) PROVE PagesInv'
    BY <2>2, <2>4, PageActionTypes, PageActionOwn
  <2>5. ASSUME PagesInv, ControllerNext, NEW p \in Pages, ReaderAction(p) PROVE PagesInv'
    BY <2>2, <2>5, ReaderActionTypes, ReaderActionOwn
  <2>6. ASSUME PagesInv, UNCHANGED allVars PROVE PagesInv'
    BY <2>1, <2>6 DEF allVars, controllerVars, videoVars, OnlyServer
  <2>7. QED BY <2>1, <2>2, <2>3, <2>4, <2>5, <2>6, VideoCases
<1>3. QED BY <1>1, <1>2, PTL DEF ControllerSpec

\* As long as no page is closed, every reading thread reads a pipe, and a page
\* whose onopen no other one's ran into is sent its own child's video and
\* nobody else's, however many pages are opened, by however many workers, and in
\* whatever order the threads run.
THEOREM PagesReadTheirOwn == ControllerSpec => []ReadsOwnVideo
<1>1. PagesInv => ReadsOwnVideo
  <2> SUFFICES ASSUME PagesInv, NoneClosed, NEW p \in Pages
               PROVE  /\ reader[p] = "call" => fds[ReadFd(p)].way = "read"
                      /\ p \notin overlapped =>
                             /\ reader[p] = "blocked" => source[p] = p
                             /\ \A c \in Pages : target[c] = p => c = p
    BY DEF ReadsOwnVideo
  <2>1. \A c \in Pages : Given(c)
    BY DEF PagesInv, OwnInv
  <2>2. reader[p] = "call" => fds[ReadFd(p)].way = "read"
    <3>1. SUFFICES ASSUME reader[p] = "call" PROVE fds[fd[p]].way = "read"
      BY DEF ReadFd
    <3>2. PICK o \in Pages : fds[fd[p]] = End(o, "read")
      BY <2>1, <3>1 DEF Given
    <3>3. QED BY <3>2 DEF End
  <2>3. reader[p] = "blocked" => source[p] = p \/ p \in overlapped
    BY <2>1 DEF Given
  <2>4. ASSUME NEW c \in Pages, target[c] = p PROVE c = p \/ p \in overlapped
    BY <2>1, <2>4, PagesAssumption DEF Given
  <2>5. QED BY <2>2, <2>3, <2>4
<1>2. QED BY <1>1, PagesInvariant, PTL

-----------------------------------------------------------------------------
ControlTypes ==
    /\ server \in {"down", "up", "signalled", "stopped", "destroyed"}
    /\ ctlAt \in ControllerStages
    /\ sendAt \in {"none", "sample", "sleep", "done"}
    /\ listenAt \in {"none", "recv", "done"}
    /\ ctlStop \in BOOLEAN /\ open \subseteq Inputs /\ told \in BOOLEAN

LEMMA ControlTypesStep == ASSUME ControlTypes, ControllerNext PROVE ControlTypes'
<1> USE DEF ControlTypes
<1>1. CASE ControllerMain
  <2>1. CASE OpenInputs \/ StartSender \/ StartServer \/ LeaveServer
    BY <2>1 DEF OpenInputs, StartSender, StartServer, LeaveServer, At, ControllerStages,
                videoVars
  <2>2. CASE JoinSend \/ JoinListen \/ TellCar \/ CloseInputs
    BY <2>2 DEF JoinSend, JoinListen, TellCar, CloseInputs, Close, At, ControllerStages,
                videoVars
  <2>3. CASE StartDisplay \/ Return \/ Destroy
    BY <2>3 DEF StartDisplay, Return, Destroy, At, ControllerStages, videoVars, controllerVars
  <2>4. QED BY <1>1, <2>1, <2>2, <2>3 DEF ControllerMain
<1>2. CASE Sample \/ NextRound \/ ListenTimeout \/ CarStops
  BY <1>2 DEF Sample, NextRound, ListenTimeout, CarStops, SenderThreads, videoVars
<1>3. CASE StartFails \/ SampleFails \/ FromCamera(DecoderSteps) \/ FromCamera(ReadPacket)
             \/ Display(FrameSteps) \/ Display(WakesUnasked)
  BY <1>3 DEF StartFails, SampleFails, FromCamera, Display, videoVars, controllerVars
<1>4. CASE Video(Interrupt) \/ Video(StopServer)
  BY <1>4 DEF Video, Interrupt, StopServer, controllerVars
<1>5. CASE Video(BrowserDoes)
  BY <1>5 DEF Video, BrowserDoes, OpenPage, ClosePage, PipeOrForkFails, Handler, Aborts,
              videoVars, controllerVars
<1>6. CASE \E p \in Pages : Video(Handling(p))
  BY <1>6 DEF Video, Handling, Fork, StartReader, WaitForChild, CloseRead, CloseWrite,
              controllerVars
<1>7. CASE \E p \in Pages : \/ Video(Exec(p)) \/ Video(ChildEnds(p)) \/ Video(ChildObeys(p))
                            \/ Video(Reading(p)) \/ Video(ReadingLucky(p))
  BY <1>7 DEF Video, Exec, ChildEnds, ChildObeys, ChildGoes, Reading, CallRead, ReadFails,
              ReadEnd, Send, CloseOwn, ReadingLucky, ReadData, SendToNobody, Reader, Aborts,
              videoVars, controllerVars
<1>8. QED BY <1>1, <1>2, <1>3, <1>4, <1>5, <1>6, <1>7 DEF ControllerNext

\* All parts of the controller program keep their types.
THEOREM ControllerTypeCorrect == ControllerSpec => []ControllerTypeOK
<1>1. ControllerInit => ControlTypes
  BY DEF ControllerInit, VideoInit, ControlTypes, ControllerStages
<1>2. ControlTypes /\ [ControllerNext]_allVars => ControlTypes'
  <2>1. ASSUME ControlTypes, UNCHANGED allVars PROVE ControlTypes'
    BY <2>1 DEF allVars, videoVars, controllerVars, ControlTypes
  <2>2. QED BY <2>1, ControlTypesStep
<1>3. ControllerSpec => []ControlTypes
  BY <1>1, <1>2, PTL DEF ControllerSpec
<1>4. ControllerSpec => []TypeOK
  BY ControllerRunsDisplay, LcdTypeCorrect, PTL
<1>5. PagesInv /\ ControlTypes /\ TypeOK => ControllerTypeOK
  BY DEF PagesInv, PageTypes, ControlTypes, ControllerTypeOK, VideoTypeOK
<1>6. QED BY <1>3, <1>4, <1>5, PagesInvariant, PTL
==============================================================================
