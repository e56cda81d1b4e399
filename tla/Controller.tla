------------------------------ MODULE Controller ------------------------------
(***************************************************************************)
(* The controller program (app/src/controller.cpp): main starts inputs,    *)
(* sender, display and web server one after the other, stays in the web    *)
(* server until a signal ends it, and takes the sender and the inputs down *)
(* again; the display is destroyed when main returns.  Of the sender only  *)
(* the lives of its two threads are kept, what they send is module         *)
(* Sender's.                                                               *)
(***************************************************************************)
EXTENDS LcdFrames, VideoSocket

\* How it is used: the frames the camera sends, none when there is no camera
\* and no stream to open, and the pages that are opened.
CONSTANT Loads

ASSUME LoadsAssumption ==
    /\ Loads \subseteq [frames : 0..MaxFrames, pages : SUBSET Pages]
    /\ \A use \in Loads : \A p \in use.pages : {q \in Pages : q < p} \subseteq use.pages

VARIABLES load,        \* the use of this run
          ctlAt,       \* what main does next
          sendAt, listenAt,     \* the sender's threads
          ctlStop,     \* sender.c's stop_thread
          open,        \* the input modules that are initialised
          told         \* CODE_STOP has been sent

controllerVars == <<load, ctlAt, sendAt, listenAt, ctlStop, open, told>>
allVars == <<vars, videoVars, controllerVars>>

Inputs == {"gpio", "joystick", "encoder"}
ControllerStages == {"inputs", "sender", "display", "server", "serving", "cleanup", "join_send",
                     "join_listen", "tell", "encoder", "joystick", "gpio", "return", "over"}

ControllerInit ==
    /\ Init /\ VideoInit
    /\ load \in Loads
    /\ ctlAt = "inputs"
    /\ sendAt = "none" /\ listenAt = "none"
    /\ ctlStop = FALSE /\ open = {} /\ told = FALSE

-----------------------------------------------------------------------------
(***************************************************************************)
(* main                                                                    *)
(***************************************************************************)
At(stage, next) ==
    /\ process = "running"
    /\ ctlAt = stage /\ ctlAt' = next
    /\ UNCHANGED load

OpenInputs ==
    /\ At("inputs", "sender")
    /\ open' = Inputs
    /\ UNCHANGED <<vars, videoVars, sendAt, listenAt, ctlStop, told>>

StartSender ==
    /\ At("sender", "display")
    /\ sendAt' = "sample" /\ listenAt' = "recv"
    /\ UNCHANGED <<vars, videoVars, ctlStop, open, told>>

StartDisplay ==
    /\ At("display", "server")
    /\ Construct
    /\ UNCHANGED <<videoVars, sendAt, listenAt, ctlStop, open, told>>

StartServer ==
    /\ At("server", "serving")
    /\ server' = "up"
    /\ UNCHANGED <<vars, page, pipe_fd, fds, child, held, target, reader, fd, source, overlapped,
                   sendAt, listenAt, ctlStop, open, told>>

\* No line, no bus, no display, no port: each ends the program, by exit or by
\* an exception.
StartFails ==
    /\ process = "running" /\ ctlAt \in {"inputs", "display", "server"}
    /\ Exits
    /\ UNCHANGED <<videoVars, controllerVars>>

LeaveServerUnstopped ==                                \* mutant: stop_thread is not set
    /\ server = "stopped" /\ Handled = {}
    /\ At("serving", "join_send")
    /\ UNCHANGED <<vars, videoVars, sendAt, listenAt, ctlStop, open, told>>
\* run returns once all workers have ended, and handlers that run are waited
\* for; send_udp_cleanup begins.
LeaveServer ==
    /\ server = "stopped" /\ Handled = {}
    /\ At("serving", "join_send")
    /\ ctlStop' = TRUE
    /\ UNCHANGED <<vars, videoVars, sendAt, listenAt, open, told>>

JoinSendNotWaited ==                                   \* mutant: using_terminal is still TRUE
    /\ At("join_send", "join_listen")
    /\ UNCHANGED <<vars, videoVars, sendAt, listenAt, ctlStop, open, told>>
JoinSend ==
    /\ At("join_send", "join_listen")
    /\ sendAt = "done"
    /\ UNCHANGED <<vars, videoVars, sendAt, listenAt, ctlStop, open, told>>

JoinListen ==
    /\ At("join_listen", "tell")
    /\ listenAt = "done"
    /\ UNCHANGED <<vars, videoVars, sendAt, listenAt, ctlStop, open, told>>

TellCar ==
    /\ At("tell", "encoder")
    /\ told' = TRUE
    /\ UNCHANGED <<vars, videoVars, sendAt, listenAt, ctlStop, open>>

Close(input, next) ==
    /\ At(input, next)
    /\ open' = open \ {input}
    /\ UNCHANGED <<vars, videoVars, sendAt, listenAt, ctlStop, told>>

CloseInputs == Close("encoder", "joystick") \/ Close("joystick", "gpio") \/ Close("gpio", "return")

\* First the Crow application is destroyed, then lcdStreamRecv.
Return ==
    /\ At("return", "over")
    /\ ServerStops
    /\ server' = "destroyed"
    /\ UNCHANGED <<page, pipe_fd, fds, child, held, target, reader, fd, source, overlapped, sendAt,
                   listenAt, ctlStop, open, told>>

Destroy ==
    /\ JoinDecoder \/ StopFrameThread \/ SignalStop \/ JoinFrameThread \/ FreeFrames
    /\ UNCHANGED <<videoVars, controllerVars>>

ControllerMain ==
    \/ OpenInputs \/ StartSender \/ StartDisplay \/ StartServer \/ LeaveServer
    \/ JoinSend \/ JoinListen \/ TellCar \/ CloseInputs \/ Return \/ Destroy

-----------------------------------------------------------------------------
(***************************************************************************)
(* The sender's threads.                                                   *)
(***************************************************************************)
SenderThreads(send, listen) ==
    /\ process = "running"
    /\ sendAt' = send /\ listenAt' = listen
    /\ UNCHANGED <<vars, videoVars, load, ctlAt, open, told>>

\* All inputs are read; the i2c bus may fail.
Sample == sendAt = "sample" /\ SenderThreads("sleep", listenAt) /\ UNCHANGED ctlStop

SampleFails ==
    /\ process = "running" /\ sendAt = "sample"
    /\ Exits
    /\ UNCHANGED <<videoVars, controllerVars>>

NextRound ==
    /\ sendAt = "sleep"
    /\ SenderThreads(IF ctlStop THEN "done" ELSE "sample", listenAt)
    /\ UNCHANGED ctlStop

ListenTimeout ==
    /\ listenAt = "recv" /\ ctlStop
    /\ SenderThreads(sendAt, "done")
    /\ UNCHANGED ctlStop

\* The car says CODE_STOP.  Both threads end and main goes on.
CarStops ==
    /\ listenAt = "recv"
    /\ SenderThreads(sendAt, "done")
    /\ ctlStop' = TRUE

-----------------------------------------------------------------------------
(***************************************************************************)
(* All together.                                                           *)
(***************************************************************************)
Display(step) == step /\ UNCHANGED <<videoVars, controllerVars>>

\* A reader's or a handler's failure ends the display with the process.
Video(step) ==
    /\ step
    /\ UNCHANGED <<mainAt, decoderAt, frameAt, frame_lock, lcdVars, controllerVars>>

\* After the last frame no packet yields another one.
FromCamera(step) ==
    /\ load.frames > 0
    /\ handed = load.frames => decoderAt' \in {"read", "done", decoderAt}
    /\ Display(step)

BrowserDoes == \E p \in load.pages : OpenPage(p) \/ ClosePage(p) \/ PipeOrForkFails(p)

ControllerNext ==
    \/ ControllerMain
    \/ StartFails
    \/ Sample \/ SampleFails \/ NextRound \/ ListenTimeout \/ CarStops
    \/ FromCamera(DecoderSteps)
    \/ FromCamera(ReadPacket)
    \/ Display(FrameSteps)
    \/ Display(WakesUnasked)
    \/ Video(BrowserDoes)
    \/ Video(Interrupt)
    \/ Video(StopServer)
    \/ \E p \in Pages :
          \/ Video(Handling(p))
          \/ Video(Exec(p)) \/ Video(ChildEnds(p)) \/ Video(ChildObeys(p))
          \/ Video(Reading(p)) \/ Video(ReadingLucky(p))

ControllerSpec == ControllerInit /\ [][ControllerNext]_allVars

(***************************************************************************)
(* Each thread and each process runs.  Nobody has to open or close a page, *)
(* to stop the server, to send anything, or to fail.                       *)
(***************************************************************************)
ControllerFairSpec ==
    /\ ControllerSpec
    /\ WF_allVars(ControllerMain)
    /\ WF_allVars(Sample \/ NextRound)
    /\ WF_allVars(ListenTimeout)
    /\ WF_allVars(FromCamera(ReceiveFrame \/ ReceiveNothing \/ LockToShow \/ HandOver))
    /\ WF_allVars(Display(FrameSteps))
    /\ \A p \in Pages : WF_allVars(Video(Handling(p)))
    /\ WF_allVars(Video(StopServer))
    /\ WF_allVars(Video(\E p \in Pages : Exec(p) \/ ChildObeys(p)))
    /\ WF_allVars(Video(\E p \in Pages : Reading(p)))

-----------------------------------------------------------------------------
ControllerTypeOK ==
    /\ TypeOK /\ VideoTypeOK
    /\ load \in Loads
    /\ ctlAt \in ControllerStages
    /\ sendAt \in {"none", "sample", "sleep", "done"}
    /\ listenAt \in {"none", "recv", "done"}
    /\ ctlStop \in BOOLEAN /\ open \subseteq Inputs /\ told \in BOOLEAN

\* The send thread never reads an input module that is not initialised: it
\* would initialise it again (joystick.c:94), or use what was closed
\* (joystick.c:157).
InputsOpenWhenUsed == sendAt = "sample" => open = Inputs

NoneClosed == \A q \in Pages : page[q] \in {"new", "open"} \cup Opening

\* As long as no page was closed, every reading thread reads from some pipe,
\* also where two onopen run at once and overwrite each other's globals
\* (webServerBlueprints.cpp:44), so that no read fails and ends the program.  A page
\* that was opened on its own is sent the video of its own child and of no other,
\* although the pipe of the next page takes the place of its own.
ReadsOwnVideo ==
    NoneClosed => \A p \in Pages :
        /\ reader[p] = "call" => fds[ReadFd(p)].way = "read"
        /\ p \notin overlapped =>
               /\ reader[p] = "blocked" => source[p] = p
               /\ \A c \in Pages : target[c] = p => c = p

\* The reading thread of the only page ends after the page is closed, or takes
\* the program with it (webServerBlueprints.cpp:175): it is not left in its
\* read by a descriptor that somebody forgot to close.
ReadersEnd ==
    (\E p \in Pages : load.pages = {p} /\ page[p] = "gone")
        ~> (\A p \in load.pages : reader[p] = "done") \/ process = "exited"

\* A handler waits for a child that missed the signal.
WaitsForChild ==
    /\ \E p \in Pages : page[p] = "wait"
    /\ \A c \in Pages : child[c] \notin {"doomed", "zombie"}
    /\ \E c \in Pages : child[c] \in Alive

\* When the web server is to end, by a signal from outside or because a page
\* was closed (webServerBlueprints.cpp:160), the car is told, unless the
\* program ends early or a handler waits for ever.  A display that waits for
\* its stream (lcd_stream_recv.cpp:170) does not keep it from being told.
ToldUnlessDead ==
    server = "signalled" ~> told \/ process = "exited" \/ WaitsForChild
==============================================================================
