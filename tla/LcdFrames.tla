------------------------------ MODULE LcdFrames ------------------------------
(***************************************************************************)
(* The controller's display: hal/src/lcd.c between the thread that decodes *)
(* the video stream (app/src/lcd_stream_recv.cpp), the thread that draws,  *)
(* and main, which constructs and destroys lcdStreamRecv.  The decoder     *)
(* hands over one frame at a time, under a mutex and with a condition      *)
(* variable; a frame that comes while the last one is still waiting        *)
(* replaces it.  Frames are numbered in the order they are handed over.    *)
(***************************************************************************)
EXTENDS Naturals, ControllerProcess

CONSTANT MaxFrames     \* bound on the frames the stream yields

ASSUME FramesAssumption == MaxFrames \in Nat

VARIABLES mainAt, decoderAt, frameAt,     \* where the three threads are
          frame_lock,  \* the mutex: who holds it
          dirty_frame, stop_thread,
          handed,      \* number of frames handed over
          buffered_frame, queued_frame,   \* the frame in each, 0 for none
          clones       \* frames cloned and not freed

lcdVars == <<dirty_frame, stop_thread, handed, buffered_frame, queued_frame, clones>>
vars == <<process, mainAt, decoderAt, frameAt, frame_lock, lcdVars>>

MainStages == {"init", "serve", "join", "stop", "signal", "join_frame", "free", "done"}
DecoderStages == {"none", "open", "read", "receive", "show", "hand", "done"}
FrameStages == {"none", "lock", "test", "wait", "waiting", "copy", "draw", "loop",
                "unlock", "done"}

Init ==
    /\ process = "running"
    /\ mainAt = "init" /\ decoderAt = "none" /\ frameAt = "none"
    /\ frame_lock = "none"
    /\ dirty_frame = FALSE /\ stop_thread = FALSE
    /\ handed = 0 /\ buffered_frame = 0 /\ queued_frame = 0 /\ clones = 0

Exits ==
    /\ process' = "exited"
    /\ UNCHANGED <<mainAt, decoderAt, frameAt, frame_lock, lcdVars>>

\* pthread_cond_signal: a thread that waits tries to take the lock again, and
\* without one the signal is lost.
Signal == frameAt' = IF frameAt = "waiting" THEN "lock" ELSE frameAt

-----------------------------------------------------------------------------
(***************************************************************************)
(* The decoder's thread, recv_video.                                       *)
(***************************************************************************)
Decoder(stage, next) ==
    /\ process = "running"
    /\ decoderAt = stage /\ decoderAt' = next
    /\ UNCHANGED <<process, mainAt>>

\* The stream is there: lcd_video_init starts the frame thread.
OpenVideo ==
    /\ Decoder("open", "read")
    /\ stop_thread' = FALSE
    /\ frameAt' = "lock"
    /\ UNCHANGED <<frame_lock, dirty_frame, handed, buffered_frame, queued_frame, clones>>

\* No stream, no decoder for it, no memory: every failure is an exit(1).
OpenFails == process = "running" /\ decoderAt = "open" /\ Exits

\* A packet of the video stream that the codec takes; others change nothing.
ReadPacket ==
    /\ handed < MaxFrames
    /\ Decoder("read", "receive")
    /\ UNCHANGED <<frameAt, frame_lock, lcdVars>>

\* av_read_frame fails.  The decode call that is to flush the codec returns at
\* once, for want of a packet.
StreamEnds ==
    /\ Decoder("read", "done")
    /\ UNCHANGED <<frameAt, frame_lock, lcdVars>>

\* A packet may hold several frames, or none yet.
ReceiveFrame ==
    /\ handed < MaxFrames
    /\ Decoder("receive", "show")
    /\ UNCHANGED <<frameAt, frame_lock, lcdVars>>

ReceiveNothing ==
    /\ Decoder("receive", "read")
    /\ UNCHANGED <<frameAt, frame_lock, lcdVars>>

DecodingFails == process = "running" /\ decoderAt = "receive" /\ Exits

\* lcd_show_frame
LockToShow ==
    /\ Decoder("show", "hand")
    /\ frame_lock = "none"
    /\ frame_lock' = "decoder"
    /\ UNCHANGED <<frameAt, lcdVars>>

HandOverUnsignalled ==                                 \* mutant: no pthread_cond_signal
    /\ Decoder("hand", "receive")
    /\ handed' = handed + 1
    /\ buffered_frame' = handed' /\ clones' = clones + 1
    /\ dirty_frame' = TRUE
    /\ frame_lock' = "none"
    /\ UNCHANGED <<frameAt, stop_thread, queued_frame>>
\* The clone that is replaced is not freed.
HandOver ==
    /\ Decoder("hand", "receive")
    /\ handed' = handed + 1
    /\ buffered_frame' = handed' /\ clones' = clones + 1
    /\ dirty_frame' = TRUE
    /\ Signal
    /\ frame_lock' = "none"
    /\ UNCHANGED <<stop_thread, queued_frame>>

DecoderSteps ==
    \/ OpenVideo \/ OpenFails \/ StreamEnds \/ ReceiveFrame \/ ReceiveNothing
    \/ DecodingFails \/ LockToShow \/ HandOver

-----------------------------------------------------------------------------
(***************************************************************************)
(* The frame thread, frame_thread_func.                                    *)
(***************************************************************************)
Frame(stage, next) ==
    /\ process = "running"
    /\ frameAt = stage /\ frameAt' = next
    /\ UNCHANGED <<process, mainAt, decoderAt, handed, buffered_frame, stop_thread, clones>>

Lock ==
    /\ Frame("lock", "test")
    /\ frame_lock = "none"
    /\ frame_lock' = "frame"
    /\ UNCHANGED <<dirty_frame, queued_frame>>

\* Nothing to draw, and nobody has asked to stop.
MustWait ==
    /\ ~dirty_frame /\ ~stop_thread
    /\ Frame("test", "wait")
    /\ UNCHANGED <<frame_lock, dirty_frame, queued_frame>>

\* pthread_cond_wait gives up the lock; it may return without a signal.
Wait ==
    /\ Frame("wait", "waiting")
    /\ frame_lock' = "none"
    /\ UNCHANGED <<dirty_frame, queued_frame>>

WakesUnasked ==
    /\ Frame("waiting", "lock")
    /\ UNCHANGED <<frame_lock, dirty_frame, queued_frame>>

HasFrame ==
    /\ dirty_frame
    /\ Frame("test", "copy")
    /\ UNCHANGED <<frame_lock, dirty_frame, queued_frame>>

\* "should only be if we're quitting"
NoFrameLeft ==
    /\ ~dirty_frame /\ stop_thread
    /\ Frame("test", "loop")
    /\ frame_lock' = "none"
    /\ UNCHANGED <<dirty_frame, queued_frame>>

\* sws_scale into the frame that is drawn without the lock.
CopyKeepsDirty ==                                      \* mutant: dirty_frame is not reset
    /\ Frame("copy", "draw")
    /\ queued_frame' = buffered_frame
    /\ frame_lock' = "none"
    /\ UNCHANGED dirty_frame
Copy ==
    /\ Frame("copy", "draw")
    /\ queued_frame' = buffered_frame
    /\ dirty_frame' = FALSE
    /\ frame_lock' = "none"

Draw ==
    /\ Frame("draw", "loop")
    /\ UNCHANGED <<frame_lock, dirty_frame, queued_frame>>

EndLoop ==
    /\ Frame("loop", IF stop_thread THEN "unlock" ELSE "lock")
    /\ UNCHANGED <<frame_lock, dirty_frame, queued_frame>>

\* The unlock after the loop: the thread has given up the lock already, and
\* the mutex, of the default kind, is released whoever holds it.
UnlockAgain ==
    /\ Frame("unlock", "done")
    /\ frame_lock' = "none"
    /\ UNCHANGED <<dirty_frame, queued_frame>>

FrameSteps ==
    Lock \/ MustWait \/ Wait \/ HasFrame \/ NoFrameLeft \/ Copy \/ Draw \/ EndLoop \/ UnlockAgain

-----------------------------------------------------------------------------
(***************************************************************************)
(* Main: lcdStreamRecv's constructor, the web server, the destructor.      *)
(***************************************************************************)
Main(stage, next) ==
    /\ process = "running"
    /\ mainAt = stage /\ mainAt' = next
    /\ UNCHANGED process

Construct ==
    /\ Main("init", "serve")
    /\ decoderAt' = "open"
    /\ UNCHANGED <<frameAt, frame_lock, lcdVars>>

LcdInitFails == process = "running" /\ mainAt = "init" /\ Exits

ServerStops ==
    /\ Main("serve", "join")
    /\ UNCHANGED <<decoderAt, frameAt, frame_lock, lcdVars>>

JoinDecoderSkipped ==                                  \* mutant: lcd_thread.join() is missing
    /\ Main("join", "stop")
    /\ UNCHANGED <<decoderAt, frameAt, frame_lock, lcdVars>>
JoinDecoder ==
    /\ Main("join", "stop")
    /\ decoderAt = "done"
    /\ UNCHANGED <<decoderAt, frameAt, frame_lock, lcdVars>>

\* lcd_cleanup asks the frame thread to stop without taking the lock.
StopFrameThread ==
    /\ Main("stop", "signal")
    /\ stop_thread' = TRUE
    /\ UNCHANGED <<decoderAt, frameAt, frame_lock, dirty_frame, handed, buffered_frame,
                   queued_frame, clones>>

SignalStop ==
    /\ Main("signal", "join_frame")
    /\ Signal
    /\ UNCHANGED <<decoderAt, frame_lock, lcdVars>>

JoinFrameThreadSkipped ==                              \* mutant: no pthread_join
    /\ Main("join_frame", "free")
    /\ UNCHANGED <<decoderAt, frameAt, frame_lock, lcdVars>>
JoinFrameThread ==
    /\ Main("join_frame", "free")
    /\ frameAt = "done"
    /\ UNCHANGED <<decoderAt, frameAt, frame_lock, lcdVars>>

FreedUnchecked == clones - 1                           \* mutant: as if there always were one
\* av_frame_free does nothing for a frame that never was.
Freed == IF buffered_frame = 0 THEN clones ELSE clones - 1

FreeFrames ==
    /\ Main("free", "done")
    /\ clones' = Freed
    /\ buffered_frame' = 0 /\ queued_frame' = 0
    /\ UNCHANGED <<decoderAt, frameAt, frame_lock, dirty_frame, stop_thread, handed>>

MainSteps ==
    \/ Construct \/ LcdInitFails \/ JoinDecoder \/ StopFrameThread \/ SignalStop
    \/ JoinFrameThread \/ FreeFrames

-----------------------------------------------------------------------------
\* Some other thread of the program ends it.
EndedElsewhere == process = "running" /\ Exits

Next ==
    \/ MainSteps \/ ServerStops \/ DecoderSteps \/ ReadPacket \/ FrameSteps \/ WakesUnasked
    \/ EndedElsewhere

Spec == Init /\ [][Next]_vars

(***************************************************************************)
(* The camera owes no packet and no end of the stream, the condition       *)
(* variable no return without a signal, and nobody has to stop the server. *)
(***************************************************************************)
FairSpec ==
    /\ Spec
    /\ WF_vars(MainSteps)
    /\ WF_vars(FrameSteps)
    /\ WF_vars(ReceiveFrame \/ ReceiveNothing \/ LockToShow \/ HandOver)

-----------------------------------------------------------------------------
TypeOK ==
    /\ ProcessTypeOK
    /\ mainAt \in MainStages /\ decoderAt \in DecoderStages /\ frameAt \in FrameStages
    /\ frame_lock \in {"none", "decoder", "frame"}
    /\ dirty_frame \in BOOLEAN /\ stop_thread \in BOOLEAN
    /\ handed \in 0..MaxFrames
    /\ buffered_frame \in 0..MaxFrames /\ queued_frame \in 0..MaxFrames
    /\ clones \in 0..MaxFrames

\* The mutex is held exactly where the code thinks it is: no unlock of the
\* frame thread, the one too many after its loop (lcd.c:142) included, takes it from the
\* decoder while it replaces the frame.
LockHeldInside ==
    /\ frame_lock = "decoder" <=> decoderAt = "hand"
    /\ frame_lock = "frame" <=> frameAt \in {"test", "wait", "copy"}

\* What the frame thread draws is always newer than what it drew before: no
\* frame twice, none that was never handed over (the tests of dirty_frame
\* around the wait).
DrawsNewFrames == [][frameAt = "copy" /\ frameAt' = "draw" => queued_frame' > queued_frame]_vars

\* When the frames are freed nobody uses them or ever will (the two joins of
\* the destructor and lcd_cleanup).
FreedUnused == mainAt \in {"free", "done"} => decoderAt = "done" /\ frameAt = "done"

\* The picture does not stand still before the last frame: a frame handed over
\* is drawn, or a later one is, unless the display is being stopped.
ShowsLatest ==
    \A n \in 1..MaxFrames :
        handed = n ~> queued_frame >= n \/ stop_thread \/ process = "exited"

(***************************************************************************)
(* What the source says of itself and does not keep.                       *)
(***************************************************************************)

\* "pthread_join(frame_thread, NULL)" (lcd.c:210) and the program's end after
\* it, "!!! DONE !!!" (lcdVideoTest.cpp:172): cleanup ends, unless another
\* thread ends the program first.
CleanupEnds == mainAt = "stop" ~> mainAt = "done" \/ process = "exited"
==============================================================================
