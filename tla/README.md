# BeagleCar in TLA+

A remote-controlled car with two programs on two BeagleY-AI boards: the *receiver* (`udp`) on
the car drives a motor and a steering servo, the *sender* (`udp --sender`, or the sender half
of `controller`) reads a joystick and a rotary encoder in the operator's hand. They talk over
UDP. This directory models the control path from the knob's contacts to the pulse at the
wheels, the controller program around it (display, web server, video page) and the camera's crash
detectors, checks them with TLC and proves their central properties with TLAPS.

Line numbers of every definition are in `PROJECT.json` ("map"); this file gives the overview.

## 1. Inventory

| component | source | state it keeps | operations | speaks to |
|---|---|---|---|---|
| motor driver | `hal/src/motor.c` | `initialized`, `enabled`, `current_speed`, `current_reverse`; three sysfs files that outlive the process | init, cleanup, set speed (sleeps 15 ms to reverse), add speed | kernel (PWM) |
| servo driver | `hal/src/servo.c` | `initialized`, `enabled`, `current_angle`; three sysfs files | init, cleanup, set angle | kernel (PWM) |
| receiver | `app/src/receiver.c`, `udp.c` | `stop_thread`, `encoder_val`, `curr_ack_timeout`, the socket | listener thread, main (start, poll, join, clean up) | drivers (calls), sender (datagrams) |
| sender | `app/src/sender.c`, `udp.c` | `acked_encoder_val`, `stop_thread`, the socket | send thread (every 100 ms), listen thread, main (wait for q, join, stop the car) | encoder and joystick (calls), receiver (datagrams) |
| terminal sender | `sender.c:207-261` | `curr_encoder`, a buffer nobody initialises | one command per key | receiver |
| rotary encoder | `hal/src/rotary_encoder.c`, `gpio.c` | `counter`, `current_state`, `clkwise`, `stop_thread`, `initialized` | edge thread, init, cleanup, get/set counter | kernel (line events), send thread (shared counter) |
| joystick | `hal/src/joystick.c`, `i2c.c` | the ADC channel selected, the ends of both axes' ranges | read x, y, push | sender |
| controller | `app/src/controller.cpp` | none of its own | starts sender, LCD, web server; stops them in turn | all of these |
| LCD | `hal/src/lcd.c`, `app/src/lcd_stream_recv.cpp` | the frame handed over, `dirty_frame`, a mutex and a condition | decoder thread shows frames, frame thread draws | libav, display |
| web server | `webServer/src/webServerBlueprints.cpp` | two globals: child pid, pipe; one child and one reading thread per page | open/close of a video websocket | ffmpeg child, browser |
| crash detection | `webcam/crash-detection{2,3}.py` | moving average, cooldown, counter of deviating frames | one step per frame | camera, UDP |
| webcam tools, video streamer | `webcam/capture.c`, `receiveUDP.py`, `vidStreamer/` | — | linear pipelines | camera, UDP |
| third party | `lgpio/`, `lcd/lib/`, `header_files/` | — | vendored | — |

What makes it hard:

* **Two threads of the receiver.** `main` starts the listener *before* the motor and the servo
  (`udp.c:72-74`), and the drivers consist of asserts. `motor_set_speed` sleeps in the middle of
  a reversal while `main` goes on.
* **Files that survive the process.** The PWM channels keep period, duty cycle and enable of a
  process that was killed, and the kernel refuses some writes.
* **UDP.** Commands and acknowledgements are lost, duplicated, reordered. The sender repeats a value until the
  acknowledged value equals it; acknowledgements have no sequence number and no sign, and share
  their number space with `CODE_STOP`.
* **Shared counter.** Edge thread (count, clamp) and send thread (read, reset) share one atomic
  integer without a lock. Edges of the two contacts queue up per contact.
* **Shutdown.** Each side stops its threads, joins them, tells the other side once, cleans up. The controller does so
  only after its web server has ended, while the display's decoder, the video page's readers and the children go on.
* **One process.** An `exit(1)` or an exception in any of the controller's eight kinds of thread ends all of
  them, and the car is not told.
* **Descriptors and signals.** Pipes are inherited by every later child, closed twice and given again;
  the signal meant for a child reaches the program itself.
* **Handlers on several workers.** The server is `multithreaded()` (`controller.cpp:45`); handlers of different pages run at once
  and share two globals without a lock.
* **A clock that is set.** The crash detectors compare wall-clock times.

What makes each component correct:

* motor: the cached speed and direction agree with the file; no write is refused; the wheels see
  neutral between two directions and nothing after clean-up; increments never fail an assert.
* receiver: no command takes it down once it is up; an acknowledgement is sent for what was
  applied and never looks like a stop; clean-up after the listener has ended; a stop leads to the
  end with everything off.
* sender: what it does not send is what the car runs at; the stop command is the last one; a
  value left alone is reached, and quitting stops the car.
* terminal sender, joystick: what was typed last is what the car runs at; no deflection beyond the whole one.
* encoder: detents are counted exactly; the counter stays within its bounds; the module's start and end
  never use lines that are not open.
* display: no frame is drawn twice or after it was freed, and the latest is drawn.
* controller: nothing is used after it was closed; however the web server ends, the car is told, unless the program dies.
* video page: a page whose `onopen` was not mixed up with another's gets its own child's video; its reading thread ends when it is closed.
* crash detection: no report in warm-up or cooldown, none for fewer than five frames, one for five that are far off.

The full list of hazards, each at its line with the properties that cover it, is in
`PROJECT.json`.

## 2. Modules

```
Pwm  <-- Motor <-- MotorDriver (Spec)  - - implements - ->  DriveTrain
  ^        ^           ^-- MotorDriverProofs
  |        |           ^-- MCMotorDriver
  '--- Servo
           ^
Network <- Receiver <-- Car (Spec)  - - implements - ->  DriveTrain
   ^          ^          ^-- CarProofs (with ReceiverProofs)
   |          |          ^-- MCCar
   |          |-- ReceiverProofs (with MotorProofs)
EncoderCounter <- Sender <-.   (Sender also extends Joystick)
   ^          '------------ ControlLink (Spec) <- MCControlLink
   |                           ^-- ControlLinkProofs (with ReceiverProofs)
   '-- RotaryEncoder (Spec) <- MCRotaryEncoder
           ^-- EncoderProofs

ControllerProcess <- LcdFrames (Spec) <- Controller (ControllerSpec) <- MCController
        ^                                    |        ^-- ControllerProofs
        '------------ VideoSocket  <---------'

CrashDetect (Spec)  - - implements - ->  CrashReports
   ^-- CrashProofs
```

**`Pwm`** – the process (`process`: running, aborted by an assert, failed by `exit(EXIT_FAILURE)`,
finished) and what the two drivers share: conversion to nanoseconds, the channel's three
files, `set_duty_cycle` with its early return and `set_period`. `DutyRefused` and `PeriodRefused`
are the kernel's rules as the drivers' comments state them. Opening, reading or writing a file that is
missing or not permitted is left out: the files exist while the HAT is up.

**`Motor`**, **`Servo`** – the drivers as actions without a specification of their own. Start-up
is one step per file operation, because the listener may call in between; clean-up is one step,
because its callers have joined everybody. `motor_set_speed` is its four outcomes: a failed assert,
the early return, the way to neutral (after which the caller sleeps, recorded in `reversing`),
or the new duty cycle; `MotorReverses` is the rest of the call after the sleep. Duty cycles are
computed as the code does, in whole microseconds. `servo.c:197` takes the angle as an int.

**`DriveTrain`** – abstract: the pulse at the wheels never goes from forward to backward or back
in one step, and there is none once the driver has shut down.

**`MotorDriver`** – the driver in a process of its own: start and clean-up interleaved with a
second thread that calls `motor_set_speed` and `motor_add_speed` with any arguments.

**`Network`** – the datagrams of both directions as bounded sequences. `Faults` says which of loss,
duplication and reordering happen. A command is a code and the one argument the car uses; formatting and `atoi` are
a message and its value, `"other"` is what falls into an early return or the `default`. The
bound `MaxInFlight` is also the pace of an instance without loss: a sender whose channel is full
waits, which stands for the 100 ms between two rounds of the send thread.

**`Receiver`** – the two threads of the car's program. `mainAt` walks through `recv_udp_init`,
`motor_init`, `servo_init`, the poll loop, `recv_udp_cleanup` (join, then the stop for the controller), `motor_cleanup`,
`servo_cleanup`. `listener` is where `listen_udp` is: a datagram is handled in one step up to the
first point at which another thread matters, the sleep of a reversal (`asleep`), the
acknowledgement (`ack`) or the test of the flag after a stop (`loop_end`), which main may see first. `SteeringAngle` works in hundredths; of the values a
joystick sends, the C program's single-precision arithmetic yields one degree less at -0.80, -0.60 and 0.30.
The uninitialised address of `receiver.c:41` is a choice: the stop reaches the controller or not.

**`Car`** – the receiver against an environment that sends any of `Commands` at any time.

**`EncoderCounter`** – the atomic counter: an addition, then a clamp that reads and stores.
**`Joystick`** – the y axis in hundredths as `val_to_percent` computes it from a 12-bit reading, with the ends of the range
(`up_max`, `down_max`) that move outwards before they are used; of the x axis, which the car ignores, only
whether the stick is at its centre. `joystick_get_dir` and `joystick_get_angle` are compiled only with
`JOYSTICK_ANGLE`, which no build defines, or called by nobody.
**`Sender`** – the send thread step by step (`send_udp`), the listen thread, main, in both modes (`Modes`). Hardware
readings are choices from `Dialled`, `Buttons`, `XReadings`, `YReadings`. In this module a whole detent is one `Turn`; `RotaryEncoder`
shows where it comes from. With a terminal there is no send thread, and each key sends one command (`TypeKey`,
`TypeEncoder`). Any other key, and each second without one, sends the buffer of `send_terminal_input` as it is
(`TypeOther`): it holds the command of the call before, or something that is no command; that it holds a *different* command
by chance is left out. `keyed` is the value typed last, `MaxKeyed` bounds it.

**`ControlLink`** – sender and receiver over the network. `CarFirst` says whether the
operator waits for the car to be up, which nothing in the programs enforces; all link runs assume it.

**`RotaryEncoder`** – the knob in quarter detents, one queue of edges per contact, the edge thread with its
table of states, and init and cleanup in the order of their statements. The
history variables `lastRest` and `expected` say what the counter should be. The moment between
`rot_encoder_init` and `rot_encoder_set_min_max`, in which the module's default bounds
hold, is left out: the knob is turned after it.

**`ControllerProcess`** – whether the controller's process runs; every thread's failure ends it.

**`LcdFrames`** – the display of the controller: the thread that decodes the stream, the thread that draws,
and main's construction and destruction of `lcdStreamRecv`. The mutex is `frame_lock`; a wait is two steps, the
test and the wait, between which a signal is lost. Frames are numbered in the order they are
handed over (`MaxFrames` bounds the stream), `clones` counts those not freed. Packets that yield nothing change nothing
and are left out; an `exit` of any thread ends the process, and `EndedElsewhere` is one of a thread that is not the display's.

**`VideoSocket`** – the video page. `page` is where `onopen` (pipe, fork, thread) and `onclose` (kill and wait, close, close) of
each page are. `multithreaded()` (`controller.cpp:45`) has Crow start a worker for every core but one, three on the BeagleY-AI, so that
handlers of different pages interleave between any two of their steps; those of one page do not, since a connection belongs to one worker.
`Workers` bounds how many handlers run at once. Which worker a page is assigned to is left out: two pages of one worker are
served one after the other, which is among the orders explored. A call of `pipe` is one step, with what it stores in `pipe_fd`.
Pages are numbered in the order in which they are opened, which loses nothing, since nothing else tells them apart. `target` is the pipe a child was made to write to:
that of whatever `pipe_fd` stood for at `fork`. `overlapped` is history: the pages whose `onopen` another page's ran into. A child is
`forked` until `execlp` has replaced Crow's signal handler, and `runs` after it; `held` is the set of pipes whose write end it
inherited. `fds` is the table of descriptors, as far as pipes are concerned: `pipe` takes the lowest two that are free.
Sockets that take a descriptor which was closed too early, and children that outlive the program, are left out. A
reading thread (`reader`) calls `read` on the descriptor it was given, blocks on the pipe that stands behind it at
that moment (`source`), sends, and closes. The routes without state are left out.

**`Controller`** – `main` of `controller.cpp` over both: inputs, sender, display, web server up; then the web server
until a signal ends it, the sender, the inputs and at last the display down. Of the sender's threads only their lives are kept, what they
send is `Sender`'s and `ControlLink`'s. `ControllerNext` interleaves everything; `Loads` names the uses that
are checked together (how many frames the camera sends, which pages are opened).

**`CrashReports`** – abstract: no message in the first five seconds of the stream, and five seconds between two, by the clock read for each frame,
which may be set.
**`CrashDetect`** – both detectors, one frame per step; `program` says which of the two the operator started. A frame is one channel of
the average colour of its lower half; the distance in one channel keeps the comparison with the threshold exact
(`|c * count - sum| > threshold * count` in place of the quotient). `inARow` and `farInARow` are history: the frames up to this one that
deviate from the average of those before them by more than the threshold, and by more than twice the threshold.

## 3. Runs

Passing runs:

| run | properties | bounds and why they suffice |
|---|---|---|
| `MotorDriver` | `MotorTypeOK`, `DutyMatchesState`, `NoPwmFault`, `ImplementsDriveTrain`, `IncrementsAreSafe` | speeds on, inside and outside both ends of 0..100; increments that overshoot both; a fresh channel and one left running by a killed process with a longer period |
| `Car` | `TypeOK`, `AckNeverStop`, `AckAfterApply`, `DoneMeansOff`, `CleanupAfterListener`, `AbortOnlyDuringStartup`, `StopStops` | one command of every kind, both signs of one speed, both clamps of speed and of angle; one message in flight each way (the environment may send any command at any time, so a longer queue adds no order of arrival) |
| `Link` | `TypeOK`, `StopIsLast`, `SkipMeansUpdated`, `KeysObeyed`, `Converges`, `QuitStopsCar` | no loss, two messages in flight each way, so that the stop queues up behind commands and acknowledgements behind each other; the knob turned to and fro between 0 and 50, as often as the operator likes; or a terminal, with j, l, e and other keys and values up to 2 |
| `LinkFaulty` | `StopsOnlyOnQuit`, `SteersInRange` | loss, duplication and reordering among two messages in flight each way; knob at 0 and 50, both buttons, the joystick at its centre and beyond the end of its range (1700 of 1620), or a terminal; the car is up before the controller, as in all link runs, because a command during its start-up aborts it (`CarStartup`) |
| `LinkLossy` | `RestIsAcked` | one message in flight each way, any of them may be lost; the knob at 0, 50 and 100, which is sent for ever and may be left again |
| `Encoder` | `TypeOK`, `CountsDetents`, `RestInBounds`, `ReadsOpenLines`, `FailsOnlyInInit`, `CleanupEnds` | three detents each way over bounds of one, so that both clamps act and are left again; at most one edge waiting, resets by the send thread at any moment (after one in the middle of a turn `CountsDetents` claims nothing until one at rest) |
| `Controller` | `ControllerTypeOK`, `LockHeldInside`, `FreedUnused`, `InputsOpenWhenUsed`, `ReadsOwnVideo`, `DrawsNewFrames`, `ShowsLatest`, `ReadersEnd`, `ToldUnlessDead` | three uses: three frames and no page (one drawn, one waiting, one replacing it); one frame and one page; no camera and two pages, which share the globals and inherit each other's pipe. Two workers, which is all that two pages can use, so that both pages' handlers run one after the other and at once. Streams end or fail, pages open and close, signals arrive, the car stops, children die and calls fail at any moment |
| `Crash` | `TypeOK`, `FarFramesReport`, `ImplementsCrashReports`, `FiveInARow` | both detectors over every stream of up to twelve frames of three colours (the same, just beyond the threshold, far beyond it) with six clock readings on and around the ends of the warm-up and of two cooldowns, in any order: enough for a check that is cancelled and begun again, two reports, and a clock that is set back |

What they show, in words:

* The motor's cached speed and direction agree with the `duty_cycle` file whenever no call is
  under way, and the file is never written in a way the kernel refuses, also when another thread calls
  in the middle of `motor_init` and whatever an earlier process left in the files.
* The wheels never see forward and backward pulses in consecutive steps, neither in the driver
  alone nor in the receiver with its two threads (`ImplementsDriveTrain`).
* An acknowledgement is sent only for the speed the motor has taken, and is never `CODE_STOP`.
* A command can take the receiver down during start-up only. After it, a stop always leads to its end,
  with the listener ended before the drivers are disabled, and both channels off.
* Without loss, with the car up first and only forward speeds dialled, what the sender leaves out is
  what the car runs at, a value left alone is reached, and quitting stops the car.
* With loss, a value from 1 to 99 that is left alone is acknowledged in the end.
* The knob's detents are counted exactly as long as the thread has at most one edge before it.
* Without loss, a terminal's operator is obeyed too: what the uninitialised buffer adds repeats the last command or is none.
  No reading of the ADC makes a steering command leave [-1, 1].
* The display never draws a frame twice, uses a frame that was freed or loses the latest one, and the
  unlock after the frame thread's loop does no harm, because the decoder has been joined by then. The same holds inside the whole
  controller, where other threads may end the process.
* The send thread has ended before the inputs are closed. However the web server comes to its end, and closing a page is
  one way, the car is told; the two exceptions are a process that dies early and a handler whose `waitpid` waits for a
  child that missed the signal. The display, which is destroyed last, may wait for its stream for ever without harm to this.
* As long as no page was closed every reading thread reads some pipe, so that no read fails, whichever handlers run at once. A page that was opened on its own gets its own
  child's video and no other child's, although later pages overwrite `pipe_fd`. A single page's reading thread
  ends when the page is closed, because all copies of the write end are closed then, or takes the program with it.
* A crash detector never reports in the warm-up nor within a cooldown, even if the clock is set; the average detector reports
  for five frames in a row and no fewer, and misses none that is beyond twice the threshold.

The knob moves by five detents at once in the link runs (`Step` 50 instead of 10): only the
order of the values relative to the clamps matters to the protocol. `MaxBehind` says how many
edges the encoder's thread may be behind: `CountsDetents` is about a thread that keeps up (one).
The history variable `sure` says
whether the count is determined: a reset in the middle of a turn comes before or after its
count, and which of the two is not promised, until the next reset at rest. Every
deadlock check is off because the programs end.

Runs that refute what the source says of itself (`PROJECT.json`, "findings"):

| run | the source says | what happens |
|---|---|---|
| `CarStartup` | "The servo should be on" (`servo.c:233`), and the motor likewise | the listener is started first; a command during start-up aborts the program, the PWM channel keeps its state |
| `CarDirection` | "Need to change direction of the motor" (`motor.c:235`) | the same speed in the other direction returns early, and is acknowledged |
| `LinkReverse` | "receiver already updated, so dont bother" (`sender.c:133`) | the acknowledgement has no sign: 50 is taken for updated while the car runs at -50 |
| `LcdStop` | `lcd_cleanup` joins the frame thread (`lcd.c:210`) and the program goes on ("!!! DONE !!!", `lcdVideoTest.cpp:172`) | the flag is set and signalled without the mutex; the frame thread misses the signal between its test and its wait. The property lets any other thread end the process, so that only the blocked join violates it; with the flag set under the mutex, and a mutex that is fair, it holds |

Not kept as runs of their own, but to be seen by changing one constant or reading one action:

* `SkipMeansUpdated` holds in `Link` exactly because that instance has forward speeds only, no
  brake and no loss. With `Faults = {"lose"}` an intermediate value's acknowledgement
  is lost and the earlier value is not sent again; with `Buttons = {"encoder"}` the
  brake is not acknowledged and the value from before it is not sent again. A controller that is started again while the
  car still drives (its stop was lost) takes 0 for acknowledged (`sender.c:22`) and does not send it.
* "re-send ack on n-th duplicate message" (`receiver.c:22`): `encoder_val` is never assigned and stays
  -1, so that no value counts as a duplicate and every command of the knob's is acknowledged (`Receiver.Ack`).
* "flush the decoder" (`lcd_stream_recv.cpp:151`): `decode` returns at once when there is no packet, and
  the frames the codec still holds are dropped (`LcdFrames.StreamEnds`).
* "tell sender to close" (`receiver.c:40`): the address is not initialised (`Receiver.TellSender`).
* With `MaxBehind = 2` in `Encoder.cfg` `CountsDetents` is violated: a thread one edge behind reads line A before line B whatever
  their order, and can count a knob turned right downwards ("Left turn", `rotary_encoder.c:99`).
* `./udp --sender --terminal` (README.md:503) has a flag where the program expects the address (`udp.c:23-52`) and starts a
  receiver; the address must come first.
* "if 5 consecutive frames deviate from the moving average, detect crash" (README.md:363): the first of the five is in the average it
  is compared with, so that five frames between one and two thresholds off need not be reported (`FarFramesReport` says twice the
  threshold for this reason); with a clock that is set back into the warm-up the five need not be consecutive (`FiveInARow` excepts it).
* In `ReadsOwnVideo`: without `p \notin overlapped` it is violated by two `onopen` that run at once. The second one's `pipe` (line 110) overwrites
  `pipe_fd` before the first one has forked (116) or copied the read end (148), and the first page is sent the other's video, or its child
  writes into the other's pipe. Nothing in the source says that it is otherwise, so this is a hazard and not a finding.
* In `VideoSocket`: closing one page ends the whole controller, because `kill(0, SIGTERM)` includes it (`ClosePage`); a
  read that fails is taken for data of length -1, an exception and the program's end without a stop for the car (`ReadFails`); a child between fork
  and exec misses the signal, and `waitpid` waits for it with the handler's worker, and Crow's `run`, which waits for all workers, with that one (`WaitsForChild`); after a page was closed
  its descriptors are given again while its reading thread still has them, so that it may read another page's
  pipe or close it (`CloseOwn`); a page's pipe whose descriptors are overwritten is never closed, and with two pages a reading
  thread may wait for ever, which is why `ReadersEnd` is about one page.

**Fairness.** Every blocking call of the threads has a timeout (100 ms on both sockets, 1 s on
the line events) or is a sleep or a join, so each thread's steps are weakly fair. The
operator's hand and the environment's commands are not fair. `Car` also lets acknowledgements leave the
channel, since `sendto` does not wait. `LinkLossy` assumes in addition that a value and an acknowledgement
sent again and again are not lost every time (strong fairness of the sends that get
through). Stopping the encoder's thread is not fair, what follows it is. In `LcdFrames` the camera owes
neither packets nor an end, stopping the server and spurious wake-ups are not fair, everything else is; weak
fairness of the mutex is enough because the stream is finite there. In `Controller` every thread of the program and every
child that was told to end takes its steps (`ControllerFairSpec`): each page's handler and reading thread run unless they block,
Crow stops once it was signalled, `execlp` is reached. The camera, the browser, the operator's signal, the car's stop and every failure are not
fair. `CrashDetect` has no liveness: nothing makes a camera go on.

## 4. Proofs

All theorems hold for every value of the constants: any set of commands or arguments, any faults and
capacity of the network, any stale channel whose duty cycle does not exceed its period (which the kernel guarantees). Five
have a named hypothesis on the constants, because what they state is false without it; it is given below with each.

* `MotorProofs`, `ReceiverProofs`: the drivers' inductive invariants (`MotorInv`, `ServoInv`) and one lemma per
  operation that preserves them. `MotorInv` relates the start-up stage to the files (`ChannelInv`), the
  flags to the stage (`FlagInv`), and the duty cycle to the statics (`PulseInv`);
  the last one is `DutyMatchesState`, and is not inductive without the other two, since
  start-up and calls interleave. `NoSwing` lemmas say that no operation changes the direction of the pulse in one step.
  `ReceiverInv` adds where main is relative to the drivers and the listener
  (`StageInv`), what the listener has in hand relative to the motor (`HandlingInv`: while the
  listener sleeps, the call in `reversing` has the speed of the command; at the acknowledgement
  `motor.speed` is the command's), the contents of the channels (`ChannelsInv`) and the threads' flags (`FlagsInv`). It is
  shown to be kept by every step of main and of the listener and by whatever puts a command into the channel, so that
  `CarProofs` and `ControlLinkProofs` both rest on it.
* `MotorDriverProofs`: type correctness, `DutyMatchesState`, `NoPwmFault`,
  `IncrementsAreSafe`, and that `MotorDriver` implements `DriveTrain`.
* `CarProofs`: from `ReceiverInv` follow all safety
  properties of the run `Car`: `TypeOK`, `DutyMatchesState`, `NoPwmFault`, `AckNeverStop`,
  `AckAfterApply`, `DoneMeansOff`, `CleanupAfterListener`, `AbortOnlyDuringStartup`, and the
  refinement of `DriveTrain`. `AbortOnlyDuringStartup` needs no assumption on the commands:
  the clamps of `process_cmd` cover every integer.
* `ControlLinkProofs`: `LinkInv` is the inductive invariant of both programs and the network between them. Without any hypothesis:
  `CommandsInv` (what is in flight: the stop command only once main has sent it, steering only within the stick's range, and
  never the stop command in the terminal's buffer, which is sent again) and `WindUpInv` (the order in which both programs wind
  up) give `TypeOK`, `StopsOnlyOnQuit` and `SteersInRange` for every network. The other parts each belong to a hypothesis:
  - `OrderInv`, where nothing is lost or overtaken (`InSequence`), gives `StopIsLast`. It is false without it: a network that
    reorders may deliver the stop command before an earlier one, and a lost stop command leaves the earlier ones the last.
  - `StartInv` says that a controller started after the car (`CarFirst`) has done nothing until the car is up. It is what
    `CarRunsUntilTold` needs: no assert of a driver fails until the operator has quit. Without it the run `CarStartup` shows the
    abort; the theorem is the counterpart of that run.
  - `TypedInv`, with a terminal, `InSequence` and `CarFirst` (together `Orderly`), relates what was typed last to the last command in
    flight that sets the speed, or to the motor when there is none, and to the buffer that is sent again. It gives `KeysObeyed`.
  - `AckedInv`, with the knob, `Orderly`, forward readings (`Dialled \subseteq Nat`) and no brake, relates the motor's speed to the last
    acknowledgement on its way, or to the one that was taken. It gives `SkipMeansUpdated`, and rests on `ForwardInv`: who never asks
    for reverse never reverses, so that no direction is set with a speed the motor already has.
    Each of the hypotheses is needed: reverse breaks the property in `LinkReverse`, the brake and a lost acknowledgement as section 3 says.
* `ControllerProofs`: first the display alone, that is `Spec` of `LcdFrames`. `LcdInv` adds to the mutex's invariant the order in which the threads live and end (`LifeInv`)
  and what the frames' numbers are relative to each other (`FrameInv`). `LockHeldInside` alone is not
  inductive: the extra unlock keeps it only because the frame thread ends after it was told to, and it is told to after the decoder was
  joined. From it follow `TypeOK`, `LockHeldInside`, `FreedUnused` and `DrawsNewFrames`.
  Then every step of the controller is a step of `LcdFrames` or leaves the display alone, so that
  `ControllerSpec => Spec` (`ControllerRunsDisplay`) and what is proved of the display holds in the whole program.
  `InputsInv` ties the send thread's life to main's stage and gives `InputsOpenWhenUsed`. For `ReadsOwnVideo` the invariant
  `OwnInv` says, of every page as long as none was closed, what its thread and its child were given (`Given`): while its `onopen` runs, `pipe_fd` stands for
  the pipe of one page (`Current`), which is the page itself unless both are among the `overlapped`; what was copied from there stays what it was, because no descriptor is given
  twice as long as none was closed, and no thread reads an end of file, because the program keeps every write end. It
  holds for any number of pages and of workers; the type invariant needs the pages finite.
* `CrashProofs`: `OwnWeight` and `FarEnough` are the arithmetic of averages (a frame that deviates from an average it is part of deviates from the
  one without it; one twice as far off deviates from both). `CooldownInv` ties the cooldown to the last message and gives the refinement of
  `CrashReports`; `CountInv` and `FarInv` tie the counter of a check to the frames in a row from both sides and give `FiveInARow` and
  `FarFramesReport`, for every set of colours, every clock and every length of the stream.
* `EncoderProofs`: `CountInv` says where the counter may be while a turn is under way (beyond the bound in the direction of the turn,
  never beyond the other; a clamped value waiting to be stored is within both), and needs only that zero, which a reset stores, lies within the bounds. `LifeInv` relates main's
  stage, the lines, the flag and the thread, `EdgeInv` the lines of a wake-up to the edges still waiting on them. They give `RestInBounds`, `FailsOnlyInInit`,
  `ReadsOpenLines` and `TypeOK` for every pair of bounds, every step and every length of the kernel's queues. `DetentInv` says what the
  state machine and the counter know of the knob: when no edge waits the thread's state is that of the knob's quarter and the counter,
  once a count under way is over, what was expected (`CaughtUp`); when one waits, all of this holds of the quarter before it (`OneBehind`). It gives `CountsDetents` as long as at most one edge
  waits (`KeepsUp`, that is `MaxBehind <= 1`); with two it is really violated, as section 3 says.

`DutyMatchesState`, `NoPwmFault` and the refinement of `DriveTrain` are proved of the motor driver alone and of the car; the runs check them of
the motor driver alone. Every invariant and every action property that a run checks is stated by a theorem.
Only model-checked are the liveness properties: `StopStops`, `Converges`, `QuitStopsCar`, `RestIsAcked`, `CleanupEnds`, `ShowsLatest`, `ReadersEnd`
and `ToldUnlessDead`. They need fairness and ENABLED, which are out of the prover's reach.

## 5. Plan

Done: every component that is built from this repository's own code and keeps state, and a proof of every safety property that a run
checks. What is left is proof beyond the runs:

1. `ControlLink`: that the car in it keeps what `Car` promises (`ReceiverInv` is part of `LinkInv`, so `DutyMatchesState` and the refinement of
   `DriveTrain` should carry over).
2. `RotaryEncoder` composed with the sender: `Count` of `Sender` turns the counter in one step of the thread's; that
   `RotaryEncoder` implements that step is argued from the code and not proved.

### Not modelled

* The vendored libraries (`lgpio/`, `lcd/lib/`, `header_files/asio*`, `crow_all.h`), more than nine tenths of the lines in this
  repository. What the programs rely on in them (Crow's workers, its signals and its end; the kernel's pipes, PWM files and line events) is
  modelled from the use made of it and marked external.
* `webcam/capture.c`, the V4L2 sample program, and `receiveUDP.py`, which shows frames and keeps nothing.
* `vidStreamer/`, which the top-level `CMakeLists.txt` does not build: a linear pipeline of libav calls in one thread.
* `gpio.c` beyond what the encoder uses (partly modelled): the rest opens and closes chips and lines and keeps a flag.
* `testing/` (partly): its motor and servo programs call the drivers in ways `MotorDriver` and `Receiver` include; `lcdVideoTest` is the display with a
  program around it that `LcdFrames` includes; `webServerTest` is the web server alone.
* The routes of the web server that keep no state; deployment scripts; parsing of arguments and formatting of messages.
