-------------------------------- MODULE Sender --------------------------------
(***************************************************************************)
(* The program in the operator's hand: app/src/sender.c, with the hardware *)
(* inputs (udp --sender, or controller) or with the keys of a terminal     *)
(* (udp --sender --terminal).  With the hardware, three threads share the  *)
(* encoder's counter, the value last acknowledged and the stop flag: the   *)
(* encoder's, the send thread, which samples all inputs every 100 ms, and  *)
(* the listen thread, which takes acknowledgements.  Main waits for the    *)
(* operator to quit; with a terminal it sends a command for every key, and *)
(* there is no send thread.                                                *)
(***************************************************************************)
EXTENDS Network, EncoderCounter, Joystick

CONSTANTS Modes,       \* how the operator may start it: using_terminal or not
          Dialled,     \* values the operator turns the counter to
          Buttons,     \* buttons the operator may press
          Keys,        \* keys for joystick and buttons the operator may type
          MaxKeyed     \* bound on the encoder's value typed with j and l

ASSUME SenderAssumption ==
    /\ Modes \subseteq BOOLEAN
    /\ Dialled \subseteq Int
    /\ Buttons \subseteq {"joystick", "encoder"}
    /\ Keys \subseteq {"w", "s", "a", "d", "space", "e"}
    /\ MaxKeyed \in Nat

VARIABLES sendAt,      \* what the send thread does next
          readVal,     \* the counter as send_encoder_val read it
          acked_encoder_val,
          listenAt,    \* what the listen thread does next
          ctlStop,     \* sender.c's stop_thread
          ctlMain,     \* what main does next
          using_terminal,
          curr_encoder,
          msg_rx,      \* send_terminal_input's buffer, as its last call left it
          keyed        \* history: the encoder's value typed last, -1 for the brake

terminalVars == <<curr_encoder, msg_rx, keyed>>
inputVars == <<using_terminal, terminalVars, joystickVars>>
senderVars == <<counterVars, sendAt, readVal, acked_encoder_val, listenAt, ctlStop,
                ctlMain, inputVars>>

SendStages == {"joy_push", "joy_vals", "enc_push", "enc_reset", "enc_read",
               "enc_send", "sleep", "done"}

SenderTypeOK ==
    /\ CounterTypeOK /\ JoystickTypeOK
    /\ sendAt \in SendStages
    /\ readVal \in Int /\ acked_encoder_val \in Int
    /\ listenAt \in {"recv", "done"}
    /\ ctlStop \in BOOLEAN
    /\ ctlMain \in {"wait", "join", "done"}
    /\ using_terminal \in BOOLEAN
    /\ curr_encoder \in 0..MaxKeyed /\ msg_rx \in Messages /\ keyed \in -1..MaxKeyed

\* send_udp_init; what the buffer holds before the first key is no command.
SenderInit ==
    /\ CounterInit /\ JoystickInit
    /\ using_terminal \in Modes
    /\ curr_encoder = 0 /\ msg_rx = Message("other", 0) /\ keyed = -1
    /\ sendAt = IF using_terminal THEN "done" ELSE "joy_push"
    /\ readVal = 0
    /\ acked_encoder_val = 0
    /\ listenAt = "recv"
    /\ ctlStop = FALSE
    /\ ctlMain = "wait"

-----------------------------------------------------------------------------
(***************************************************************************)
(* The operator turns the knob; the encoder's thread counts.               *)
(***************************************************************************)
Turn ==
    /\ ~using_terminal /\ ctlMain # "done"
    /\ \E dir \in {-1, 1} : counter + dir * Step \in Dialled /\ Count(dir)
    /\ UNCHANGED <<network, sendAt, readVal, acked_encoder_val, listenAt, ctlStop, ctlMain,
                   inputVars>>

FinishTurn ==
    /\ ReadToClamp \/ StoreClamped
    /\ UNCHANGED <<network, sendAt, readVal, acked_encoder_val, listenAt, ctlStop, ctlMain,
                   inputVars>>

-----------------------------------------------------------------------------
(***************************************************************************)
(* The send thread: one round of send_udp.                                 *)
(***************************************************************************)
SendThread(stage, next) ==
    /\ sendAt = stage
    /\ sendAt' = next
    /\ UNCHANGED <<toCtl, turn, acked_encoder_val, listenAt, ctlStop, ctlMain,
                   using_terminal, terminalVars>>

Sends(code, val) == toCar' \in Sent(toCar, Message(code, val))

SendJoyPush ==
    /\ SendThread("joy_push", "joy_vals")
    /\ \/ "joystick" \in Buttons /\ Sends("joystick_push", 0)
       \/ UNCHANGED toCar
    /\ UNCHANGED <<counter, readVal, joystickVars>>

\* Nothing is sent for a stick at its centre, so that a released stick leaves
\* the wheels where they were.
SendJoyVals ==
    /\ SendThread("joy_vals", "enc_push")
    /\ \E x \in XReadings, y \in YReadings :
          /\ Calibrate(y)
          /\ IF Centred(x, neutral_x) /\ Centred(y, neutral_y)
             THEN UNCHANGED toCar
             ELSE Sends("joystick", YPercent(y))
    /\ UNCHANGED <<counter, readVal>>

SendEncoderPush ==
    /\ "encoder" \in Buttons
    /\ SendThread("enc_push", "enc_reset")
    /\ Sends("encoder_push", 0)
    /\ UNCHANGED <<counter, readVal, joystickVars>>

EncoderNotPushed ==
    /\ SendThread("enc_push", "enc_read")
    /\ UNCHANGED <<toCar, counter, readVal, joystickVars>>

ResetCounter ==
    /\ sendAt = "enc_reset"
    /\ sendAt' = "enc_read"
    /\ SetCounter(0)
    /\ UNCHANGED <<network, readVal, acked_encoder_val, listenAt, ctlStop, ctlMain, inputVars>>

ReadEncoder ==
    /\ SendThread("enc_read", "enc_send")
    /\ readVal' = counter
    /\ UNCHANGED <<toCar, counter, joystickVars>>

\* send_encoder_val: nothing to send when the value is the acknowledged one.
SendEncoderVal ==
    /\ SendThread("enc_send", "sleep")
    /\ IF readVal = acked_encoder_val
       THEN UNCHANGED toCar
       ELSE Sends("encoder", readVal)
    /\ readVal' = 0        \* the local goes out of scope
    /\ UNCHANGED <<counter, joystickVars>>

\* sleep_ms(SEND_INTERVAL_MS), then the loop's condition.
NextRound ==
    /\ SendThread("sleep", IF ctlStop THEN "done" ELSE "joy_push")
    /\ UNCHANGED <<toCar, counter, readVal, joystickVars>>

SendSteps ==
    \/ SendJoyPush \/ SendJoyVals \/ SendEncoderPush \/ EncoderNotPushed
    \/ ResetCounter \/ ReadEncoder \/ SendEncoderVal \/ NextRound

-----------------------------------------------------------------------------
(***************************************************************************)
(* The listen thread: process_cmd on what recvfrom returns, or a timeout.  *)
(***************************************************************************)
StopsOn(ack) == ctlStop \/ ack = CODE_STOP

TakeAck ==
    /\ listenAt = "recv"
    /\ \E i \in Deliverable(toCtl) :
          /\ toCtl' \in After(toCtl, i)
          /\ acked_encoder_val' = toCtl[i]
          /\ ctlStop' = StopsOn(toCtl[i])
          /\ listenAt' = IF StopsOn(toCtl[i]) THEN "done" ELSE "recv"
    /\ UNCHANGED <<toCar, counterVars, sendAt, readVal, ctlMain, inputVars>>

ListenTimeout ==
    /\ listenAt = "recv"
    /\ ctlStop
    /\ listenAt' = "done"
    /\ UNCHANGED <<network, counterVars, sendAt, readVal, acked_encoder_val, ctlStop, ctlMain,
                   inputVars>>

\* Acknowledgements nobody reads: the listen thread has ended.
AckUnheard ==
    /\ listenAt = "done"
    /\ toCtl # <<>>
    /\ toCtl' = Tail(toCtl)
    /\ UNCHANGED <<toCar, senderVars>>

-----------------------------------------------------------------------------
(***************************************************************************)
(* Main with a terminal: send_terminal_input.  Every command is sent once. *)
(***************************************************************************)
KeyMessage ==
    [w |-> Message("joystick", 100), s |-> Message("joystick", -100),
     a |-> Message("joystick", 0), d |-> Message("joystick", 0),
     space |-> Message("joystick_push", 0), e |-> Message("encoder_push", 0)]

Types(m) ==
    /\ using_terminal /\ ctlMain = "wait"
    /\ toCar' \in Sent(toCar, m)
    /\ msg_rx' = m
    /\ UNCHANGED <<toCtl, counterVars, sendAt, readVal, acked_encoder_val, listenAt, ctlStop,
                   ctlMain, using_terminal, joystickVars>>

\* w, s, a, d, space and e; the brake leaves curr_encoder as it is.
TypeKey ==
    \E k \in Keys :
        /\ Types(KeyMessage[k])
        /\ keyed' = IF k = "e" THEN -1 ELSE keyed
        /\ UNCHANGED curr_encoder

DownUnclamped == curr_encoder - 1                      \* mutant: no lower end
Down == IF curr_encoder - 1 < 0 THEN 0 ELSE curr_encoder - 1

\* l and j
TypeEncoder ==
    /\ \/ curr_encoder < MaxKeyed /\ curr_encoder' = curr_encoder + 1
       \/ curr_encoder' = Down
    /\ Types(Message("encoder", curr_encoder'))
    /\ keyed' = curr_encoder'

\* Any other key, and no key for a second: the buffer is sent as it is, and
\* it was not initialised.  It lies where it lay in the call before, and in
\* between getch may have used the place.
LeftoverBraked == {msg_rx, KeyMessage["e"]}            \* mutant: e falls through to default
Leftover == {msg_rx, Message("other", 0)}

TypeOther ==
    /\ \E m \in Leftover : Types(m)
    /\ UNCHANGED <<curr_encoder, keyed>>

Terminal == TypeKey \/ TypeEncoder \/ TypeOther

-----------------------------------------------------------------------------
(***************************************************************************)
(* Main: the operator's q, then send_udp_cleanup.                          *)
(***************************************************************************)
Quit ==
    /\ ctlMain = "wait"
    /\ ctlMain' = "join"
    /\ ctlStop' = TRUE
    /\ UNCHANGED <<network, counterVars, sendAt, readVal, acked_encoder_val, listenAt, inputVars>>

\* Both threads have ended, as far as there are two; CODE_STOP is sent once.
TellReceiverEarly ==                                   \* mutant: the send thread is not joined
    /\ ctlMain = "join"
    /\ listenAt = "done"
    /\ ctlMain' = "done"
    /\ Sends("stop", 0)
    /\ UNCHANGED <<toCtl, counterVars, sendAt, readVal, acked_encoder_val, listenAt, ctlStop,
                   inputVars>>
TellReceiver ==
    /\ ctlMain = "join"
    /\ sendAt = "done" /\ listenAt = "done"
    /\ ctlMain' = "done"
    /\ Sends("stop", 0)
    /\ UNCHANGED <<toCtl, counterVars, sendAt, readVal, acked_encoder_val, listenAt, ctlStop,
                   inputVars>>

SenderSteps ==
    Turn \/ FinishTurn \/ SendSteps \/ TakeAck \/ ListenTimeout \/ Terminal \/ Quit \/ TellReceiver
==============================================================================
