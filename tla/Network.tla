------------------------------- MODULE Network -------------------------------
(***************************************************************************)
(* The UDP datagrams between the controller (app/src/sender.c) and the car *)
(* (app/src/receiver.c): commands one way, acknowledgements the other.     *)
(* UDP promises nothing; Faults says what goes wrong in an instance.       *)
(* Without "lose", MaxInFlight is also a pace: who would send into a full  *)
(* channel waits, as the controller's 100 ms interval gives the car time   *)
(* to drain its socket.                                                    *)
(***************************************************************************)
EXTENDS Integers, SequencesExt

CONSTANTS Faults, MaxInFlight

ASSUME NetworkAssumption ==
    /\ Faults \subseteq {"lose", "duplicate", "reorder"}
    /\ MaxInFlight \in Nat \ {0}

VARIABLES toCar,  \* commands in flight
          toCtl   \* acknowledgements in flight

network == <<toCar, toCtl>>

(***************************************************************************)
(* udp_constants.h and the printf/atoi pair on each side: a command is a   *)
(* code and at most one argument the car uses (the encoder's value, or the *)
(* joystick's y in hundredths); an acknowledgement is a bare number, and   *)
(* CODE_STOP's -1 travels both ways.  "other" is a code nobody knows, or a *)
(* command without its argument.                                           *)
(***************************************************************************)
CODE_STOP == -1
Codes == {"joystick", "encoder", "encoder_push", "joystick_push", "stop", "other"}
Messages == [code : Codes, val : Int]
Message(code, val) == [code |-> code, val |-> val]

\* The channel after sendto(m).
Sent(channel, m) ==
    (IF Len(channel) < MaxInFlight THEN {Append(channel, m)} ELSE {})
    \cup (IF "lose" \in Faults THEN {channel} ELSE {})

\* What recvfrom may return of a channel: a datagram's place in it.
Deliverable(channel) ==
    IF "reorder" \in Faults THEN DOMAIN channel ELSE DOMAIN channel \cap {1}

\* The channel after the i-th datagram was delivered.
After(channel, i) ==
    {RemoveAt(channel, i)}
    \cup (IF "duplicate" \in Faults THEN {channel} ELSE {})
==============================================================================
