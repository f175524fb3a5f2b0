--------------------------- MODULE MiniaudioSink ----------------------------
(***************************************************************************)
(* MiniaudioRadioAudioSink: received radio audio on its way to the sound     *)
(* device.  Two threads meet under one lock: the protocol thread pushes      *)
(* packets and gate events, the device callback pulls PCM.  Sender and       *)
(* device both keep the 20 ms clock: in each period the sender sends one     *)
(* packet and the device pulls one frame, in two halves or at once, unless   *)
(* one of them stalls.  A sender that stalled goes on with the next sequence *)
(* number: it rebases its clock and does not catch up.                       *)
(***************************************************************************)
EXTENDS Jitter, Sequences

CONSTANTS
    Silence,        \* a half-frame of zeros
    MaxSession,     \* bound on the gate sessions
    DeviceStalls,   \* periods the device may miss, in all
    SenderStalls,   \* periods the sender may miss, in all
    Losses,         \* packets the network may lose, in all
    MaxAge          \* ages are not counted beyond this

ASSUME SinkAssumption ==
    /\ {MaxSession, DeviceStalls, SenderStalls, Losses, MaxAge} \subseteq Nat

VARIABLES
    gate,       \* _gate_open
    session,    \* the gate session, 0 before the first
    seq,        \* the sender's next sequence number
    buf,        \* jitter, its payloads being [session, age in periods]
    playout,    \* _playout: what is left of a popped frame, in halves
    out,        \* what the last device callback played, in halves
    sending,    \* the sender still owes this period's packet
    due,        \* halves the device still pulls in this period
    left        \* stalls and losses that may still happen

vars == <<gate, session, seq, buf, playout, out, sending, due, left>>

Init ==
    /\ gate = FALSE
    /\ session = 0
    /\ seq = W - 2
    /\ buf = Fresh
    /\ playout = <<>>
    /\ out = <<>>
    /\ sending = TRUE
    /\ due = 2
    /\ left = [device |-> DeviceStalls, sender |-> SenderStalls, loss |-> Losses]

-----------------------------------------------------------------------------
\* Mutant: the rest of a frame survives the gate.
OnGateKeepsPlayout(open) ==
    /\ gate' = open
    /\ IF open THEN session' = session + 1 /\ buf' = Fresh
               ELSE UNCHANGED <<session, buf>>
    /\ UNCHANGED <<seq, playout, out, sending, due, left>>

\* on_gate.  The receiver numbers its gate sessions and reports a close only of an
\* open gate; an open gate may be opened again.
OnGate(open) ==
    /\ gate' = open
    /\ playout' = <<>>
    /\ IF open THEN session' = session + 1 /\ buf' = Fresh
               ELSE UNCHANGED <<session, buf>>
    /\ UNCHANGED <<seq, out, sending, due, left>>

GateOpens == session < MaxSession /\ OnGate(TRUE)
GateCloses == gate /\ OnGate(FALSE)

\* on_packet, for a packet the network delivers at once.
OnPacket ==
    /\ sending /\ sending' = FALSE
    /\ seq' = (seq + 1) % W
    /\ buf' = IF gate THEN Push(buf, seq, [session |-> session, age |-> 0]) ELSE buf
    /\ UNCHANGED <<gate, session, playout, out, due, left>>

PacketLost ==
    /\ sending /\ sending' = FALSE
    /\ left.loss > 0 /\ left' = [left EXCEPT !.loss = @ - 1]
    /\ seq' = (seq + 1) % W
    /\ UNCHANGED <<gate, session, buf, playout, out, due>>

SenderStalled ==
    /\ sending /\ sending' = FALSE
    /\ left.sender > 0 /\ left' = [left EXCEPT !.sender = @ - 1]
    /\ UNCHANGED <<gate, session, seq, buf, playout, out, due>>

\* One request of the device for n halves: at most one frame is popped, and what is
\* missing is silence.
Pull(n) ==
    LET pops == gate /\ Len(playout) < n /\ CanPop(buf)
        half == IF Concealed(buf) THEN Silence ELSE buf.packets[buf.expected]
        ready == IF pops THEN playout \o <<half, half>> ELSE playout
        k == IF Len(ready) < n THEN Len(ready) ELSE n
    IN  /\ buf' = IF pops THEN Pop(buf) ELSE buf
        /\ out' = [i \in 1 .. n |-> IF i <= k THEN ready[i] ELSE Silence]
        /\ playout' = SubSeq(ready, k + 1, Len(ready))

\* The device callback.
Playback(n) ==
    /\ n <= due /\ due' = due - n
    /\ Pull(n)
    /\ UNCHANGED <<gate, session, seq, sending, left>>

DeviceStalled ==
    /\ due = 2 /\ due' = 0
    /\ left.device > 0 /\ left' = [left EXCEPT !.device = @ - 1]
    /\ UNCHANGED <<gate, session, seq, buf, playout, out, sending>>

Older(x) == IF x = Silence \/ x.age = MaxAge THEN x ELSE [x EXCEPT !.age = @ + 1]

\* The next 20 ms period.
Tick ==
    /\ ~sending /\ due = 0
    /\ sending' = TRUE
    /\ due' = 2
    /\ buf' = [buf EXCEPT !.packets = [q \in DOMAIN @ |-> Older(@[q])]]
    /\ playout' = [i \in DOMAIN playout |-> Older(playout[i])]
    /\ UNCHANGED <<gate, session, seq, out, left>>

Next ==
    \/ GateOpens \/ GateCloses
    \/ OnPacket \/ PacketLost \/ SenderStalled
    \/ \E n \in {1, 2} : Playback(n)
    \/ DeviceStalled
    \/ Tick

Spec == Init /\ [][Next]_vars

\* Both clocks go on.
Fairness ==
    /\ WF_vars(OnPacket \/ PacketLost \/ SenderStalled)
    /\ WF_vars((\E n \in {1, 2} : Playback(n)) \/ DeviceStalled)
    /\ WF_vars(Tick)

FairSpec == Spec /\ Fairness

-----------------------------------------------------------------------------
(* Properties *)

\* Audio never leaks from one gate session into another, and a closed gate is
\* silent: whatever the device plays was received in the session that is open now.
GateSeparates ==
    [][\A n \in {1, 2} : Playback(n) =>
         \A i \in DOMAIN out' :
             out'[i] # Silence => gate /\ out'[i].session = session]_vars

\* What is heard is current: as old as the prebuffer, plus one period for each
\* packet, frame or pull that went missing so far, and no older.
Missed == (DeviceStalls - left.device) + (SenderStalls - left.sender) + (Losses - left.loss)
PlaysCurrentAudio ==
    [][\A n \in {1, 2} : Playback(n) =>
         \A i \in DOMAIN out' :
             out'[i] # Silence => out'[i].age <= Prebuffer + Missed]_vars

\* While the gate stays open and both clocks go on the radio is heard again and again,
\* whatever was lost and stalled within the reserve: the sender missed fewer periods than
\* there are packets in the prebuffer behind the first, the device and the network together
\* no more than the gap limit leaves beside it.  Beyond the reserve there is silence
\* only if packets keep arriving out of reach, late or further ahead than the gap limit.
\* (push, 572-577, and _playback)
Audible == \E i \in DOMAIN out : out[i] # Silence
InReserve ==
    /\ SenderStalls - left.sender < Prebuffer - 1
    /\ Prebuffer + (DeviceStalls - left.device) + (Losses - left.loss) <= MaxGap
InReach == buf.expected = None \/ ForwardDistance(seq, buf.expected) <= MaxGap
Resynchronizes ==
    <>[]gate /\ ([]InReserve \/ []<><<OnPacket /\ InReach>>_vars) => []<>Audible

\* docs/LATENCY.md:28-30: "When a renderer cannot keep up, stale audio is dropped and sequence
\* state resynchronizes at current RTP".  MiniaudioBehind.cfg: not on this backend, once
\* the device is further behind than the gap limit, before the gate opens again.
CatchesUp == <>[]gate => []<>Audible
=============================================================================
