--------------------------- MODULE JitterPlayout ----------------------------
(***************************************************************************)
(* The jitter buffer of one sink fed by a network that loses, duplicates and *)
(* reorders the sender's packets, and drained by a playback clock that may   *)
(* run ahead of the sender or lag behind it.  The payload of a packet is its *)
(* number in the sender's stream; the buffer sees only that number modulo W. *)
(***************************************************************************)
EXTENDS Jitter

CONSTANTS
    First,      \* number of the sender's first packet
    Last,       \* the sender stops before this number
    Reorder,    \* a packet is delivered before the one sent Reorder later, or lost
    Drift       \* how far the playback clock runs from the sender, in packets

ASSUME PlayoutAssumption ==
    /\ First \in Nat /\ Last \in Nat /\ First <= Last /\ Reorder \in Nat \ {0} /\ Drift \in Nat
    /\ Reorder + Drift <= W \div 2 /\ Drift >= MaxGap
    /\ None \notin Int

VARIABLES
    sent,       \* the sender's next number
    inFlight,   \* packets the network may still deliver
    buf,        \* the jitter buffer
    next,       \* the number whose slot _expected stands for
    played      \* the last packet played in this gate session

vars == <<sent, inFlight, buf, next, played>>

Numbers == First .. Last
Held == {buf.packets[q] : q \in DOMAIN buf.packets}

Init ==
    /\ sent = First
    /\ inFlight = {}
    /\ buf = Fresh
    /\ next = None
    /\ played = None

\* The RTP sequence goes on from one audio transaction to the next.
Send ==
    /\ sent < Last
    /\ next # None => sent - next < Drift
    /\ \A p \in inFlight : sent - p < Reorder
    /\ sent' = sent + 1
    /\ inFlight' = inFlight \cup {sent}
    /\ UNCHANGED <<buf, next, played>>

Lose(p) ==
    /\ p \in inFlight
    /\ inFlight' = inFlight \ {p}
    /\ UNCHANGED <<sent, buf, next, played>>

\* A packet is pushed, and may be delivered once more.
Deliver(p) ==
    /\ p \in inFlight
    /\ buf' = Push(buf, p % W, p)
    /\ next' = IF buf'.expected = buf.expected THEN next ELSE p
    /\ \E rest \in {inFlight, inFlight \ {p}} : inFlight' = rest
    /\ UNCHANGED <<sent, played>>

\* The playback clock takes a frame.
Playout ==
    /\ CanPop(buf)
    /\ next - sent < Drift
    /\ buf' = Pop(buf)
    /\ next' = next + 1
    /\ played' = IF Concealed(buf) THEN played ELSE buf.packets[buf.expected]
    /\ UNCHANGED <<sent, inFlight>>

\* start_session, for a gate that opens.
StartSession ==
    /\ buf' = Fresh
    /\ next' = None
    /\ played' = None
    /\ UNCHANGED <<sent, inFlight>>

Next ==
    \/ Send
    \/ \E p \in inFlight : Lose(p) \/ Deliver(p)
    \/ Playout
    \/ StartSession

Spec == Init /\ [][Next]_vars

-----------------------------------------------------------------------------
(* Properties *)

TypeOK ==
    /\ sent \in Numbers
    /\ inFlight \subseteq Numbers
    /\ IsBuffer(buf, Numbers)
    /\ next \in Int \cup {None}
    /\ played \in Numbers \cup {None}

Promise == INSTANCE Timeline WITH held <- Held, started <- buf.started

\* The buffer's own state is a picture of the sender's timeline modulo W: what it
\* holds lies where its sequence number says, none of it behind the next slot, and
\* sixteen bits are enough: it takes and refuses exactly the packets that comparing the
\* sender's own numbers would.
OnTimeline ==
    /\ TypeOK
    /\ next = None <=> buf.expected = None
    /\ next # None => buf.expected = next % W
    /\ buf.expected = None => ~buf.started /\ buf.packets = Fresh.packets
    /\ \A q \in DOMAIN buf.packets :
         buf.packets[q] = next + ForwardDistance(q, buf.expected)
    /\ \A p \in inFlight : Accepted(buf, p % W) <=> Promise!Takes(p)

\* The buffer keeps the promise of Timeline on the sender's own numbers.
KeepsTimeline == Promise!Spec
=============================================================================
