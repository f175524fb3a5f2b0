------------------------------ MODULE Timeline ------------------------------
(***************************************************************************)
(* What a playout buffer promises, on the unbounded numbering of the        *)
(* sender's packets: from the first packet on, every 20 ms slot of the       *)
(* sender's timeline is played once and in order, as the packet that belongs *)
(* there or as silence.  RadioAudioJitterBuffer knows only the low bits of   *)
(* these numbers; JitterPlayout shows that it keeps the promise.             *)
(***************************************************************************)
EXTENDS Integers, FiniteSets

CONSTANTS
    Numbers,    \* the sender's packets, consecutive integers
    MaxGap, Prebuffer, None

VARIABLES
    next,       \* number of the next slot to play, or None
    started,    \* playout has begun
    held,       \* packets that wait for their slot
    played      \* the last packet played, or None

vars == <<next, started, held, played>>

Init ==
    /\ next = None
    /\ started = FALSE
    /\ held = {}
    /\ played = None

\* A packet is taken if its slot has not been played and is near enough.
Takes(p) ==
    /\ p \notin held
    /\ next # None => /\ p <= next + MaxGap
                      /\ p >= IF started THEN next ELSE next - MaxGap

Arrive(p) ==
    /\ Takes(p)
    /\ held' = held \cup {p}
    /\ next' = IF next = None \/ p < next THEN p ELSE next
    /\ UNCHANGED <<started, played>>

\* The next slot is played, with its packet or as silence.
Play ==
    /\ next # None
    /\ started \/ Cardinality(held) >= Prebuffer
    /\ started' = TRUE
    /\ played' = IF next \in held THEN next ELSE played
    /\ held' = held \ {next}
    /\ next' = next + 1

\* A new gate session starts over.
Restart ==
    /\ next' = None
    /\ started' = FALSE
    /\ held' = {}
    /\ played' = None

Next == Restart \/ Play \/ \E p \in Numbers : Arrive(p)

Spec == Init /\ [][Next]_vars
=============================================================================
