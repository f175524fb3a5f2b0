------------------------------- MODULE Jitter -------------------------------
(***************************************************************************)
(* RadioAudioJitterBuffer: the sequence buffer between the UDP receiver and *)
(* the playback clock, as operators on its three attributes that decide     *)
(* anything: _expected, _started and the dictionary _packets.               *)
(***************************************************************************)
EXTENDS Integers, FiniteSets

CONSTANTS
    W,          \* sequence numbers are taken modulo W, 16 bits in the code
    MaxGap,     \* max_gap_packets
    Prebuffer,  \* prebuffer_packets
    None        \* Python's None

\* The code has W = 65536, MaxGap <= 100 and Prebuffer <= 25.
ASSUME JitterAssumption ==
    /\ W \in Nat /\ W % 2 = 0 /\ MaxGap \in Nat \ {0} /\ Prebuffer \in Nat \ {0}
    /\ 2 * MaxGap < W
    /\ None \notin 0 .. W - 1

Sequences == 0 .. W - 1

\* `packets` maps the sequence number of a buffered packet to its payload.
IsBuffer(b, Payloads) ==
    /\ b = [expected |-> b.expected, started |-> b.started, packets |-> b.packets]
    /\ b.expected \in Sequences \cup {None}
    /\ b.started \in BOOLEAN
    /\ DOMAIN b.packets \subseteq Sequences
    /\ b.packets \in [DOMAIN b.packets -> Payloads]

\* A new gate session starts empty.
Fresh == [expected |-> None, started |-> FALSE, packets |-> [q \in {} |-> None]]

ForwardDistance(q, reference) == (q - reference) % W

Duplicate(b, q) == q \in DOMAIN b.packets

\* Behind the next packet to play, once playout has started.
Late(b, q) == b.started /\ ForwardDistance(q, b.expected) >= W \div 2

\* Mutant: the gap a buffer takes is one packet short.
DiscontinuousAtGap(b, q) ==
    /\ b.expected # None
    /\ LET ahead == ForwardDistance(q, b.expected)
           behind == ForwardDistance(b.expected, q)
       IN  IF ahead < W \div 2 THEN ahead >= MaxGap
                               ELSE ~b.started /\ behind >= MaxGap

\* Further than MaxGap from the next packet to play, on either side before
\* playout has started.
Discontinuous(b, q) ==
    /\ b.expected # None
    /\ LET ahead == ForwardDistance(q, b.expected)
           behind == ForwardDistance(b.expected, q)
       IN  IF ahead < W \div 2 THEN ahead > MaxGap
                               ELSE ~b.started /\ behind > MaxGap

Accepted(b, q) == ~Duplicate(b, q) /\ ~Late(b, q) /\ ~Discontinuous(b, q)

\* Mutant: an earlier packet does not move the start of the sequence back.
PushKeepsExpected(b, q, payload) ==
    IF ~Accepted(b, q) THEN b
    ELSE [expected |-> IF b.expected = None THEN q ELSE b.expected,
          started |-> b.started,
          packets |-> [k \in DOMAIN b.packets \cup {q} |->
                         IF k = q THEN payload ELSE b.packets[k]]]

\* Before playout an earlier packet moves the start of the sequence back.
Push(b, q, payload) ==
    IF ~Accepted(b, q) THEN b
    ELSE [expected |-> IF \/ b.expected = None
                          \/ ForwardDistance(q, b.expected) >= W \div 2
                       THEN q ELSE b.expected,
          started |-> b.started,
          packets |-> [k \in DOMAIN b.packets \cup {q} |->
                         IF k = q THEN payload ELSE b.packets[k]]]

\* Mutant: playout starts with the first packet.
CanPopAtOnce(b) == b.expected # None

\* Mutant: playout waits for one packet more than the prebuffer.
CanPopAfter(b) ==
    b.expected # None /\ (b.started \/ Cardinality(DOMAIN b.packets) > Prebuffer)

\* pop() returns a frame, a payload or silence, unless nothing has been pushed
\* or the first frames are still being collected.
CanPop(b) ==
    b.expected # None /\ (b.started \/ Cardinality(DOMAIN b.packets) >= Prebuffer)

Concealed(b) == b.expected \notin DOMAIN b.packets

\* The frame leaves the buffer, and its slot is over even if it was silence.
Pop(b) ==
    [expected |-> (b.expected + 1) % W,
     started |-> TRUE,
     packets |-> [k \in DOMAIN b.packets \ {b.expected} |-> b.packets[k]]]
=============================================================================
