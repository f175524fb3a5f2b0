------------------------- MODULE MiniaudioSinkProofs -------------------------
(***************************************************************************)
(* For any sequence space, gap limit and prebuffer, and any number of gate   *)
(* sessions, stalls and losses: the device plays nothing that was received   *)
(* in another gate session.  And while the losses leave the prebuffer within *)
(* the gap limit, what it plays is as old as the prebuffer and one period    *)
(* for each thing that was missed: the sender's distance from playout, an    *)
(* unbounded integer of which the sequence numbers tell the residue modulo W *)
(* only, stays between what was missed on either side.                       *)
(***************************************************************************)
EXTENDS MiniaudioSink, SequenceTheorems, FiniteSetTheorems, TLAPS

\* A frame received in the latest gate session, and a half-frame of it or of silence.
Frames == [session : {session}, age : Nat]
Halves == Frames \cup {Silence}

\* What is buffered is of the latest gate session, and so is the rest of a frame, which
\* does not survive the gate: otherwise it would be heard at the next opening.
SessionInv ==
    /\ gate \in BOOLEAN
    /\ session \in Nat
    /\ buf = [expected |-> buf.expected, started |-> buf.started, packets |-> buf.packets]
    /\ \A q \in DOMAIN buf.packets : buf.packets[q] \in Frames
    /\ playout \in Seq(Halves)
    /\ ~gate => playout = <<>>

\* A new buffer holds nothing.
LEMMA FreshBuffer ==
    /\ Fresh = [expected |-> Fresh.expected, started |-> Fresh.started, packets |-> Fresh.packets]
    /\ DOMAIN Fresh.packets = {}
  BY DEF Fresh

\* The initial states.
LEMMA SessionInit == Init => SessionInv
<1> SUFFICES ASSUME Init PROVE SessionInv
  OBVIOUS
<1>1. gate = FALSE /\ session = 0 /\ buf = Fresh /\ playout = <<>>
  BY DEF Init
<1>2. gate \in BOOLEAN
  BY <1>1
<1>3. session \in Nat /\ playout \in Seq(Halves)
  BY <1>1
<1>4. /\ buf = [expected |-> buf.expected, started |-> buf.started, packets |-> buf.packets]
      /\ \A q \in DOMAIN buf.packets : buf.packets[q] \in Frames
  BY <1>1, FreshBuffer
<1>5. QED
  BY <1>1, <1>2, <1>3, <1>4 DEF SessionInv

\* A frame that is popped is silence or of this session, and so is all that is played.
LEMMA PullEffect ==
    ASSUME SessionInv, NEW n \in {1, 2}, Pull(n)
    PROVE  /\ buf' = [expected |-> buf'.expected, started |-> buf'.started,
                      packets |-> buf'.packets]
           /\ \A q \in DOMAIN buf'.packets : buf'.packets[q] \in Frames
           /\ playout' \in Seq(Halves)
           /\ ~gate => playout' = <<>>
           /\ \A i \in DOMAIN out' : out'[i] # Silence => gate /\ out'[i] \in Frames
<1> DEFINE pops == gate /\ Len(playout) < n /\ CanPop(buf)
           half == IF Concealed(buf) THEN Silence ELSE buf.packets[buf.expected]
           ready == IF pops THEN playout \o <<half, half>> ELSE playout
           k == IF Len(ready) < n THEN Len(ready) ELSE n
<1>1. /\ buf' = IF pops THEN Pop(buf) ELSE buf
      /\ out' = [i \in 1 .. n |-> IF i <= k THEN ready[i] ELSE Silence]
      /\ playout' = SubSeq(ready, k + 1, Len(ready))
  BY DEF Pull
<1>2. half \in Halves
  BY DEF Concealed, SessionInv, Halves
<1>3. ready \in Seq(Halves) /\ (~gate => ready = <<>>)
  <2>1. playout \in Seq(Halves) /\ <<half, half>> \in Seq(Halves)
    BY <1>2 DEF SessionInv
  <2> HIDE DEF half
  <2>2. QED
    BY <2>1 DEF SessionInv
<1>4. /\ buf' = [expected |-> buf'.expected, started |-> buf'.started, packets |-> buf'.packets]
      /\ \A q \in DOMAIN buf'.packets : buf'.packets[q] \in Frames
  <2>1. CASE pops
    <3>1. buf' = Pop(buf)
      BY <1>1, <2>1
    <3>2. QED
      BY <3>1 DEF Pop, SessionInv
  <2>2. CASE ~pops
    BY <1>1, <2>2 DEF SessionInv
  <2>3. QED
    BY <2>1, <2>2
<1> HIDE DEF ready
<1>5. k \in 0 .. Len(ready) /\ Len(ready) \in Nat /\ k <= n
  BY <1>3
<1> HIDE DEF k
<1>6. playout' \in Seq(Halves) /\ (~gate => playout' = <<>>)
  BY <1>1, <1>3, <1>5
<1>7. ASSUME NEW i \in DOMAIN out', out'[i] # Silence
      PROVE  gate /\ out'[i] \in Frames
  <2>1. i \in 1 .. n /\ i <= k /\ out'[i] = ready[i]
    BY <1>1, <1>7
  <2>2. i \in 1 .. Len(ready)
    BY <1>5, <2>1
  <2>3. ready[i] \in Halves /\ gate
    BY <1>3, <2>2
  <2>4. QED
    BY <1>7, <2>1, <2>3 DEF Halves
<1>8. QED
  BY <1>4, <1>6, <1>7

\* Growing older changes no session.
LEMMA OlderSameSession ==
    /\ \A x \in Frames : Older(x) \in Frames
    /\ \A x \in Halves : Older(x) \in Halves
  BY DEF Older, Frames, Halves

\* Each action keeps the invariant.
LEMMA SessionStep == SessionInv /\ [Next]_vars => SessionInv'
<1> SUFFICES ASSUME SessionInv, [Next]_vars PROVE SessionInv'
  OBVIOUS
<1>1. CASE GateOpens \/ GateCloses
  <2>1. /\ gate' \in BOOLEAN /\ playout' = <<>>
        /\ (session' = session + 1 /\ buf' = Fresh) \/ (session' = session /\ buf' = buf)
    BY <1>1 DEF GateOpens, GateCloses, OnGate
  <2>2. CASE session' = session + 1 /\ buf' = Fresh
    BY <2>1, <2>2, FreshBuffer DEF SessionInv
  <2>3. CASE session' = session /\ buf' = buf
    BY <2>1, <2>3 DEF SessionInv, Frames, Halves
  <2>4. QED
    BY <2>1, <2>2, <2>3
<1>2. CASE OnPacket
  <2>1. [session |-> session, age |-> 0] \in Frames
    BY DEF Frames
  <2>2. /\ buf' = [expected |-> buf'.expected, started |-> buf'.started, packets |-> buf'.packets]
        /\ \A q \in DOMAIN buf'.packets : buf'.packets[q] \in Frames
    <3>1. CASE gate /\ Accepted(buf, seq)
      BY <1>2, <2>1, <3>1 DEF OnPacket, Push, SessionInv
    <3>2. CASE ~(gate /\ Accepted(buf, seq))
      BY <1>2, <3>2 DEF OnPacket, Push, SessionInv
    <3>3. QED
      BY <3>1, <3>2
  <2>3. QED
    BY <1>2, <2>2 DEF OnPacket, SessionInv, Frames, Halves
<1>3. CASE PacketLost \/ SenderStalled \/ DeviceStalled
  BY <1>3 DEF PacketLost, SenderStalled, DeviceStalled, SessionInv, Frames, Halves
<1>4. ASSUME NEW n \in {1, 2}, Playback(n)
      PROVE  SessionInv'
  <2>1. Pull(n) /\ gate' = gate /\ session' = session
    BY <1>4 DEF Playback
  <2>2. QED
    BY <2>1, PullEffect DEF SessionInv, Frames, Halves
<1>5. CASE Tick
  <2>1. /\ gate' = gate /\ session' = session
        /\ buf' = [buf EXCEPT !.packets = [q \in DOMAIN buf.packets |-> Older(buf.packets[q])]]
        /\ playout' = [i \in DOMAIN playout |-> Older(playout[i])]
    BY <1>5 DEF Tick
  <2>2. playout' \in Seq(Halves) /\ (~gate => playout' = <<>>)
    BY <2>1, OlderSameSession DEF SessionInv
  <2>3. QED
    BY <2>1, <2>2, OlderSameSession DEF SessionInv, Frames, Halves
<1>6. CASE UNCHANGED vars
  BY <1>6 DEF vars, SessionInv, Frames, Halves
<1>7. QED
  BY <1>1, <1>2, <1>3, <1>4, <1>5, <1>6 DEF Next

\* Audio never leaks from one gate session into another, and a closed gate is silent.
\* (on_gate, on_packet and the device callback of MiniaudioRadioAudioSink)
THEOREM SessionsStaySeparate == Spec => GateSeparates
<1>1. SessionInv /\ [Next]_vars =>
        [\A n \in {1, 2} : Playback(n) =>
           \A i \in DOMAIN out' :
               out'[i] # Silence => gate /\ out'[i].session = session]_vars
  <2> SUFFICES ASSUME SessionInv, NEW n \in {1, 2}, Playback(n), NEW i \in DOMAIN out',
                      out'[i] # Silence
               PROVE  gate /\ out'[i].session = session
    OBVIOUS
  <2>1. gate /\ out'[i] \in Frames
    BY PullEffect DEF Playback
  <2>2. QED
    BY <2>1 DEF Frames
<1>2. QED
  BY <1>1, SessionInit, SessionStep, PTL DEF Spec, GateSeparates

-----------------------------------------------------------------------------
(* Arithmetic modulo W *)

\* Half of the sequence space, and the gap limit within it.
LEMMA Width == W \in Nat \ {0} /\ W \div 2 \in Nat /\ W = 2 * (W \div 2) /\ MaxGap < W \div 2
  BY JitterAssumption DEF JitterAssumption

\* A multiple of a number is zero or as far from zero as the number at least.
LEMMA Multiple ==
    ASSUME NEW k \in Int, NEW w \in Nat \ {0}
    PROVE  /\ k >= 1 => w * k >= w
           /\ k <= -1 => w * k <= -w
<1>1. CASE k >= 1
  BY <1>1
<1>2. CASE k <= -1
  BY <1>2
<1>3. QED
  BY <1>1, <1>2

\* A number, its quotient and its remainder.
LEMMA Quotient ==
    ASSUME NEW a \in Int
    PROVE  a % W \in 0 .. W - 1 /\ a \div W \in Int /\ a = W * (a \div W) + (a % W)
  BY Width

\* The remainder is the only number below W that is a multiple of W away.
LEMMA OneRemainder ==
    ASSUME NEW k \in Int, NEW r \in 0 .. W - 1
    PROVE  (W * k + r) % W = r
<1> DEFINE a == W * k + r
           d == k - (a \div W)
<1>1. W \in Nat \ {0} /\ a \in Int
  BY Width
<1>2. a % W \in 0 .. W - 1 /\ a = W * (a \div W) + (a % W) /\ a \div W \in Int
  BY <1>1, Quotient
<1>3. d \in Int /\ W * d = (a % W) - r
  BY <1>1, <1>2
<1>4. d = 0
  BY <1>1, <1>2, <1>3, Multiple
<1>5. W * d = 0
  BY <1>1, <1>4
<1>6. QED
  BY <1>2, <1>3, <1>5

\* A remainder can be taken before an addition.
LEMMA AddBelow ==
    ASSUME NEW a \in Int, NEW b \in Int
    PROVE  ((a % W) + b) % W = (a + b) % W
<1> DEFINE r == a % W
           k == a \div W
           t == (r + b) % W
           m == (r + b) \div W
<1>1. W \in Nat \ {0}
  BY Width
<1>2. r \in 0 .. W - 1 /\ k \in Int /\ a = W * k + r
  BY Quotient
<1>3. r + b \in Int
  BY <1>1, <1>2
<1>4. t \in 0 .. W - 1 /\ m \in Int /\ r + b = W * m + t
  BY <1>3, Quotient
<1> HIDE DEF r, k, t, m
<1>5. a + b = W * (k + m) + t /\ k + m \in Int
  BY <1>1, <1>2, <1>4
<1>6. (W * (k + m) + t) % W = t
  BY <1>4, <1>5, OneRemainder
<1>7. (a + b) % W = t
  BY <1>5, <1>6
<1>8. QED
  BY <1>7 DEF r, t

\* Below W nothing is taken off, and below zero at least W is added.
LEMMA Small ==
    ASSUME NEW a \in Int
    PROVE  /\ a \in 0 .. W - 1 => a % W = a
           /\ a < 0 => a % W >= a + W
<1>1. W \in Nat \ {0}
  BY Width
<1>2. a \in 0 .. W - 1 => a % W = a
  <2>1. a \in 0 .. W - 1 => (W * 0 + a) % W = a
    BY OneRemainder
  <2>2. W * 0 + a = a
    BY <1>1
  <2>3. QED
    BY <2>1, <2>2
<1>3. ASSUME a < 0 PROVE a % W >= a + W
  <2>1. a % W \in 0 .. W - 1 /\ a \div W \in Int /\ a = W * (a \div W) + (a % W)
    BY Quotient
  <2>2. a \div W <= -1
    BY <1>1, <1>3, <2>1, Multiple
  <2>3. W * (a \div W) <= -W
    BY <1>1, <2>1, <2>2, Multiple
  <2> DEFINE p == W * (a \div W)
  <2>4. p \in Int
    BY <1>1, <2>1
  <2>5. p <= -W /\ a = p + (a % W)
    BY <2>1, <2>3
  <2> HIDE DEF p
  <2>6. QED
    BY <1>1, <2>1, <2>4, <2>5
<1>4. QED
  BY <1>2, <1>3

\* How far a sequence number is ahead of another.
LEMMA Ahead ==
    ASSUME NEW e \in Sequences, NEW lag \in Int
    PROVE  /\ ForwardDistance((e + lag) % W, e) = lag % W
           /\ (((e + lag) % W) + 1) % W = (e + (lag + 1)) % W
           /\ (((e + 1) % W) + (lag - 1)) % W = (e + lag) % W
<1>1. W \in Nat \ {0} /\ e \in Int
  BY Width DEF Sequences
<1>2. /\ e + lag \in Int /\ e + 1 \in Int /\ lag - 1 \in Int /\ -e \in Int
      /\ (e + lag) - e = lag /\ (e + lag) + 1 = e + (lag + 1) /\ (e + 1) + (lag - 1) = e + lag
      /\ (e + lag) + (-e) = lag
  BY <1>1
<1>3. (((e + lag) % W) + (-e)) % W = lag % W
  BY <1>2, AddBelow
<1>4. (e + lag) % W \in Int
  BY <1>1, <1>2, Quotient
<1>5. ((e + lag) % W) + (-e) = ((e + lag) % W) - e
  BY <1>1, <1>4
<1>6. ForwardDistance((e + lag) % W, e) = lag % W
  BY <1>3, <1>5 DEF ForwardDistance
<1>7. (((e + lag) % W) + 1) % W = (e + (lag + 1)) % W
  BY <1>2, AddBelow
<1>8. (((e + 1) % W) + (lag - 1)) % W = (e + lag) % W
  BY <1>2, AddBelow
<1>9. QED
  BY <1>6, <1>7, <1>8

\* The distance is a number below W, zero for the same number only, and one less to its
\* successor.
LEMMA Distances ==
    ASSUME NEW e \in Sequences, NEW q \in Sequences
    PROVE  /\ ForwardDistance(q, e) \in 0 .. W - 1
           /\ ForwardDistance(e, e) = 0
           /\ q # e => /\ ForwardDistance(q, e) >= 1
                       /\ ForwardDistance(q, (e + 1) % W) = ForwardDistance(q, e) - 1
<1> DEFINE f == ForwardDistance(q, e)
<1>1. W \in Nat \ {0} /\ e \in 0 .. W - 1 /\ q \in 0 .. W - 1
  BY Width DEF Sequences
<1>2. f \in 0 .. W - 1 /\ f = (q - e) % W
  <2>1. q - e \in Int
    BY <1>1
  <2>2. QED
    BY <2>1, Quotient DEF ForwardDistance
<1>3. ForwardDistance(e, e) = 0
  <2>1. (e + 0) % W = e
    BY <1>1, Small
  <2>2. ForwardDistance((e + 0) % W, e) = 0 % W
    BY Ahead
  <2>3. 0 % W = 0
    BY <1>1, Small
  <2>4. QED
    BY <2>1, <2>2, <2>3
<1> HIDE DEF f
<1>4. (e + f) % W = q
  <2>1. (((q - e) % W) + e) % W = ((q - e) + e) % W
    <3>1. q - e \in Int /\ e \in Int
      BY <1>1
    <3>2. QED
      BY <3>1, AddBelow
  <2>2. (q - e) + e = q /\ f + e = e + f
    BY <1>1, <1>2
  <2>3. q % W = q
    BY <1>1, Small
  <2>4. QED
    BY <1>2, <2>1, <2>2, <2>3
<1>5. ASSUME q # e
      PROVE  f >= 1 /\ ForwardDistance(q, (e + 1) % W) = f - 1
  <2>1. e % W = e
    BY <1>1, Small
  <2>2. f # 0
    <3>1. e + 0 = e
      BY <1>1
    <3>2. QED
      BY <1>4, <1>5, <2>1, <3>1
  <2>3. f >= 1 /\ f - 1 \in 0 .. W - 1 /\ f \in Int
    BY <1>1, <1>2, <2>2
  <2>4. (e + 1) % W \in Sequences
    <3>1. e + 1 \in Int
      BY <1>1
    <3>2. QED
      BY <3>1, Quotient DEF Sequences
  <2>5. (((e + 1) % W) + (f - 1)) % W = q
    BY <1>4, <2>3, Ahead
  <2>6. ForwardDistance((((e + 1) % W) + (f - 1)) % W, (e + 1) % W) = (f - 1) % W
    BY <2>3, <2>4, Ahead
  <2>7. (f - 1) % W = f - 1
    BY <2>3, Small
  <2>8. QED
    BY <2>3, <2>5, <2>6, <2>7
<1>6. QED
  BY <1>2, <1>3, <1>5 DEF f

-----------------------------------------------------------------------------
(* How far playout is behind the sender *)

\* What has been missed so far, of each kind, and the packet still owed.
Stalled == DeviceStalls - left.device
Idled == SenderStalls - left.sender
Gone == Losses - left.loss
Owed == IF sending THEN 1 ELSE 0

\* The half of a frame that the device has left, if any.
Rest == Len(playout)

Buffered == DOMAIN buf.packets
Age(q) == buf.packets[q].age
Place(q) == ForwardDistance(q, buf.expected)

\* The types which the ages need.
TimeInv ==
    /\ gate \in BOOLEAN /\ sending \in BOOLEAN
    /\ seq \in Sequences /\ due \in 0 .. 2
    /\ left \in [device : 0 .. DeviceStalls, sender : 0 .. SenderStalls, loss : 0 .. Losses]
    /\ buf.expected \in Sequences \cup {None} /\ buf.started \in BOOLEAN
    /\ Buffered \subseteq Sequences
    /\ buf.expected = None => buf.started = FALSE /\ Buffered = {}
    /\ buf.started = FALSE => playout = <<>>
    /\ Rest <= 1

\* While the prebuffer fills, a packet is as old as its place behind it and what was missed
\* since, and the sender is at most one packet past the gap limit.
Collecting(lag) ==
    /\ buf.started = FALSE /\ Cardinality(Buffered) < Prebuffer
    /\ lag <= Cardinality(Buffered) + Gone /\ lag <= MaxGap + 1
    /\ \A q \in Buffered :
           /\ Place(q) < lag
           /\ Age(q) + Place(q) + 1 <= Cardinality(Buffered) + Idled + Gone + Owed

\* Once it is full, each half of a frame is played in time: counted in half periods, its age
\* and the halves before it less those the device still pulls in this period.
Playing(lag) ==
    /\ buf.started = TRUE \/ Cardinality(Buffered) >= Prebuffer
    /\ \A q \in Buffered :
           Rest + 2 * (Age(q) + Place(q) + 1) <= due + 2 * (Prebuffer + Missed)
    /\ Rest + 2 * (lag + Owed) <= due + 2 * (Prebuffer + Stalled + Gone)
    /\ due <= Rest + 2 * (lag + Owed + Idled)

\* `lag` is the distance of the sender from playout, which the low bits only tell in part.
LagInv(lag) ==
    /\ seq = (buf.expected + lag) % W
    /\ buf.started = FALSE => lag >= 1
    /\ Collecting(lag) \/ Playing(lag)

AgeInv ==
    /\ gate /\ buf.expected # None => \E lag \in Int : LagInv(lag)
    /\ Rest = 1 /\ playout[1] # Silence =>
           2 * playout[1].age + 1 <= due + 2 * (Prebuffer + Missed)

\* With what the network loses and the device misses, in all, the sender stays within half
\* of the sequence space.
WithinHalf == Prebuffer + Losses + DeviceStalls < W \div 2

\* While the prebuffer fills, the packet that comes next is within the gap limit.
CollectsInTime ==
    gate /\ buf.expected # None /\ ~CanPop(buf) => ForwardDistance(seq, buf.expected) <= MaxGap

\* So it is if the last packet of the prebuffer is, whatever the network loses in all.
WithinLimits == Prebuffer + Losses <= MaxGap + 1 /\ WithinHalf

\* The constants, in the form the proofs use.
LEMMA Numbers ==
    /\ W \in Nat \ {0} /\ W \div 2 \in Nat /\ W = 2 * (W \div 2) /\ MaxGap < W \div 2
    /\ MaxGap \in Nat \ {0} /\ Prebuffer \in Nat \ {0}
    /\ DeviceStalls \in Nat /\ SenderStalls \in Nat /\ Losses \in Nat /\ MaxAge \in Nat
    /\ None \notin Sequences /\ Sequences = 0 .. W - 1
  BY JitterAssumption, SinkAssumption, Width DEF Sequences

\* What was missed is counted.
LEMMA MissedCounts ==
    ASSUME TimeInv
    PROVE  /\ Stalled \in 0 .. DeviceStalls /\ Idled \in 0 .. SenderStalls /\ Gone \in 0 .. Losses
           /\ Missed = Stalled + Idled + Gone
           /\ Owed \in 0 .. 1
<1>1. /\ left.device \in 0 .. DeviceStalls /\ left.sender \in 0 .. SenderStalls
      /\ left.loss \in 0 .. Losses
  BY DEF TimeInv
<1>2. QED
  BY <1>1, Numbers DEF Stalled, Idled, Gone, Missed, Owed

\* A half-frame is left at most.
LEMMA HalfLeft ==
    ASSUME TimeInv, SessionInv
    PROVE  /\ playout \in Seq(Halves) /\ Rest \in 0 .. 1
           /\ Rest = 0 => playout = <<>>
           /\ ~gate => playout = <<>>
<1>1. playout \in Seq(Halves) /\ Rest <= 1 /\ (~gate => playout = <<>>)
  BY Zenon DEF SessionInv, TimeInv
<1>2. Rest \in Nat /\ (Rest = 0 => playout = <<>>)
  BY <1>1 DEF Rest
<1>3. Rest \in 0 .. 1
  BY <1>1, <1>2
<1>4. QED
  BY <1>1, <1>2, <1>3

\* The half that is left is of a frame or of silence.
LEMMA LeftTyped ==
    ASSUME SessionInv, TimeInv, Rest = 1
    PROVE  playout[1] \in Halves
<1>1. playout \in Seq(Halves)
  BY HalfLeft
<1>2. 1 \in 1 .. Len(playout)
  BY DEF Rest
<1>3. QED
  BY <1>1, <1>2, ElementOfSeq

\* What is buffered is counted, and aged in natural numbers.
LEMMA BufferCounts ==
    ASSUME TimeInv, SessionInv
    PROVE  /\ IsFiniteSet(Buffered) /\ Cardinality(Buffered) \in Nat
           /\ \A q \in Buffered : Age(q) \in Nat
           /\ buf.expected # None => \A q \in Buffered : Place(q) \in 0 .. W - 1
           /\ Rest \in 0 .. 1
<1>1. IsFiniteSet(Sequences)
  BY Numbers, FS_Interval
<1>2. IsFiniteSet(Buffered) /\ Cardinality(Buffered) \in Nat
  BY <1>1, FS_Subset, FS_CardinalityType DEF TimeInv
<1>3. \A q \in Buffered : Age(q) \in Nat
  BY DEF SessionInv, Frames, Buffered, Age
<1>4. buf.expected # None => \A q \in Buffered : Place(q) \in 0 .. W - 1
  BY Distances DEF TimeInv, Place
<1>5. Rest \in 0 .. 1
  BY HalfLeft
<1>6. QED
  BY <1>2, <1>3, <1>4, <1>5

\* Two sequences in a row, by their places.
LEMMA TwoParts ==
    ASSUME NEW S, NEW a \in Seq(S), NEW b \in Seq(S)
    PROVE  /\ a \o b \in Seq(S) /\ Len(a \o b) = Len(a) + Len(b)
           /\ \A i \in 1 .. Len(a) : (a \o b)[i] = a[i]
           /\ \A i \in 1 .. Len(b) : (a \o b)[Len(a) + i] = b[i]
  OBVIOUS

\* What follows the first m of a sequence.
LEMMA Following ==
    ASSUME NEW S, NEW s \in Seq(S), NEW m \in Nat, m <= Len(s)
    PROVE  /\ SubSeq(s, m + 1, Len(s)) \in Seq(S)
           /\ Len(SubSeq(s, m + 1, Len(s))) = Len(s) - m
           /\ m < Len(s) => SubSeq(s, m + 1, Len(s))[1] = s[m + 1]
<1> DEFINE n == Len(s)
<1>1. n \in Nat /\ \A i \in 1 .. n : s[i] \in S
  OBVIOUS
<1>2. m + 1 \in Int /\ n \in Int /\ \A i \in m + 1 .. n : s[i] \in S
  BY <1>1
<1>3. /\ SubSeq(s, m + 1, n) \in Seq(S)
      /\ Len(SubSeq(s, m + 1, n)) = IF m + 1 <= n THEN n - (m + 1) + 1 ELSE 0
      /\ \A i \in 1 .. n - (m + 1) + 1 : SubSeq(s, m + 1, n)[i] = s[m + 1 + i - 1]
  BY <1>2, SubSeqProperties
<1> HIDE DEF n
<1>4. m <= n
  BY DEF n
<1>5. /\ Len(SubSeq(s, m + 1, n)) = n - m
      /\ m < n => SubSeq(s, m + 1, n)[1] = s[m + 1]
  BY <1>1, <1>3, <1>4
<1>6. QED
  BY <1>3, <1>5 DEF n

\* A request pops a frame, whose halves come after the half that was left.
PullPops(n) == gate /\ Rest < n /\ CanPop(buf)
Popped == IF Concealed(buf) THEN Silence ELSE buf.packets[buf.expected]

LEMMA PopEffect ==
    ASSUME SessionInv, TimeInv, NEW n \in {1, 2}, Pull(n), PullPops(n)
    PROVE  /\ buf' = Pop(buf)
           /\ playout' \in Seq(Halves) /\ Rest' = Rest + 2 - n
           /\ Rest' = 1 => playout'[1] = Popped
           /\ \A i \in DOMAIN out' : out'[i] = Popped \/ (Rest = 1 /\ out'[i] = playout[1])
<1> DEFINE ready == playout \o <<Popped, Popped>>
           k == IF Len(ready) < n THEN Len(ready) ELSE n
<1>1. Popped \in Halves
  BY DEF Concealed, SessionInv, Halves, Popped
<1>2. playout \in Seq(Halves) /\ Rest \in 0 .. 1
  BY HalfLeft
<1>3. <<Popped, Popped>> \in Seq(Halves)
  BY <1>1
<1>4. /\ ready \in Seq(Halves) /\ Len(ready) = Rest + 2
      /\ \A i \in 1 .. Len(ready) : i > Rest => ready[i] = Popped
      /\ Rest = 1 => ready[1] = playout[1]
  <2>1. \A i \in 1 .. 2 : <<Popped, Popped>>[i] = Popped
    OBVIOUS
  <2> DEFINE frame == <<Popped, Popped>>
  <2>2. frame \in Seq(Halves) /\ Len(frame) = 2 /\ \A i \in 1 .. 2 : frame[i] = Popped
    BY <1>3, <2>1
  <2>3. ready = playout \o frame
    OBVIOUS
  <2> HIDE DEF frame, ready
  <2>4. /\ ready \in Seq(Halves) /\ Len(ready) = Len(playout) + 2
        /\ \A i \in 1 .. 2 : ready[Len(playout) + i] = frame[i]
        /\ \A i \in 1 .. Len(playout) : ready[i] = playout[i]
    <3>1. playout \in Seq(Halves) /\ frame \in Seq(Halves)
      BY <1>2, <2>2
    <3>2. /\ playout \o frame \in Seq(Halves)
          /\ Len(playout \o frame) = Len(playout) + Len(frame)
          /\ \A i \in 1 .. Len(playout) : (playout \o frame)[i] = playout[i]
          /\ \A i \in 1 .. Len(frame) : (playout \o frame)[Len(playout) + i] = frame[i]
      BY <3>1, TwoParts
    <3>3. QED
      BY <2>2, <2>3, <3>2, Zenon
  <2>5. /\ Len(ready) = Rest + 2
        /\ \A i \in 1 .. 2 : ready[Rest + i] = Popped
        /\ \A i \in 1 .. Rest : ready[i] = playout[i]
    BY <2>2, <2>4 DEF Rest
  <2>6. \A i \in 1 .. Rest + 2 : i > Rest => ready[i] = Popped
    <3> SUFFICES ASSUME NEW i \in 1 .. Rest + 2, i > Rest PROVE ready[i] = Popped
      OBVIOUS
    <3>1. i - Rest \in 1 .. 2 /\ Rest + (i - Rest) = i
      BY <1>2
    <3>2. QED
      BY <2>5, <3>1
  <2>7. Rest = 1 => ready[1] = playout[1]
    BY <2>5
  <2>8. QED
    BY <2>4, <2>5, <2>6, <2>7
<1>5. k = n
  BY <1>2, <1>4
<1>6. /\ buf' = Pop(buf)
      /\ out' = [i \in 1 .. n |-> IF i <= k THEN ready[i] ELSE Silence]
      /\ playout' = SubSeq(ready, k + 1, Len(ready))
  BY DEF Pull, PullPops, Popped, Rest
<1> HIDE DEF k, ready
<1>7. /\ playout' \in Seq(Halves) /\ Rest' = Rest + 2 - n
      /\ Rest' = 1 => playout'[1] = ready[n + 1]
  <2> DEFINE m == Len(ready)
  <2>1. ready \in Seq(Halves) /\ n \in Nat /\ n <= m /\ m = Rest + 2 /\ Rest \in 0 .. 1
    BY <1>2, <1>4
  <2> HIDE DEF m
  <2>2. /\ playout' \in Seq(Halves) /\ Len(playout') = m - n
        /\ n < m => playout'[1] = ready[n + 1]
    BY <1>5, <1>6, <2>1, Following DEF m
  <2>3. Rest' = m - n
    BY <2>2 DEF Rest
  <2>4. Rest' = Rest + 2 - n /\ (Rest' = 1 => n < m)
    BY <2>1, <2>3
  <2>5. QED
    BY <2>2, <2>4
<1>8. Rest < n
  BY DEF PullPops
<1>9. Rest' = 1 => playout'[1] = Popped
  BY <1>2, <1>4, <1>7, <1>8
<1>10. \A i \in DOMAIN out' : out'[i] = Popped \/ (Rest = 1 /\ out'[i] = playout[1])
  <2> SUFFICES ASSUME NEW i \in DOMAIN out'
               PROVE  out'[i] = Popped \/ (Rest = 1 /\ out'[i] = playout[1])
    OBVIOUS
  <2>1. i \in 1 .. n /\ out'[i] = ready[i] /\ i \in 1 .. Len(ready)
    BY <1>2, <1>4, <1>5, <1>6
  <2>2. QED
    BY <1>2, <1>4, <2>1
<1>11. QED
  BY <1>6, <1>7, <1>9, <1>10

\* A request that pops nothing plays the half that was left, or silence.
LEMMA KeepEffect ==
    ASSUME SessionInv, TimeInv, NEW n \in {1, 2}, Pull(n), ~PullPops(n)
    PROVE  /\ buf' = buf /\ playout' = <<>>
           /\ playout = <<>> \/ (Rest = 1 /\ n = 1)
           /\ \A i \in DOMAIN out' :
                  out'[i] = Silence \/ (Rest = 1 /\ out'[i] = playout[1])
<1> DEFINE k == IF Rest < n THEN Rest ELSE n
<1>1. playout \in Seq(Halves) /\ Rest \in 0 .. 1
  BY HalfLeft
<1>2. playout = <<>> \/ (Rest = 1 /\ n = 1)
  <2>1. CASE ~gate
    BY <2>1, HalfLeft
  <2>2. CASE ~(Rest < n)
    BY <1>1, <2>2
  <2>3. CASE ~CanPop(buf)
    <3>1. buf.started = FALSE
      BY <2>3 DEF CanPop, TimeInv
    <3>2. QED
      BY <3>1 DEF TimeInv
  <2>4. QED
    BY <2>1, <2>2, <2>3 DEF PullPops
<1>3. /\ buf' = buf
      /\ out' = [i \in 1 .. n |-> IF i <= k THEN playout[i] ELSE Silence]
      /\ playout' = SubSeq(playout, k + 1, Len(playout))
  BY DEF Pull, PullPops, Rest
<1>4. k = Rest
  BY <1>1, <1>2
<1> HIDE DEF k
<1>5. playout' = <<>>
  <2>1. Len(playout) \in Nat /\ k = Len(playout)
    BY <1>1, <1>4 DEF Rest
  <2>2. playout' \in Seq(Halves) /\ Len(playout') = Len(playout) - Len(playout)
    BY <1>1, <1>3, <2>1, Following
  <2>3. QED
    BY <2>1, <2>2
<1>6. \A i \in DOMAIN out' : out'[i] = Silence \/ (Rest = 1 /\ out'[i] = playout[1])
  BY <1>1, <1>3, <1>4
<1>7. QED
  BY <1>2, <1>3, <1>5, <1>6

\* The initial state: no gate, nothing buffered, nothing left.
LEMMA AgeInit == Init => TimeInv /\ AgeInv
<1> SUFFICES ASSUME Init PROVE TimeInv /\ AgeInv
  OBVIOUS
<1>1. /\ gate = FALSE /\ seq = W - 2 /\ buf = Fresh /\ playout = <<>> /\ sending = TRUE /\ due = 2
      /\ left = [device |-> DeviceStalls, sender |-> SenderStalls, loss |-> Losses]
  BY DEF Init
<1>2. seq \in Sequences
  BY <1>1, Numbers
<1>3. left \in [device : 0 .. DeviceStalls, sender : 0 .. SenderStalls, loss : 0 .. Losses]
  <2>1. DeviceStalls \in 0 .. DeviceStalls /\ SenderStalls \in 0 .. SenderStalls
        /\ Losses \in 0 .. Losses
    BY Numbers
  <2>2. QED
    BY <1>1, <2>1
<1>4. buf.expected = None /\ buf.started = FALSE /\ Buffered = {}
  BY <1>1 DEF Fresh, Buffered
<1>5. Rest = 0
  BY <1>1 DEF Rest
<1>6. TimeInv
  <2>1. due \in 0 .. 2 /\ Rest <= 1
    BY <1>1, <1>5
  <2>2. QED
    BY <1>1, <1>2, <1>3, <1>4, <2>1, Zenon DEF TimeInv
<1>7. QED
  BY <1>1, <1>5, <1>6 DEF AgeInv

\* What a packet that is taken changes, and that one which is not changes nothing.
LEMMA PushEffect ==
    ASSUME TimeInv, SessionInv, NEW x, NEW next, next = Push(buf, seq, x)
    PROVE  /\ ~Accepted(buf, seq) => next = buf
           /\ Accepted(buf, seq) =>
                  /\ next.started = buf.started
                  /\ next.expected = IF buf.expected = None
                                        \/ ForwardDistance(seq, buf.expected) >= W \div 2
                                     THEN seq ELSE buf.expected
                  /\ DOMAIN next.packets = Buffered \cup {seq}
                  /\ next.packets[seq] = x
                  /\ \A q \in Buffered \ {seq} : next.packets[q] = buf.packets[q]
  BY DEF Push, Buffered

\* What is spent is left.
LEMMA Spent ==
    ASSUME NEW a \in Nat, NEW b \in Nat, NEW c \in Nat,
           NEW rest \in [device : 0 .. a, sender : 0 .. b, loss : 0 .. c]
    PROVE  /\ rest.device > 0 => [rest EXCEPT !.device = @ - 1]
                                       \in [device : 0 .. a, sender : 0 .. b, loss : 0 .. c]
           /\ rest.sender > 0 => [rest EXCEPT !.sender = @ - 1]
                                       \in [device : 0 .. a, sender : 0 .. b, loss : 0 .. c]
           /\ rest.loss > 0 => [rest EXCEPT !.loss = @ - 1]
                                     \in [device : 0 .. a, sender : 0 .. b, loss : 0 .. c]
<1>1. rest.device \in 0 .. a /\ rest.sender \in 0 .. b /\ rest.loss \in 0 .. c
  OBVIOUS
<1>2. /\ rest.device > 0 => rest.device - 1 \in 0 .. a
      /\ rest.sender > 0 => rest.sender - 1 \in 0 .. b
      /\ rest.loss > 0 => rest.loss - 1 \in 0 .. c
  BY <1>1
<1>3. QED
  BY <1>2

\* Each action keeps the types.
LEMMA TimeStep == TimeInv /\ SessionInv /\ [Next]_vars => TimeInv'
<1> SUFFICES ASSUME TimeInv, SessionInv, [Next]_vars PROVE TimeInv'
  OBVIOUS
<1> DEFINE Clock ==
               /\ gate \in BOOLEAN /\ sending \in BOOLEAN
               /\ seq \in Sequences /\ due \in 0 .. 2
               /\ left \in [device : 0 .. DeviceStalls, sender : 0 .. SenderStalls,
                            loss : 0 .. Losses]
           Buffer ==
               /\ buf.expected \in Sequences \cup {None} /\ buf.started \in BOOLEAN
               /\ Buffered \subseteq Sequences
               /\ buf.expected = None => buf.started = FALSE /\ Buffered = {}
           Half ==
               /\ buf.started = FALSE => playout = <<>>
               /\ Rest <= 1
<1>1. Clock /\ Buffer /\ Half
  BY Zenon DEF TimeInv
<1>2. SUFFICES Clock' /\ Buffer' /\ Half'
  BY Zenon DEF TimeInv
<1>3. (seq + 1) % W \in Sequences
  <2>1. seq + 1 \in Int
    BY <1>1, Numbers
  <2>2. QED
    BY <2>1, Quotient DEF Sequences
<1>4. CASE GateOpens \/ GateCloses
  <2>1. /\ gate' \in BOOLEAN /\ playout' = <<>> /\ buf' \in {Fresh, buf}
        /\ UNCHANGED <<seq, sending, due, left>>
    BY <1>4 DEF GateOpens, GateCloses, OnGate
  <2>2. Clock'
    BY <1>1, <2>1
  <2>3. Buffer'
    <3>1. CASE buf' = Fresh
      <4>1. buf'.expected = None /\ buf'.started = FALSE /\ DOMAIN buf'.packets = {}
        BY <3>1 DEF Fresh
      <4>2. QED
        BY <4>1, Zenon DEF Buffered
    <3>2. CASE buf' = buf
      BY <1>1, <3>2, Zenon DEF Buffered
    <3>3. QED
      BY <2>1, <3>1, <3>2
  <2>4. Half'
    BY <2>1 DEF Rest
  <2>5. QED
    BY <2>2, <2>3, <2>4
<1>5. CASE OnPacket
  <2>1. /\ seq' = (seq + 1) % W /\ sending' = FALSE /\ UNCHANGED <<gate, due, left, playout>>
        /\ buf' = buf \/ buf' = Push(buf, seq, [session |-> session, age |-> 0])
    BY <1>5 DEF OnPacket
  <2>2. Clock'
    BY <1>1, <1>3, <2>1
  <2>3. buf'.started = buf.started /\ Buffer'
    <3>1. CASE buf' = buf
      BY <1>1, <3>1 DEF Buffered
    <3>2. CASE buf' = Push(buf, seq, [session |-> session, age |-> 0])
      <4>1. CASE Accepted(buf, seq)
        <5>1. /\ buf'.started = buf.started
              /\ buf'.expected = buf.expected \/ buf'.expected = seq
              /\ buf'.expected # None
              /\ DOMAIN buf'.packets = Buffered \cup {seq}
          BY <1>1, <3>2, <4>1, PushEffect, Numbers
        <5>2. QED
          BY <1>1, <5>1 DEF Buffered
      <4>2. CASE ~Accepted(buf, seq)
        <5>1. buf' = buf
          BY <3>2, <4>2, PushEffect
        <5>2. QED
          BY <1>1, <5>1 DEF Buffered
      <4>3. QED
        BY <4>1, <4>2
    <3>3. QED
      BY <2>1, <3>1, <3>2
  <2>4. Half'
    BY <1>1, <2>1, <2>3 DEF Rest
  <2>5. QED
    BY <2>2, <2>3, <2>4
<1>6. CASE PacketLost \/ SenderStalled \/ DeviceStalled
  <2>1. /\ buf' = buf /\ playout' = playout /\ gate' = gate
        /\ sending' \in {sending, FALSE} /\ due' \in {due, 0} /\ seq' \in {seq, (seq + 1) % W}
    BY <1>6 DEF PacketLost, SenderStalled, DeviceStalled
  <2>2. \/ PacketLost /\ left' = [left EXCEPT !.loss = @ - 1] /\ left.loss > 0
        \/ SenderStalled /\ left' = [left EXCEPT !.sender = @ - 1] /\ left.sender > 0
        \/ DeviceStalled /\ left' = [left EXCEPT !.device = @ - 1] /\ left.device > 0
    BY <1>6, Zenon DEF PacketLost, SenderStalled, DeviceStalled
  <2>3. left' \in [device : 0 .. DeviceStalls, sender : 0 .. SenderStalls, loss : 0 .. Losses]
    <3>1. left \in [device : 0 .. DeviceStalls, sender : 0 .. SenderStalls, loss : 0 .. Losses]
      BY <1>1
    <3>2. DeviceStalls \in Nat /\ SenderStalls \in Nat /\ Losses \in Nat
      BY Numbers
    <3>3. QED
      BY <2>2, <3>1, <3>2, Spent
  <2>4. Clock'
    <3>1. due' \in 0 .. 2
      BY <1>1, <2>1
    <3>2. QED
      BY <1>1, <1>3, <2>1, <2>3, <3>1, Zenon
  <2>5. Buffer' /\ Half'
    BY <1>1, <2>1 DEF Buffered, Rest
  <2>6. QED
    BY <2>4, <2>5
<1>7. ASSUME NEW n \in {1, 2}, Playback(n)
      PROVE  Clock' /\ Buffer' /\ Half'
  <2>1. /\ n <= due /\ due' = due - n /\ Pull(n)
        /\ UNCHANGED <<gate, session, seq, sending, left>>
    BY <1>7 DEF Playback
  <2>2. Clock'
    BY <1>1, <2>1
  <2>3. CASE PullPops(n)
    <3>1. buf' = Pop(buf) /\ Rest' = Rest + 2 - n
      BY <2>1, <2>3, PopEffect
    <3>2. buf.expected \in Sequences /\ buf.expected # None
      BY <1>1, <2>3 DEF PullPops, CanPop
    <3>3. /\ buf'.started = TRUE /\ buf'.expected = (buf.expected + 1) % W
          /\ DOMAIN buf'.packets \subseteq Buffered
      BY <3>1 DEF Pop, Buffered
    <3>4. buf'.expected \in Sequences
      <4>1. buf.expected + 1 \in Int
        BY <3>2, Numbers
      <4>2. QED
        BY <3>3, <4>1, Quotient DEF Sequences
    <3>5. Buffer'
      BY <1>1, <3>3, <3>4, Numbers DEF Buffered
    <3>6. Rest < n /\ Rest \in 0 .. 1
      BY <2>3, HalfLeft DEF PullPops
    <3>7. Half'
      BY <3>1, <3>3, <3>6
    <3>8. QED
      BY <2>2, <3>5, <3>7
  <2>4. CASE ~PullPops(n)
    <3>1. buf' = buf /\ playout' = <<>>
      BY <2>1, <2>4, KeepEffect
    <3>2. QED
      BY <1>1, <2>2, <3>1 DEF Buffered, Rest
  <2>5. QED
    BY <2>3, <2>4
<1>8. CASE Tick
  <2>1. /\ UNCHANGED <<gate, seq, left>> /\ sending' = TRUE /\ due' = 2
        /\ buf' = [buf EXCEPT !.packets = [q \in DOMAIN buf.packets |-> Older(buf.packets[q])]]
        /\ playout' = [i \in DOMAIN playout |-> Older(playout[i])]
    BY <1>8 DEF Tick
  <2>2. Clock'
    BY <1>1, <2>1
  <2>3. /\ buf'.expected = buf.expected /\ buf'.started = buf.started
        /\ DOMAIN buf'.packets = DOMAIN buf.packets
    BY <2>1 DEF SessionInv
  <2>4. Rest' = Rest /\ (playout = <<>> => playout' = <<>>)
    BY <2>1, HalfLeft DEF Rest
  <2>5. QED
    BY <1>1, <2>2, <2>3, <2>4 DEF Buffered
<1>9. CASE UNCHANGED vars
  BY <1>1, <1>9 DEF vars, Buffered, Rest
<1>10. QED
  BY <1>4, <1>5, <1>6, <1>7, <1>8, <1>9 DEF Next

\* What a clock changes that leaves the buffer as it was.
LEMMA ClockEffect ==
    ASSUME TimeInv,
           \/ PacketLost
           \/ SenderStalled
           \/ DeviceStalled
           \/ UNCHANGED <<seq, sending, due, left>>
    PROVE  \/ /\ seq' = (seq + 1) % W /\ Owed = 1 /\ Owed' = 0 /\ due' = due
              /\ Gone' = Gone + 1 /\ Idled' = Idled /\ Stalled' = Stalled
           \/ /\ seq' = seq /\ Owed = 1 /\ Owed' = 0 /\ due' = due
              /\ Gone' = Gone /\ Idled' = Idled + 1 /\ Stalled' = Stalled
           \/ /\ seq' = seq /\ Owed' = Owed /\ due = 2 /\ due' = 0
              /\ Gone' = Gone /\ Idled' = Idled /\ Stalled' = Stalled + 1
           \/ /\ seq' = seq /\ Owed' = Owed /\ due' = due
              /\ Gone' = Gone /\ Idled' = Idled /\ Stalled' = Stalled
<1>1. left \in [device : Int, sender : Int, loss : Int]
      /\ DeviceStalls \in Nat /\ SenderStalls \in Nat /\ Losses \in Nat
  <2>1. left \in [device : 0 .. DeviceStalls, sender : 0 .. SenderStalls, loss : 0 .. Losses]
    BY Zenon DEF TimeInv
  <2>2. QED
    BY <2>1, Numbers
<1>2. CASE PacketLost
  <2>1. /\ sending = TRUE /\ sending' = FALSE /\ due' = due /\ seq' = (seq + 1) % W
    BY <1>2, Zenon DEF PacketLost, TimeInv
  <2>2. left' = [left EXCEPT !.loss = left.loss - 1]
    BY <1>2 DEF PacketLost
  <2>3. Owed = 1 /\ Owed' = 0
    BY <2>1 DEF Owed
  <2>4. Gone' = Gone + 1 /\ Idled' = Idled /\ Stalled' = Stalled
    BY <1>1, <2>2 DEF Gone, Idled, Stalled
  <2>5. QED
    BY <2>1, <2>3, <2>4
<1>3. CASE SenderStalled
  <2>1. /\ sending = TRUE /\ sending' = FALSE /\ due' = due /\ seq' = seq
    BY <1>3, Zenon DEF SenderStalled, TimeInv
  <2>2. left' = [left EXCEPT !.sender = left.sender - 1]
    BY <1>3 DEF SenderStalled
  <2>3. Owed = 1 /\ Owed' = 0
    BY <2>1 DEF Owed
  <2>4. Gone' = Gone /\ Idled' = Idled + 1 /\ Stalled' = Stalled
    BY <1>1, <2>2 DEF Gone, Idled, Stalled
  <2>5. QED
    BY <2>1, <2>3, <2>4
<1>4. CASE DeviceStalled
  <2>1. /\ sending' = sending /\ due = 2 /\ due' = 0 /\ seq' = seq
    BY <1>4 DEF DeviceStalled
  <2>2. left' = [left EXCEPT !.device = left.device - 1]
    BY <1>4 DEF DeviceStalled
  <2>3. Owed' = Owed
    BY <2>1 DEF Owed
  <2>4. Gone' = Gone /\ Idled' = Idled /\ Stalled' = Stalled + 1
    BY <1>1, <2>2 DEF Gone, Idled, Stalled
  <2>5. QED
    BY <2>1, <2>3, <2>4
<1>5. CASE UNCHANGED <<seq, sending, due, left>>
  <2>1. seq' = seq /\ due' = due /\ Owed' = Owed
        /\ Gone' = Gone /\ Idled' = Idled /\ Stalled' = Stalled
    BY <1>5 DEF Owed, Gone, Idled, Stalled
  <2>2. QED
    BY <2>1
<1>6. QED
  BY <1>2, <1>3, <1>4, <1>5

\* A sender that goes on, or a clock, with the buffer as it was: the distance grows with the
\* sender, and what is owed or missed makes up for it.
LEMMA ClockKeepsLag ==
    ASSUME TimeInv, SessionInv, TimeInv', NEW lag \in Int, LagInv(lag), buf.expected # None,
           Collecting(lag) => lag <= MaxGap, UNCHANGED <<buf, playout>>,
           \/ PacketLost
           \/ SenderStalled
           \/ DeviceStalled
           \/ UNCHANGED <<seq, sending, due, left>>
    PROVE  \E next \in Int : LagInv(next)'
<1>1. /\ Stalled \in Nat /\ Idled \in Nat /\ Gone \in Nat /\ Missed = Stalled + Idled + Gone
      /\ Owed \in 0 .. 1
  BY MissedCounts, Numbers
<1>2. /\ Cardinality(Buffered) \in Nat /\ \A q \in Buffered : Age(q) \in Nat /\ Place(q) \in Nat
      /\ Rest \in 0 .. 1 /\ due \in 0 .. 2
  <2>1. due \in 0 .. 2
    BY Zenon DEF TimeInv
  <2>2. /\ Cardinality(Buffered) \in Nat /\ Rest \in 0 .. 1
        /\ \A q \in Buffered : Age(q) \in Nat /\ Place(q) \in 0 .. W - 1
    BY BufferCounts, Zenon
  <2>3. W \in Nat
    BY Numbers
  <2>4. QED
    BY <2>1, <2>2, <2>3
<1>3. /\ Buffered' = Buffered /\ Rest' = Rest
      /\ buf'.started = buf.started /\ buf'.expected = buf.expected
      /\ \A q \in Buffered : buf'.packets[q].age = Age(q)
      /\ \A q \in Buffered : ForwardDistance(q, buf'.expected) = Place(q)
  BY DEF Buffered, Rest, Age, Place
<1>4. Missed' = Stalled' + Idled' + Gone'
  <2>1. /\ left'.device \in 0 .. DeviceStalls /\ left'.sender \in 0 .. SenderStalls
        /\ left'.loss \in 0 .. Losses
    BY DEF TimeInv
  <2>2. QED
    BY <2>1, Numbers DEF Stalled, Idled, Gone, Missed
<1>5. \E next \in {lag, lag + 1} :
          /\ seq' = (buf.expected + next) % W
          /\ \/ /\ next = lag + 1 /\ Owed = 1 /\ Owed' = 0 /\ due' = due
                /\ Gone' = Gone + 1 /\ Idled' = Idled /\ Stalled' = Stalled
             \/ /\ next = lag /\ Owed = 1 /\ Owed' = 0 /\ due' = due
                /\ Gone' = Gone /\ Idled' = Idled + 1 /\ Stalled' = Stalled
             \/ /\ next = lag /\ Owed' = Owed /\ due = 2 /\ due' = 0
                /\ Gone' = Gone /\ Idled' = Idled /\ Stalled' = Stalled + 1
             \/ /\ next = lag /\ Owed' = Owed /\ due' = due
                /\ Gone' = Gone /\ Idled' = Idled /\ Stalled' = Stalled
  <2>1. seq = (buf.expected + lag) % W /\ buf.expected \in Sequences
    BY DEF LagInv, TimeInv
  <2>2. (seq + 1) % W = (buf.expected + (lag + 1)) % W
    BY <2>1, Ahead
  <2>3. QED
    BY <2>1, <2>2, ClockEffect
<1>6. PICK next \in {lag, lag + 1} :
          /\ seq' = (buf.expected + next) % W
          /\ \/ /\ next = lag + 1 /\ Owed = 1 /\ Owed' = 0 /\ due' = due
                /\ Gone' = Gone + 1 /\ Idled' = Idled /\ Stalled' = Stalled
             \/ /\ next = lag /\ Owed = 1 /\ Owed' = 0 /\ due' = due
                /\ Gone' = Gone /\ Idled' = Idled + 1 /\ Stalled' = Stalled
             \/ /\ next = lag /\ Owed' = Owed /\ due = 2 /\ due' = 0
                /\ Gone' = Gone /\ Idled' = Idled /\ Stalled' = Stalled + 1
             \/ /\ next = lag /\ Owed' = Owed /\ due' = due
                /\ Gone' = Gone /\ Idled' = Idled /\ Stalled' = Stalled
  BY <1>5
<1>7. next \in Int /\ (buf.started = FALSE => next >= 1)
  BY <1>6 DEF LagInv
<1>8. PICK owed \in Int, halves \in Int, stalled \in Int, idled \in Int, gone \in Int,
           missed \in Int :
          /\ Owed' = owed /\ due' = halves /\ Missed' = missed
          /\ Stalled' = stalled /\ Idled' = idled /\ Gone' = gone
  <2>1. Owed' \in Int /\ due' \in Int /\ Stalled' \in Int /\ Idled' \in Int /\ Gone' \in Int
    BY <1>1, <1>2, <1>6
  <2>2. PICK s \in Int, i \in Int, g \in Int : Stalled' = s /\ Idled' = i /\ Gone' = g
    BY <2>1
  <2>3. Missed' = s + i + g
    BY <1>4, <2>2
  <2>4. QED
    BY <2>1, <2>2, <2>3
<1>9. /\ 2 * (next + owed) + due + 2 * (Stalled + Gone)
           <= 2 * (lag + Owed) + halves + 2 * (stalled + gone)
      /\ halves + 2 * (lag + Owed + Idled) <= due + 2 * (next + owed + idled)
      /\ due + 2 * Missed <= halves + 2 * missed
      /\ next <= lag + gone - Gone /\ lag <= next
      /\ Idled + Gone + Owed <= idled + gone + owed
  <2>1. missed = stalled + idled + gone
    BY <1>4, <1>8
  <2>2. \/ /\ next = lag + 1 /\ Owed = 1 /\ owed = 0 /\ halves = due
           /\ gone = Gone + 1 /\ idled = Idled /\ stalled = Stalled
        \/ /\ next = lag /\ Owed = 1 /\ owed = 0 /\ halves = due
           /\ gone = Gone /\ idled = Idled + 1 /\ stalled = Stalled
        \/ /\ next = lag /\ owed = Owed /\ due = 2 /\ halves = 0
           /\ gone = Gone /\ idled = Idled /\ stalled = Stalled + 1
        \/ /\ next = lag /\ owed = Owed /\ halves = due
           /\ gone = Gone /\ idled = Idled /\ stalled = Stalled
    BY <1>6, <1>8
  <2>3. QED
    BY <1>1, <1>2, <1>7, <2>1, <2>2
<1>10. Prebuffer \in Nat /\ Missed \in Int
  BY <1>1, Numbers
<1>11. CASE Collecting(lag)
  <2>1. /\ buf.started = FALSE /\ Cardinality(Buffered) < Prebuffer
        /\ lag <= Cardinality(Buffered) + Gone
    BY <1>11 DEF Collecting
  <2>2. next <= Cardinality(Buffered) + gone /\ next <= MaxGap + 1
    <3>1. next <= Cardinality(Buffered) + gone
      BY <1>1, <1>2, <1>7, <1>9, <2>1
    <3>2. next <= lag + 1 /\ lag <= MaxGap /\ MaxGap \in Int
      BY <1>6, <1>11, Numbers
    <3>3. QED
      BY <1>7, <3>1, <3>2
  <2>3. ASSUME NEW q \in Buffered
        PROVE  /\ Place(q) < next
               /\ Age(q) + Place(q) + 1 <= Cardinality(Buffered) + idled + gone + owed
    <3>1. /\ Place(q) < lag
          /\ Age(q) + Place(q) + 1 <= Cardinality(Buffered) + Idled + Gone + Owed
      BY <1>11 DEF Collecting
    <3>2. QED
      BY <1>1, <1>2, <1>7, <1>9, <3>1
  <2>4. Collecting(next)'
    BY <1>3, <1>8, <2>1, <2>2, <2>3 DEF Collecting, Age, Place
  <2>5. QED
    BY <1>3, <1>6, <1>7, <2>4 DEF LagInv
<1>12. CASE Playing(lag)
  <2>1. /\ buf.started = TRUE \/ Cardinality(Buffered) >= Prebuffer
        /\ Rest + 2 * (lag + Owed) <= due + 2 * (Prebuffer + Stalled + Gone)
        /\ due <= Rest + 2 * (lag + Owed + Idled)
    BY <1>12 DEF Playing
  <2>2. /\ Rest + 2 * (next + owed) <= halves + 2 * (Prebuffer + stalled + gone)
        /\ halves <= Rest + 2 * (next + owed + idled)
    BY <1>1, <1>2, <1>7, <1>9, <1>10, <2>1
  <2>3. ASSUME NEW q \in Buffered
        PROVE  Rest + 2 * (Age(q) + Place(q) + 1) <= halves + 2 * (Prebuffer + missed)
    <3>1. Rest + 2 * (Age(q) + Place(q) + 1) <= due + 2 * (Prebuffer + Missed)
      BY <1>12 DEF Playing
    <3>2. QED
      BY <1>1, <1>2, <1>9, <1>10, <3>1
  <2>4. Playing(next)'
    BY <1>3, <1>8, <2>1, <2>2, <2>3 DEF Playing, Age, Place
  <2>5. QED
    BY <1>3, <1>6, <1>7, <2>4 DEF LagInv
<1>13. QED
  BY <1>11, <1>12 DEF LagInv

\* What a packet changes: the sender owes none any more, and the buffer may take it.
LEMMA PacketEffect ==
    ASSUME TimeInv, SessionInv, gate, OnPacket
    PROVE  /\ Owed = 1 /\ Owed' = 0 /\ due' = due /\ Rest' = Rest /\ playout' = playout
           /\ Stalled' = Stalled /\ Idled' = Idled /\ Gone' = Gone /\ Missed' = Missed
           /\ seq' = (seq + 1) % W /\ seq \in Sequences
           /\ ~Accepted(buf, seq) => buf' = buf
           /\ Accepted(buf, seq) =>
                  /\ buf'.started = buf.started
                  /\ buf'.expected = IF buf.expected = None
                                        \/ ForwardDistance(seq, buf.expected) >= W \div 2
                                     THEN seq ELSE buf.expected
                  /\ Buffered' = Buffered \cup {seq}
                  /\ buf'.packets[seq].age = 0
                  /\ \A q \in Buffered \ {seq} : buf'.packets[q].age = Age(q)
<1>1. /\ sending = TRUE /\ sending' = FALSE /\ due' = due /\ left' = left /\ playout' = playout
      /\ seq' = (seq + 1) % W
  BY Zenon DEF OnPacket, TimeInv
<1>2. /\ Owed = 1 /\ Owed' = 0 /\ Rest' = Rest
      /\ Stalled' = Stalled /\ Idled' = Idled /\ Gone' = Gone /\ Missed' = Missed
  BY <1>1 DEF Owed, Rest, Stalled, Idled, Gone, Missed
<1>3. seq \in Sequences
  BY Zenon DEF TimeInv
<1>4. buf' = Push(buf, seq, [session |-> session, age |-> 0])
  BY DEF OnPacket
<1>5. /\ ~Accepted(buf, seq) => buf' = buf
      /\ Accepted(buf, seq) =>
             /\ buf'.started = buf.started
             /\ buf'.expected = IF buf.expected = None
                                   \/ ForwardDistance(seq, buf.expected) >= W \div 2
                                THEN seq ELSE buf.expected
             /\ DOMAIN buf'.packets = Buffered \cup {seq}
             /\ buf'.packets[seq] = [session |-> session, age |-> 0]
             /\ \A q \in Buffered \ {seq} : buf'.packets[q] = buf.packets[q]
  BY <1>4, PushEffect
<1>6. Accepted(buf, seq) =>
          /\ Buffered' = Buffered \cup {seq}
          /\ buf'.packets[seq].age = 0
          /\ \A q \in Buffered \ {seq} : buf'.packets[q].age = Age(q)
  BY <1>5 DEF Buffered, Age
<1>7. QED
  BY <1>1, <1>2, <1>3, <1>5, <1>6

\* Adding to what is buffered counts one more.
LEMMA OneMoreBuffered ==
    ASSUME TimeInv, SessionInv, NEW q, q \notin Buffered
    PROVE  Cardinality(Buffered \cup {q}) = Cardinality(Buffered) + 1
  BY BufferCounts, FS_AddElement

\* The first packet of a gate session: the sender is one ahead of playout.
LEMMA FirstPacket ==
    ASSUME TimeInv, SessionInv, gate, OnPacket, buf.expected = None
    PROVE  LagInv(1)'
<1>1. buf.started = FALSE /\ Buffered = {}
  BY Zenon DEF TimeInv
<1>2. Accepted(buf, seq)
  BY <1>1 DEF Accepted, Duplicate, Late, Discontinuous, Buffered
<1>3. /\ buf'.started = FALSE /\ buf'.expected = seq /\ Buffered' = {seq}
      /\ buf'.packets[seq].age = 0 /\ seq' = (seq + 1) % W
      /\ Owed' = 0 /\ due' = due /\ Rest' = Rest
      /\ Stalled' = Stalled /\ Idled' = Idled /\ Gone' = Gone /\ Missed' = Missed
  BY <1>1, <1>2, PacketEffect
<1>4. /\ Rest = 0 /\ due \in 0 .. 2
      /\ Stalled \in Nat /\ Idled \in Nat /\ Gone \in Nat /\ Missed = Stalled + Idled + Gone
      /\ Prebuffer \in Nat \ {0} /\ MaxGap \in Nat
  <2>1. playout = <<>> /\ due \in 0 .. 2
    BY <1>1, Zenon DEF TimeInv
  <2>2. Rest = 0
    BY <2>1 DEF Rest
  <2>3. QED
    BY <2>1, <2>2, MissedCounts, Numbers
<1>5. ForwardDistance(seq, seq) = 0
  BY Distances DEF TimeInv
<1>6. Cardinality({seq}) = 1
  BY FS_Singleton
<1>7. CASE Prebuffer > 1
  <2>1. Collecting(1)'
    BY <1>3, <1>4, <1>5, <1>6, <1>7 DEF Collecting, Age, Place
  <2>2. QED
    BY <1>3, <2>1 DEF LagInv
<1>8. CASE Prebuffer = 1
  <2>1. Playing(1)'
    BY <1>3, <1>4, <1>5, <1>6, <1>8 DEF Playing, Age, Place
  <2>2. QED
    BY <1>3, <2>1 DEF LagInv
<1>9. QED
  BY <1>4, <1>7, <1>8

\* While the prebuffer fills, each packet is taken, and the last one fills it.
LEMMA CollectedPacket ==
    ASSUME TimeInv, SessionInv, gate, OnPacket, buf.expected # None,
           NEW lag \in Int, LagInv(lag), Collecting(lag), lag <= MaxGap
    PROVE  LagInv(lag + 1)'
<1> DEFINE count == Cardinality(Buffered)
<1>1. /\ buf.started = FALSE /\ count < Prebuffer /\ lag <= count + Gone
      /\ seq = (buf.expected + lag) % W /\ lag >= 1
      /\ \A q \in Buffered :
             Place(q) < lag /\ Age(q) + Place(q) + 1 <= count + Idled + Gone + Owed
  BY DEF LagInv, Collecting
<1>2. /\ count \in Nat /\ \A q \in Buffered : Age(q) \in Nat /\ Place(q) \in 0 .. W - 1
      /\ Stalled \in Nat /\ Idled \in Nat /\ Gone \in 0 .. Losses /\ Losses \in Nat
      /\ Missed = Stalled + Idled + Gone
      /\ Prebuffer \in Nat /\ W \in Nat /\ W \div 2 \in Nat /\ W = 2 * (W \div 2)
      /\ MaxGap \in Nat /\ MaxGap < W \div 2
  BY BufferCounts, MissedCounts, Numbers
<1>3. Rest = 0 /\ due \in 0 .. 2 /\ buf.expected \in Sequences
  <2>1. playout = <<>> /\ due \in 0 .. 2 /\ buf.expected \in Sequences
    BY <1>1, Zenon DEF TimeInv
  <2>2. QED
    BY <2>1 DEF Rest
<1>4. lag <= MaxGap /\ lag \in 0 .. W - 1
  BY <1>1, <1>2
<1>5. Place(seq) = lag
  <2>1. Place(seq) = lag % W
    BY <1>1, <1>3, Ahead DEF Place
  <2>2. lag % W = lag
    BY <1>4, Small
  <2>3. QED
    BY <2>1, <2>2
<1>6. seq \notin Buffered
  BY <1>1, <1>5
<1>7. lag < W \div 2
  BY <1>2, <1>4
<1>8. Accepted(buf, seq)
  <2>1. ~Duplicate(buf, seq)
    BY <1>6 DEF Duplicate, Buffered
  <2>2. ~Late(buf, seq)
    BY <1>1 DEF Late
  <2>3. ForwardDistance(seq, buf.expected) = lag
    BY <1>5 DEF Place
  <2>4. ~(lag > MaxGap)
    BY <1>2, <1>4
  <2>5. ~Discontinuous(buf, seq)
    BY <1>7, <2>3, <2>4 DEF Discontinuous
  <2>6. QED
    BY <2>1, <2>2, <2>5 DEF Accepted
<1>9. /\ Owed = 1 /\ Owed' = 0 /\ due' = due /\ Rest' = 0
      /\ Stalled' = Stalled /\ Idled' = Idled /\ Gone' = Gone /\ Missed' = Missed
      /\ buf'.started = FALSE /\ buf'.expected = buf.expected
      /\ Buffered' = Buffered \cup {seq}
      /\ buf'.packets[seq].age = 0
      /\ \A q \in Buffered : buf'.packets[q].age = Age(q)
      /\ seq' = (seq + 1) % W
  <2>1. ~(ForwardDistance(seq, buf.expected) >= W \div 2)
    BY <1>2, <1>4, <1>5, <1>7 DEF Place
  <2>2. QED
    BY <1>1, <1>3, <1>6, <1>8, <2>1, PacketEffect
<1>10. Cardinality(Buffered \cup {seq}) = count + 1
  BY <1>6, OneMoreBuffered
<1>11. seq' = (buf'.expected + (lag + 1)) % W
  BY <1>1, <1>3, <1>9, Ahead
<1> HIDE DEF count
<1>12. \A q \in Buffered \cup {seq} :
           /\ ForwardDistance(q, buf'.expected) < lag + 1
           /\ buf'.packets[q].age + ForwardDistance(q, buf'.expected) + 1
                <= count + 1 + Idled + Gone
  <2> SUFFICES ASSUME NEW q \in Buffered \cup {seq}
               PROVE  /\ Place(q) < lag + 1
                      /\ buf'.packets[q].age + Place(q) + 1 <= count + 1 + Idled + Gone
    BY <1>9 DEF Place
  <2>1. CASE q = seq
    BY <1>1, <1>2, <1>4, <1>5, <1>9, <2>1
  <2>2. CASE q \in Buffered
    <3>1. buf'.packets[q].age = Age(q) /\ Age(q) \in Nat /\ Place(q) \in Nat
      BY <1>2, <1>9, <2>2
    <3>2. Place(q) < lag /\ Age(q) + Place(q) + 1 <= count + Idled + Gone + 1
      BY <1>1, <1>9, <2>2
    <3>3. QED
      BY <1>2, <3>1, <3>2
  <2>3. QED
    BY <2>1, <2>2
<1>13. lag + 1 <= count + 1 + Gone /\ lag + 1 <= MaxGap + 1 /\ lag + 1 >= 1
  BY <1>1, <1>2
<1>14. CASE count + 1 < Prebuffer
  <2>1. Collecting(lag + 1)'
    <3>1. \A q \in Buffered' : Place(q)' < lag + 1
      BY <1>9, <1>12 DEF Place
    <3>2. \A q \in Buffered' :
              Age(q)' + Place(q)' + 1 <= Cardinality(Buffered)' + Idled' + Gone' + Owed'
      BY <1>2, <1>9, <1>10, <1>12 DEF Place, Age
    <3>3. QED
      BY <1>9, <1>10, <1>13, <1>14, <3>1, <3>2 DEF Collecting
  <2>2. QED
    BY <1>9, <1>11, <1>13, <2>1 DEF LagInv
<1>15. CASE count + 1 = Prebuffer
  <2>1. Playing(lag + 1)'
    <3>1. ASSUME NEW q \in Buffered \cup {seq}
          PROVE  0 + 2 * (buf'.packets[q].age + ForwardDistance(q, buf'.expected) + 1)
                   <= due + 2 * (Prebuffer + Missed)
      <4>1. /\ ForwardDistance(q, buf'.expected) \in Int
            /\ buf'.packets[q].age \in Int
        BY <1>2, <1>4, <1>5, <1>9 DEF Place
      <4>2. PICK f \in Int, a \in Int :
                ForwardDistance(q, buf'.expected) = f /\ buf'.packets[q].age = a
        BY <4>1
      <4>3. a + f + 1 <= Prebuffer + Idled + Gone
        BY <1>12, <1>15, <4>2
      <4>4. 2 * (a + f + 1) <= due + 2 * (Prebuffer + Missed)
        BY <1>2, <1>3, <4>2, <4>3
      <4>5. QED
        BY <4>2, <4>4
    <3>2. 0 + 2 * ((lag + 1) + 0) <= due + 2 * (Prebuffer + Stalled + Gone)
      BY <1>2, <1>3, <1>13, <1>15
    <3>3. due <= 0 + 2 * ((lag + 1) + 0 + Idled)
      BY <1>1, <1>2, <1>3
    <3>4. Cardinality(Buffered') >= Prebuffer
      BY <1>2, <1>9, <1>10, <1>15
    <3>5. QED
      BY <1>9, <3>1, <3>2, <3>3, <3>4 DEF Playing, Age, Place
  <2>2. QED
    BY <1>9, <1>11, <1>13, <2>1 DEF LagInv
<1>16. QED
  BY <1>1, <1>2, <1>14, <1>15

\* A sender that is behind is far ahead, modulo W: a packet of it is only taken when playout
\* ran ahead of it by more than the rest of the sequence space, in periods the sender missed.
LEMMA FarBehind ==
    ASSUME TimeInv, SessionInv, buf.expected # None, NEW lag \in Int, LagInv(lag), Playing(lag),
           Owed = 1, lag < 0, Accepted(buf, seq)
    PROVE  /\ Place(seq) \in 0 .. MaxGap
           /\ Rest + 2 * (Place(seq) + 1) <= due + 2 * (Prebuffer + Idled)
<1>1. /\ W \in Nat /\ W \div 2 \in Nat /\ W = 2 * (W \div 2)
      /\ MaxGap \in Nat /\ MaxGap < W \div 2 /\ Prebuffer \in Nat \ {0} /\ Idled \in Nat
  BY Numbers, MissedCounts
<1>2. buf.expected \in Sequences /\ seq \in Sequences /\ buf.started \in BOOLEAN /\ due \in 0 .. 2
  BY Zenon DEF TimeInv
<1>3. buf.started = TRUE /\ seq = (buf.expected + lag) % W /\ due <= Rest + 2 * (lag + 1 + Idled)
  <2>1. /\ buf.started = FALSE => lag >= 1
        /\ seq = (buf.expected + lag) % W /\ due <= Rest + 2 * (lag + Owed + Idled)
    BY DEF LagInv, Playing
  <2>2. ~(buf.started = FALSE)
    BY <2>1
  <2>3. QED
    BY <1>2, <2>1, <2>2
<1>4. Place(seq) \in 0 .. W - 1 /\ Place(seq) = lag % W
  BY <1>2, <1>3, Ahead, Distances DEF Place
<1>5. lag % W >= lag + W
  BY Small
<1>6. Place(seq) >= lag + W
  BY <1>4, <1>5
<1>7. Place(seq) < W \div 2 /\ Place(seq) <= MaxGap
  <2>1. ~(Place(seq) >= W \div 2)
    BY <1>3 DEF Accepted, Late, Place
  <2>2. Place(seq) < W \div 2
    BY <1>1, <1>4, <2>1
  <2>3. ~(Place(seq) > MaxGap)
    BY <2>2 DEF Accepted, Discontinuous, Place
  <2>4. QED
    BY <1>1, <1>4, <2>2, <2>3
<1>8. Rest \in 0 .. 1
  BY HalfLeft
<1>9. PICK f \in Int : Place(seq) = f
  BY <1>4
<1>10. Rest + 2 * (f + 1) <= due + 2 * (Prebuffer + Idled)
  BY <1>1, <1>2, <1>3, <1>6, <1>7, <1>8, <1>9
<1>11. QED
  BY <1>1, <1>4, <1>7, <1>9, <1>10

\* A packet that is taken during playout is played in time.
LEMMA TakenInTime ==
    ASSUME WithinHalf, TimeInv, SessionInv, buf.expected # None,
           NEW lag \in Int, LagInv(lag), Playing(lag), Owed = 1, Accepted(buf, seq)
    PROVE  /\ Place(seq) \in 0 .. (W \div 2) - 1
           /\ Rest + 2 * (Place(seq) + 1) <= due + 2 * (Prebuffer + Missed)
<1>1. /\ W \in Nat /\ W \div 2 \in Nat /\ W = 2 * (W \div 2)
      /\ MaxGap \in Nat /\ MaxGap < W \div 2 /\ Prebuffer \in Nat \ {0}
      /\ Stalled \in 0 .. DeviceStalls /\ Idled \in Nat /\ Gone \in 0 .. Losses
      /\ DeviceStalls \in Nat /\ Losses \in Nat
      /\ Missed = Stalled + Idled + Gone
  BY Numbers, MissedCounts
<1>2. due \in 0 .. 2 /\ Rest \in 0 .. 1
  <2>1. due \in 0 .. 2
    BY Zenon DEF TimeInv
  <2>2. QED
    BY <2>1, HalfLeft
<1>3. CASE lag < 0
  <2>1. /\ Place(seq) \in 0 .. MaxGap
        /\ Rest + 2 * (Place(seq) + 1) <= due + 2 * (Prebuffer + Idled)
    BY <1>3, FarBehind
  <2>2. QED
    BY <1>1, <1>2, <2>1
<1>4. CASE lag >= 0
  <2>1. /\ seq = (buf.expected + lag) % W
        /\ Rest + 2 * (lag + 1) <= due + 2 * (Prebuffer + Stalled + Gone)
    BY DEF LagInv, Playing
  <2>2. Prebuffer + Losses + DeviceStalls < W \div 2
    BY DEF WithinHalf
  <2>3. lag < W \div 2 /\ lag \in 0 .. W - 1
    BY <1>1, <1>2, <1>4, <2>1, <2>2
  <2>4. Place(seq) = lag
    <3>1. Place(seq) = lag % W
      BY <2>1, Ahead DEF TimeInv, Place
    <3>2. QED
      BY <2>3, <3>1, Small
  <2>5. QED
    BY <1>1, <1>2, <2>1, <2>3, <2>4
<1>5. QED
  BY <1>3, <1>4

\* During playout a packet changes neither the distance, once it is no longer owed, nor what
\* is buffered, unless it is taken.
LEMMA PlayedPacket ==
    ASSUME WithinHalf, TimeInv, SessionInv, gate, OnPacket, buf.expected # None,
           NEW lag \in Int, LagInv(lag), Playing(lag)
    PROVE  LagInv(lag + 1)'
<1>1. /\ Owed = 1 /\ Owed' = 0 /\ due' = due /\ Rest' = Rest
      /\ Stalled' = Stalled /\ Idled' = Idled /\ Gone' = Gone /\ Missed' = Missed
      /\ seq' = (seq + 1) % W
  BY PacketEffect
<1>2. /\ seq = (buf.expected + lag) % W
      /\ buf.started = FALSE => lag >= 1
      /\ buf.started = TRUE \/ Cardinality(Buffered) >= Prebuffer
      /\ \A q \in Buffered : Rest + 2 * (Age(q) + Place(q) + 1) <= due + 2 * (Prebuffer + Missed)
      /\ Rest + 2 * (lag + 1) <= due + 2 * (Prebuffer + Stalled + Gone)
      /\ due <= Rest + 2 * (lag + 1 + Idled)
  BY <1>1 DEF LagInv, Playing
<1>3. seq' = (buf.expected + (lag + 1)) % W
  BY <1>1, <1>2, Ahead DEF TimeInv
<1>4. (buf.started = FALSE => lag + 1 >= 1) /\ (lag + 1) + 0 = lag + 1
  BY <1>2
<1>5. CASE ~Accepted(buf, seq)
  <2>1. buf' = buf
    BY <1>5, PacketEffect
  <2>2. /\ buf'.started = buf.started /\ buf'.expected = buf.expected /\ Buffered' = Buffered
        /\ \A q \in Buffered : buf'.packets[q].age = Age(q)
        /\ \A q \in Buffered : ForwardDistance(q, buf'.expected) = Place(q)
    BY <2>1 DEF Buffered, Age, Place
  <2>3. Playing(lag + 1)'
    BY <1>1, <1>2, <1>4, <2>2 DEF Playing, Age, Place
  <2>4. QED
    BY <1>3, <1>4, <2>2, <2>3 DEF LagInv
<1>6. CASE Accepted(buf, seq)
  <2>1. /\ Place(seq) \in 0 .. (W \div 2) - 1
        /\ Rest + 2 * (Place(seq) + 1) <= due + 2 * (Prebuffer + Missed)
    BY <1>1, <1>6, TakenInTime
  <2>2. seq \notin Buffered
    BY <1>6 DEF Accepted, Duplicate, Buffered
  <2>3. ~(ForwardDistance(seq, buf.expected) >= W \div 2)
    BY <2>1, Numbers DEF Place
  <2>4. /\ buf'.started = buf.started /\ buf'.expected = buf.expected
        /\ Buffered' = Buffered \cup {seq}
        /\ buf'.packets[seq].age = 0
        /\ \A q \in Buffered : buf'.packets[q].age = Age(q)
    BY <1>6, <2>2, <2>3, PacketEffect
  <2>5. ASSUME NEW q \in Buffered \cup {seq}
        PROVE  Rest + 2 * (buf'.packets[q].age + ForwardDistance(q, buf'.expected) + 1)
                 <= due + 2 * (Prebuffer + Missed)
    <3>1. CASE q = seq
      <4>1. buf'.packets[q].age = 0 /\ ForwardDistance(q, buf'.expected) = Place(seq)
        BY <2>4, <3>1 DEF Place
      <4>2. 0 + Place(seq) + 1 = Place(seq) + 1
        BY <2>1, Numbers
      <4>3. QED
        BY <2>1, <4>1, <4>2
    <3>2. CASE q \in Buffered
      <4>1. buf'.packets[q].age = Age(q) /\ ForwardDistance(q, buf'.expected) = Place(q)
        BY <2>4, <3>2 DEF Place
      <4>2. QED
        BY <1>2, <3>2, <4>1
    <3>3. QED
      BY <3>1, <3>2
  <2>6. buf.started = TRUE \/ Cardinality(Buffered \cup {seq}) >= Prebuffer
    BY <1>2, <2>2, OneMoreBuffered, BufferCounts, Numbers
  <2>7. Playing(lag + 1)'
    BY <1>1, <1>2, <1>4, <2>4, <2>5, <2>6 DEF Playing, Age, Place
  <2>8. QED
    BY <1>3, <1>4, <2>4, <2>7 DEF LagInv
<1>7. QED
  BY <1>5, <1>6

\* What a clock leaves behind it may be heard no later.
LEMMA ClockSpends ==
    ASSUME TimeInv, TimeInv',
           \/ PacketLost
           \/ SenderStalled
           \/ DeviceStalled
           \/ UNCHANGED <<seq, sending, due, left>>
    PROVE  due + 2 * Missed <= due' + 2 * Missed'
<1>1. /\ Stalled \in Nat /\ Idled \in Nat /\ Gone \in Nat /\ Missed = Stalled + Idled + Gone
      /\ due \in 0 .. 2
  <2>1. due \in 0 .. 2
    BY Zenon DEF TimeInv
  <2>2. QED
    BY <2>1, MissedCounts
<1>2. Stalled' \in Int /\ Idled' \in Int /\ Gone' \in Int /\ due' \in Int
  BY <1>1, ClockEffect
<1>3. Missed' = Stalled' + Idled' + Gone'
  <2>1. /\ left'.device \in 0 .. DeviceStalls /\ left'.sender \in 0 .. SenderStalls
        /\ left'.loss \in 0 .. Losses
    BY DEF TimeInv
  <2>2. QED
    BY <2>1, Numbers DEF Stalled, Idled, Gone, Missed
<1>4. PICK stalled \in Int, idled \in Int, gone \in Int, halves \in Int :
          Stalled' = stalled /\ Idled' = idled /\ Gone' = gone /\ due' = halves
  BY <1>2
<1>5. Missed' = stalled + idled + gone
  BY <1>3, <1>4
<1>6. due + 2 * (Stalled + Idled + Gone) <= halves + 2 * (stalled + idled + gone)
  BY <1>1, <1>4, ClockEffect
<1>7. QED
  BY <1>1, <1>4, <1>5, <1>6

\* A frame that is popped is the next of a full prebuffer, and the first half of it is due.
LEMMA NextInTime ==
    ASSUME TimeInv, SessionInv, NEW n \in {1, 2}, n <= due, PullPops(n),
           NEW lag \in Int, LagInv(lag)
    PROVE  /\ Playing(lag)
           /\ Popped # Silence =>
                  /\ Popped.age \in Nat
                  /\ Rest + 2 * (Popped.age + 1) <= due + 2 * (Prebuffer + Missed)
<1>1. buf.expected # None /\ (buf.started \/ Cardinality(Buffered) >= Prebuffer)
  BY DEF PullPops, CanPop, Buffered
<1>2. Playing(lag)
  <2>1. ~Collecting(lag)
    BY <1>1, BufferCounts, Numbers DEF Collecting
  <2>2. QED
    BY <2>1 DEF LagInv
<1>3. ASSUME Popped # Silence
      PROVE  /\ Popped.age \in Nat
             /\ Rest + 2 * (Popped.age + 1) <= due + 2 * (Prebuffer + Missed)
  <2>1. buf.expected \in Buffered /\ Popped = buf.packets[buf.expected]
    BY <1>3 DEF Popped, Concealed, Buffered
  <2>2. Popped.age = Age(buf.expected) /\ Age(buf.expected) \in Nat
    BY <2>1, BufferCounts DEF Age
  <2>3. Place(buf.expected) = 0
    <3>1. buf.expected \in Sequences
      BY <1>1 DEF TimeInv
    <3>2. QED
      BY <3>1, Distances DEF Place
  <2>4. Rest + 2 * (Age(buf.expected) + Place(buf.expected) + 1) <= due + 2 * (Prebuffer + Missed)
    BY <1>2, <2>1 DEF Playing
  <2>5. Age(buf.expected) + Place(buf.expected) + 1 = Age(buf.expected) + 1
    BY <2>2, <2>3
  <2>6. QED
    BY <2>2, <2>4, <2>5
<1>4. QED
  BY <1>2, <1>3

\* The halves that the device pulls are no longer due, and nothing else goes on.
LEMMA PlaybackEffect ==
    ASSUME TimeInv, SessionInv, NEW n \in {1, 2}, Playback(n)
    PROVE  /\ n <= due /\ due' = due - n /\ due \in 0 .. 2 /\ Pull(n)
           /\ gate' = gate /\ seq' = seq /\ Owed' = Owed
           /\ Stalled' = Stalled /\ Idled' = Idled /\ Gone' = Gone /\ Missed' = Missed
<1>1. /\ n <= due /\ due' = due - n /\ Pull(n)
      /\ gate' = gate /\ seq' = seq /\ sending' = sending /\ left' = left
  BY DEF Playback
<1>2. /\ Owed' = Owed
      /\ Stalled' = Stalled /\ Idled' = Idled /\ Gone' = Gone /\ Missed' = Missed
  BY <1>1 DEF Owed, Stalled, Idled, Gone, Missed
<1>3. due \in 0 .. 2
  BY Zenon DEF TimeInv
<1>4. QED
  BY <1>1, <1>2, <1>3

\* Playout that pops a frame is one nearer to the sender.
LEMMA PoppedNearer ==
    ASSUME TimeInv, SessionInv, NEW n \in {1, 2}, Playback(n), PullPops(n),
           NEW lag \in Int, LagInv(lag)
    PROVE  LagInv(lag - 1)'
<1>1. /\ n <= due /\ due' = due - n /\ due \in 0 .. 2 /\ Pull(n) /\ seq' = seq /\ Owed' = Owed
      /\ Stalled' = Stalled /\ Idled' = Idled /\ Gone' = Gone /\ Missed' = Missed
  BY PlaybackEffect
<1>2. Playing(lag) /\ seq = (buf.expected + lag) % W
  BY <1>1, NextInTime DEF LagInv
<1>3. buf' = Pop(buf) /\ Rest' = Rest + 2 - n /\ Rest \in 0 .. 1
  BY <1>1, PopEffect, HalfLeft
<1>4. buf.expected \in Sequences
  BY DEF PullPops, CanPop, TimeInv
<1>5. /\ buf'.started = TRUE /\ buf'.expected = (buf.expected + 1) % W
      /\ Buffered' = Buffered \ {buf.expected}
      /\ \A q \in Buffered \ {buf.expected} : buf'.packets[q].age = Age(q)
  BY <1>3 DEF Pop, Buffered, Age
<1>6. seq' = (buf'.expected + (lag - 1)) % W
  BY <1>1, <1>2, <1>4, <1>5, Ahead
<1>7. /\ Stalled \in Nat /\ Idled \in Nat /\ Gone \in Nat /\ Missed = Stalled + Idled + Gone
      /\ Owed \in 0 .. 1 /\ Prebuffer \in Nat /\ n \in Int
  BY MissedCounts, Numbers
<1>8. ASSUME NEW q \in Buffered \ {buf.expected}
      PROVE  (Rest + 2 - n) + 2 * (buf'.packets[q].age + ForwardDistance(q, buf'.expected) + 1)
               <= (due - n) + 2 * (Prebuffer + Missed)
  <2>1. q \in Sequences /\ Place(q) \in 0 .. W - 1 /\ Age(q) \in Nat /\ W \in Nat
    BY <1>4, Distances, BufferCounts, Numbers DEF TimeInv, Place
  <2>2. ForwardDistance(q, buf'.expected) = Place(q) - 1
    BY <1>4, <1>5, <2>1, Distances DEF Place
  <2>3. Rest + 2 * (Age(q) + Place(q) + 1) <= due + 2 * (Prebuffer + Missed)
    BY <1>2 DEF Playing
  <2>4. (Rest + 2 - n) + 2 * (Age(q) + (Place(q) - 1) + 1) <= (due - n) + 2 * (Prebuffer + Missed)
    BY <1>1, <1>3, <1>7, <2>1, <2>3
  <2>5. buf'.packets[q].age = Age(q)
    BY <1>5
  <2>6. QED
    BY <2>2, <2>4, <2>5
<1>9. /\ (Rest + 2 - n) + 2 * ((lag - 1) + Owed) <= (due - n) + 2 * (Prebuffer + Stalled + Gone)
      /\ due - n <= (Rest + 2 - n) + 2 * ((lag - 1) + Owed + Idled)
  <2>1. /\ Rest + 2 * (lag + Owed) <= due + 2 * (Prebuffer + Stalled + Gone)
        /\ due <= Rest + 2 * (lag + Owed + Idled)
    BY <1>2 DEF Playing
  <2>2. QED
    BY <1>1, <1>3, <1>7, <2>1
<1>10. Playing(lag - 1)'
  BY <1>1, <1>3, <1>5, <1>8, <1>9 DEF Playing, Age, Place
<1>11. QED
  BY <1>5, <1>6, <1>10 DEF LagInv

\* Playout that pops none only plays the half that was left.
LEMMA KeptNoNearer ==
    ASSUME TimeInv, SessionInv, gate, NEW n \in {1, 2}, Playback(n), ~PullPops(n),
           buf.expected # None, NEW lag \in Int, LagInv(lag)
    PROVE  LagInv(lag)'
<1>1. /\ n <= due /\ due' = due - n /\ due \in 0 .. 2 /\ Pull(n) /\ seq' = seq /\ Owed' = Owed
      /\ Stalled' = Stalled /\ Idled' = Idled /\ Gone' = Gone /\ Missed' = Missed
  BY PlaybackEffect
<1>2. buf' = buf /\ playout' = <<>>
  BY <1>1, KeepEffect
<1>3. /\ buf'.started = buf.started /\ buf'.expected = buf.expected /\ Buffered' = Buffered
      /\ \A q \in Buffered : buf'.packets[q].age = Age(q)
      /\ \A q \in Buffered : ForwardDistance(q, buf'.expected) = Place(q)
      /\ Rest' = 0
  BY <1>2 DEF Buffered, Age, Place, Rest
<1>4. seq' = (buf'.expected + lag) % W /\ (buf'.started = FALSE => lag >= 1)
  BY <1>1, <1>3 DEF LagInv
<1>5. CASE Collecting(lag)
  <2>1. Collecting(lag)'
    BY <1>1, <1>3, <1>5 DEF Collecting, Age, Place
  <2>2. QED
    BY <1>4, <2>1 DEF LagInv
<1>6. CASE Playing(lag)
  <2>1. /\ buf.started = TRUE \/ Cardinality(Buffered) >= Prebuffer
        /\ \A q \in Buffered : Rest + 2 * (Age(q) + Place(q) + 1) <= due + 2 * (Prebuffer + Missed)
        /\ Rest + 2 * (lag + Owed) <= due + 2 * (Prebuffer + Stalled + Gone)
        /\ due <= Rest + 2 * (lag + Owed + Idled)
    BY <1>6 DEF Playing
  <2>2. Rest = 1 /\ n = 1
    <3>1. CanPop(buf)
      BY <2>1 DEF CanPop, Buffered
    <3>2. ~(Rest < n)
      BY <3>1 DEF PullPops
    <3>3. Rest \in 0 .. 1
      BY HalfLeft
    <3>4. QED
      BY <3>2, <3>3
  <2>3. /\ Stalled \in Nat /\ Idled \in Nat /\ Gone \in Nat /\ Missed = Stalled + Idled + Gone
        /\ Owed \in 0 .. 1 /\ Prebuffer \in Nat
    BY MissedCounts, Numbers
  <2>4. ASSUME NEW q \in Buffered
        PROVE  0 + 2 * (Age(q) + Place(q) + 1) <= (due - n) + 2 * (Prebuffer + Missed)
    <3>1. Age(q) \in Nat /\ Place(q) \in 0 .. W - 1 /\ W \in Nat
      BY BufferCounts, Numbers
    <3>2. QED
      BY <1>1, <2>1, <2>2, <2>3, <3>1
  <2>5. /\ 0 + 2 * (lag + Owed) <= (due - n) + 2 * (Prebuffer + Stalled + Gone)
        /\ due - n <= 0 + 2 * (lag + Owed + Idled)
    BY <1>1, <2>1, <2>2, <2>3
  <2>6. Playing(lag)'
    BY <1>1, <1>3, <2>1, <2>4, <2>5 DEF Playing, Age, Place
  <2>7. QED
    BY <1>4, <2>6 DEF LagInv
<1>7. QED
  BY <1>5, <1>6 DEF LagInv

\* A period makes a frame one period older at most.
LEMMA OlderByOne ==
    ASSUME NEW x \in Frames
    PROVE  Older(x).age \in Nat /\ Older(x).age <= x.age + 1
<1>1. x.age \in Nat
  BY DEF Frames
<1>2. CASE x = Silence \/ x.age = MaxAge
  BY <1>1, <1>2 DEF Older
<1>3. CASE ~(x = Silence \/ x.age = MaxAge)
  <2>1. Older(x) = [x EXCEPT !.age = x.age + 1]
    BY <1>3 DEF Older
  <2>2. Older(x).age = x.age + 1
    BY <2>1 DEF Frames
  <2>3. QED
    BY <1>1, <2>2
<1>4. QED
  BY <1>2, <1>3

\* A new period: a packet is owed, two halves are due, and all that waits is a period older.
LEMMA TickEffect ==
    ASSUME TimeInv, SessionInv, Tick
    PROVE  /\ Owed = 0 /\ Owed' = 1 /\ due = 0 /\ due' = 2 /\ gate' = gate /\ seq' = seq
           /\ Stalled' = Stalled /\ Idled' = Idled /\ Gone' = Gone /\ Missed' = Missed
           /\ Rest' = Rest
           /\ buf'.started = buf.started /\ buf'.expected = buf.expected /\ Buffered' = Buffered
           /\ \A q \in Buffered : /\ buf'.packets[q].age \in Nat
                                  /\ buf'.packets[q].age <= Age(q) + 1
           /\ Rest = 1 /\ playout'[1] # Silence =>
                  /\ playout[1] # Silence /\ playout[1].age \in Nat
                  /\ playout'[1].age \in Nat /\ playout'[1].age <= playout[1].age + 1
<1>1. /\ sending = FALSE /\ sending' = TRUE /\ due = 0 /\ due' = 2
      /\ gate' = gate /\ seq' = seq /\ left' = left
      /\ playout' = [i \in DOMAIN playout |-> Older(playout[i])]
  BY Zenon DEF Tick, TimeInv
<1>2. buf' = [buf EXCEPT !.packets = [q \in DOMAIN buf.packets |-> Older(buf.packets[q])]]
  BY DEF Tick
<1>3. /\ Owed = 0 /\ Owed' = 1
      /\ Stalled' = Stalled /\ Idled' = Idled /\ Gone' = Gone /\ Missed' = Missed
  BY <1>1 DEF Owed, Stalled, Idled, Gone, Missed
<1>4. /\ buf'.started = buf.started /\ buf'.expected = buf.expected /\ Buffered' = Buffered
      /\ \A q \in Buffered : buf'.packets[q] = Older(buf.packets[q])
  BY <1>2 DEF SessionInv, Buffered
<1>5. \A q \in Buffered : /\ buf'.packets[q].age \in Nat
                          /\ buf'.packets[q].age <= Age(q) + 1
  BY <1>4, OlderByOne DEF SessionInv, Buffered, Age
<1>6. playout \in Seq(Halves) /\ Rest \in 0 .. 1
  BY HalfLeft
<1>7. Rest' = Rest
  BY <1>1, <1>6 DEF Rest
<1>8. ASSUME Rest = 1, playout'[1] # Silence
      PROVE  /\ playout[1] # Silence /\ playout[1].age \in Nat
             /\ playout'[1].age \in Nat /\ playout'[1].age <= playout[1].age + 1
  <2>1. 1 \in DOMAIN playout /\ playout[1] \in Halves
    BY <1>6, <1>8 DEF Rest
  <2>2. playout'[1] = Older(playout[1])
    BY <1>1, <2>1
  <2>3. playout[1] # Silence
    BY <1>8, <2>2 DEF Older
  <2>4. playout[1] \in Frames
    BY <2>1, <2>3 DEF Halves
  <2>5. playout[1].age \in Nat
    BY <2>4 DEF Frames
  <2>6. QED
    BY <2>2, <2>3, <2>4, <2>5, OlderByOne
<1>9. QED
  BY <1>1, <1>3, <1>4, <1>5, <1>7, <1>8

\* A new period leaves the distance, and a period more to play.
LEMMA TickKeepsLag ==
    ASSUME TimeInv, SessionInv, Tick, buf.expected # None, NEW lag \in Int, LagInv(lag)
    PROVE  LagInv(lag)'
<1>1. /\ Owed = 0 /\ Owed' = 1 /\ due = 0 /\ due' = 2 /\ seq' = seq
      /\ Stalled' = Stalled /\ Idled' = Idled /\ Gone' = Gone /\ Missed' = Missed
      /\ Rest' = Rest
      /\ buf'.started = buf.started /\ buf'.expected = buf.expected /\ Buffered' = Buffered
      /\ \A q \in Buffered : buf'.packets[q].age \in Nat /\ buf'.packets[q].age <= Age(q) + 1
  BY TickEffect
<1>2. /\ Stalled \in Nat /\ Idled \in Nat /\ Gone \in Nat /\ Missed = Stalled + Idled + Gone
      /\ Prebuffer \in Nat /\ W \in Nat /\ Rest \in 0 .. 1 /\ Cardinality(Buffered) \in Nat
      /\ \A q \in Buffered : Age(q) \in Nat /\ Place(q) \in 0 .. W - 1
  BY MissedCounts, Numbers, BufferCounts
<1>3. seq' = (buf'.expected + lag) % W /\ (buf'.started = FALSE => lag >= 1)
  BY <1>1 DEF LagInv
<1>4. \A q \in Buffered : ForwardDistance(q, buf'.expected) = Place(q)
  BY <1>1 DEF Place
<1>5. CASE Collecting(lag)
  <2>1. ASSUME NEW q \in Buffered
        PROVE  /\ Place(q) < lag
               /\ buf'.packets[q].age + Place(q) + 1 <= Cardinality(Buffered) + Idled + Gone + 1
    <3>1. /\ Place(q) < lag
          /\ Age(q) + Place(q) + 1 <= Cardinality(Buffered) + Idled + Gone + 0
      BY <1>1, <1>5 DEF Collecting
    <3>2. PICK a \in Nat : buf'.packets[q].age = a /\ a <= Age(q) + 1
      BY <1>1
    <3>3. a + Place(q) + 1 <= Cardinality(Buffered) + Idled + Gone + 1
      BY <1>2, <3>1, <3>2
    <3>4. QED
      BY <3>1, <3>2, <3>3
  <2>2. /\ buf.started = FALSE /\ Cardinality(Buffered) < Prebuffer
        /\ lag <= Cardinality(Buffered) + Gone /\ lag <= MaxGap + 1
    BY <1>5 DEF Collecting
  <2>3. Collecting(lag)'
    BY <1>1, <1>4, <2>1, <2>2 DEF Collecting, Age, Place
  <2>4. QED
    BY <1>3, <2>3 DEF LagInv
<1>6. CASE Playing(lag)
  <2>1. ASSUME NEW q \in Buffered
        PROVE  Rest + 2 * (buf'.packets[q].age + Place(q) + 1) <= 2 + 2 * (Prebuffer + Missed)
    <3>1. Rest + 2 * (Age(q) + Place(q) + 1) <= 0 + 2 * (Prebuffer + Missed)
      BY <1>1, <1>6 DEF Playing
    <3>2. PICK a \in Nat : buf'.packets[q].age = a /\ a <= Age(q) + 1
      BY <1>1
    <3>3. Rest + 2 * (a + Place(q) + 1) <= 2 + 2 * (Prebuffer + Missed)
      BY <1>2, <3>1, <3>2
    <3>4. QED
      BY <3>2, <3>3
  <2>2. /\ buf.started = TRUE \/ Cardinality(Buffered) >= Prebuffer
        /\ Rest + 2 * (lag + 0) <= 0 + 2 * (Prebuffer + Stalled + Gone)
        /\ 0 <= Rest + 2 * (lag + 0 + Idled)
    BY <1>1, <1>6 DEF Playing
  <2>3. /\ Rest + 2 * (lag + 1) <= 2 + 2 * (Prebuffer + Stalled + Gone)
        /\ 2 <= Rest + 2 * (lag + 1 + Idled)
    BY <1>2, <2>2
  <2>4. Playing(lag)'
    BY <1>1, <1>4, <2>1, <2>2, <2>3 DEF Playing, Age, Place
  <2>5. QED
    BY <1>3, <2>4 DEF LagInv
<1>7. QED
  BY <1>5, <1>6 DEF LagInv

\* The low bits tell how far the sender is ahead of a prebuffer that fills.
LEMMA CollectedDistance ==
    ASSUME TimeInv, buf.expected # None, NEW lag \in Int, LagInv(lag), Collecting(lag)
    PROVE  ForwardDistance(seq, buf.expected) = lag /\ ~CanPop(buf)
<1>1. /\ buf.started = FALSE /\ Cardinality(Buffered) < Prebuffer
      /\ lag \in 1 .. MaxGap + 1 /\ seq = (buf.expected + lag) % W
  BY Numbers DEF Collecting, LagInv
<1>2. lag \in 0 .. W - 1
  BY <1>1, Numbers
<1>3. ForwardDistance(seq, buf.expected) = lag % W
  BY <1>1, Ahead DEF TimeInv
<1>4. Cardinality(Buffered) \in Nat
  <2>1. IsFiniteSet(Sequences)
    BY Numbers, FS_Interval
  <2>2. QED
    BY <2>1, FS_Subset, FS_CardinalityType DEF TimeInv
<1>5. ~CanPop(buf)
  BY <1>1, <1>4, Numbers DEF CanPop, Buffered
<1>6. QED
  BY <1>2, <1>3, <1>5, Small

\* Each action keeps the distance.
LEMMA LagStep ==
    ASSUME WithinHalf, CollectsInTime, TimeInv, TimeInv', SessionInv, AgeInv, [Next]_vars,
           gate', buf'.expected # None
    PROVE  \E next \in Int : LagInv(next)'
<1>1. gate /\ buf.expected # None =>
          \E lag \in Int : LagInv(lag) /\ (Collecting(lag) => lag <= MaxGap)
  BY CollectedDistance DEF AgeInv, CollectsInTime
<1>2. CASE GateOpens \/ GateCloses
  <2>1. (gate' = FALSE) \/ buf' = Fresh
    BY <1>2 DEF GateOpens, GateCloses, OnGate
  <2>2. buf' = Fresh => buf'.expected = None
    BY DEF Fresh
  <2>3. QED
    BY <2>1, <2>2
<1>3. CASE OnPacket
  <2>1. gate
    BY <1>3 DEF OnPacket
  <2>2. CASE buf.expected = None
    BY <1>3, <2>1, <2>2, FirstPacket
  <2>3. CASE buf.expected # None
    <3>1. PICK lag \in Int : LagInv(lag) /\ (Collecting(lag) => lag <= MaxGap)
      BY <1>1, <2>1, <2>3
    <3>2. LagInv(lag + 1)'
      BY <1>3, <2>1, <2>3, <3>1, CollectedPacket, PlayedPacket DEF LagInv
    <3>3. lag + 1 \in Int
      OBVIOUS
    <3>4. QED
      BY <3>2, <3>3
  <2>4. QED
    BY <2>2, <2>3
<1>4. CASE PacketLost \/ SenderStalled \/ DeviceStalled \/ UNCHANGED vars
  <2>1. /\ buf' = buf /\ playout' = playout /\ gate' = gate
        /\ \/ PacketLost
           \/ SenderStalled
           \/ DeviceStalled
           \/ UNCHANGED <<seq, sending, due, left>>
    BY <1>4 DEF PacketLost, SenderStalled, DeviceStalled, vars
  <2>2. PICK lag \in Int : LagInv(lag) /\ (Collecting(lag) => lag <= MaxGap)
    BY <1>1, <2>1
  <2>3. buf.expected # None
    BY <2>1
  <2>4. QED
    BY <2>1, <2>2, <2>3, ClockKeepsLag
<1>5. ASSUME NEW n \in {1, 2}, Playback(n)
      PROVE  \E next \in Int : LagInv(next)'
  <2>1. gate /\ Pull(n)
    BY <1>5, PlaybackEffect
  <2>2. CASE PullPops(n)
    <3>1. buf.expected # None
      BY <2>2 DEF PullPops, CanPop
    <3>2. PICK lag \in Int : LagInv(lag)
      BY <1>1, <2>1, <3>1
    <3>3. LagInv(lag - 1)'
      BY <1>5, <2>2, <3>2, PoppedNearer
    <3>4. lag - 1 \in Int
      OBVIOUS
    <3>5. QED
      BY <3>3, <3>4
  <2>3. CASE ~PullPops(n)
    <3>1. buf' = buf
      BY <2>1, <2>3, KeepEffect
    <3>2. PICK lag \in Int : LagInv(lag)
      BY <1>1, <2>1, <3>1
    <3>3. LagInv(lag)'
      BY <1>5, <2>1, <2>3, <3>1, <3>2, KeptNoNearer
    <3>4. QED
      BY <3>3
  <2>4. QED
    BY <2>2, <2>3
<1>6. CASE Tick
  <2>1. gate /\ buf.expected # None
    BY <1>6, TickEffect
  <2>2. PICK lag \in Int : LagInv(lag)
    BY <1>1, <2>1
  <2>3. LagInv(lag)'
    BY <1>6, <2>1, <2>2, TickKeepsLag
  <2>4. QED
    BY <2>3
<1>7. QED
  BY <1>2, <1>3, <1>4, <1>5, <1>6 DEF Next

\* Each action keeps the half that is left in time.
LEMMA HalfStep ==
    ASSUME TimeInv, TimeInv', SessionInv, AgeInv, [Next]_vars, Rest' = 1, playout'[1] # Silence
    PROVE  2 * playout'[1].age + 1 <= due' + 2 * (Prebuffer + Missed')
<1>1. Rest = 1 /\ playout[1] # Silence =>
          2 * playout[1].age + 1 <= due + 2 * (Prebuffer + Missed)
  BY DEF AgeInv
<1>2. /\ Missed \in Nat /\ Prebuffer \in Nat /\ due \in 0 .. 2 /\ Rest \in 0 .. 1
      /\ Rest = 1 /\ playout[1] # Silence => playout[1].age \in Nat
  <2>1. due \in 0 .. 2
    BY Zenon DEF TimeInv
  <2>2. playout \in Seq(Halves) /\ Rest \in 0 .. 1
    BY HalfLeft
  <2>3. Rest = 1 => playout[1] \in Halves
    BY LeftTyped
  <2>4. Rest = 1 /\ playout[1] # Silence => playout[1].age \in Nat
    BY <2>3 DEF Halves, Frames
  <2>5. Missed \in Nat
    BY MissedCounts
  <2>6. QED
    BY <2>1, <2>2, <2>4, <2>5, Numbers
<1>3. CASE GateOpens \/ GateCloses
  <2>1. playout' = <<>>
    BY <1>3 DEF GateOpens, GateCloses, OnGate
  <2>2. Rest' = 0
    BY <2>1 DEF Rest
  <2>3. QED
    BY <2>2
<1>4. CASE OnPacket
  <2>1. playout' = playout /\ due' = due /\ left' = left
    BY <1>4 DEF OnPacket
  <2>2. Rest' = Rest /\ Missed' = Missed
    BY <2>1 DEF Rest, Missed
  <2>3. QED
    BY <1>1, <2>1, <2>2
<1>5. CASE PacketLost \/ SenderStalled \/ DeviceStalled \/ UNCHANGED vars
  <2>1. /\ playout' = playout
        /\ \/ PacketLost
           \/ SenderStalled
           \/ DeviceStalled
           \/ UNCHANGED <<seq, sending, due, left>>
    BY <1>5 DEF PacketLost, SenderStalled, DeviceStalled, vars
  <2>2. due + 2 * Missed <= due' + 2 * Missed'
    BY <2>1, ClockSpends
  <2>3. Rest = 1 /\ playout[1] # Silence /\ playout[1].age \in Nat
    <3>1. Rest = 1
      BY <2>1 DEF Rest
    <3>2. QED
      BY <1>2, <2>1, <3>1
  <2>4. due' \in Int /\ Missed' \in Int
    <3>1. due' \in 0 .. 2
      BY Zenon DEF TimeInv
    <3>2. /\ left'.device \in 0 .. DeviceStalls /\ left'.sender \in 0 .. SenderStalls
          /\ left'.loss \in 0 .. Losses
      BY DEF TimeInv
    <3>3. PICK d \in Nat, s \in Nat, l \in Nat :
              left'.device = d /\ left'.sender = s /\ left'.loss = l
      BY <3>2, Numbers
    <3>4. Missed' = (DeviceStalls - d) + (SenderStalls - s) + (Losses - l)
      BY <3>3 DEF Missed
    <3>5. QED
      BY <3>1, <3>4, Numbers
  <2>5. PICK halves \in Int, missed \in Int : due' = halves /\ Missed' = missed
    BY <2>4
  <2>6. 2 * playout[1].age + 1 <= halves + 2 * (Prebuffer + missed)
    BY <1>1, <1>2, <2>2, <2>3, <2>5
  <2>7. QED
    BY <2>1, <2>5, <2>6
<1>6. ASSUME NEW n \in {1, 2}, Playback(n)
      PROVE  2 * playout'[1].age + 1 <= due' + 2 * (Prebuffer + Missed')
  <2>1. n <= due /\ due' = due - n /\ Pull(n) /\ Missed' = Missed /\ gate' = gate
    BY <1>6, PlaybackEffect
  <2>2. PullPops(n)
    <3>1. SUFFICES ASSUME ~PullPops(n) PROVE FALSE
      OBVIOUS
    <3>2. playout' = <<>>
      BY <2>1, <3>1, KeepEffect
    <3>3. Rest' = 0
      BY <3>2 DEF Rest
    <3>4. QED
      BY <3>3
  <2>3. playout'[1] = Popped /\ Rest' = Rest + 2 - n
    BY <2>1, <2>2, PopEffect
  <2>4. PICK lag \in Int : LagInv(lag)
    BY <2>2 DEF AgeInv, PullPops, CanPop
  <2>5. Popped.age \in Nat /\ Rest + 2 * (Popped.age + 1) <= due + 2 * (Prebuffer + Missed)
    BY <2>1, <2>2, <2>3, <2>4, NextInTime
  <2>6. Rest + 2 - n = 1
    BY <2>3
  <2>7. 2 * Popped.age + 1 <= (due - n) + 2 * (Prebuffer + Missed)
    BY <1>2, <2>5, <2>6
  <2>8. QED
    BY <2>1, <2>3, <2>7
<1>7. CASE Tick
  <2>1. /\ due = 0 /\ due' = 2 /\ Rest = 1 /\ Missed' = Missed
        /\ playout[1] # Silence /\ playout[1].age \in Nat
        /\ playout'[1].age \in Nat /\ playout'[1].age <= playout[1].age + 1
    BY <1>7, TickEffect
  <2>2. PICK a \in Nat : playout'[1].age = a
    BY <2>1
  <2>3. 2 * a + 1 <= 2 + 2 * (Prebuffer + Missed)
    BY <1>1, <1>2, <2>1, <2>2
  <2>4. QED
    BY <2>1, <2>2, <2>3
<1>8. QED
  BY <1>3, <1>4, <1>5, <1>6, <1>7 DEF Next

\* Each action keeps the ages.
LEMMA AgeStep ==
    ASSUME WithinHalf, CollectsInTime, TimeInv, TimeInv', SessionInv, AgeInv, [Next]_vars
    PROVE  AgeInv'
<1>1. gate' /\ buf'.expected # None => \E next \in Int : LagInv(next)'
  BY LagStep
<1>2. Rest' = 1 /\ playout'[1] # Silence =>
          2 * playout'[1].age + 1 <= due' + 2 * (Prebuffer + Missed')
  BY HalfStep
<1>3. QED
  BY <1>1, <1>2 DEF AgeInv

\* What is played is current.
LEMMA PlayedInTime ==
    ASSUME TimeInv, SessionInv, AgeInv, NEW n \in {1, 2}, Playback(n), NEW i \in DOMAIN out',
           out'[i] # Silence
    PROVE  out'[i].age <= Prebuffer + Missed'
<1>1. n <= due /\ due \in 0 .. 2 /\ Pull(n) /\ Missed' = Missed
  BY PlaybackEffect
<1>2. Missed \in Nat /\ Prebuffer \in Nat /\ playout \in Seq(Halves) /\ Rest \in 0 .. 1
  BY MissedCounts, Numbers, HalfLeft
<1>3. CASE Rest = 1 /\ out'[i] = playout[1]
  <2>1. playout[1] \in Halves
    BY <1>3, LeftTyped
  <2>2. playout[1].age \in Nat
    BY <1>3, <2>1 DEF Halves, Frames
  <2>3. 2 * playout[1].age + 1 <= due + 2 * (Prebuffer + Missed)
    BY <1>3 DEF AgeInv
  <2>4. playout[1].age <= Prebuffer + Missed
    BY <1>1, <1>2, <2>2, <2>3
  <2>5. QED
    BY <1>1, <1>3, <2>4
<1>4. CASE PullPops(n) /\ out'[i] = Popped
  <2>1. PICK lag \in Int : LagInv(lag)
    BY <1>4 DEF AgeInv, PullPops, CanPop
  <2>2. Popped.age \in Nat /\ Rest + 2 * (Popped.age + 1) <= due + 2 * (Prebuffer + Missed)
    BY <1>1, <1>4, <2>1, NextInTime
  <2>3. Popped.age <= Prebuffer + Missed
    BY <1>1, <1>2, <2>2
  <2>4. QED
    BY <1>1, <1>4, <2>3
<1>5. QED
  BY <1>1, <1>3, <1>4, PopEffect, KeepEffect

\* What is heard is current: as old as the prebuffer, plus one period for each packet, frame or
\* pull that went missing so far, and no older, as long as no loss or stall takes the sender
\* out of the gap limit before the prebuffer is full.
\* (on_packet and the device callback of MiniaudioRadioAudioSink)
THEOREM HeardInTime == WithinHalf /\ Spec /\ []CollectsInTime => PlaysCurrentAudio
<1> SUFFICES ASSUME WithinHalf PROVE Spec /\ []CollectsInTime => PlaysCurrentAudio
  OBVIOUS
<1>1. Init => SessionInv /\ TimeInv /\ AgeInv
  BY SessionInit, AgeInit
<1>2. SessionInv /\ TimeInv /\ AgeInv /\ CollectsInTime /\ [Next]_vars =>
        (SessionInv /\ TimeInv /\ AgeInv)'
  BY SessionStep, TimeStep, AgeStep
<1>3. SessionInv /\ TimeInv /\ AgeInv /\ [Next]_vars =>
        [\A n \in {1, 2} : Playback(n) =>
           \A i \in DOMAIN out' : out'[i] # Silence => out'[i].age <= Prebuffer + Missed]_vars
  <2> SUFFICES ASSUME SessionInv, TimeInv, AgeInv, NEW n \in {1, 2}, Playback(n),
                      NEW i \in DOMAIN out', out'[i] # Silence
               PROVE  out'[i].age <= Prebuffer + Missed
    OBVIOUS
  <2>1. Missed' = Missed
    BY PlaybackEffect
  <2>2. QED
    BY <2>1, PlayedInTime
<1>4. QED
  BY <1>1, <1>2, <1>3, PTL DEF Spec, PlaysCurrentAudio

\* What the network may lose in all fits in the gap limit beside the prebuffer.
LEMMA LimitsCollect == WithinLimits /\ TimeInv /\ SessionInv /\ AgeInv => CollectsInTime
<1> SUFFICES ASSUME WithinLimits, TimeInv, SessionInv, AgeInv,
                    gate, buf.expected # None, ~CanPop(buf)
             PROVE  ForwardDistance(seq, buf.expected) <= MaxGap
  BY DEF CollectsInTime
<1>1. PICK lag \in Int : LagInv(lag)
  BY DEF AgeInv
<1>2. Collecting(lag)
  BY <1>1 DEF LagInv, Playing, CanPop, Buffered
<1>3. /\ lag <= Cardinality(Buffered) + Gone /\ Cardinality(Buffered) < Prebuffer
      /\ Prebuffer + Losses <= MaxGap + 1
  BY <1>2 DEF Collecting, WithinLimits
<1>4. /\ Cardinality(Buffered) \in Nat /\ Gone \in 0 .. Losses
      /\ Losses \in Nat /\ MaxGap \in Nat /\ Prebuffer \in Nat
  BY BufferCounts, MissedCounts, Numbers
<1>5. lag <= MaxGap
  BY <1>3, <1>4
<1>6. QED
  BY <1>1, <1>2, <1>5, CollectedDistance

\* The same with no condition on the run, for losses that the gap limit covers in all.
THEOREM HeardIsCurrent == WithinLimits /\ Spec => PlaysCurrentAudio
<1> SUFFICES ASSUME WithinLimits PROVE Spec => PlaysCurrentAudio
  OBVIOUS
<1>1. WithinHalf
  BY DEF WithinLimits
<1>2. Init => SessionInv /\ TimeInv /\ AgeInv
  BY SessionInit, AgeInit
<1>3. SessionInv /\ TimeInv /\ AgeInv => CollectsInTime
  BY LimitsCollect
<1>4. SessionInv /\ TimeInv /\ AgeInv /\ [Next]_vars => (SessionInv /\ TimeInv /\ AgeInv)'
  BY <1>1, <1>3, SessionStep, TimeStep, AgeStep
<1>5. QED
  BY <1>1, <1>2, <1>3, <1>4, HeardInTime, PTL DEF Spec
=============================================================================
