------------------------- MODULE JitterPlayoutProofs -------------------------
(***************************************************************************)
(* For any sequence space, gap limit, prebuffer, reordering, drift and       *)
(* length of the stream: the jitter buffer, which sees sequence numbers, is  *)
(* a picture of the sender's unbounded timeline and keeps its promise.       *)
(***************************************************************************)
EXTENDS JitterPlayout, FiniteSetTheorems, FunctionTheorems, TLAPS

-----------------------------------------------------------------------------
(* Arithmetic modulo W *)

\* Half of the sequence space, and the gap limit within it.
LEMMA Width == W \in Nat \ {0} /\ W \div 2 \in Nat /\ W = 2 * (W \div 2) /\ MaxGap < W \div 2
  BY JitterAssumption DEF JitterAssumption

\* A product with a number other than zero is at least as large as the other factor.
LEMMA Multiple ==
    ASSUME NEW k \in Int, NEW w \in Nat \ {0}
    PROVE  /\ k >= 1 => w * k >= w
           /\ k <= -1 => w * k <= -w
<1>1. CASE k >= 1
  BY <1>1
<1>2. CASE k <= -1
  BY <1>2
<1>3. QED
  BY <1>1, <1>2

\* What % and \div give.
LEMMA Division ==
    ASSUME NEW a \in Int, NEW w \in Nat \ {0}
    PROVE  a % w \in 0 .. w - 1 /\ a \div w \in Int /\ a = w * (a \div w) + (a % w)
  OBVIOUS

\* There is one remainder.
LEMMA Remainder ==
    ASSUME NEW k \in Int, NEW w \in Nat \ {0}, NEW r \in 0 .. w - 1
    PROVE  (w * k + r) % w = r
<1> DEFINE a == w * k + r
           d == k - (a \div w)
<1>1. a \in Int /\ d \in Int
  OBVIOUS
<1>2. a % w \in 0 .. w - 1 /\ a = w * (a \div w) + (a % w) /\ a \div w \in Int
  BY <1>1, Division
<1>3. w * d = (a % w) - r
  BY <1>2
<1>4. d = 0
  BY <1>1, <1>2, <1>3, Multiple
<1>5. QED
  BY <1>2, <1>3, <1>4

\* Numbers of the stream that are less than W apart have their distance modulo W.
LEMMA Distance ==
    ASSUME NEW a \in Int, NEW b \in Int
    PROVE  /\ 0 <= a - b /\ a - b < W => ForwardDistance(a % W, b % W) = a - b
           /\ -W <= a - b /\ a - b < 0 => ForwardDistance(a % W, b % W) = a - b + W
<1> DEFINE m == b \div W - a \div W
<1>1. W \in Nat \ {0}
  BY Width
<1>2. /\ a % W \in Int /\ a \div W \in Int /\ a = W * (a \div W) + (a % W)
      /\ b % W \in Int /\ b \div W \in Int /\ b = W * (b \div W) + (b % W)
  BY <1>1, Division
<1>3. m \in Int /\ (a % W) - (b % W) = W * m + (a - b)
  BY <1>1, <1>2
<1>4. CASE 0 <= a - b /\ a - b < W
  <2>1. (W * m + (a - b)) % W = a - b
    BY <1>1, <1>3, <1>4, Remainder
  <2>2. QED
    BY <1>3, <1>4, <2>1 DEF ForwardDistance
<1>5. CASE -W <= a - b /\ a - b < 0
  <2>1. W * m + (a - b) = W * (m - 1) + (a - b + W) /\ m - 1 \in Int
    BY <1>1, <1>3
  <2>2. (W * (m - 1) + (a - b + W)) % W = a - b + W
    <3>1. a - b + W \in 0 .. W - 1
      BY <1>1, <1>5
    <3>2. QED
      BY <1>1, <2>1, <3>1, Remainder
  <2>3. QED
    BY <1>1, <1>3, <1>5, <2>1, <2>2 DEF ForwardDistance
<1>6. QED
  BY <1>1, <1>4, <1>5

\* Numbers less than W apart with the same low bits are the same.
LEMMA SameSlot ==
    ASSUME NEW a \in Int, NEW b \in Int, a % W = b % W, a - b < W, b - a < W
    PROVE  a = b
<1>1. W \in Nat \ {0}
  BY Width
<1>2. ForwardDistance(a % W, b % W) = 0
  <2>1. (W * 0 + 0) % W = 0
    BY <1>1, Remainder
  <2>2. a % W \in Int /\ W * 0 + 0 = 0
    BY <1>1, Division
  <2>3. QED
    BY <2>1, <2>2 DEF ForwardDistance
<1>3. CASE 0 <= a - b
  <2>1. ForwardDistance(a % W, b % W) = a - b
    BY <1>3, Distance
  <2>2. QED
    BY <1>2, <2>1
<1>4. CASE a - b < 0
  <2>1. -W <= a - b
    BY <1>1
  <2>2. ForwardDistance(a % W, b % W) = a - b + W
    BY <1>4, <2>1, Distance
  <2>3. QED
    BY <1>1, <1>2, <2>2
<1>5. QED
  BY <1>3, <1>4

\* The slot after the next one.
LEMMA Successor == ASSUME NEW a \in Int PROVE ((a % W) + 1) % W = (a + 1) % W
<1>1. W \in Nat \ {0}
  BY Width
<1>2. a % W \in 0 .. W - 1 /\ a \div W \in Int /\ a = W * (a \div W) + (a % W)
  BY <1>1, Division
<1>3. CASE (a % W) + 1 < W
  <2>1. (W * (a \div W) + ((a % W) + 1)) % W = (a % W) + 1
    BY <1>1, <1>2, <1>3, Remainder
  <2>2. (W * 0 + ((a % W) + 1)) % W = (a % W) + 1
    BY <1>1, <1>2, <1>3, Remainder
  <2>3. a + 1 = W * (a \div W) + ((a % W) + 1) /\ W * 0 + ((a % W) + 1) = (a % W) + 1
    BY <1>1, <1>2
  <2>4. QED
    BY <2>1, <2>2, <2>3
<1>4. CASE (a % W) + 1 = W
  <2>1. (W * (a \div W + 1) + 0) % W = 0
    BY <1>1, <1>2, Remainder
  <2>2. (W * 1 + 0) % W = 0
    BY <1>1, Remainder
  <2>3. a + 1 = W * (a \div W + 1) + 0 /\ W * 1 + 0 = (a % W) + 1
    BY <1>1, <1>2, <1>4
  <2>4. QED
    BY <2>1, <2>2, <2>3
<1>5. QED
  BY <1>1, <1>2, <1>3, <1>4

-----------------------------------------------------------------------------
(* The inductive invariant *)

\* Packets under way are young, and the playback clock is not far from the sender.
StreamInv ==
    /\ sent \in Numbers
    /\ \A p \in inFlight : p \in Numbers /\ p < sent /\ sent - p <= Reorder
    /\ next = None => buf = Fresh
    /\ next # None =>
          /\ next \in Int /\ buf.expected = next % W
          /\ next - sent <= Drift
          /\ sent - next <= Drift \/ sent - next <= Reorder

\* A buffered packet is under its own low bits, and its slot is still to come.
BufferInv ==
    /\ buf = [expected |-> buf.expected, started |-> buf.started, packets |-> buf.packets]
    /\ buf.packets = [q \in DOMAIN buf.packets |-> buf.packets[q]]
    /\ \A q \in DOMAIN buf.packets :
          /\ buf.packets[q] \in Numbers /\ buf.packets[q] % W = q
          /\ buf.packets[q] < sent
          /\ next # None => next <= buf.packets[q]

StartedInv == buf.started \in BOOLEAN /\ played \in Numbers \cup {None}

PlayoutInv == StreamInv /\ BufferInv /\ StartedInv

\* The assumptions on the constants, in the form the proofs use.
LEMMA Constants ==
    /\ First \in Nat /\ Last \in Nat /\ First <= Last
    /\ Reorder \in Nat \ {0} /\ Drift \in Nat /\ MaxGap \in Nat \ {0}
    /\ Reorder + Drift <= W \div 2
    /\ None \notin Int /\ Numbers \subseteq Int
  BY PlayoutAssumption, JitterAssumption DEF PlayoutAssumption, JitterAssumption, Numbers

\* Whatever the network may still deliver is within half of the space of the next slot.
LEMMA Window ==
    ASSUME PlayoutInv, next # None, NEW p \in inFlight
    PROVE  /\ p \in Int /\ next \in Int
           /\ next - p <= W \div 2 /\ p - next < W \div 2
<1>1. /\ sent \in Int /\ p \in Int /\ p < sent /\ sent - p <= Reorder
      /\ next \in Int /\ next - sent <= Drift
      /\ sent - next <= Drift \/ sent - next <= Reorder
  BY Constants DEF PlayoutInv, StreamInv
<1>2. QED
  BY <1>1, Constants, Width

\* And so is whatever is buffered.
LEMMA HeldWindow ==
    ASSUME PlayoutInv, next # None, NEW q \in DOMAIN buf.packets
    PROVE  /\ buf.packets[q] \in Int /\ next \in Int
           /\ 0 <= buf.packets[q] - next /\ buf.packets[q] - next < W \div 2
  BY Constants, Width DEF PlayoutInv, StreamInv, BufferInv

\* The low bits of a number that is near tell whether it is held.
LEMMA HeldByLowBits ==
    ASSUME PlayoutInv, next # None, NEW x \in Int,
           next - x <= W \div 2, x - next < W \div 2
    PROVE  /\ x \in Held <=> x % W \in DOMAIN buf.packets
           /\ x % W \in DOMAIN buf.packets => buf.packets[x % W] = x
<1>1. ASSUME x % W \in DOMAIN buf.packets PROVE buf.packets[x % W] = x
  <2> DEFINE y == buf.packets[x % W]
  <2>1. y \in Int /\ 0 <= y - next /\ y - next < W \div 2 /\ next \in Int
    BY <1>1, HeldWindow
  <2>2. y % W = x % W
    BY <1>1 DEF PlayoutInv, BufferInv
  <2>3. y - x < W /\ x - y < W
    BY <2>1, Width
  <2> HIDE DEF y
  <2>4. y = x
    BY <2>1, <2>2, <2>3, SameSlot
  <2>5. QED
    BY <2>4 DEF y
<1>2. ASSUME x \in Held PROVE x % W \in DOMAIN buf.packets
  <2>1. PICK q \in DOMAIN buf.packets : x = buf.packets[q]
    BY <1>2 DEF Held
  <2>2. QED
    BY <2>1 DEF PlayoutInv, BufferInv
<1>3. ASSUME x % W \in DOMAIN buf.packets PROVE x \in Held
  BY <1>1, <1>3 DEF Held
<1>4. QED
  BY <1>1, <1>2, <1>3

\* The low bits of a packet tell how far ahead or behind it is.
LEMMA Distances ==
    ASSUME PlayoutInv, next # None, NEW p \in inFlight
    PROVE  /\ p >= next => /\ ForwardDistance(p % W, buf.expected) = p - next
                           /\ ForwardDistance(p % W, buf.expected) < W \div 2
           /\ p < next => /\ ForwardDistance(p % W, buf.expected) = p - next + W
                          /\ ForwardDistance(p % W, buf.expected) >= W \div 2
                          /\ ForwardDistance(buf.expected, p % W) = next - p
<1>1. /\ p \in Int /\ next \in Int
      /\ next - p <= W \div 2 /\ p - next < W \div 2
  BY Window
<1>2. buf.expected = next % W
  BY DEF PlayoutInv, StreamInv
<1>3. CASE p >= next
  <2>1. 0 <= p - next /\ p - next < W
    BY <1>1, <1>3, Width
  <2>2. ForwardDistance(p % W, next % W) = p - next
    BY <1>1, <2>1, Distance
  <2>3. QED
    BY <1>1, <1>2, <1>3, <2>2
<1>4. CASE p < next
  <2>1. -W <= p - next /\ p - next < 0 /\ 0 <= next - p /\ next - p < W
    BY <1>1, <1>4, Width
  <2>2. ForwardDistance(p % W, next % W) = p - next + W
    BY <1>1, <2>1, Distance
  <2>3. ForwardDistance(next % W, p % W) = next - p
    BY <1>1, <2>1, Distance
  <2>4. p - next + W >= W \div 2
    BY <1>1, Width
  <2>5. QED
    BY <1>1, <1>2, <1>4, <2>2, <2>3, <2>4
<1>5. QED
  BY <1>1, <1>3, <1>4

\* The buffer takes and refuses the packets that the timeline does.
LEMMA TakesTheSame ==
    ASSUME PlayoutInv, NEW p \in inFlight
    PROVE  Accepted(buf, p % W) <=> Promise!Takes(p)
<1>1. CASE next = None
  <2>1. buf = Fresh
    BY <1>1 DEF PlayoutInv, StreamInv
  <2>2. Held = {} /\ Accepted(buf, p % W)
    BY <2>1 DEF Fresh, Held, Accepted, Duplicate, Late, Discontinuous
  <2>3. QED
    BY <1>1, <2>2 DEF Promise!Takes
<1>2. CASE next # None
  <2>1. /\ p \in Int /\ next \in Int
        /\ next - p <= W \div 2 /\ p - next < W \div 2
    BY <1>2, Window
  <2>2. Duplicate(buf, p % W) <=> p \in Held
    BY <1>2, <2>1, HeldByLowBits DEF Duplicate
  <2>3. buf.expected # None
    <3>1. buf.expected = next % W /\ next % W \in Int
      BY <1>2, <2>1, Width, Division DEF PlayoutInv, StreamInv
    <3>2. QED
      BY <3>1, Constants
  <2>4. CASE p >= next
    <3>1. /\ ForwardDistance(p % W, buf.expected) = p - next
          /\ ForwardDistance(p % W, buf.expected) < W \div 2
      BY <1>2, <2>4, Distances
    <3>2. ~Late(buf, p % W)
      BY <2>1, <3>1, Width DEF Late
    <3>3. Discontinuous(buf, p % W) <=> p > next + MaxGap
      BY <2>1, <2>3, <3>1, Constants DEF Discontinuous
    <3>4. QED
      BY <1>2, <2>1, <2>2, <2>4, <3>2, <3>3, Constants DEF Accepted, Promise!Takes
  <2>5. CASE p < next
    <3>1. /\ ForwardDistance(p % W, buf.expected) = p - next + W
          /\ ForwardDistance(p % W, buf.expected) >= W \div 2
          /\ ForwardDistance(buf.expected, p % W) = next - p
      BY <1>2, <2>5, Distances
    <3>2. Late(buf, p % W) <=> buf.started
      BY <3>1 DEF Late
    <3>3. Discontinuous(buf, p % W) <=> ~buf.started /\ p < next - MaxGap
      BY <2>1, <2>3, <3>1, Constants, Width DEF Discontinuous
    <3>4. QED
      BY <1>2, <2>1, <2>2, <2>5, <3>2, <3>3, Constants DEF Accepted, Promise!Takes
  <2>6. QED
    BY <2>1, <2>4, <2>5
<1>3. QED
  BY <1>1, <1>2

\* As many packets are held as sequence numbers are taken.
LEMMA HeldCount == PlayoutInv => Cardinality(Held) = Cardinality(DOMAIN buf.packets)
<1> SUFFICES ASSUME PlayoutInv PROVE Cardinality(Held) = Cardinality(DOMAIN buf.packets)
  OBVIOUS
<1> DEFINE D == DOMAIN buf.packets
<1>1. IsFiniteSet(D)
  <2>1. \A q \in D : q \in 0 .. W - 1
    BY Constants, Width, Division DEF PlayoutInv, BufferInv
  <2>2. IsFiniteSet(0 .. W - 1)
    BY Width, FS_Interval
  <2>3. QED
    BY <2>1, <2>2, FS_Subset
<1>2. buf.packets \in Bijection(D, Held)
  <2>1. buf.packets \in [D -> Held]
    BY DEF Held, PlayoutInv, BufferInv
  <2>2. \A a, b \in D : buf.packets[a] = buf.packets[b] => a = b
    <3>1. \A a \in D : a = buf.packets[a] % W
      BY DEF PlayoutInv, BufferInv
    <3>2. QED
      BY <3>1
  <2>3. \A t \in Held : \E s \in D : buf.packets[s] = t
    BY DEF Held
  <2> HIDE DEF D
  <2>4. QED
    BY <2>1, <2>2, <2>3, Fun_IsBij
<1>3. ExistsBijection(D, Held)
  BY <1>2 DEF ExistsBijection
<1>4. QED
  BY <1>1, <1>3, FS_Bijection
-----------------------------------------------------------------------------
(* A packet is pushed *)

\* What a delivery does to the buffer and to the number of its next slot.
LEMMA DeliveryEffect ==
    ASSUME PlayoutInv, NEW p \in inFlight, Deliver(p), Accepted(buf, p % W)
    PROVE  LET back == next = None \/ p < next
           IN  /\ next' = IF back THEN p ELSE next
               /\ buf' = [expected |-> IF back THEN p % W ELSE buf.expected,
                          started |-> buf.started,
                          packets |-> [k \in DOMAIN buf.packets \cup {p % W} |->
                                          IF k = p % W THEN p ELSE buf.packets[k]]]
<1> DEFINE back == next = None \/ p < next
<1>1. /\ p % W \in Int /\ p \in Int
      /\ next # None => next \in Int /\ buf.expected = next % W /\ next % W \in Int
  <2>1. p \in Int /\ (next # None => next \in Int /\ buf.expected = next % W)
    BY Constants DEF PlayoutInv, StreamInv
  <2>2. W \in Nat \ {0}
    BY Width
  <2>3. p % W \in Int
    BY <2>1, <2>2, Division
  <2>4. next # None => next % W \in Int
    BY <2>1, <2>2, Division
  <2>5. QED
    BY <2>1, <2>3, <2>4
<1>2. next = None => buf.expected = None
  BY DEF PlayoutInv, StreamInv, Fresh
<1>3. (buf.expected = None \/ ForwardDistance(p % W, buf.expected) >= W \div 2) <=> back
  <2>1. CASE next = None
    BY <1>2, <2>1
  <2>2. CASE next # None
    <3>1. buf.expected # None
      BY <1>1, <2>2, Constants
    <3>2. CASE p >= next
      <4>1. /\ ForwardDistance(p % W, buf.expected) = p - next
            /\ ForwardDistance(p % W, buf.expected) < W \div 2
        BY <2>2, <3>2, Distances
      <4>2. QED
        BY <1>1, <2>2, <3>1, <3>2, <4>1, Width
    <3>3. CASE p < next
      <4>1. ForwardDistance(p % W, buf.expected) >= W \div 2
        BY <2>2, <3>3, Distances
      <4>2. QED
        BY <3>3, <4>1
    <3>4. QED
      BY <1>1, <2>2, <3>2, <3>3
  <2>3. QED
    BY <2>1, <2>2
<1>4. buf' = [expected |-> IF back THEN p % W ELSE buf.expected,
              started |-> buf.started,
              packets |-> [k \in DOMAIN buf.packets \cup {p % W} |->
                              IF k = p % W THEN p ELSE buf.packets[k]]]
  BY <1>3 DEF Deliver, Push
<1>5. back => p % W # buf.expected
  <2>1. CASE next = None
    BY <1>1, <1>2, <2>1, Constants
  <2>2. CASE next # None /\ p < next
    <3>1. /\ next - p <= W \div 2 /\ p - next < W \div 2
      BY <2>2, Window
    <3>2. p - next < W /\ next - p < W
      BY <1>1, <2>2, <3>1, Width
    <3>3. p % W # next % W
      BY <1>1, <2>2, <3>2, SameSlot
    <3>4. QED
      BY <1>1, <2>2, <3>3
  <2>3. QED
    BY <2>1, <2>2
<1>6. buf'.expected = IF back THEN p % W ELSE buf.expected
  BY <1>4
<1>7. next' = IF buf'.expected = buf.expected THEN next ELSE p
  BY DEF Deliver
<1>8. QED
  BY <1>4, <1>5, <1>6, <1>7

\* A delivered packet was not older than half of the space, nor is the buffer after it.
LEMMA DeliveryKeepsInv ==
    ASSUME PlayoutInv, NEW p \in inFlight, Deliver(p)
    PROVE  PlayoutInv'
<1>1. sent' = sent /\ played' = played /\ inFlight' \subseteq inFlight
  BY DEF Deliver
<1>2. CASE ~Accepted(buf, p % W)
  <2>1. buf' = buf /\ next' = next
    BY <1>2 DEF Deliver, Push
  <2>2. QED
    BY <1>1, <2>1 DEF PlayoutInv, StreamInv, BufferInv, StartedInv
<1>3. CASE Accepted(buf, p % W)
  <2> DEFINE back == next = None \/ p < next
             slots == DOMAIN buf.packets \cup {p % W}
             packets2 == [k \in slots |-> IF k = p % W THEN p ELSE buf.packets[k]]
  <2>1. /\ next' = IF back THEN p ELSE next
        /\ buf' = [expected |-> IF back THEN p % W ELSE buf.expected,
                   started |-> buf.started, packets |-> packets2]
    BY <1>3, DeliveryEffect
  <2>2. /\ p \in Numbers /\ p \in Int /\ p < sent /\ sent - p <= Reorder /\ sent \in Int
    BY Constants DEF PlayoutInv, StreamInv
  <2>3. next # None => /\ next \in Int /\ buf.expected = next % W /\ next - sent <= Drift
                       /\ sent - next <= Drift \/ sent - next <= Reorder
    BY DEF PlayoutInv, StreamInv
  <2>4. next' \in Int /\ next' # None /\ next' <= p /\ (next # None => next' <= next)
    BY <2>1, <2>2, <2>3, Constants
  <2>5. buf'.packets = packets2 /\ DOMAIN buf'.packets = slots
    BY <2>1
  <2>6. StreamInv'
    <3>1. buf'.expected = next' % W
      BY <2>1, <2>3
    <3>2. next' - sent <= Drift /\ (sent - next' <= Drift \/ sent - next' <= Reorder)
      BY <2>1, <2>2, <2>3, Constants
    <3>3. QED
      BY <1>1, <2>4, <3>1, <3>2 DEF StreamInv, PlayoutInv
  <2>7. BufferInv'
    <3>1. ASSUME NEW k \in slots
          PROVE  /\ packets2[k] \in Numbers /\ packets2[k] % W = k
                 /\ packets2[k] < sent /\ next' <= packets2[k]
      <4>1. CASE k = p % W
        BY <2>2, <2>4, <4>1
      <4>2. CASE k # p % W
        <5>1. k \in DOMAIN buf.packets /\ packets2[k] = buf.packets[k]
          BY <4>2
        <5>2. /\ buf.packets[k] \in Numbers /\ buf.packets[k] \in Int
              /\ buf.packets[k] % W = k /\ buf.packets[k] < sent
              /\ next # None => next <= buf.packets[k]
          BY <5>1, Constants DEF PlayoutInv, BufferInv
        <5>3. next # None
          BY <5>1 DEF PlayoutInv, StreamInv, Fresh
        <5>4. QED
          BY <2>3, <2>4, <5>1, <5>2, <5>3
      <4>3. QED
        BY <4>1, <4>2
    <3>2. buf'.packets = [q \in DOMAIN buf'.packets |-> buf'.packets[q]]
      BY <2>5
    <3>3. buf' = [expected |-> buf'.expected, started |-> buf'.started, packets |-> buf'.packets]
      BY <2>1
    <3> HIDE DEF packets2, slots
    <3>4. QED
      BY <1>1, <2>5, <3>1, <3>2, <3>3 DEF BufferInv
  <2>8. StartedInv'
    <3>1. buf'.started = buf.started
      BY <2>1
    <3>2. QED
      BY <1>1, <3>1 DEF PlayoutInv, StartedInv
  <2>9. QED
    BY <2>6, <2>7, <2>8 DEF PlayoutInv
<1>4. QED
  BY <1>2, <1>3

\* A packet that is taken arrives on the timeline; any other leaves it alone.
LEMMA DeliveryKeepsPromise ==
    ASSUME PlayoutInv, NEW p \in inFlight, Deliver(p)
    PROVE  [Promise!Next]_<<next, buf.started, Held, played>>
<1>1. CASE ~Accepted(buf, p % W)
  <2>1. buf' = buf /\ next' = next /\ played' = played
    BY <1>1 DEF Deliver, Push
  <2>2. QED
    BY <2>1 DEF Held
<1>2. CASE Accepted(buf, p % W)
  <2> DEFINE slots == DOMAIN buf.packets \cup {p % W}
             packets2 == [k \in slots |-> IF k = p % W THEN p ELSE buf.packets[k]]
  <2>1. /\ next' = IF next = None \/ p < next THEN p ELSE next
        /\ buf'.started = buf.started /\ buf'.packets = packets2 /\ played' = played
    <3>1. next' = IF next = None \/ p < next THEN p ELSE next
      BY <1>2, DeliveryEffect
    <3>2. buf' = [expected |-> IF next = None \/ p < next THEN p % W ELSE buf.expected,
                  started |-> buf.started, packets |-> packets2]
      BY <1>2, DeliveryEffect
    <3>3. buf'.started = buf.started /\ buf'.packets = packets2
      BY <3>2
    <3>4. QED
      BY <3>1, <3>3 DEF Deliver
  <2>2. p % W \notin DOMAIN buf.packets
    BY <1>2 DEF Accepted, Duplicate
  <2>3. Held' = Held \cup {p}
    BY <2>1, <2>2 DEF Held
  <2>4. Promise!Takes(p) /\ p \in Numbers
    BY <1>2, TakesTheSame DEF PlayoutInv, StreamInv
  <2>5. Promise!Arrive(p)
    BY <2>1, <2>3, <2>4 DEF Promise!Arrive
  <2>6. QED
    BY <2>4, <2>5 DEF Promise!Next
<1>3. QED
  BY <1>1, <1>2

-----------------------------------------------------------------------------
(* A frame is played *)

\* The slot that is played is that of `next`, and its packet, if there is one, is `next`.
LEMMA SlotOfNext ==
    ASSUME PlayoutInv, CanPop(buf)
    PROVE  /\ next # None /\ next \in Int /\ buf.expected = next % W
           /\ (next + 1) % W = (buf.expected + 1) % W
           /\ Concealed(buf) <=> next \notin Held
           /\ ~Concealed(buf) => buf.packets[buf.expected] = next
<1>1. next # None
  BY DEF CanPop, PlayoutInv, StreamInv, Fresh
<1>2. next \in Int /\ buf.expected = next % W
  BY <1>1 DEF PlayoutInv, StreamInv
<1>3. next - next <= W \div 2 /\ next - next < W \div 2
  BY <1>2, Width, Constants
<1>4. /\ next \in Held <=> next % W \in DOMAIN buf.packets
      /\ next % W \in DOMAIN buf.packets => buf.packets[next % W] = next
  BY <1>1, <1>2, <1>3, HeldByLowBits
<1>5. QED
  BY <1>1, <1>2, <1>4, Successor DEF Concealed

\* The next slot moves on by one, and nothing buffered is behind it.
LEMMA PlayoutKeepsInv ==
    ASSUME PlayoutInv, Playout
    PROVE  PlayoutInv'
<1>1. /\ CanPop(buf) /\ next - sent < Drift /\ next' = next + 1
      /\ sent' = sent /\ inFlight' = inFlight
      /\ played' = IF Concealed(buf) THEN played ELSE buf.packets[buf.expected]
  BY DEF Playout
<1>2. /\ next # None /\ next \in Int /\ buf.expected = next % W
      /\ (next + 1) % W = (buf.expected + 1) % W
  BY <1>1, SlotOfNext
<1>3. /\ buf'.expected = (buf.expected + 1) % W /\ buf'.started = TRUE
      /\ buf'.packets = [k \in DOMAIN buf.packets \ {buf.expected} |-> buf.packets[k]]
      /\ buf' = [expected |-> buf'.expected, started |-> buf'.started, packets |-> buf'.packets]
  BY DEF Playout, Pop
<1>4. StreamInv'
  <2>1. sent \in Int /\ (sent - next <= Drift \/ sent - next <= Reorder)
    BY <1>2, Constants DEF PlayoutInv, StreamInv
  <2>2. /\ next' \in Int /\ next' # None /\ next' - sent <= Drift
        /\ sent - next' <= Drift \/ sent - next' <= Reorder
    BY <1>1, <1>2, <2>1, Constants
  <2>3. QED
    BY <1>1, <1>2, <1>3, <2>2 DEF PlayoutInv, StreamInv
<1>5. BufferInv'
  <2>1. ASSUME NEW k \in DOMAIN buf'.packets
        PROVE  /\ buf'.packets[k] \in Numbers /\ buf'.packets[k] % W = k
               /\ buf'.packets[k] < sent' /\ next' <= buf'.packets[k]
    <3>1. /\ k \in DOMAIN buf.packets /\ k # next % W /\ buf'.packets[k] = buf.packets[k]
      BY <1>2, <1>3
    <3>2. /\ buf.packets[k] \in Numbers /\ buf.packets[k] \in Int
          /\ buf.packets[k] % W = k /\ buf.packets[k] < sent /\ next <= buf.packets[k]
      BY <1>2, <3>1, Constants DEF PlayoutInv, BufferInv
    <3>3. QED
      BY <1>1, <1>2, <3>1, <3>2
  <2>2. buf'.packets = [q \in DOMAIN buf'.packets |-> buf'.packets[q]]
    BY <1>3
  <2>3. QED
    BY <1>3, <2>1, <2>2 DEF BufferInv
<1>6. StartedInv'
  <2>1. ~Concealed(buf) => buf.packets[buf.expected] \in Numbers
    BY DEF Concealed, PlayoutInv, BufferInv
  <2>2. QED
    BY <1>1, <1>3, <2>1 DEF PlayoutInv, StartedInv
<1>7. QED
  BY <1>4, <1>5, <1>6 DEF PlayoutInv

\* A frame that is played is the timeline's next slot.
LEMMA PlayoutKeepsPromise ==
    ASSUME PlayoutInv, Playout
    PROVE  [Promise!Next]_<<next, buf.started, Held, played>>
<1>1. /\ CanPop(buf) /\ next' = next + 1
      /\ played' = IF Concealed(buf) THEN played ELSE buf.packets[buf.expected]
      /\ buf'.started = TRUE
      /\ buf'.packets = [k \in DOMAIN buf.packets \ {buf.expected} |-> buf.packets[k]]
  BY DEF Playout, Pop
<1>2. /\ next # None /\ next \in Int /\ buf.expected = next % W
      /\ Concealed(buf) <=> next \notin Held
      /\ ~Concealed(buf) => buf.packets[buf.expected] = next
  BY <1>1, SlotOfNext
<1>3. Held' = Held \ {next}
  <2>1. \A q \in DOMAIN buf.packets : buf.packets[q] % W = q
    BY DEF PlayoutInv, BufferInv
  <2>2. \A q \in DOMAIN buf.packets : q # buf.expected <=> buf.packets[q] # next
    BY <1>2, <2>1 DEF Concealed
  <2>3. QED
    BY <1>1, <2>2 DEF Held
<1>4. buf.started \/ Cardinality(Held) >= Prebuffer
  BY <1>1, HeldCount DEF CanPop
<1>5. played' = IF next \in Held THEN next ELSE played
  BY <1>1, <1>2
<1>6. Promise!Play
  <2>1. next' = next + 1 /\ next # None /\ buf'.started = TRUE
    BY <1>1, <1>2
  <2>2. QED
    BY <2>1, <1>3, <1>4, <1>5, Zenon DEF Promise!Play, Promise!Cardinality, Cardinality
<1>7. QED
  BY <1>6 DEF Promise!Next

-----------------------------------------------------------------------------
(* Every step *)

\* The initial states.
LEMMA PlayoutInit == Init => PlayoutInv /\ Promise!Init
<1> SUFFICES ASSUME Init PROVE PlayoutInv /\ Promise!Init
  OBVIOUS
<1>1. First \in Numbers
  BY Constants DEF Numbers
<1>2. PlayoutInv
  BY <1>1 DEF Init, Fresh, PlayoutInv, StreamInv, BufferInv, StartedInv
<1>3. Promise!Init
  BY DEF Init, Fresh, Held, Promise!Init
<1>4. QED
  BY <1>2, <1>3

\* Each action keeps the invariant and is a step of the timeline or a stutter.
LEMMA PlayoutStep ==
    PlayoutInv /\ [Next]_vars =>
        PlayoutInv' /\ [Promise!Next]_<<next, buf.started, Held, played>>
<1> SUFFICES ASSUME PlayoutInv, [Next]_vars
             PROVE  PlayoutInv' /\ [Promise!Next]_<<next, buf.started, Held, played>>
  OBVIOUS
<1>1. CASE Send
  <2>1. /\ sent < Last /\ sent' = sent + 1 /\ inFlight' = inFlight \cup {sent}
        /\ next # None => sent - next < Drift
        /\ \A p \in inFlight : sent - p < Reorder
        /\ buf' = buf /\ next' = next /\ played' = played
    BY <1>1 DEF Send
  <2>2. sent \in Int /\ sent \in Numbers /\ sent + 1 \in Numbers
    BY <2>1, Constants DEF PlayoutInv, StreamInv, Numbers
  <2>3. StreamInv'
    <3>1. ASSUME NEW p \in inFlight' PROVE p \in Numbers /\ p < sent' /\ sent' - p <= Reorder
      <4>1. CASE p = sent
        BY <2>1, <2>2, <4>1, Constants
      <4>2. CASE p \in inFlight
        <5>1. p \in Numbers /\ p < sent
          BY <4>2 DEF PlayoutInv, StreamInv
        <5>2. p \in Int /\ sent - p < Reorder /\ Reorder \in Nat
          BY <2>1, <4>2, <5>1, Constants
        <5>3. QED
          BY <2>1, <2>2, <5>1, <5>2
      <4>3. QED
        BY <2>1, <4>1, <4>2
    <3>2. QED
      BY <2>1, <2>2, <3>1, Constants DEF PlayoutInv, StreamInv
  <2>4. BufferInv'
    BY <2>1, <2>2, Constants DEF PlayoutInv, BufferInv
  <2>5. QED
    BY <2>1, <2>3, <2>4 DEF PlayoutInv, StartedInv, Held
<1>2. ASSUME NEW p \in inFlight, Lose(p)
      PROVE  PlayoutInv' /\ [Promise!Next]_<<next, buf.started, Held, played>>
  BY <1>2 DEF Lose, PlayoutInv, StreamInv, BufferInv, StartedInv, Held
<1>3. ASSUME NEW p \in inFlight, Deliver(p)
      PROVE  PlayoutInv' /\ [Promise!Next]_<<next, buf.started, Held, played>>
  BY <1>3, DeliveryKeepsInv, DeliveryKeepsPromise
<1>4. CASE Playout
  BY <1>4, PlayoutKeepsInv, PlayoutKeepsPromise
<1>5. CASE StartSession
  <2>1. /\ buf' = Fresh /\ next' = None /\ played' = None
        /\ sent' = sent /\ inFlight' = inFlight
    BY <1>5 DEF StartSession
  <2>2. PlayoutInv'
    BY <2>1 DEF Fresh, PlayoutInv, StreamInv, BufferInv, StartedInv
  <2>3. Promise!Restart
    BY <2>1 DEF Fresh, Held, Promise!Restart
  <2>4. QED
    BY <2>2, <2>3 DEF Promise!Next
<1>6. CASE UNCHANGED vars
  BY <1>6 DEF vars, PlayoutInv, StreamInv, BufferInv, StartedInv, Held
<1>7. QED
  BY <1>1, <1>2, <1>3, <1>4, <1>5, <1>6 DEF Next

\* The property the run checks follows.
LEMMA InvImpliesOnTimeline == PlayoutInv => OnTimeline
<1> SUFFICES ASSUME PlayoutInv PROVE OnTimeline
  OBVIOUS
<1>1. next # None => buf.expected = next % W /\ next % W \in Sequences /\ next \in Int
  BY Width, Division DEF PlayoutInv, StreamInv, Sequences
<1>2. next = None => buf.expected = None /\ buf = Fresh
  BY DEF PlayoutInv, StreamInv, Fresh
<1>3. \A q \in DOMAIN buf.packets :
          /\ buf.packets[q] \in Numbers /\ q \in Sequences /\ next # None
          /\ buf.packets[q] = next + ForwardDistance(q, buf.expected)
  <2> SUFFICES ASSUME NEW q \in DOMAIN buf.packets
               PROVE  /\ buf.packets[q] \in Numbers /\ q \in Sequences /\ next # None
                      /\ buf.packets[q] = next + ForwardDistance(q, buf.expected)
    OBVIOUS
  <2>1. next # None
    BY DEF PlayoutInv, StreamInv, Fresh
  <2>2. buf.packets[q] \in Numbers /\ buf.packets[q] \in Int /\ buf.packets[q] % W = q
    BY Constants DEF PlayoutInv, BufferInv
  <2>3. q \in Sequences
    BY <2>2, Width, Division DEF Sequences
  <2>4. 0 <= buf.packets[q] - next /\ buf.packets[q] - next < W
    BY <2>1, HeldWindow, Width
  <2>5. ForwardDistance(buf.packets[q] % W, next % W) = buf.packets[q] - next
    BY <1>1, <2>1, <2>2, <2>4, Distance
  <2>6. QED
    BY <1>1, <2>1, <2>2, <2>3, <2>5
<1>4. TypeOK
  <2>1. IsBuffer(buf, Numbers)
    BY <1>1, <1>2, <1>3 DEF IsBuffer, PlayoutInv, BufferInv, StartedInv
  <2>2. QED
    BY <1>1, <2>1 DEF TypeOK, PlayoutInv, StreamInv, StartedInv
<1>5. next = None <=> buf.expected = None
  BY <1>1, <1>2, Constants DEF Sequences
<1>6. buf.expected = None => ~buf.started /\ buf.packets = Fresh.packets
  BY <1>2, <1>5 DEF Fresh
<1>7. \A p \in inFlight : Accepted(buf, p % W) <=> Promise!Takes(p)
  BY TakesTheSame
<1>8. QED
  BY <1>1, <1>3, <1>4, <1>5, <1>6, <1>7 DEF OnTimeline

\* However long the stream, whatever is lost, repeated or late within the bounds, the
\* buffer holds, takes and refuses packets by their low bits as it would by their numbers.
\* (push and pop of RadioAudioJitterBuffer)
THEOREM AlwaysOnTimeline == Spec => []OnTimeline
  BY PlayoutInit, PlayoutStep, InvImpliesOnTimeline, PTL DEF Spec

\* The buffer implements the timeline of the sender's own numbers: every slot is played
\* once and in order, as its packet or as silence. (RadioAudioJitterBuffer)
THEOREM ImplementsTimeline == Spec => KeepsTimeline
<1>1. Init => PlayoutInv /\ Promise!Init
  BY PlayoutInit
<1>2. PlayoutInv /\ [Next]_vars => PlayoutInv' /\ [Promise!Next]_Promise!vars
  BY PlayoutStep DEF Promise!vars
<1>3. QED
  BY <1>1, <1>2, PTL DEF Spec, KeepsTimeline, Promise!Spec
=============================================================================
