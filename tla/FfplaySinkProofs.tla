-------------------------- MODULE FfplaySinkProofs --------------------------
(***************************************************************************)
(* For any size of the queue and of the pipe, any sequence space, gap limit  *)
(* and prebuffer, and any number of gates: the count that bounds the queue   *)
(* is the number of packets in it.  And while the packet taken next is       *)
(* within half of the sequence space of where the buffer is, nothing is      *)
(* played twice or out of order; a stream shorter than that half by what     *)
(* arrives late or again and by what the queue holds stays so by itself.     *)
(***************************************************************************)
EXTENDS FfplaySink, SequenceTheorems, FiniteSetTheorems, FunctionTheorems, TLAPS

\* The packets of the sender are natural numbers, which neither silence nor None is.
LEMMA Constants ==
    /\ MaxQueue \in Nat \ {0} /\ First \in Nat /\ Last \in Nat /\ First <= Last
    /\ Reorder \in Nat /\ Strays \in Nat /\ MaxGap \in Nat \ {0} /\ Reorder <= MaxGap
    /\ MaxOpens \in Nat /\ Numbers \subseteq Nat
    /\ None \notin Int /\ Silence \notin Int /\ Silence # None
  BY SinkAssumption, JitterAssumption DEF SinkAssumption, JitterAssumption, Numbers

-----------------------------------------------------------------------------
(* The packets of a queue of events *)

PacketsIn(s) == {i \in DOMAIN s : s[i].kind = "packet"}

\* They are finitely many.
LEMMA FinitePackets ==
    ASSUME NEW s \in Seq(Events)
    PROVE  IsFiniteSet(PacketsIn(s)) /\ Cardinality(PacketsIn(s)) \in Nat
<1>1. IsFiniteSet(1 .. Len(s)) /\ DOMAIN s = 1 .. Len(s)
  BY LenProperties, FS_Interval
<1>2. PacketsIn(s) \in SUBSET (1 .. Len(s))
  BY <1>1 DEF PacketsIn
<1>3. QED
  BY <1>1, <1>2, FS_Subset, FS_CardinalityType

\* A packet that is put behind the others is one more, a gate event none.
LEMMA PutCounts ==
    ASSUME NEW s \in Seq(Events), NEW e \in Events
    PROVE  /\ Append(s, e) \in Seq(Events)
           /\ Cardinality(PacketsIn(Append(s, e))) =
                Cardinality(PacketsIn(s)) + (IF e.kind = "packet" THEN 1 ELSE 0)
<1> DEFINE t == Append(s, e)
<1>1. /\ t \in Seq(Events) /\ Len(t) = Len(s) + 1
      /\ \A i \in 1 .. Len(s) : t[i] = s[i]
      /\ t[Len(s) + 1] = e
  BY AppendProperties
<1>2. DOMAIN s = 1 .. Len(s) /\ DOMAIN t = 1 .. Len(s) + 1 /\ Len(s) \in Nat
  BY <1>1, LenProperties
<1>3. IsFiniteSet(PacketsIn(s)) /\ Cardinality(PacketsIn(s)) \in Nat
  BY FinitePackets
<1>4. Len(s) + 1 \notin PacketsIn(s)
  BY <1>2 DEF PacketsIn
<1> HIDE DEF t
<1>5. CASE e.kind = "packet"
  <2>1. PacketsIn(t) = PacketsIn(s) \cup {Len(s) + 1}
    BY <1>1, <1>2, <1>5 DEF PacketsIn
  <2>2. QED
    BY <1>1, <1>3, <1>4, <1>5, <2>1, FS_AddElement DEF t
<1>6. CASE e.kind # "packet"
  <2>1. PacketsIn(t) = PacketsIn(s)
    BY <1>1, <1>2, <1>6 DEF PacketsIn
  <2>2. QED
    BY <1>1, <1>3, <1>6, <2>1 DEF t
<1>7. QED
  BY <1>5, <1>6

\* A packet that is taken from the front is one less, and the others move up.
LEMMA TakeCounts ==
    ASSUME NEW s \in Seq(Events), s # <<>>
    PROVE  /\ Head(s) \in Events /\ Tail(s) \in Seq(Events)
           /\ \A i \in PacketsIn(Tail(s)) : i + 1 \in PacketsIn(s) /\ s[i + 1] = Tail(s)[i]
           /\ Head(s).kind = "packet" <=> 1 \in PacketsIn(s)
           /\ Cardinality(PacketsIn(Tail(s))) =
                Cardinality(PacketsIn(s)) - (IF Head(s).kind = "packet" THEN 1 ELSE 0)
<1> DEFINE t == Tail(s)
           Rest == PacketsIn(s) \ {1}
           f == [i \in PacketsIn(t) |-> i + 1]
<1>1. /\ Head(s) \in Events /\ t \in Seq(Events) /\ Len(t) = Len(s) - 1
      /\ \A i \in 1 .. Len(t) : t[i] = s[i + 1]
  BY HeadTailProperties
<1>2. /\ DOMAIN s = 1 .. Len(s) /\ Len(s) \in Nat \ {0}
      /\ DOMAIN t = 1 .. Len(t) /\ Len(t) \in Nat
  BY <1>1, LenProperties, EmptySeq
<1>3. Head(s) = s[1]
  BY <1>2
<1>4. Head(s).kind = "packet" <=> 1 \in PacketsIn(s)
  BY <1>2, <1>3 DEF PacketsIn
<1>5. IsFiniteSet(PacketsIn(t)) /\ IsFiniteSet(PacketsIn(s))
  BY <1>1, FinitePackets
<1> HIDE DEF t
<1>6. \A i \in PacketsIn(t) : i + 1 \in PacketsIn(s) /\ s[i + 1] = t[i] /\ i \in Nat \ {0}
  BY <1>1, <1>2 DEF PacketsIn
<1>7. f \in Bijection(PacketsIn(t), Rest)
  <2>1. f \in [PacketsIn(t) -> Rest]
    BY <1>6
  <2>2. \A a, b \in PacketsIn(t) : f[a] = f[b] => a = b
    BY <1>6
  <2>3. \A j \in Rest : \E i \in PacketsIn(t) : f[i] = j
    <3> SUFFICES ASSUME NEW j \in Rest PROVE j - 1 \in PacketsIn(t) /\ f[j - 1] = j
      OBVIOUS
    <3>1. j \in 2 .. Len(s)
      BY <1>2 DEF PacketsIn
    <3>2. j - 1 \in 1 .. Len(t) /\ t[j - 1] = s[j]
      BY <1>1, <1>2, <3>1
    <3>3. QED
      BY <1>2, <3>1, <3>2 DEF PacketsIn
  <2> HIDE DEF f, Rest
  <2>4. QED
    BY <2>1, <2>2, <2>3, Fun_IsBij
<1>8. Cardinality(PacketsIn(t)) = Cardinality(Rest)
  <2>1. ExistsBijection(PacketsIn(t), Rest)
    BY <1>7 DEF ExistsBijection
  <2> HIDE DEF Rest
  <2>2. QED
    BY <1>5, <2>1, FS_Bijection
<1>9. Cardinality(Rest) =
        Cardinality(PacketsIn(s)) - (IF Head(s).kind = "packet" THEN 1 ELSE 0)
  <2>1. Cardinality(PacketsIn(s)) \in Nat
    BY FinitePackets
  <2>2. Cardinality(Rest) =
          IF 1 \in PacketsIn(s) THEN Cardinality(PacketsIn(s)) - 1 ELSE Cardinality(PacketsIn(s))
    BY <1>5, FS_RemoveElement
  <2>3. QED
    BY <1>4, <2>1, <2>2
<1>10. QED
  BY <1>1, <1>4, <1>6, <1>8, <1>9 DEF t

-----------------------------------------------------------------------------
(* The jitter buffer *)

\* Sequence numbers, and half of their space.
LEMMA Width ==
    /\ W \in Nat \ {0} /\ W \div 2 \in Nat /\ W = 2 * (W \div 2) /\ MaxGap < W \div 2
    /\ \A a \in Int : a % W \in Sequences
    /\ None \notin Sequences
  BY JitterAssumption DEF JitterAssumption, Sequences

\* A product with a number other than zero is at least as large as the other factor.
LEMMA Multiple ==
    ASSUME NEW k \in Int, NEW w \in Nat \ {0}
    PROVE  /\ k >= 1 => w * k >= w
           /\ k <= -1 => w * k <= -w
<1>1. CASE k >= 1
  BY <1>1
<1>2. CASE k <= -1
  BY <1>2
<1>3. QED
  BY <1>1, <1>2

\* What % and \div give.
LEMMA Division ==
    ASSUME NEW a \in Int, NEW w \in Nat \ {0}
    PROVE  a % w \in 0 .. w - 1 /\ a \div w \in Int /\ a = w * (a \div w) + (a % w)
  OBVIOUS

\* There is one remainder.
LEMMA Remainder ==
    ASSUME NEW k \in Int, NEW w \in Nat \ {0}, NEW r \in 0 .. w - 1
    PROVE  (w * k + r) % w = r
<1> DEFINE a == w * k + r
           d == k - (a \div w)
<1>1. a \in Int /\ d \in Int
  OBVIOUS
<1>2. a % w \in 0 .. w - 1 /\ a = w * (a \div w) + (a % w) /\ a \div w \in Int
  BY <1>1, Division
<1>3. w * d = (a % w) - r
  BY <1>2
<1>4. d = 0
  BY <1>1, <1>2, <1>3, Multiple
<1>5. QED
  BY <1>2, <1>3, <1>4

\* Numbers of the stream that are less than W apart have their distance modulo W.
LEMMA Distance ==
    ASSUME NEW a \in Int, NEW b \in Int
    PROVE  /\ 0 <= a - b /\ a - b < W => ForwardDistance(a % W, b % W) = a - b
           /\ -W <= a - b /\ a - b < 0 => ForwardDistance(a % W, b % W) = a - b + W
<1> DEFINE m == b \div W - a \div W
<1>1. W \in Nat \ {0}
  BY Width
<1>2. /\ a % W \in Int /\ a \div W \in Int /\ a = W * (a \div W) + (a % W)
      /\ b % W \in Int /\ b \div W \in Int /\ b = W * (b \div W) + (b % W)
  BY <1>1, Division
<1>3. m \in Int /\ (a % W) - (b % W) = W * m + (a - b)
  BY <1>1, <1>2
<1>4. CASE 0 <= a - b /\ a - b < W
  <2>1. PICK r \in 0 .. W - 1 : r = a - b
    BY <1>1, <1>4
  <2>2. (a % W) - (b % W) = W * m + r
    BY <1>3, <2>1
  <2>3. (W * m + r) % W = r
    BY <1>1, <1>3, Remainder
  <2>4. QED
    BY <2>1, <2>2, <2>3 DEF ForwardDistance
<1>5. CASE -W <= a - b /\ a - b < 0
  <2>1. PICK r \in 0 .. W - 1 : r = a - b + W
    BY <1>1, <1>5
  <2>2. (a % W) - (b % W) = W * (m - 1) + r /\ m - 1 \in Int
    BY <1>1, <1>3, <2>1
  <2>3. (W * (m - 1) + r) % W = r
    BY <1>1, <2>2, Remainder
  <2>4. ~(0 <= a - b)
    BY <1>5
  <2>5. QED
    BY <2>1, <2>2, <2>3, <2>4 DEF ForwardDistance
<1>6. QED
  BY <1>1, <1>4, <1>5

\* Numbers less than W apart with the same low bits are the same.
LEMMA SameSlot ==
    ASSUME NEW a \in Int, NEW b \in Int, a % W = b % W, a - b < W, b - a < W
    PROVE  a = b
<1>1. W \in Nat \ {0}
  BY Width
<1>2. ForwardDistance(a % W, b % W) = 0
  <2>1. (W * 0 + 0) % W = 0
    BY <1>1, Remainder
  <2>2. a % W \in Int /\ W * 0 + 0 = 0
    BY <1>1, Division
  <2>3. QED
    BY <2>1, <2>2 DEF ForwardDistance
<1>3. CASE 0 <= a - b
  <2>1. ForwardDistance(a % W, b % W) = a - b
    BY <1>3, Distance
  <2>2. QED
    BY <1>2, <2>1
<1>4. CASE a - b < 0
  <2>1. -W <= a - b
    BY <1>1
  <2>2. ForwardDistance(a % W, b % W) = a - b + W
    BY <1>4, <2>1, Distance
  <2>3. QED
    BY <1>1, <1>2, <2>2
<1>5. QED
  BY <1>3, <1>4

\* The slot after the next one.
LEMMA NextSlot == ASSUME NEW a \in Int PROVE ((a % W) + 1) % W = (a + 1) % W
<1>1. W \in Nat \ {0}
  BY Width
<1>2. a % W \in 0 .. W - 1 /\ a \div W \in Int /\ a = W * (a \div W) + (a % W)
  BY <1>1, Division
<1>3. CASE (a % W) + 1 < W
  <2>1. (W * (a \div W) + ((a % W) + 1)) % W = (a % W) + 1
    BY <1>1, <1>2, <1>3, Remainder
  <2>2. (W * 0 + ((a % W) + 1)) % W = (a % W) + 1
    BY <1>1, <1>2, <1>3, Remainder
  <2>3. a + 1 = W * (a \div W) + ((a % W) + 1) /\ W * 0 + ((a % W) + 1) = (a % W) + 1
    BY <1>1, <1>2
  <2>4. QED
    BY <2>1, <2>2, <2>3
<1>4. CASE (a % W) + 1 = W
  <2>1. (W * (a \div W + 1) + 0) % W = 0
    BY <1>1, <1>2, Remainder
  <2>2. (W * 1 + 0) % W = 0
    BY <1>1, Remainder
  <2>3. a + 1 = W * (a \div W + 1) + 0 /\ W * 1 + 0 = (a % W) + 1
    BY <1>1, <1>2, <1>4
  <2>4. QED
    BY <2>1, <2>2, <2>3
<1>5. QED
  BY <1>1, <1>2, <1>3, <1>4

\* A buffer that holds nothing takes the first packet.
LEMMA FreshBuffer ==
    /\ IsBuffer(Fresh, Numbers) /\ DOMAIN Fresh.packets = {}
    /\ Fresh.expected = None /\ Fresh.started = FALSE
    /\ \A q \in Sequences : Accepted(Fresh, q)
  BY DEF Fresh, IsBuffer, Accepted, Duplicate, Late, Discontinuous

\* A packet is refused, or is put in its slot, which may become the next one.
LEMMA PushEffect ==
    ASSUME NEW b, IsBuffer(b, Numbers), NEW n \in Numbers
    PROVE  LET q == n % W
               p == Push(b, q, n)
           IN  /\ IsBuffer(p, Numbers) /\ p.started = b.started
               /\ ~Accepted(b, q) => p = b
               /\ Accepted(b, q) =>
                    /\ DOMAIN p.packets = DOMAIN b.packets \cup {q} /\ q \notin DOMAIN b.packets
                    /\ p.packets[q] = n
                    /\ \A k \in DOMAIN b.packets : p.packets[k] = b.packets[k]
                    /\ p.expected = IF \/ b.expected = None
                                       \/ ForwardDistance(q, b.expected) >= W \div 2
                                    THEN q ELSE b.expected
<1> DEFINE q == n % W
           p == Push(b, q, n)
<1>1. q \in Sequences
  BY Constants, Width
<1>2. CASE ~Accepted(b, q)
  <2>1. p = b
    BY <1>2 DEF Push
  <2>2. QED
    BY <1>2, <2>1
<1>3. CASE Accepted(b, q)
  <2> DEFINE e == IF \/ b.expected = None
                     \/ ForwardDistance(q, b.expected) >= W \div 2
                  THEN q ELSE b.expected
             D == DOMAIN b.packets \cup {q}
             g == [k \in D |-> IF k = q THEN n ELSE b.packets[k]]
  <2>1. p = [expected |-> e, started |-> b.started, packets |-> g]
    BY <1>3 DEF Push
  <2>2. q \notin DOMAIN b.packets
    BY <1>3 DEF Accepted, Duplicate
  <2>3. e \in Sequences \cup {None} /\ b.started \in BOOLEAN
    BY <1>1 DEF IsBuffer
  <2>4. D \subseteq Sequences /\ g \in [D -> Numbers]
    BY <1>1 DEF IsBuffer
  <2>5. DOMAIN g = D /\ g[q] = n /\ \A k \in DOMAIN b.packets : g[k] = b.packets[k]
    BY <2>2
  <2> HIDE DEF e, D, g
  <2>6. p.expected = e /\ p.started = b.started /\ p.packets = g
    BY <2>1
  <2>7. IsBuffer(p, Numbers)
    BY <2>1, <2>3, <2>4, <2>5, <2>6 DEF IsBuffer
  <2>8. QED
    BY <1>3, <2>2, <2>5, <2>6, <2>7 DEF e, D
<1>4. QED
  BY <1>2, <1>3

\* A frame leaves the buffer.
LEMMA PopEffect ==
    ASSUME NEW b, IsBuffer(b, Numbers), b.expected # None
    PROVE  LET p == Pop(b)
           IN  /\ IsBuffer(p, Numbers) /\ p.started = TRUE
               /\ p.expected = (b.expected + 1) % W
               /\ DOMAIN p.packets = DOMAIN b.packets \ {b.expected}
               /\ \A k \in DOMAIN p.packets : p.packets[k] = b.packets[k]
               /\ ~Concealed(b) => b.packets[b.expected] \in Numbers
<1> DEFINE p == Pop(b)
<1>1. b.expected \in Int
  BY DEF IsBuffer, Sequences
<1>2. (b.expected + 1) % W \in Sequences
  BY <1>1, Width
<1>3. QED
  BY <1>2 DEF Pop, IsBuffer, Concealed

\* What the buffer is once the packet n has been pushed, and the number of its next slot.
Pushed(n) ==
    IF TooFar(buf, n) THEN Resume(buf, n) ELSE Push(buf, n % W, n)
Place(n) == IF Pushed(n).expected = buf.expected THEN next ELSE n

\* The buffer is empty or knows the slot it plays next.
PlaceInv ==
    /\ next = None => buf = Fresh
    /\ next # None => next \in Int /\ buf.expected = next % W

CountInv == QueueBounded /\ PlaceInv

LEMMA KnowsPlace ==
    ASSUME CountInv
    PROVE  /\ IsBuffer(buf, Numbers)
           /\ buf.expected # None <=> next # None
           /\ next # None => next \in Int /\ buf.expected = next % W
<1>1. CASE next = None
  BY <1>1, FreshBuffer DEF CountInv, PlaceInv, QueueBounded, TypeOK
<1>2. CASE next # None
  BY <1>2, Width DEF CountInv, PlaceInv, QueueBounded, TypeOK
<1>3. QED
  BY <1>1, <1>2

LEMMA PushedEffect ==
    ASSUME CountInv, NEW n \in Numbers
    PROVE  /\ IsBuffer(Pushed(n), Numbers) /\ Pushed(n).expected # None
           /\ Place(n) \in Int /\ Pushed(n).expected = Place(n) % W
<1> DEFINE q == n % W
<1>1. q \in Sequences /\ n \in Int /\ q # None
  BY Constants, Width
<1>2. ASSUME NEW b, IsBuffer(b, Numbers), Accepted(b, q) \/ b.expected # None
      PROVE  LET p == Push(b, q, n)
             IN  IsBuffer(p, Numbers) /\ p.expected \in {q, b.expected} /\ p.expected # None
  BY <1>1, <1>2, PushEffect
<1>3. CASE Discontinuous(buf, q) /\ ~Duplicate(buf, q)
  <2>1. Pushed(n) = Push(Fresh, q, n)
    BY <1>3 DEF Pushed, TooFar, Resume
  <2>2. IsBuffer(Pushed(n), Numbers) /\ Pushed(n).expected = q
    BY <1>1, <1>2, <2>1, FreshBuffer
  <2>3. Place(n) = n \/ (Place(n) = next /\ buf.expected = q)
    BY <2>2 DEF Place
  <2>4. QED
    BY <1>1, <2>2, <2>3, KnowsPlace
<1>4. CASE ~(Discontinuous(buf, q) /\ ~Duplicate(buf, q))
  <2>1. Pushed(n) = Push(buf, q, n)
    BY <1>4 DEF Pushed, TooFar
  <2>2. Accepted(buf, q) \/ buf.expected # None
    BY <1>1, FreshBuffer, KnowsPlace DEF CountInv, PlaceInv
  <2>3. /\ IsBuffer(Pushed(n), Numbers)
        /\ Pushed(n).expected \in {q, buf.expected} /\ Pushed(n).expected # None
    BY <1>2, <2>1, <2>2, KnowsPlace
  <2>4. CASE Pushed(n).expected = buf.expected
    BY <2>3, <2>4, KnowsPlace DEF Place
  <2>5. CASE Pushed(n).expected # buf.expected
    BY <1>1, <2>3, <2>5 DEF Place
  <2>6. QED
    BY <2>4, <2>5
<1>5. QED
  BY <1>3, <1>4

\* A packet that is taken is pushed, and a frame may be drained.
LEMMA TakeEffect ==
    ASSUME CountInv, TakePacket
    PROVE  LET n == Head(events).n
           IN  /\ events # <<>> /\ Head(events).kind = "packet" /\ n \in Numbers
               /\ events' = Tail(events) /\ queued' = queued - 1
               /\ IF CanPop(Pushed(n)) THEN Drain(Pushed(n), Place(n))
                  ELSE buf' = Pushed(n) /\ next' = Place(n) /\ UNCHANGED <<writing, last>>
<1>1. events # <<>> /\ Head(events).kind = "packet" /\ events' = Tail(events)
  BY DEF TakePacket, Take
<1>2. Head(events) \in Events
  BY <1>1, TakeCounts DEF CountInv, QueueBounded, TypeOK
<1>3. Head(events).n \in Numbers
  BY <1>1, <1>2 DEF Events
<1>4. QED
  BY <1>1, <1>3 DEF TakePacket, Pushed, Place

-----------------------------------------------------------------------------
(* The count is exact *)

\* The initial states.
LEMMA CountInit == Init => CountInv
<1> SUFFICES ASSUME Init PROVE CountInv
  OBVIOUS
<1>1. events = <<>> /\ queued = 0 /\ buf = Fresh /\ next = None /\ pipe = <<Silence>>
  BY DEF Init
<1>2. Packets = {}
  BY <1>1 DEF Packets
<1>3. queued = Cardinality(Packets) /\ queued <= MaxQueue
  BY <1>1, <1>2, FS_EmptySet, Constants
<1>4. events \in Seq(Events)
  BY <1>1, EmptySeq
<1>5. pipe \in Seq(Numbers \cup {Silence})
  BY <1>1
<1>6. TypeOK
  <2>1. IsBuffer(buf, Numbers)
    BY <1>1, FreshBuffer
  <2>2. seq \in First .. Last /\ strays \in 0 .. Strays /\ opens \in 0 .. MaxOpens
    BY Constants DEF Init
  <2>3. queued \in Nat /\ next \in Int \cup {None}
    BY <1>1
  <2>4. QED
    BY <1>4, <1>5, <2>1, <2>2, <2>3 DEF Init, TypeOK
<1>7. QED
  BY <1>1, <1>3, <1>6 DEF CountInv, QueueBounded, PlaceInv

\* What the protocol thread queues is counted, and what it does not queue is not.
LEMMA ProtocolCounts ==
    ASSUME CountInv, Protocol \/ \E n \in Numbers : OnPacket(n)
    PROVE  CountInv'
<1> USE DEF CountInv, QueueBounded, receiver, jitter
<1>1. TypeOK /\ queued = Cardinality(PacketsIn(events)) /\ Packets' = PacketsIn(events')
  BY DEF Packets, PacketsIn
<1>2. events \in Seq(Events)
  BY <1>1 DEF TypeOK
<1>3. ASSUME NEW kind \in {"open", "close", "stop"}, Put(kind, 0)
      PROVE  events' \in Seq(Events) /\ Cardinality(Packets') = Cardinality(PacketsIn(events))
  <2>1. Event(kind, 0) \in Events /\ Event(kind, 0).kind # "packet"
    BY <1>3 DEF Event, Events
  <2>2. Cardinality(PacketsIn(events)) \in Nat
    BY <1>2, FinitePackets
  <2>3. events' = Append(events, Event(kind, 0))
    BY <1>3 DEF Put
  <2>4. QED
    BY <1>1, <1>2, <2>1, <2>2, <2>3, PutCounts
<1>4. CASE GateOpens
  BY <1>1, <1>3, <1>4, Constants DEF GateOpens, TypeOK, PlaceInv
<1>5. CASE GateCloses
  BY <1>1, <1>3, <1>5 DEF GateCloses, TypeOK, PlaceInv
<1>6. CASE Close
  BY <1>1, <1>3, <1>6 DEF Close, TypeOK, PlaceInv
<1>7. CASE PacketMissed
  <2>1. Cardinality(Packets') = Cardinality(PacketsIn(events))
    BY <1>1, <1>7 DEF PacketMissed
  <2>2. seq' \in First .. Last
    BY <1>1, <1>7, Constants DEF PacketMissed, TypeOK
  <2>3. QED
    BY <1>1, <1>7, <2>1, <2>2 DEF PacketMissed, TypeOK, PlaceInv
<1>8. ASSUME NEW n \in Numbers, OnPacket(n) PROVE CountInv'
  <2>1. seq' \in First .. Last /\ strays' \in 0 .. Strays
    BY <1>1, <1>8, Constants DEF OnPacket, TypeOK, Numbers
  <2>2. /\ events' \in Seq(Events) /\ queued' \in Nat /\ queued' <= MaxQueue
        /\ queued' = Cardinality(Packets')
    <3>1. CASE queued >= MaxQueue
      BY <1>1, <1>8, <3>1 DEF OnPacket, Enqueue, TypeOK
    <3>2. CASE ~(queued >= MaxQueue)
      <4>1. Event("packet", n) \in Events /\ Event("packet", n).kind = "packet"
        BY DEF Event, Events
      <4>2. queued' = queued + 1 /\ events' = Append(events, Event("packet", n))
        BY <1>8, <3>2 DEF OnPacket, Enqueue, Put
      <4>3. events' \in Seq(Events) /\ Cardinality(Packets') = queued + 1
        BY <1>1, <1>2, <4>1, <4>2, PutCounts
      <4>4. queued \in Nat /\ MaxQueue \in Nat
        BY <1>1, Constants DEF TypeOK
      <4>5. QED
        BY <3>2, <4>2, <4>3, <4>4
    <3>3. QED
      BY <3>1, <3>2
  <2>3. UNCHANGED <<gate, opens, closed, worker, jitter, writing, pipe, alive, last>>
    BY <1>8 DEF OnPacket
  <2>4. QED
    BY <1>1, <2>1, <2>2, <2>3 DEF TypeOK, PlaceInv
<1>9. QED
  BY <1>4, <1>5, <1>6, <1>7, <1>8 DEF Protocol

\* A frame that is drained leaves a buffer that knows its next slot.
LEMMA DrainKeepsPlace ==
    ASSUME NEW b, IsBuffer(b, Numbers), b.expected # None,
           NEW n \in Int, b.expected = n % W, Drain(b, n), TypeOK
    PROVE  /\ IsBuffer(buf', Numbers) /\ PlaceInv' /\ next' = n + 1
           /\ writing' \in Numbers \cup {Silence, None} /\ last' \in Numbers \cup {None}
<1>1. /\ buf' = Pop(b) /\ next' = n + 1
      /\ writing' = IF Concealed(b) THEN Silence ELSE b.packets[b.expected]
      /\ last' = IF Concealed(b) THEN last ELSE b.packets[b.expected]
  BY DEF Drain
<1>2. buf'.expected = (n + 1) % W
  <2>1. Pop(b).expected = (b.expected + 1) % W
    BY PopEffect
  <2>2. ((n % W) + 1) % W = (n + 1) % W
    BY NextSlot
  <2>3. QED
    BY <1>1, <2>1, <2>2
<1>3. next' # None /\ next' \in Int
  BY <1>1, Constants
<1>4. PlaceInv'
  BY <1>1, <1>2, <1>3 DEF PlaceInv
<1>5. IsBuffer(buf', Numbers)
  BY <1>1, PopEffect
<1>6. ~Concealed(b) => b.packets[b.expected] \in Numbers
  BY PopEffect
<1>7. QED
  BY <1>1, <1>4, <1>5, <1>6 DEF TypeOK

\* What the worker takes from the queue leaves the count.
LEMMA WorkerCounts == CountInv /\ Worker => CountInv'
<1> SUFFICES ASSUME CountInv, Worker PROVE CountInv'
  OBVIOUS
<1> USE DEF CountInv, QueueBounded, receiver, jitter
<1>1. TypeOK /\ queued = Cardinality(PacketsIn(events)) /\ Packets' = PacketsIn(events')
  BY DEF Packets, PacketsIn
<1>2. events \in Seq(Events) /\ queued \in Nat
  BY <1>1 DEF TypeOK
<1>3. ASSUME NEW kind \in {"open", "close", "stop"}, Take(kind)
      PROVE  events' \in Seq(Events) /\ Cardinality(Packets') = Cardinality(PacketsIn(events))
  <2>1. events # <<>> /\ Head(events).kind # "packet" /\ events' = Tail(events)
    BY <1>3 DEF Take
  <2>2. QED
    BY <1>1, <1>2, <2>1, TakeCounts
<1>4. CASE TakeOpen
  BY <1>1, <1>3, <1>4, FreshBuffer DEF TakeOpen, TypeOK, PlaceInv
<1>5. CASE TakeClose \/ TakeStop
  BY <1>1, <1>3, <1>5 DEF TakeClose, TakeStop, TypeOK, PlaceInv
<1>6. CASE TakePacket
  <2> DEFINE n == Head(events).n
             b == Pushed(n)
  <2>1. /\ events # <<>> /\ Head(events).kind = "packet" /\ n \in Numbers
        /\ events' = Tail(events) /\ queued' = queued - 1
        /\ IF CanPop(b) THEN Drain(b, Place(n))
           ELSE buf' = b /\ next' = Place(n) /\ UNCHANGED <<writing, last>>
    BY <1>6, TakeEffect
  <2>2. IsBuffer(b, Numbers) /\ b.expected # None /\ Place(n) \in Int /\ b.expected = Place(n) % W
    BY <2>1, PushedEffect
  <2>3. events' \in Seq(Events) /\ queued' = Cardinality(Packets')
    BY <1>1, <1>2, <2>1, TakeCounts
  <2>4. queued' \in Nat /\ queued' <= MaxQueue
    <3>1. Cardinality(PacketsIn(events')) \in Nat
      BY <2>3, FinitePackets
    <3>2. QED
      BY <1>1, <1>2, <2>1, <2>3, <3>1, Constants
  <2> HIDE DEF n, b
  <2>5. /\ IsBuffer(buf', Numbers) /\ PlaceInv' /\ next' \in Int
        /\ writing' \in Numbers \cup {Silence, None} /\ last' \in Numbers \cup {None}
    <3>1. CASE CanPop(b)
      BY <1>1, <2>1, <2>2, <3>1, DrainKeepsPlace
    <3>2. CASE ~CanPop(b)
      <4>1. buf' = b /\ next' = Place(n) /\ UNCHANGED <<writing, last>>
        BY <2>1, <3>2
      <4>2. next' # None
        BY <2>2, <4>1, Constants
      <4>3. QED
        BY <1>1, <2>2, <4>1, <4>2 DEF TypeOK, PlaceInv
    <3>3. QED
      BY <3>1, <3>2
  <2>6. UNCHANGED <<receiver, worker, pipe, alive>>
    BY <1>6 DEF TakePacket
  <2>7. TypeOK'
    BY <1>1, <2>3, <2>4, <2>5, <2>6 DEF TypeOK
  <2>8. QED
    BY <2>3, <2>4, <2>5, <2>7
<1>7. CASE DrainStep
  <2>1. /\ buf.expected # None /\ Drain(buf, next)
        /\ UNCHANGED <<receiver, events, queued, worker, pipe, alive>>
    BY <1>7 DEF DrainStep, CanPop
  <2>2. IsBuffer(buf, Numbers) /\ next \in Int /\ buf.expected = next % W
    BY <2>1, KnowsPlace
  <2>3. /\ IsBuffer(buf', Numbers) /\ PlaceInv' /\ next' \in Int
        /\ writing' \in Numbers \cup {Silence, None} /\ last' \in Numbers \cup {None}
    BY <1>1, <2>1, <2>2, DrainKeepsPlace
  <2>4. Packets' = PacketsIn(events)
    BY <1>1, <2>1
  <2>5. TypeOK'
    BY <1>1, <2>1, <2>3 DEF TypeOK
  <2>6. QED
    BY <1>1, <2>1, <2>3, <2>4, <2>5
<1>8. CASE DrainDone \/ WriteFails
  <2>1. Packets' = PacketsIn(events)
    BY <1>1, <1>8 DEF DrainDone, WriteFails
  <2>2. QED
    BY <1>1, <1>8, <2>1 DEF DrainDone, WriteFails, TypeOK, PlaceInv
<1>9. CASE Write
  <2>1. pipe' \in Seq(Numbers \cup {Silence})
    <3>1. pipe \in Seq(Numbers \cup {Silence}) /\ writing \in Numbers \cup {Silence}
      BY <1>1, <1>9 DEF Write, TypeOK
    <3>2. QED
      BY <1>9, <3>1, AppendProperties DEF Write
  <2>2. Packets' = PacketsIn(events)
    BY <1>1, <1>9 DEF Write
  <2>3. QED
    BY <1>1, <1>9, <2>1, <2>2 DEF Write, TypeOK, PlaceInv
<1>10. QED
  BY <1>4, <1>5, <1>6, <1>7, <1>8, <1>9 DEF Worker

\* Every step keeps the count exact.
LEMMA CountStep == CountInv /\ [Next]_vars => CountInv'
<1> SUFFICES ASSUME CountInv, [Next]_vars PROVE CountInv'
  OBVIOUS
<1>1. CASE Protocol \/ \E n \in Numbers : OnPacket(n)
  BY <1>1, ProtocolCounts
<1>2. CASE Worker
  BY <1>2, WorkerCounts
<1>3. CASE Play
  <2>1. pipe' \in Seq(Numbers \cup {Silence})
    BY <1>3, HeadTailProperties DEF Play, CountInv, QueueBounded, TypeOK
  <2>2. UNCHANGED <<receiver, events, queued, worker, jitter, writing, alive, last>>
    BY <1>3 DEF Play
  <2>3. QED
    BY <2>1, <2>2 DEF CountInv, QueueBounded, TypeOK, PlaceInv, Packets, receiver, jitter
<1>4. CASE Exits
  BY <1>4 DEF Exits, CountInv, QueueBounded, TypeOK, PlaceInv, Packets, receiver, jitter
<1>5. CASE UNCHANGED vars
  BY <1>5 DEF vars, CountInv, QueueBounded, TypeOK, PlaceInv, Packets, receiver, jitter
<1>6. QED
  BY <1>1, <1>2, <1>3, <1>4, <1>5 DEF Next, Numbers

\* The count that bounds the queue is the number of packets in it, and stays within the
\* bound whether ffplay reads, stalls or has died: no packet is counted twice or left
\* counted, by either thread.
THEOREM CountStaysExact == Spec => []QueueBounded
<1>1. CountInv => QueueBounded
  BY DEF CountInv
<1>2. QED
  BY CountInit, CountStep, <1>1, PTL DEF Spec

-----------------------------------------------------------------------------
(* Nothing is played twice or out of order *)

\* The packet taken next can be told from its sequence number to be ahead of the next
\* slot or behind it.
InSight ==
    next # None /\ events # <<>> /\ Head(events).kind = "packet" =>
        LET n == Head(events).n IN next - n <= W \div 2 /\ n - next < W \div 2

\* The packets of the queue have been sent, and are in order but for Reorder.
OrderInv ==
    \A i \in PacketsIn(events) :
        /\ events[i].n < seq
        /\ \A j \in PacketsIn(events) : i < j => events[i].n - events[j].n < Reorder

\* What is buffered is under its own low bits, no further ahead than the gap limit.
HeldInv ==
    \A q \in DOMAIN buf.packets :
        LET h == buf.packets[q]
        IN  h % W = q /\ h < seq /\ next <= h /\ h - next <= MaxGap

\* While a buffer that has resumed collects its first frames an earlier packet may still
\* become the first of them.  None that is queued or may still arrive was played.
CollectInv ==
    next # None /\ ~buf.started =>
        /\ DOMAIN buf.packets # {}
        /\ \A i \in PacketsIn(events) :
             /\ \A q \in DOMAIN buf.packets : buf.packets[q] - events[i].n < Reorder
             /\ last # None => last < events[i].n
        /\ last # None => last < seq - Reorder

PlayedInv == last # None => next # None /\ last < next

ReplayInv == OrderInv /\ HeldInv /\ CollectInv /\ PlayedInv

\* The types of what is compared.
LEMMA ReplayTypes ==
    ASSUME CountInv
    PROVE  /\ seq \in Int /\ events \in Seq(Events)
           /\ \A i \in PacketsIn(events) : events[i].n \in Numbers /\ i \in 1 .. Len(events)
           /\ \A q \in DOMAIN buf.packets : buf.packets[q] \in Numbers
           /\ last # None => last \in Numbers
<1>1. events \in Seq(Events) /\ seq \in First .. Last
  BY DEF CountInv, QueueBounded, TypeOK
<1>2. ASSUME NEW i \in PacketsIn(events) PROVE events[i].n \in Numbers /\ i \in 1 .. Len(events)
  <2>1. i \in 1 .. Len(events) /\ events[i].kind = "packet"
    BY <1>1, LenProperties DEF PacketsIn
  <2>2. events[i] \in Events
    BY <1>1, <2>1, ElementOfSeq
  <2>3. QED
    BY <2>1, <2>2 DEF Events
<1>3. QED
  BY <1>1, <1>2, Constants DEF CountInv, QueueBounded, TypeOK, IsBuffer

\* The protocol thread leaves the buffer alone.  A packet it queues is at most Reorder
\* late, and behind all that wait.
LEMMA ProtocolEffect ==
    ASSUME CountInv, Protocol \/ \E n \in Numbers : OnPacket(n)
    PROVE  /\ UNCHANGED <<buf, next, writing, last>> /\ seq' \in Int /\ seq <= seq'
           /\ \A i \in PacketsIn(events') :
                \/ i \in PacketsIn(events) /\ events'[i] = events[i]
                \/ /\ i = Len(events) + 1 /\ events'[i].n \in Numbers
                   /\ events'[i].n < seq' /\ seq - Reorder <= events'[i].n
<1>1. seq \in Int /\ events \in Seq(Events)
  BY ReplayTypes
<1>2. ASSUME NEW e \in Events, events' = Append(events, e), NEW i \in PacketsIn(events')
      PROVE  \/ i \in PacketsIn(events) /\ events'[i] = events[i]
             \/ i = Len(events) + 1 /\ events'[i] = e /\ e.kind = "packet"
  <2>1. /\ events' \in Seq(Events) /\ Len(events') = Len(events) + 1
        /\ \A k \in 1 .. Len(events) : events'[k] = events[k]
        /\ events'[Len(events) + 1] = e
    BY <1>1, <1>2, AppendProperties
  <2>2. /\ DOMAIN events' = 1 .. Len(events) + 1 /\ DOMAIN events = 1 .. Len(events)
        /\ Len(events) \in Nat
    BY <1>1, <2>1, LenProperties
  <2>3. i \in 1 .. Len(events) + 1 /\ events'[i].kind = "packet"
    BY <2>2 DEF PacketsIn
  <2>4. QED
    BY <2>1, <2>2, <2>3 DEF PacketsIn
<1>3. ASSUME NEW kind \in {"open", "close", "stop"}, Put(kind, 0), NEW i \in PacketsIn(events')
      PROVE  i \in PacketsIn(events) /\ events'[i] = events[i]
  <2>1. Event(kind, 0) \in Events /\ Event(kind, 0).kind # "packet"
    BY <1>3 DEF Event, Events
  <2>2. QED
    BY <1>2, <1>3, <2>1 DEF Put
<1>4. CASE GateOpens \/ GateCloses \/ Close
  BY <1>1, <1>3, <1>4 DEF GateOpens, GateCloses, Close, jitter
<1>5. CASE PacketMissed
  BY <1>1, <1>5 DEF PacketMissed, jitter
<1>6. ASSUME NEW n \in Numbers, OnPacket(n)
      PROVE  /\ UNCHANGED <<buf, next, writing, last>> /\ seq' \in Int /\ seq <= seq'
             /\ \A i \in PacketsIn(events') :
                  \/ i \in PacketsIn(events) /\ events'[i] = events[i]
                  \/ /\ i = Len(events) + 1 /\ events'[i].n \in Numbers
                     /\ events'[i].n < seq' /\ seq - Reorder <= events'[i].n
  <2>1. seq' \in Int /\ seq <= seq' /\ n < seq' /\ seq - Reorder <= n
    BY <1>1, <1>6, Constants DEF OnPacket
  <2>2. Event("packet", n) \in Events /\ Event("packet", n).n = n
    BY DEF Event, Events
  <2>3. events' = events \/ events' = Append(events, Event("packet", n))
    BY <1>6 DEF OnPacket, Enqueue, Put
  <2>4. UNCHANGED <<buf, next, writing, last>>
    BY <1>6 DEF OnPacket, jitter
  <2>5. QED
    BY <1>2, <2>1, <2>2, <2>3, <2>4
<1>7. QED
  BY <1>4, <1>5, <1>6 DEF Protocol

\* So what it queues was not played before, and belongs behind what is held.
LEMMA ProtocolKeepsOrder ==
    ASSUME CountInv, ReplayInv, Protocol \/ \E n \in Numbers : OnPacket(n)
    PROVE  ReplayInv'
<1>1. /\ UNCHANGED <<buf, next, last>> /\ seq' \in Int /\ seq <= seq'
      /\ \A i \in PacketsIn(events') :
           \/ i \in PacketsIn(events) /\ events'[i] = events[i]
           \/ /\ i = Len(events) + 1 /\ events'[i].n \in Numbers
              /\ events'[i].n < seq' /\ seq - Reorder <= events'[i].n
  BY ProtocolEffect
<1>2. /\ seq \in Int
      /\ \A i \in PacketsIn(events) : events[i].n \in Int /\ i \in 1 .. Len(events)
      /\ \A q \in DOMAIN buf.packets : buf.packets[q] \in Int
      /\ last # None => last \in Int
  <2>1. \A x \in Numbers : x \in Int
    BY Constants
  <2>2. QED
    BY <2>1, ReplayTypes
<1>3. Len(events) \in Nat /\ Reorder \in Int /\ \A x \in Numbers : x \in Int
  BY ReplayTypes, LenProperties, Constants
<1>4. OrderInv'
  <2> SUFFICES ASSUME NEW i \in PacketsIn(events')
               PROVE  /\ events'[i].n < seq'
                      /\ \A j \in PacketsIn(events') :
                           i < j => events'[i].n - events'[j].n < Reorder
    BY DEF OrderInv
  <2>1. events'[i].n < seq'
    BY <1>1, <1>2 DEF ReplayInv, OrderInv
  <2>2. ASSUME NEW j \in PacketsIn(events'), i < j PROVE events'[i].n - events'[j].n < Reorder
    <3>1. i \in PacketsIn(events) /\ events'[i] = events[i] /\ events[i].n < seq
      BY <1>1, <1>2, <1>3, <2>2 DEF ReplayInv, OrderInv
    <3>2. CASE j \in PacketsIn(events) /\ events'[j] = events[j]
      BY <2>2, <3>1, <3>2 DEF ReplayInv, OrderInv
    <3>3. CASE events'[j].n \in Numbers /\ seq - Reorder <= events'[j].n
      <4>1. events[i].n \in Int /\ events'[j].n \in Int
        BY <1>2, <1>3, <3>1, <3>3
      <4>2. QED
        BY <1>2, <1>3, <3>1, <3>3, <4>1
    <3>4. QED
      BY <1>1, <3>2, <3>3
  <2>3. QED
    BY <2>1, <2>2
<1>5. HeldInv'
  BY <1>1, <1>2 DEF ReplayInv, HeldInv
<1>6. CollectInv'
  <2> SUFFICES ASSUME next # None, ~buf.started
               PROVE  /\ DOMAIN buf.packets # {}
                      /\ \A i \in PacketsIn(events') :
                           /\ \A q \in DOMAIN buf.packets : buf.packets[q] - events'[i].n < Reorder
                           /\ last # None => last < events'[i].n
                      /\ last # None => last < seq' - Reorder
    BY <1>1 DEF CollectInv
  <2>1. DOMAIN buf.packets # {} /\ (last # None => last < seq - Reorder)
    BY DEF ReplayInv, CollectInv
  <2>2. last # None => last < seq' - Reorder
    BY <1>1, <1>2, <1>3, <2>1
  <2>3. ASSUME NEW i \in PacketsIn(events')
        PROVE  /\ \A q \in DOMAIN buf.packets : buf.packets[q] - events'[i].n < Reorder
               /\ last # None => last < events'[i].n
    <3>1. CASE i \in PacketsIn(events) /\ events'[i] = events[i]
      BY <3>1 DEF ReplayInv, CollectInv
    <3>2. CASE events'[i].n \in Numbers /\ seq - Reorder <= events'[i].n
      <4>1. ASSUME NEW q \in DOMAIN buf.packets PROVE buf.packets[q] - events'[i].n < Reorder
        <5>1. buf.packets[q] < seq
          BY DEF ReplayInv, HeldInv
        <5>2. buf.packets[q] \in Int /\ events'[i].n \in Int
          BY <1>2, <1>3, <3>2
        <5>3. QED
          BY <1>2, <1>3, <3>2, <5>1, <5>2
      <4>2. last # None => last < events'[i].n
        <5>1. events'[i].n \in Int
          BY <1>3, <3>2
        <5>2. QED
          BY <1>2, <1>3, <2>1, <3>2, <5>1
      <4>3. QED
        BY <4>1, <4>2
    <3>3. QED
      BY <1>1, <3>1, <3>2
  <2>4. QED
    BY <2>1, <2>2, <2>3
<1>7. PlayedInv'
  BY <1>1 DEF ReplayInv, PlayedInv
<1>8. QED
  BY <1>4, <1>5, <1>6, <1>7 DEF ReplayInv

\* What stays in the queue when its head is taken was behind it.
LEMMA RestOfQueue ==
    ASSUME CountInv, ReplayInv, events # <<>>
    PROVE  /\ \A i \in PacketsIn(Tail(events)) :
                i + 1 \in PacketsIn(events) /\ events[i + 1] = Tail(events)[i]
           /\ Head(events).kind = "packet" =>
                /\ Head(events).n \in Numbers /\ Head(events).n < seq
                /\ 1 \in PacketsIn(events) /\ events[1] = Head(events)
                /\ \A i \in PacketsIn(Tail(events)) :
                     Head(events).n - Tail(events)[i].n < Reorder
           /\ \A i, j \in PacketsIn(Tail(events)) :
                /\ Tail(events)[i].n < seq
                /\ i < j => Tail(events)[i].n - Tail(events)[j].n < Reorder
<1>1. events \in Seq(Events)
  BY ReplayTypes
<1>2. /\ Head(events).kind = "packet" <=> 1 \in PacketsIn(events)
      /\ \A i \in PacketsIn(Tail(events)) :
           i + 1 \in PacketsIn(events) /\ events[i + 1] = Tail(events)[i]
  BY <1>1, TakeCounts
<1>3. Head(events) = events[1]
  OBVIOUS
<1>4. \A i \in PacketsIn(Tail(events)) : i \in Nat \ {0}
  <2>1. Tail(events) \in Seq(Events)
    BY <1>1, HeadTailProperties
  <2>2. DOMAIN Tail(events) = 1 .. Len(Tail(events)) /\ Len(Tail(events)) \in Nat
    BY <2>1, LenProperties
  <2>3. QED
    BY <2>2 DEF PacketsIn
<1>5. ASSUME NEW i \in PacketsIn(Tail(events)), NEW j \in PacketsIn(Tail(events))
      PROVE  /\ Tail(events)[i].n < seq
             /\ i < j => Tail(events)[i].n - Tail(events)[j].n < Reorder
  <2>1. i < j => i + 1 < j + 1
    BY <1>4
  <2>2. QED
    BY <1>2, <2>1 DEF ReplayInv, OrderInv
<1>6. CASE Head(events).kind = "packet"
  <2>1. 1 \in PacketsIn(events) /\ events[1] = Head(events)
    BY <1>2, <1>3, <1>6
  <2>2. Head(events).n \in Numbers
    BY <2>1, ReplayTypes
  <2>3. Head(events).n < seq
    BY <2>1 DEF ReplayInv, OrderInv
  <2>4. ASSUME NEW i \in PacketsIn(Tail(events))
        PROVE  Head(events).n - Tail(events)[i].n < Reorder
    <3>1. 1 < i + 1
      BY <1>4
    <3>2. QED
      BY <1>2, <2>1, <3>1 DEF ReplayInv, OrderInv
  <2>5. QED
    BY <1>2, <1>5, <2>1, <2>2, <2>3, <2>4
<1>7. CASE Head(events).kind # "packet"
  BY <1>2, <1>5, <1>7
<1>8. QED
  BY <1>6, <1>7

\* A queue that has lost its head is still in order.
LEMMA TakeKeepsOrder ==
    ASSUME CountInv, ReplayInv, events # <<>>, events' = Tail(events), seq' = seq
    PROVE  OrderInv'
  BY RestOfQueue DEF OrderInv

\* A buffer with whose next slot is that of n plays n or silence, and n was not played.
LEMMA DrainPlays ==
    ASSUME CountInv, UNCHANGED seq,
           NEW b, IsBuffer(b, Numbers), b.expected # None,
           NEW n \in Int, b.expected = n % W, Drain(b, n),
           \A q \in DOMAIN b.packets :
               LET h == b.packets[q] IN h % W = q /\ h < seq /\ n <= h /\ h - n <= MaxGap,
           last # None => last < n
    PROVE  /\ HeldInv' /\ CollectInv' /\ PlayedInv'
           /\ writing' \in Numbers => last = None \/ writing' > last
<1>1. /\ buf' = Pop(b) /\ next' = n + 1
      /\ writing' = IF Concealed(b) THEN Silence ELSE b.packets[b.expected]
      /\ last' = IF Concealed(b) THEN last ELSE b.packets[b.expected]
  BY DEF Drain
<1>2. /\ buf'.started = TRUE
      /\ DOMAIN buf'.packets = DOMAIN b.packets \ {b.expected}
      /\ \A q \in DOMAIN buf'.packets : buf'.packets[q] = b.packets[q]
  BY <1>1, PopEffect
<1>3. \A q \in DOMAIN b.packets : b.packets[q] \in Int
  BY Constants DEF IsBuffer
<1>4. W \in Nat /\ MaxGap < W /\ MaxGap \in Nat
  BY Width, Constants
<1>5. ~Concealed(b) => b.packets[b.expected] = n
  <2> SUFFICES ASSUME ~Concealed(b) PROVE b.packets[b.expected] = n
    OBVIOUS
  <2> DEFINE h == b.packets[b.expected]
  <2>1. h \in Int /\ h % W = n % W /\ n <= h /\ h - n <= MaxGap
    BY <1>3 DEF Concealed
  <2> HIDE DEF h
  <2>2. h - n < W /\ n - h < W
    BY <1>4, <2>1
  <2>3. h = n
    BY <2>1, <2>2, SameSlot
  <2>4. QED
    BY <2>3 DEF h
<1>6. n # None /\ n + 1 # None /\ (last # None => last \in Int) /\ Silence \notin Numbers
  <2>1. \A x \in Numbers : x \in Int
    BY Constants
  <2>2. n + 1 \in Int
    OBVIOUS
  <2>3. n # None /\ n + 1 # None /\ Silence \notin Numbers
    BY <2>1, <2>2, Constants
  <2>4. QED
    BY <2>1, <2>3, ReplayTypes
<1>7. HeldInv'
  <2> SUFFICES ASSUME NEW q \in DOMAIN buf'.packets
               PROVE  LET h == buf'.packets[q]
                      IN  h % W = q /\ h < seq' /\ next' <= h /\ h - next' <= MaxGap
    BY DEF HeldInv
  <2> DEFINE h == b.packets[q]
  <2>1. q \in DOMAIN b.packets /\ q # n % W /\ buf'.packets[q] = h
    BY <1>2
  <2>2. h \in Int /\ h % W = q /\ h < seq /\ n <= h /\ h - n <= MaxGap
    BY <1>3, <2>1
  <2> HIDE DEF h
  <2>3. h # n
    BY <2>1, <2>2
  <2>4. n + 1 <= h /\ h - (n + 1) <= MaxGap
    BY <1>4, <2>2, <2>3
  <2>5. QED
    BY <1>1, <2>1, <2>2, <2>4
<1>8. CollectInv'
  BY <1>2 DEF CollectInv
<1>9. PlayedInv' /\ (writing' \in Numbers => last = None \/ writing' > last)
  <2>1. CASE Concealed(b)
    <3>1. last # None => last < n + 1
      BY <1>6
    <3>2. QED
      BY <1>1, <1>6, <2>1, <3>1 DEF PlayedInv
  <2>2. CASE ~Concealed(b)
    <3>1. writing' = n /\ last' = n
      BY <1>1, <1>5, <2>2
    <3>2. last = None \/ n > last
      BY <1>6
    <3>3. n < n + 1
      OBVIOUS
    <3>4. QED
      BY <1>1, <1>6, <3>1, <3>2, <3>3 DEF PlayedInv
  <2>3. QED
    BY <2>1, <2>2
<1>10. QED
  BY <1>7, <1>8, <1>9

\* A slot is at no distance from itself.
LEMMA Zero == \A k \in Sequences : ForwardDistance(k, k) = 0
<1> SUFFICES ASSUME NEW k \in Sequences PROVE ForwardDistance(k, k) = 0
  OBVIOUS
<1>1. W \in Nat \ {0} /\ k \in Int
  BY Width DEF Sequences
<1>2. (W * 0 + 0) % W = 0
  BY <1>1, Remainder
<1>3. k - k = 0 /\ W * 0 + 0 = 0
  BY <1>1
<1>4. QED
  BY <1>2, <1>3 DEF ForwardDistance

\* A packet in sight that is pushed is put on its own number; one that makes the buffer
\* start again is further ahead than anything that was played or held.
LEMMA PushedInOrder ==
    ASSUME CountInv, ReplayInv, InSight, events # <<>>, Head(events).kind = "packet"
    PROVE  LET b == Pushed(Head(events).n)
               p == Place(Head(events).n)
           IN  /\ \A q \in DOMAIN b.packets :
                    LET h == b.packets[q] IN h % W = q /\ h < seq /\ p <= h /\ h - p <= MaxGap
               /\ last # None => last < p
               /\ ~b.started =>
                    /\ DOMAIN b.packets # {}
                    /\ \A i \in PacketsIn(Tail(events)) :
                         /\ \A q \in DOMAIN b.packets : b.packets[q] - Tail(events)[i].n < Reorder
                         /\ last # None => last < Tail(events)[i].n
                    /\ last # None => last < seq - Reorder
<1> DEFINE n == Head(events).n
           q == n % W
           b == Pushed(n)
           p == Place(n)
           rest == Tail(events)
           Single == Push(Fresh, q, n)
<1> SUFFICES /\ \A k \in DOMAIN b.packets :
                  LET h == b.packets[k] IN h % W = k /\ h < seq /\ p <= h /\ h - p <= MaxGap
             /\ last # None => last < p
             /\ ~b.started =>
                  /\ DOMAIN b.packets # {}
                  /\ \A i \in PacketsIn(rest) :
                       /\ \A k \in DOMAIN b.packets : b.packets[k] - rest[i].n < Reorder
                       /\ last # None => last < rest[i].n
                  /\ last # None => last < seq - Reorder
  OBVIOUS
<1>1. /\ n \in Numbers /\ n < seq /\ 1 \in PacketsIn(events) /\ events[1].n = n
      /\ \A i \in PacketsIn(rest) : n - rest[i].n < Reorder
      /\ \A i \in PacketsIn(rest) : i + 1 \in PacketsIn(events) /\ events[i + 1] = rest[i]
  BY RestOfQueue
<1>2. \A x \in Numbers : x \in Int
  BY Constants
<1>3. /\ n \in Int /\ seq \in Int /\ Reorder \in Nat /\ MaxGap \in Nat /\ Reorder <= MaxGap
      /\ W \in Nat \ {0} /\ W \div 2 \in Nat /\ W = 2 * (W \div 2) /\ MaxGap < W \div 2
      /\ q \in Sequences /\ q # None
  BY <1>1, <1>2, Constants, Width, ReplayTypes
<1>4. /\ \A i \in PacketsIn(rest) : rest[i].n \in Int
      /\ \A k \in DOMAIN buf.packets : buf.packets[k] \in Int
      /\ last # None => last \in Int
  BY <1>1, <1>2, ReplayTypes
<1>5. /\ Single.expected = q /\ Single.started = FALSE
      /\ DOMAIN Single.packets = {q} /\ Single.packets[q] = n
  <2>1. Accepted(Fresh, q)
    BY <1>3, FreshBuffer
  <2>2. QED
    BY <1>1, <2>1, FreshBuffer, PushEffect
<1>6. IsBuffer(buf, Numbers)
  BY KnowsPlace
<1> HIDE DEF Single, q, n, rest
\* An empty buffer.
<1>7. CASE next = None
  <2>1. buf = Fresh /\ last = None
    BY <1>7 DEF CountInv, PlaceInv, ReplayInv, PlayedInv
  <2>2. b = Single
    <3>1. ~Discontinuous(buf, q)
      BY <2>1, FreshBuffer DEF Discontinuous
    <3>2. QED
      BY <2>1, <3>1 DEF Pushed, TooFar, Single, q
  <2>3. p = n
    BY <1>3, <1>5, <2>1, <2>2, FreshBuffer DEF Place
  <2> HIDE DEF b, p
  <2>4. n % W = q /\ n <= n /\ n - n <= MaxGap
    BY <1>3 DEF q
  <2>5. QED
    BY <1>1, <1>5, <2>1, <2>2, <2>3, <2>4
<1>8. ASSUME next # None
      PROVE  /\ next \in Int /\ buf.expected = next % W /\ buf.expected # None
             /\ next - n <= W \div 2 /\ n - next < W \div 2
             /\ \A k \in DOMAIN buf.packets :
                  LET h == buf.packets[k]
                  IN  h \in Int /\ h % W = k /\ h < seq /\ next <= h /\ h - next <= MaxGap
             /\ last # None => last < next
  BY <1>4, <1>8, KnowsPlace DEF InSight, ReplayInv, HeldInv, PlayedInv, n
\* While the first frames are collected, whatever is held is not far ahead of the queue.
<1>9. ASSUME next # None, ~buf.started
      PROVE  /\ DOMAIN buf.packets # {}
             /\ \A k \in DOMAIN buf.packets : buf.packets[k] - n < Reorder
             /\ last # None => last < n
             /\ \A i \in PacketsIn(rest) :
                  /\ \A k \in DOMAIN buf.packets : buf.packets[k] - rest[i].n < Reorder
                  /\ last # None => last < rest[i].n
             /\ last # None => last < seq - Reorder
  BY <1>1, <1>9 DEF ReplayInv, CollectInv
<1>10. ASSUME next # None, n < next
       PROVE  /\ ForwardDistance(q, buf.expected) = n - next + W
              /\ ForwardDistance(q, buf.expected) >= W \div 2
              /\ ForwardDistance(buf.expected, q) = next - n
              /\ q # buf.expected
  <2>1. next \in Int /\ buf.expected = next % W /\ next - n <= W \div 2
    BY <1>8, <1>10
  <2>2. /\ -W <= n - next /\ n - next < 0 /\ 0 <= next - n /\ next - n < W
        /\ n - next + W >= W \div 2
    BY <1>3, <1>10, <2>1
  <2>3. /\ ForwardDistance(q, buf.expected) = n - next + W
        /\ ForwardDistance(buf.expected, q) = next - n
    BY <1>3, <2>1, <2>2, Distance DEF q
  <2>4. q # buf.expected
    <3> SUFFICES ASSUME q = buf.expected PROVE FALSE
      OBVIOUS
    <3>1. n % W = next % W /\ n - next < W /\ next - n < W
      BY <1>3, <2>1, <2>2 DEF q
    <3>2. n = next
      BY <1>3, <2>1, <3>1, SameSlot
    <3>3. QED
      BY <1>3, <1>10, <2>1, <3>2
  <2>5. QED
    BY <2>2, <2>3, <2>4
<1>11. ASSUME next # None, next <= n
       PROVE  /\ ForwardDistance(q, buf.expected) = n - next
              /\ ForwardDistance(q, buf.expected) < W \div 2
  <2>1. next \in Int /\ buf.expected = next % W /\ n - next < W \div 2
    BY <1>8, <1>11
  <2>2. 0 <= n - next /\ n - next < W
    BY <1>3, <1>11, <2>1
  <2>3. ForwardDistance(q, buf.expected) = n - next
    BY <1>3, <2>1, <2>2, Distance DEF q
  <2>4. QED
    BY <2>1, <2>3
\* The buffer starts again.
<1>12. CASE next # None /\ Discontinuous(buf, q) /\ ~Duplicate(buf, q)
  <2>1. next <= n /\ n - next > MaxGap
    <3>1. CASE next <= n
      BY <1>11, <1>12, <3>1 DEF Discontinuous
    <3>2. CASE n < next
      <4>1. ~buf.started /\ next - n > MaxGap
        BY <1>3, <1>8, <1>10, <1>12, <3>2 DEF Discontinuous
      <4>2. PICK k \in DOMAIN buf.packets : TRUE
        BY <1>9, <1>12, <4>1
      <4>3. buf.packets[k] - n < Reorder /\ next <= buf.packets[k] /\ buf.packets[k] \in Int
        BY <1>8, <1>9, <1>12, <4>1
      <4>4. next \in Int
        BY <1>8, <1>12
      <4>5. QED
        BY <1>3, <4>1, <4>3, <4>4
    <3>3. QED
      BY <1>3, <1>8, <1>12, <3>1, <3>2
  <2>2. b = Single
    BY <1>12 DEF Pushed, TooFar, Resume, Single, q
  <2>3. p = n
    <3>1. ForwardDistance(q, buf.expected) # 0
      BY <1>3, <1>8, <1>11, <1>12, <2>1
    <3>2. q # buf.expected
      BY <1>3, <3>1, Zero DEF Sequences
    <3>3. QED
      BY <1>5, <2>2, <3>2 DEF Place
  <2>4. last # None => last < n - Reorder /\ last < n /\ last < seq - Reorder
    BY <1>1, <1>3, <1>4, <1>8, <1>12, <2>1
  <2>5. ASSUME NEW i \in PacketsIn(rest)
        PROVE  n - rest[i].n < Reorder /\ (last # None => last < rest[i].n)
    <3>1. rest[i].n \in Int /\ n - rest[i].n < Reorder
      BY <1>1, <1>4
    <3>2. last # None => last < rest[i].n
      BY <1>3, <1>4, <2>4, <3>1
    <3>3. QED
      BY <3>1, <3>2
  <2> HIDE DEF b, p
  <2>6. n % W = q /\ n <= n /\ n - n <= MaxGap
    BY <1>3 DEF q
  <2>7. QED
    BY <1>1, <1>5, <2>2, <2>3, <2>4, <2>5, <2>6
<1>13. CASE next # None /\ ~(Discontinuous(buf, q) /\ ~Duplicate(buf, q))
  <2>1. b = Push(buf, q, n)
    BY <1>13 DEF Pushed, TooFar, q
  <2>2. CASE ~Accepted(buf, q)
    <3>1. b = buf
      BY <1>1, <1>6, <2>1, <2>2, PushEffect DEF q
    <3>2. p = next
      BY <3>1 DEF Place
    <3> HIDE DEF b, p
    <3>3. QED
      BY <1>8, <1>9, <1>13, <3>1, <3>2
  <2>3. CASE Accepted(buf, q)
    <3>1. /\ b.started = buf.started
          /\ DOMAIN b.packets = DOMAIN buf.packets \cup {q} /\ b.packets[q] = n
          /\ \A k \in DOMAIN buf.packets : b.packets[k] = buf.packets[k]
          /\ b.expected = IF ForwardDistance(q, buf.expected) >= W \div 2 THEN q ELSE buf.expected
      BY <1>1, <1>6, <1>8, <1>13, <2>1, <2>3, PushEffect DEF q
    <3>2. /\ p \in Int /\ (last # None => last < p)
          /\ p <= next /\ p <= n /\ n - p <= MaxGap
          /\ \A k \in DOMAIN buf.packets : buf.packets[k] - p <= MaxGap
      <4>1. CASE next <= n
        <5>1. ForwardDistance(q, buf.expected) = n - next /\ n - next < W \div 2
          BY <1>11, <1>13, <4>1
        <5>2. n - next <= MaxGap
          <6>1. ~(ForwardDistance(q, buf.expected) > MaxGap)
            BY <1>8, <1>11, <1>13, <2>3, <4>1 DEF Accepted, Discontinuous
          <6>2. next \in Int
            BY <1>8, <1>13
          <6>3. QED
            BY <1>3, <5>1, <6>1, <6>2
        <5>3. ~(n - next >= W \div 2)
          BY <1>3, <1>8, <1>13, <5>1
        <5>4. b.expected = buf.expected
          BY <3>1, <5>1, <5>3
        <5>5. p = next
          BY <5>4 DEF Place
        <5> HIDE DEF p
        <5>6. next <= next
          BY <1>8, <1>13
        <5>7. QED
          BY <1>8, <1>13, <4>1, <5>2, <5>5, <5>6
      <4>2. CASE n < next
        <5>1. ForwardDistance(q, buf.expected) >= W \div 2 /\ q # buf.expected
          BY <1>10, <1>13, <4>2
        <5>2. ~buf.started
          BY <2>3, <5>1 DEF Accepted, Late
        <5>3. p = n
          BY <3>1, <5>1 DEF Place
        <5>4. last # None => last < n
          BY <1>9, <1>13, <5>2
        <5>5. \A k \in DOMAIN buf.packets : buf.packets[k] - n <= MaxGap
          BY <1>3, <1>4, <1>9, <1>13, <5>2
        <5>6. n <= next /\ n <= n /\ n - n <= MaxGap
          BY <1>3, <1>8, <1>13, <4>2
        <5> HIDE DEF p
        <5>7. QED
          BY <1>3, <5>3, <5>4, <5>5, <5>6
      <4>3. QED
        BY <1>3, <1>8, <1>13, <4>1, <4>2
    <3> HIDE DEF b, p
    <3>3. ASSUME NEW k \in DOMAIN b.packets
          PROVE  LET h == b.packets[k] IN h % W = k /\ h < seq /\ p <= h /\ h - p <= MaxGap
      <4>1. CASE k = q
        BY <1>1, <3>1, <3>2, <4>1 DEF q
      <4>2. CASE k \in DOMAIN buf.packets
        <5>1. /\ buf.packets[k] \in Int /\ buf.packets[k] % W = k /\ buf.packets[k] < seq
              /\ next <= buf.packets[k] /\ next \in Int
          BY <1>8, <1>13, <4>2
        <5>2. p <= buf.packets[k]
          BY <3>2, <5>1
        <5>3. QED
          BY <3>1, <3>2, <4>2, <5>1, <5>2
      <4>3. QED
        BY <3>1, <4>1, <4>2
    <3>4. ASSUME ~b.started
          PROVE  /\ DOMAIN b.packets # {}
                 /\ \A i \in PacketsIn(rest) :
                      /\ \A k \in DOMAIN b.packets : b.packets[k] - rest[i].n < Reorder
                      /\ last # None => last < rest[i].n
                 /\ last # None => last < seq - Reorder
      BY <1>1, <1>9, <1>13, <3>1, <3>4
    <3>5. QED
      BY <3>2, <3>3, <3>4
  <2>4. QED
    BY <2>2, <2>3
<1>14. QED
  BY <1>7, <1>12, <1>13

\* What the worker does keeps the order, and what it plays is new.
LEMMA WorkerKeepsOrder ==
    ASSUME CountInv, ReplayInv, InSight, Worker
    PROVE  /\ ReplayInv'
           /\ writing' # writing /\ writing' \in Numbers => last = None \/ writing' > last
<1> DEFINE New == writing' # writing /\ writing' \in Numbers => last = None \/ writing' > last
<1> SUFFICES ReplayInv' /\ New
  OBVIOUS
<1> USE DEF receiver, jitter
<1>1. None \notin Numbers /\ Silence \notin Numbers
  <2>1. \A x \in Numbers : x \in Int
    BY Constants
  <2>2. QED
    BY <2>1, Constants
<1>2. ASSUME events # <<>>, events' = Tail(events), UNCHANGED <<buf, next, last, seq>>
      PROVE  ReplayInv'
  <2>1. OrderInv'
    BY <1>2, TakeKeepsOrder
  <2>2. \A i \in PacketsIn(events') : i + 1 \in PacketsIn(events) /\ events[i + 1] = events'[i]
    BY <1>2, RestOfQueue
  <2>3. HeldInv' /\ PlayedInv'
    BY <1>2 DEF ReplayInv, HeldInv, PlayedInv
  <2>4. CollectInv'
    BY <1>2, <2>2 DEF ReplayInv, CollectInv
  <2>5. QED
    BY <2>1, <2>3, <2>4 DEF ReplayInv
<1>3. CASE TakeOpen
  <2>1. /\ events # <<>> /\ events' = Tail(events)
        /\ buf' = Fresh /\ next' = None /\ last' = None /\ seq' = seq /\ writing' = writing
    BY <1>3 DEF TakeOpen, Take
  <2>2. OrderInv'
    BY <2>1, TakeKeepsOrder
  <2>3. HeldInv' /\ CollectInv' /\ PlayedInv'
    BY <2>1, FreshBuffer DEF HeldInv, CollectInv, PlayedInv
  <2>4. QED
    BY <2>1, <2>2, <2>3 DEF ReplayInv
<1>4. CASE TakeClose \/ TakeStop
  BY <1>2, <1>4 DEF TakeClose, TakeStop, Take
<1>5. CASE TakePacket
  <2> DEFINE n == Head(events).n
             b == Pushed(n)
             p == Place(n)
  <2>1. /\ events # <<>> /\ Head(events).kind = "packet" /\ n \in Numbers
        /\ events' = Tail(events)
        /\ IF CanPop(b) THEN Drain(b, p)
           ELSE buf' = b /\ next' = p /\ UNCHANGED <<writing, last>>
    BY <1>5, TakeEffect
  <2>2. seq' = seq
    BY <1>5 DEF TakePacket
  <2>3. IsBuffer(b, Numbers) /\ b.expected # None /\ p \in Int /\ b.expected = p % W
    BY <2>1, PushedEffect
  <2>4. /\ \A k \in DOMAIN b.packets :
             LET h == b.packets[k] IN h % W = k /\ h < seq /\ p <= h /\ h - p <= MaxGap
        /\ last # None => last < p
        /\ ~b.started =>
             /\ DOMAIN b.packets # {}
             /\ \A i \in PacketsIn(Tail(events)) :
                  /\ \A k \in DOMAIN b.packets : b.packets[k] - Tail(events)[i].n < Reorder
                  /\ last # None => last < Tail(events)[i].n
             /\ last # None => last < seq - Reorder
    BY <2>1, PushedInOrder
  <2>5. OrderInv'
    BY <2>1, <2>2, TakeKeepsOrder
  <2> HIDE DEF n, b, p
  <2>6. CASE CanPop(b)
    BY <2>1, <2>2, <2>3, <2>4, <2>5, <2>6, DrainPlays DEF ReplayInv
  <2>7. CASE ~CanPop(b)
    <3>1. buf' = b /\ next' = p /\ writing' = writing /\ last' = last
      BY <2>1, <2>7
    <3>2. HeldInv'
      BY <2>2, <2>4, <3>1 DEF HeldInv
    <3>3. CollectInv'
      BY <2>1, <2>2, <2>4, <3>1 DEF CollectInv
    <3>4. PlayedInv'
      BY <2>3, <2>4, <3>1, Constants DEF PlayedInv
    <3>5. QED
      BY <2>5, <3>1, <3>2, <3>3, <3>4 DEF ReplayInv
  <2>8. QED
    BY <2>6, <2>7
<1>6. CASE DrainStep
  <2>1. buf.expected # None /\ Drain(buf, next) /\ UNCHANGED <<receiver, events>>
    BY <1>6 DEF DrainStep, CanPop
  <2>2. IsBuffer(buf, Numbers) /\ next \in Int /\ buf.expected = next % W
    BY <2>1, KnowsPlace
  <2>3. /\ \A k \in DOMAIN buf.packets :
             LET h == buf.packets[k] IN h % W = k /\ h < seq /\ next <= h /\ h - next <= MaxGap
        /\ last # None => last < next
    BY DEF ReplayInv, HeldInv, PlayedInv
  <2>4. /\ HeldInv' /\ CollectInv' /\ PlayedInv'
        /\ writing' \in Numbers => last = None \/ writing' > last
    BY <2>1, <2>2, <2>3, DrainPlays
  <2>5. OrderInv'
    BY <2>1 DEF ReplayInv, OrderInv
  <2>6. QED
    BY <2>4, <2>5 DEF ReplayInv
<1>7. CASE DrainDone \/ Write \/ WriteFails
  <2>1. UNCHANGED <<buf, next, last, seq, events>> /\ writing' \in {Silence, None}
    BY <1>7 DEF DrainDone, Write, WriteFails
  <2>2. ReplayInv'
    BY <2>1 DEF ReplayInv, OrderInv, HeldInv, CollectInv, PlayedInv
  <2>3. QED
    BY <1>1, <2>1, <2>2
<1>8. QED
  BY <1>3, <1>4, <1>5, <1>6, <1>7 DEF Worker

\* Neither thread, nor ffplay, disturbs the order.
LEMMA ReplayStep ==
    ASSUME CountInv, ReplayInv, InSight, [Next]_vars
    PROVE  /\ ReplayInv'
           /\ writing' # writing /\ writing' \in Numbers => last = None \/ writing' > last
<1>1. CASE Protocol \/ \E n \in Numbers : OnPacket(n)
  BY <1>1, ProtocolKeepsOrder, ProtocolEffect
<1>2. CASE Worker
  BY <1>2, WorkerKeepsOrder
<1>3. CASE Play \/ Exits \/ UNCHANGED vars
  <2>1. UNCHANGED <<buf, next, last, seq, events, writing>>
    BY <1>3 DEF Play, Exits, vars, receiver, jitter
  <2>2. QED
    BY <2>1 DEF ReplayInv, OrderInv, HeldInv, CollectInv, PlayedInv
<1>4. QED
  BY <1>1, <1>2, <1>3 DEF Next, Numbers

LEMMA ReplayInit == Init => ReplayInv
<1> SUFFICES ASSUME Init PROVE ReplayInv
  OBVIOUS
<1>1. events = <<>> /\ buf = Fresh /\ next = None /\ last = None
  BY DEF Init
<1>2. PacketsIn(events) = {}
  BY <1>1 DEF PacketsIn
<1>3. QED
  BY <1>1, <1>2, FreshBuffer DEF ReplayInv, OrderInv, HeldInv, CollectInv, PlayedInv


\* Within a gate session nothing is written twice and nothing out of order, although full
\* queues tear gaps and the buffer starts again behind them: as long as the packet the
\* worker takes is within half of the sequence space of the buffer's next slot, which is
\* what 16 bits can tell apart.
THEOREM ReplaysNothing == Spec /\ []InSight => NothingReplayed
<1> DEFINE New == writing' # writing /\ writing' \in Numbers => last = None \/ writing' > last
<1>1. Init => CountInv /\ ReplayInv
  BY CountInit, ReplayInit
<1>2. CountInv /\ ReplayInv /\ InSight /\ [Next]_vars => CountInv' /\ ReplayInv' /\ [New]_vars
  BY CountStep, ReplayStep
<1>3. Spec /\ []InSight => [][New]_vars
  BY <1>1, <1>2, PTL DEF Spec
<1>4. QED
  BY <1>3 DEF NothingReplayed

-----------------------------------------------------------------------------
(* A short stream stays in sight *)

\* The stream of the sender, the packets that arrive late or again and those in the queue
\* fit into half of the sequence space.
ShortStream == Last - First + Strays + MaxQueue <= W \div 2

\* Each packet that is taken moves the next slot by one at most.  It was new, and the
\* sender moved as well, or it was late or came again, or it was in the queue already when
\* the buffer started.
AheadInv ==
    next # None => First <= next /\ next + queued <= seq + strays + MaxQueue

LEMMA AheadInSight == ShortStream /\ CountInv /\ AheadInv => InSight
<1> SUFFICES ASSUME ShortStream, CountInv, AheadInv,
                    next # None, events # <<>>, Head(events).kind = "packet"
             PROVE  /\ next - Head(events).n <= W \div 2
                    /\ Head(events).n - next < W \div 2
  BY DEF InSight
<1>1. Head(events).n \in First .. Last - 1
  <2>1. events \in Seq(Events)
    BY ReplayTypes
  <2>2. Head(events) \in Events
    BY <2>1, HeadTailProperties
  <2>3. QED
    BY <2>2 DEF Events, Numbers
<1>2. /\ seq \in Int /\ seq <= Last /\ strays \in Int /\ strays <= Strays
      /\ queued \in Nat /\ next \in Int
  BY KnowsPlace, Constants DEF CountInv, QueueBounded, TypeOK
<1>3. First <= next /\ next + queued <= seq + strays + MaxQueue
  BY DEF AheadInv
<1>4. /\ First \in Nat /\ Last \in Nat /\ Strays \in Nat /\ MaxQueue \in Nat \ {0}
      /\ W \div 2 \in Nat /\ Last - First + Strays + MaxQueue <= W \div 2
  BY Constants, Width DEF ShortStream
<1>5. ASSUME NEW n \in First .. Last - 1 PROVE next - n <= W \div 2 /\ n - next < W \div 2
  <2> DEFINE half == W \div 2
  <2>1. half \in Nat /\ Last - First + Strays + MaxQueue <= half
    BY <1>4
  <2> HIDE DEF half
  <2>2. next - n <= half /\ n - next < half
    BY <1>2, <1>3, <1>4, <2>1
  <2>3. QED
    BY <2>2 DEF half
<1>6. QED
  BY <1>1, <1>5

LEMMA AheadStep ==
    ASSUME CountInv, ReplayInv, AheadInv, [Next]_vars
    PROVE  AheadInv'
<1>1. /\ seq \in Int /\ strays \in Nat /\ queued \in Nat /\ queued <= MaxQueue
      /\ next # None => next \in Int /\ First <= next /\ next + queued <= seq + strays + MaxQueue
  BY KnowsPlace, Constants DEF CountInv, QueueBounded, TypeOK, AheadInv
<1>2. First \in Int /\ MaxQueue \in Nat /\ None \notin Int
  BY Constants
<1> USE DEF receiver, jitter
<1>3. CASE GateOpens \/ GateCloses \/ Close
  BY <1>3 DEF GateOpens, GateCloses, Close, AheadInv
<1>4. CASE PacketMissed
  BY <1>1, <1>2, <1>4 DEF PacketMissed, AheadInv
<1>5. ASSUME NEW n \in Numbers, OnPacket(n) PROVE AheadInv'
  <2>1. next' = next /\ (queued' = queued \/ queued' = queued + 1)
    BY <1>5 DEF OnPacket, Enqueue
  <2>2. \/ seq' = seq + 1 /\ strays' = strays
        \/ seq' = seq /\ strays' = strays + 1
    BY <1>5 DEF OnPacket
  <2>3. QED
    BY <1>1, <1>2, <2>1, <2>2 DEF AheadInv
<1>6. CASE TakeOpen
  BY <1>6 DEF TakeOpen, AheadInv
<1>7. CASE TakePacket
  <2> DEFINE n == Head(events).n
             p == Place(n)
  <2>1. /\ events # <<>> /\ Head(events).kind = "packet" /\ n \in Numbers
        /\ queued' = queued - 1
        /\ IF CanPop(Pushed(n)) THEN Drain(Pushed(n), p)
           ELSE buf' = Pushed(n) /\ next' = p /\ UNCHANGED <<writing, last>>
    BY <1>7, TakeEffect
  <2>2. n \in Int /\ First <= n /\ n < seq
    BY <2>1, RestOfQueue, Constants DEF Numbers
  <2>3. p \in Int /\ (p = n \/ p = next)
    BY <2>1, PushedEffect DEF Place
  <2>4. seq' = seq /\ strays' = strays
    BY <1>7 DEF TakePacket
  <2> HIDE DEF n, p
  <2>5. next' = p \/ next' = p + 1
    BY <2>1 DEF Drain
  <2>6. p + 1 <= seq \/ p + queued <= seq + strays + MaxQueue
    BY <1>1, <1>2, <2>2, <2>3
  <2>7. First <= p
    BY <1>1, <1>2, <2>2, <2>3
  <2>8. QED
    BY <1>1, <1>2, <2>1, <2>3, <2>4, <2>5, <2>6, <2>7 DEF AheadInv
<1>8. CASE DrainStep
  <2>1. /\ DOMAIN buf.packets # {} /\ buf.expected # None /\ next' = next + 1
        /\ UNCHANGED <<seq, strays, queued>>
    BY <1>8 DEF DrainStep, CanPop, Drain
  <2>2. PICK k \in DOMAIN buf.packets : TRUE
    BY <2>1
  <2>3. buf.packets[k] < seq /\ next <= buf.packets[k]
    BY DEF ReplayInv, HeldInv
  <2>4. buf.packets[k] \in Int /\ next \in Int
    <3>1. buf.packets[k] \in Numbers
      BY ReplayTypes
    <3>2. \A x \in Numbers : x \in Int
      BY Constants
    <3>3. QED
      BY <2>1, <3>1, <3>2, KnowsPlace
  <2>5. First <= next
    BY <1>1, <2>1, KnowsPlace
  <2>6. next + 1 <= seq
    BY <1>1, <2>3, <2>4
  <2>7. QED
    BY <1>1, <1>2, <2>1, <2>4, <2>5, <2>6 DEF AheadInv
<1>9. CASE TakeClose \/ TakeStop \/ DrainDone \/ Write \/ WriteFails
  BY <1>9 DEF TakeClose, TakeStop, DrainDone, Write, WriteFails, AheadInv
<1>10. CASE Play \/ Exits \/ UNCHANGED vars
  BY <1>10 DEF Play, Exits, vars, AheadInv
<1>11. QED
  BY <1>3, <1>4, <1>5, <1>6, <1>7, <1>8, <1>9, <1>10 DEF Next, Protocol, Worker, Numbers

\* A short stream is never replayed, whatever is lost, late, repeated or dropped.  The
\* code's numbers have half a space of 32768, its queue at most 100 places.
THEOREM ShortStreamNotReplayed == ShortStream /\ Spec => NothingReplayed
<1>1. Init => CountInv /\ ReplayInv /\ AheadInv
  <2>1. Init => AheadInv
    BY DEF Init, AheadInv
  <2>2. QED
    BY <2>1, CountInit, ReplayInit
<1>2. ShortStream /\ CountInv /\ ReplayInv /\ AheadInv /\ [Next]_vars
        => CountInv' /\ ReplayInv' /\ AheadInv'
  BY AheadInSight, CountStep, ReplayStep, AheadStep
<1>3. ShortStream /\ CountInv /\ AheadInv => InSight
  BY AheadInSight
<1>4. ShortStream /\ Spec => []InSight
  <2>1. SUFFICES ASSUME ShortStream PROVE Spec => []InSight
    OBVIOUS
  <2>2. CountInv /\ ReplayInv /\ AheadInv /\ [Next]_vars => CountInv' /\ ReplayInv' /\ AheadInv'
    BY <1>2, <2>1
  <2>3. CountInv /\ AheadInv => InSight
    BY <1>3, <2>1
  <2>4. QED
    BY <1>1, <2>2, <2>3, PTL DEF Spec
<1>5. QED
  BY <1>4, ReplaysNothing
=============================================================================
