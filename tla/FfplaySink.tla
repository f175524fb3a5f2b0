----------------------------- MODULE FfplaySink -----------------------------
(***************************************************************************)
(* FfplayRadioAudioSink: received radio audio on its way to an ffplay        *)
(* process.  The protocol thread queues packets and gate events and never    *)
(* waits; one worker thread takes them, runs the jitter buffer and writes    *)
(* frames into ffplay's pipe, where it blocks when the pipe is full.  A      *)
(* packet is its number in the sender's stream, its payload likewise.        *)
(***************************************************************************)
EXTENDS Jitter, Sequences

CONSTANTS
    Silence,    \* startup, tail or concealment silence
    MaxQueue,   \* max_backend_queue_packets
    PipeSize,   \* writes the pipe holds
    First,      \* number of the sender's first packet
    Last,       \* bound on the sender's numbers
    Reorder,    \* a packet arrives at most so many packets late
    Strays,     \* bound on the packets that arrive late or again
    MaxOpens    \* bound on the gate openings

ASSUME SinkAssumption ==
    /\ {MaxQueue, PipeSize, First, Last, Reorder, Strays, MaxOpens} \subseteq Nat
    /\ MaxQueue > 0 /\ PipeSize > 0 /\ First <= Last /\ Reorder <= MaxGap
    /\ None \notin Int /\ Silence \notin Int /\ Silence # None

VARIABLES
    gate,       \* the receiver's gate is open
    opens,      \* gate openings so far
    seq,        \* the sender's next number
    strays,     \* packets that arrived late or again
    events,     \* _events
    queued,     \* _queued_packets
    closed,     \* close() has put its None
    worker,     \* where _run is
    buf,        \* jitter
    next,       \* the number whose slot its _expected stands for
    writing,    \* what _write is about to put into the pipe
    pipe,       \* ffplay's stdin
    alive,      \* ffplay runs
    last        \* the last packet written in this gate session

receiver == <<gate, opens, seq, strays, closed>>
jitter == <<buf, next>>
vars == <<receiver, events, queued, worker, jitter, writing, pipe, alive, last>>

Event(kind, n) == [kind |-> kind, n |-> n]
Put(kind, n) == events' = Append(events, Event(kind, n))

\* start() has written the startup silence.
Init ==
    /\ gate = FALSE /\ opens = 0 /\ seq = First /\ strays = 0 /\ closed = FALSE
    /\ events = <<>>
    /\ queued = 0
    /\ worker = "get"
    /\ buf = Fresh /\ next = None
    /\ writing = None
    /\ pipe = <<Silence>>
    /\ alive = TRUE
    /\ last = None

-----------------------------------------------------------------------------
(* The protocol thread *)

\* on_gate
GateOpens ==
    /\ ~closed /\ opens < MaxOpens
    /\ gate' = TRUE
    /\ opens' = opens + 1
    /\ Put("open", 0)
    /\ UNCHANGED <<seq, strays, closed, queued, worker, jitter, writing, pipe, alive, last>>

GateCloses ==
    /\ ~closed /\ gate
    /\ gate' = FALSE
    /\ Put("close", 0)
    /\ UNCHANGED <<opens, seq, strays, closed, queued, worker, jitter, writing, pipe, alive, last>>

\* Mutant: the queue takes one packet more.
EnqueueOneMore(n) ==
    IF queued > MaxQueue THEN UNCHANGED <<events, queued>>
    ELSE queued' = queued + 1 /\ Put("packet", n)

\* on_packet: a full queue drops the packet.  The packet is queued after the lock is
\* released, but the worker lowers the count only for a packet it has taken.
Enqueue(n) ==
    IF queued >= MaxQueue THEN UNCHANGED <<events, queued>>
    ELSE queued' = queued + 1 /\ Put("packet", n)

\* A packet arrives in time, late or again.
OnPacket(n) ==
    /\ ~closed /\ gate
    /\ n \in seq - Reorder .. seq /\ n \in First .. Last - 1
    /\ IF n = seq THEN seq' = seq + 1 /\ strays' = strays
                  ELSE strays < Strays /\ strays' = strays + 1 /\ seq' = seq
    /\ Enqueue(n)
    /\ UNCHANGED <<gate, opens, closed, worker, jitter, writing, pipe, alive, last>>

\* A packet that is lost, or sent while the gate is closed.
PacketMissed ==
    /\ seq < Last
    /\ seq' = seq + 1
    /\ UNCHANGED <<gate, opens, strays, closed, events, queued, worker, jitter, writing, pipe, alive, last>>

\* close() asks the worker to stop, then joins it for two seconds.
Close ==
    /\ ~closed /\ closed' = TRUE
    /\ Put("stop", 0)
    /\ UNCHANGED <<gate, opens, seq, strays, queued, worker, jitter, writing, pipe, alive, last>>

-----------------------------------------------------------------------------
(* The worker thread *)

Take(kind) ==
    /\ worker = "get" /\ writing = None
    /\ events # <<>> /\ Head(events).kind = kind
    /\ events' = Tail(events)

TakeOpen ==
    /\ Take("open")
    /\ buf' = Fresh /\ next' = None
    /\ last' = None
    /\ UNCHANGED <<receiver, queued, worker, writing, pipe, alive>>

TakeClose ==
    /\ Take("close")
    /\ worker' = "draining"
    /\ UNCHANGED <<receiver, queued, jitter, writing, pipe, alive, last>>

TakeStop ==
    /\ Take("stop")
    /\ worker' = "stopped"
    /\ UNCHANGED <<receiver, queued, jitter, writing, pipe, alive, last>>

\* _drain_one, of the buffer b whose next slot is that of the number n.
Drain(b, n) ==
    /\ buf' = Pop(b) /\ next' = n + 1
    /\ writing' = IF Concealed(b) THEN Silence ELSE b.packets[b.expected]
    /\ last' = IF Concealed(b) THEN last ELSE b.packets[b.expected]

\* Mutant: any packet that the buffer refuses starts it again.
RefusedAnyhow(b, n) == ~Accepted(b, n % W)

\* push refuses a packet and counts a discontinuity: the packet is new, and too far off.
TooFar(b, n) == Discontinuous(b, n % W) /\ ~Duplicate(b, n % W)

\* A packet too far ahead starts the buffer again at that packet.
Resume(b, n) == Push(Fresh, n % W, n)

TakePacket ==
    LET n == Head(events).n
        pushed == IF TooFar(buf, n) THEN Resume(buf, n) ELSE Push(buf, n % W, n)
        place == IF pushed.expected = buf.expected THEN next ELSE n
    IN  /\ Take("packet")
        /\ queued' = queued - 1
        /\ IF CanPop(pushed)
           THEN Drain(pushed, place)
           ELSE buf' = pushed /\ next' = place /\ UNCHANGED <<writing, last>>
        /\ UNCHANGED <<receiver, worker, pipe, alive>>

\* The loop of a closed gate: while packets are buffered, _drain_one.  A turn in
\* which the buffer gives nothing changes nothing, and the loop goes round again.
DrainStep ==
    /\ worker = "draining" /\ writing = None
    /\ DOMAIN buf.packets # {} /\ CanPop(buf)
    /\ Drain(buf, next)
    /\ UNCHANGED <<receiver, events, queued, worker, pipe, alive>>

\* Mutant: the loop also waits for the queue.
DrainDoneLate ==
    /\ worker = "draining" /\ writing = None
    /\ DOMAIN buf.packets = {} /\ queued = 0
    /\ writing' = Silence
    /\ worker' = "get"
    /\ UNCHANGED <<receiver, events, queued, jitter, pipe, alive, last>>

\* The tail silence.
DrainDone ==
    /\ worker = "draining" /\ writing = None
    /\ DOMAIN buf.packets = {}
    /\ writing' = Silence
    /\ worker' = "get"
    /\ UNCHANGED <<receiver, events, queued, jitter, pipe, alive, last>>

Write ==
    /\ writing # None /\ alive /\ Len(pipe) < PipeSize
    /\ pipe' = Append(pipe, writing)
    /\ writing' = None
    /\ UNCHANGED <<receiver, events, queued, worker, jitter, alive, last>>

\* Mutant: a write to a dead process is tried for ever.
WriteRetries ==
    /\ writing # None /\ ~alive
    /\ UNCHANGED vars

\* A broken pipe ends the worker, with its _error.
WriteFails ==
    /\ writing # None /\ ~alive
    /\ worker' = "failed"
    /\ writing' = None
    /\ UNCHANGED <<receiver, events, queued, jitter, pipe, alive, last>>

-----------------------------------------------------------------------------
(* The ffplay process *)

Play ==
    /\ alive /\ pipe # <<>>
    /\ pipe' = Tail(pipe)
    /\ UNCHANGED <<receiver, events, queued, worker, jitter, writing, alive, last>>

Exits ==
    /\ alive /\ alive' = FALSE
    /\ UNCHANGED <<receiver, events, queued, worker, jitter, writing, pipe, last>>

Protocol == GateOpens \/ GateCloses \/ PacketMissed \/ Close
Worker ==
    \/ TakeOpen \/ TakeClose \/ TakeStop \/ TakePacket
    \/ DrainStep \/ DrainDone
    \/ Write \/ WriteFails

Next ==
    \/ Protocol
    \/ \E n \in First .. Last - 1 : OnPacket(n)
    \/ Worker
    \/ Play \/ Exits

Spec == Init /\ [][Next]_vars

\* The worker thread runs, and ffplay reads its pipe as long as it lives.
FairSpec == Spec /\ WF_vars(Worker) /\ WF_vars(Play)

-----------------------------------------------------------------------------
(* Properties *)

Numbers == First .. Last - 1
Events == [kind : {"packet"}, n : Numbers] \cup [kind : {"open", "close", "stop"}, n : {0}]

TypeOK ==
    /\ gate \in BOOLEAN /\ closed \in BOOLEAN /\ alive \in BOOLEAN
    /\ opens \in 0 .. MaxOpens
    /\ seq \in First .. Last /\ strays \in 0 .. Strays
    /\ events \in Seq(Events)
    /\ queued \in Nat
    /\ worker \in {"get", "draining", "stopped", "failed"}
    /\ IsBuffer(buf, Numbers) /\ next \in Int \cup {None}
    /\ writing \in Numbers \cup {Silence, None}
    /\ pipe \in Seq(Numbers \cup {Silence})
    /\ last \in Numbers \cup {None}

\* The count that bounds the queue is the number of packets in it, and stays within
\* the bound whether ffplay reads, stalls or has died.
Packets == {i \in DOMAIN events : events[i].kind = "packet"}
QueueBounded ==
    /\ TypeOK
    /\ queued = Cardinality(Packets) /\ queued <= MaxQueue

\* Within a gate session nothing is written twice and nothing out of order, although
\* full queues tear gaps and the buffer starts again behind them.
NothingReplayed ==
    [][writing' # writing /\ writing' \in Numbers => last = None \/ writing' > last]_vars

\* A gate that closes is drained, whatever is queued behind it and however long ffplay takes:
\* the worker gets back to its queue, or fails with ffplay.  With a prebuffer of one every
\* packet that was taken can be popped; with more a gate of fewer packets than that is
\* never drained (FfplayShortGate.cfg), although tests/test_audio.py has a sink that
\* "drains_short_gate".
DrainEnds == worker = "draining" ~> worker # "draining"

\* close() is answered: the worker ends, also where the queue or the pipe is full or ffplay
\* dies.  With a prebuffer of one: a worker that spins in a drain does not answer.
CloseEnds == closed ~> worker \in {"stopped", "failed"}
=============================================================================
