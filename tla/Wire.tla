-------------------------------- MODULE Wire --------------------------------
(***************************************************************************)
(* One direction of the control connection as a stream of bytes.  Tasks of   *)
(* the sending endpoint write frames under its send lock; TCP hands them to   *)
(* the reader of the other endpoint in whatever chunks it likes; the link     *)
(* may be lost anywhere.  When a connection has been read to its end, a       *)
(* capture of it is analysed (pcap.py): any segments of the stream, some      *)
(* missing, some seen twice or cut differently when they were sent again.     *)
(***************************************************************************)
EXTENDS Framing, TLC

CONSTANTS
    Writers,        \* tasks of the sender, one job each
    Screens,        \* display buffers
    Button,         \* the press value of a key
    RawFrames,      \* what a user of the radio tries to send as a raw frame
    Backlog,        \* frames written before the oldest one has been read to its end
    Losses,         \* links lost
    CaptureFrames,  \* a capture is taken of a connection of at most that many frames
    Segments,       \* segments in a capture
    CutsBefore, CutsAfter,  \* a segment ends that many bytes before or after a frame does
    FirstSequence,  \* the TCP sequence number of the first byte
    SequenceSpace,  \* sequence numbers wrap here
    None

ASSUME WireAssumption ==
    /\ Screens \subseteq [1..BufferSize -> Byte]
    /\ Losses \in Nat /\ Backlog \in Nat \ {0} /\ CaptureFrames \in Nat /\ Segments \in Nat
    /\ CutsBefore \subseteq Nat /\ CutsAfter \subseteq Nat
    /\ FirstSequence \in 0..(SequenceSpace - 1)

VARIABLES
    sender,     \* radio or mic
    job,        \* what each task still has to write
    lock,       \* the task that holds the send lock
    frames,     \* what was written on this connection, frame by frame
    position,   \* how many bytes of it the peer has read
    remainder,  \* the fragment its reader keeps
    got,        \* the messages it has made of them
    display,    \* the mic's display tracker; it lives on when a session ends
    cut,        \* the last connection ended inside a display transaction
    losses,
    capture     \* the segments of this connection in a capture, as it saw them; first,
                \* the place in the stream, is for the properties

wireVars == <<sender, job, lock, frames>>
readVars == <<position, remainder, got, display>>
vars == <<wireVars, readVars, cut, losses, capture>>

\* send_interactive_raw_frame: exactly one message, and nothing beside it.
RawAccepted(frame) ==
    LET p == ParseStream(frame, "radio")
    IN  p.rest = <<>> /\ Len(p.messages) = 1 /\ p.messages[1].raw = frame

Jobs ==
    [ radio |-> {EncodeDisplayTransaction(s) : s \in Screens}
                \cup {<<f>> : f \in {r \in RawFrames : RawAccepted(r)}}
                \cup { EncodeMicGainTransaction(5),
                       << EncodeAudioPath("receive_open"), EncodeStatusLed("green"),
                          EncodeBacklightState("dim") >> },
      mic |-> { EncodeKeyTap(Button), <<EncodePttState("press")>>,
                <<EncodePowerState("release"), Heartbeat.mic>> } ]

Init ==
    /\ sender \in {"radio", "mic"} /\ job \in [Writers -> Jobs[sender]] /\ lock = None
    /\ frames = <<>> /\ position = 0 /\ remainder = <<>> /\ got = <<>>
    /\ display = NewDisplay /\ cut = FALSE /\ losses = 0 /\ capture = <<>>

Sent == FlattenSeq(frames)

\* Where frame i begins in the stream, and the frames read to their end.
Offset(i) == Len(FlattenSeq(SubSeq(frames, 1, i - 1)))
Complete == {i \in DOMAIN frames : Offset(i + 1) <= position}
MayWrite == Len(frames) - Cardinality(Complete) < Backlog

\* Mutant: nothing keeps the frames of two tasks apart.
WriteUnlocked(w) ==
    /\ job[w] # <<>> /\ MayWrite
    /\ frames' = Append(frames, Head(job[w]))
    /\ job' = [job EXCEPT ![w] = Tail(@)]
    /\ UNCHANGED <<sender, lock, readVars, cut, losses, capture>>

\* _send_frames: one frame is written, and drained; the last one frees the lock.
Write(w) ==
    /\ job[w] # <<>> /\ lock \in {None, w} /\ MayWrite
    /\ frames' = Append(frames, Head(job[w]))
    /\ job' = [job EXCEPT ![w] = Tail(@)]
    /\ lock' = IF Len(job[w]) = 1 THEN None ELSE w
    /\ UNCHANGED <<sender, readVars, cut, losses, capture>>

\* Mutant: what is left of a chunk is dropped.
ReadFresh(n) ==
    LET p == ParseStream(SubSeq(Sent, position + 1, n), sender)
    IN  /\ n > position
        /\ got' = got \o p.messages /\ remainder' = p.rest
        /\ display' = IF sender = "radio" THEN FoldLeft(Consume, display, p.messages) ELSE display
        /\ position' = n
        /\ UNCHANGED <<wireVars, cut, losses, capture>>

\* A read returns some of what has arrived; every message in it is handled in turn.
Read(n) ==
    LET p == ParseStream(remainder \o SubSeq(Sent, position + 1, n), sender)
    IN  /\ n > position
        /\ got' = got \o p.messages /\ remainder' = p.rest
        /\ display' = IF sender = "radio" THEN FoldLeft(Consume, display, p.messages) ELSE display
        /\ position' = n
        /\ UNCHANGED <<wireVars, cut, losses, capture>>

\* The link is lost, with what was under way; the next session has jobs of its own.
Lose ==
    /\ losses < Losses /\ frames # <<>> /\ capture = <<>>
    /\ losses' = losses + 1
    /\ cut' = (display.phase \in {"before_buffer", "buffer_received"})
    /\ job' \in [Writers -> Jobs[sender]] /\ lock' = None
    /\ frames' = <<>> /\ position' = 0 /\ remainder' = <<>> /\ got' = <<>>
    /\ display' = [display EXCEPT !.warnings = 0]
    /\ UNCHANGED <<sender, capture>>

-----------------------------------------------------------------------------
(* The capture *)

CutPoints ==
    LET ends == {Offset(i) : i \in 1..(Len(frames) + 1)}
    IN  {c \in UNION {{e - b : b \in CutsBefore} \cup {e + a : a \in CutsAfter} : e \in ends} :
            c \in 0..Len(Sent)}

\* The capture sees the bytes from a to b once more, as a segment of their own.  What
\* was lost before tells captures apart in nothing, so they are of first connections.
Captured(a, b) ==
    /\ losses = 0
    /\ \A w \in Writers : job[w] = <<>>
    /\ position = Len(Sent) /\ Len(frames) <= CaptureFrames /\ Len(capture) < Segments
    /\ a < b
    /\ capture' = Append(capture,
            [ first |-> a,
              sequence |-> (FirstSequence + a) % SequenceSpace,
              payload |-> SubSeq(Sent, a + 1, b),
              time |-> Len(capture) + 1 ])
    /\ UNCHANGED <<wireVars, readVars, cut, losses>>

\* Mutant: an overlap is copied again.
ReassembleTwice(segments) ==
    FoldLeft(LAMBDA acc, s :
            LET gap == IF s.sequence > acc.expected THEN s.sequence - acc.expected ELSE 0
            IN  IF s.sequence + Len(s.payload) <= acc.expected THEN acc
                ELSE [ output |-> acc.output \o [i \in 1..gap |-> 0] \o s.payload,
                       expected |-> s.sequence + Len(s.payload),
                       gaps |-> acc.gaps + (IF gap > 0 THEN 1 ELSE 0),
                       markers |-> Append(acc.markers, <<Len(acc.output) + gap, s.time>>) ],
        [output |-> <<>>, expected |-> segments[1].sequence, gaps |-> 0, markers |-> <<>>],
        segments)

\* _reassemble_direction: what was missed becomes zeros, what is known is skipped.
Reassemble(segments) ==
    FoldLeft(LAMBDA acc, s :
            LET gap == IF s.sequence > acc.expected THEN s.sequence - acc.expected ELSE 0
                overlap == IF s.sequence < acc.expected THEN acc.expected - s.sequence ELSE 0
            IN  IF s.sequence + Len(s.payload) <= acc.expected THEN acc
                ELSE [ output |-> acc.output \o [i \in 1..gap |-> 0]
                                    \o SubSeq(s.payload, overlap + 1, Len(s.payload)),
                       expected |-> s.sequence + Len(s.payload),
                       gaps |-> acc.gaps + (IF gap > 0 THEN 1 ELSE 0),
                       markers |-> acc.markers
                            \o (IF gap > 0 THEN <<<<Len(acc.output), s.time>>>> ELSE <<>>)
                            \o <<<<Len(acc.output) + gap, s.time>>>> ],
        [output |-> <<>>, expected |-> segments[1].sequence, gaps |-> 0, markers |-> <<>>],
        segments)

Reassembled ==
    Reassemble(SortSeq(capture, LAMBDA s, t :
        s.sequence < t.sequence \/ (s.sequence = t.sequence /\ s.time < t.time)))

\* The time of the last marker at or before the offset.
TimestampAtOffset(markers, offset) ==
    LET n == Max({1} \cup {i \in DOMAIN markers : markers[i][1] <= offset})
    IN  markers[n][2]

\* The messages of a reassembled stream with their places and times.
Located(stream, messages) ==
    LET at[i \in DOMAIN messages] ==
            IF i = 1 THEN 0 ELSE at[i - 1] + Len(messages[i - 1].raw)
    IN  [i \in DOMAIN messages |->
            [ message |-> messages[i], offset |-> at[i],
              time |-> TimestampAtOffset(stream.markers, at[i]) ]]

\* decode_capture: in order of time.
DecodeCapture(stream) ==
    SortSeq(Located(stream, IterMessages(<<stream.output>>, sender)),
            LAMBDA d, e : d.time < e.time \/ (d.time = e.time /\ d.offset < e.offset))

-----------------------------------------------------------------------------
Next ==
    \/ \E w \in Writers : Write(w)
    \/ \E n \in 1..Len(Sent) : Read(n)
    \/ Lose
    \/ \E a, b \in CutPoints : Captured(a, b)

Spec == Init /\ [][Next]_vars

\* The message frame i is meant to be.
Meant(i) == ClassifyMessage(frames[i], sender)

\* However TCP cuts the stream, the reader gets the framed messages that were written,
\* all of them and no others, in their order, and no byte of the stream disappears.
\* protocol.py:332-335: "no captured application data silently disappears".
AnyChunksSameMessages ==
    LET written == [i \in 1..Cardinality(Complete) |-> Meant(i)]
    IN  /\ SelectSeq(got, IsFramed) = SelectSeq(written, IsFramed)
        /\ Raw(got) \o remainder = SubSeq(Sent, 1, position)

\* The tracker complains about a transaction only if a lost link cut the one before,
\* and then once; what it holds as shown is the buffer of the last one that was read.
TransactionsWhole ==
    LET shown == {i \in Complete : Meant(i).kind = "display_update"}
    IN  sender = "radio" =>
        /\ display.warnings <= (IF cut THEN 1 ELSE 0)
        /\ shown # {} =>
              LET frame == Decode(frames[Max(shown)])
              IN  display.current = SubSeq(frame, 8, Len(frame) - 3)

\* What the capture saw of the stream.
Carries(s, n) == n \in s.first..(s.first + Len(s.payload) - 1)
Seen(a, b) == \A n \in a..(b - 1) : \E s \in ToSet(capture) : Carries(s, n)

\* The frames that it holds whole were found, and nothing was made up.
Faithful(stream, decoded) ==
    LET start == Min({n \in 0..Len(Sent) : Seen(n, n + 1)})
        Found(i, d) == d.message = Meant(i) /\ d.offset = Offset(i) - start
    IN  /\ \A i \in DOMAIN frames :
              Meant(i).framed /\ Seen(Offset(i), Offset(i + 1)) =>
                  \E d \in decoded : /\ Found(i, d)
                                     /\ \E s \in ToSet(capture) :
                                            Carries(s, Offset(i)) /\ s.time = d.time
        /\ \A d \in decoded :
              d.message.valid \/ (d.message.framed /\ stream.gaps = 0) =>
                  \E i \in DOMAIN frames : Found(i, d)

\* Whatever a capture saw, missed or saw twice: every frame whose bytes are all in it is
\* found in its place with the time of a segment that carried its first byte; without a
\* gap, and with the checksum right in any case, there is nothing else but what was sent.
\* README.md:113: "Lossless TCP framing, byte stuffing, CRC and stream reassembly."
CaptureFaithful ==
    capture # <<>> => Faithful(Reassembled, ToSet(DecodeCapture(Reassembled)))
=============================================================================
