------------------------------ MODULE Framing ------------------------------
(***************************************************************************)
(* The frames of the control stream: how a message becomes bytes            *)
(* (build_frame, byte stuffing, the checksum), how bytes become messages     *)
(* again (parse_stream, classify_message), and the tracker of display        *)
(* transactions that listens to them (DisplayStateModel).  Bytes are the     *)
(* real ones; what a message means beyond its kind is left out.              *)
(***************************************************************************)
EXTENDS Integers, Sequences, SequencesExt, FiniteSetsExt

CONSTANT BufferSize     \* bytes of a display buffer, 68 in the code

ASSUME FramingAssumption == BufferSize \in Nat \ {0}

Byte == 0..255
Magics == {<<243, 65, 113>>, <<245, 65, 113>>}
Terminator == 253

\* Bytes from F0 on would be taken for framing: they go as an escape and a nibble.
Stuff(data) ==
    FlattenSeq([i \in DOMAIN data |->
        IF data[i] >= 240 THEN <<255, data[i] % 16>> ELSE <<data[i]>>])

Unstuff(data) ==
    LET Escape(i) == data[i] = 255 /\ i < Len(data) /\ data[i + 1] <= 15
        from[i \in 1..(Len(data) + 1)] ==
            IF i > Len(data) THEN <<>>
            ELSE IF Escape(i) THEN <<240 + data[i + 1]>> \o from[i + 2]
            ELSE <<data[i]>> \o from[i + 1]
    IN  from[1]

Decode(raw) ==
    IF Len(raw) < 4 THEN raw
    ELSE <<Head(raw)>> \o Unstuff(SubSeq(raw, 2, Len(raw) - 1)) \o <<Last(raw)>>

TwoBytes(n) == <<n \div 256, n % 256>>
Number(pair) == pair[1] * 256 + pair[2]

\* The reflected CRC of polynomial A001 (bits 15, 13 and 0), fed bit by bit.
Checksum(data) ==
    LET Flip(crc, bit) == IF (crc \div bit) % 2 = 0 THEN crc + bit ELSE crc - bit
        Feed(crc, bit) ==
            IF crc % 2 = bit THEN crc \div 2 ELSE Flip(Flip(crc \div 2, 1), 8192) + 32768
        Bit(n) == (data[((n - 1) \div 8) + 1] \div 2 ^ ((n - 1) % 8)) % 2
        after[n \in 0..(8 * Len(data))] ==
            IF n = 0 THEN 65535 ELSE Feed(after[n - 1], Bit(n))
    IN  after[8 * Len(data)]

BuildFrame(class, command, payload) ==
    LET body == <<65, 113, class, command>> \o TwoBytes(Len(payload)) \o payload
    IN  <<243>> \o Stuff(body \o TwoBytes(Checksum(body))) \o <<Terminator>>

Heartbeat == [radio |-> BuildFrame(5, 0, <<77, 0>>), mic |-> BuildFrame(5, 0, <<109, 1>>)]

\* The two frames the source quotes from captures.
ASSUME HeartbeatAssumption ==
    /\ Heartbeat.radio = <<243, 65, 113, 5, 0, 0, 2, 77, 0, 53, 112, 253>>
    /\ Heartbeat.mic = <<243, 65, 113, 5, 0, 0, 2, 109, 1, 53, 168, 253>>

-----------------------------------------------------------------------------
(* What the endpoints send *)

\* A button is the value its press has on the wire.
KeyTapValues(button) == <<button, button + 128, 127>>
EncodeKeyTap(button) == [i \in 1..3 |-> BuildFrame(1, 1, <<KeyTapValues(button)[i]>>)]

EncodePttState(action) == BuildFrame(1, 0, <<IF action = "press" THEN 1 ELSE 0>>)

EncodePowerState(action) == BuildFrame(1, 9, <<IF action = "press" THEN 1 ELSE 0>>)

EncodeDisplayTransaction(buffer) ==
    <<BuildFrame(2, 7, <<2>>), BuildFrame(2, 10, buffer), BuildFrame(2, 8, <<0, 68>>)>>

EncodeStatusLed(color) ==
    BuildFrame(2, 2, <<[off |-> 0, red |-> 2, green |-> 4, orange |-> 6][color]>>)

EncodeBacklightState(state) == BuildFrame(2, 11, <<[off |-> 0, dim |-> 1, on |-> 2][state]>>)

EncodeMicGainTransaction(level) == [i \in 1..2 |-> BuildFrame(2, 14, <<level + i - 1>>)]

EncodeAudioPath(state) ==
    BuildFrame(1, 4, <<[receive_open |-> 1, transmit_active |-> 8, closed |-> 0][state], 0, 0, 0>>)

-----------------------------------------------------------------------------
(* What the peer makes of it *)

Row(kind, from, class, command, payloads) ==
    [kind |-> kind, from |-> from, class |-> class, command |-> command, payloads |-> payloads]

Single(values) == [1..1 -> values]

\* classify_message, one row per branch: who sends it, class, command and payloads.  A
\* DISPLAY_SYNC has its phase for a name.
Kinds ==
    { Row("ptt_state", "mic", 1, 0, Single({0, 1})),
      Row("audio_state", "radio", 1, 4, {<<b, 0, 0, 0>> : b \in {0, 1, 8}}),
      Row("audio_status", "radio", 2, 2, Single({0, 2, 4, 6})),
      Row("backlight_state", "radio", 2, 11, Single({0, 1, 2})),
      Row("mic_gain", "radio", 2, 14, Single(1..6)),
      Row("power_state", "mic", 1, 9, Single({0, 1})),
      Row("key_state", "mic", 1, 1, Single(Byte)),
      Row("before_buffer", "radio", 2, 7, Single({2})),
      Row("display_update", "radio", 2, 10, [1..BufferSize -> Byte]),
      Row("after_buffer", "radio", 2, 8, {<<0, 68>>}),
      Row("display_ack", "mic", 2, 9, Single({1})) }

Unframed(raw) == [raw |-> raw, framed |-> FALSE, valid |-> FALSE, kind |-> "unframed"]

KindOf(frame, from) ==
    LET payload == SubSeq(frame, 8, Len(frame) - 3)
        rows == {r \in Kinds : /\ r.from = from
                               /\ frame[4] = r.class /\ frame[5] = r.command
                               /\ payload \in r.payloads}
    IN  IF /\ Len(frame) >= 10
           /\ Len(frame) = Number(SubSeq(frame, 6, 7)) + 10
           /\ rows # {}
        THEN (CHOOSE r \in rows : TRUE).kind
        ELSE "unknown"

ClassifyMessage(raw, from) ==
    LET frame == Decode(raw)
        framed == /\ Len(frame) >= 6
                  /\ SubSeq(frame, 1, 3) \in Magics /\ Last(frame) = Terminator
        body == SubSeq(frame, 2, Len(frame) - 3)
    IN  [ raw |-> raw,
          framed |-> framed,
          valid |-> framed /\ SubSeq(frame, Len(frame) - 2, Len(frame) - 1)
                                = TwoBytes(Checksum(body)),
          kind |-> IF \E s \in DOMAIN Heartbeat : raw = Heartbeat[s] THEN "heartbeat"
                   ELSE IF framed THEN KindOf(frame, from) ELSE "unknown" ]

-----------------------------------------------------------------------------
(* The stream *)

\* Where the first magic, or terminator, at or after i is; behind the data if nowhere.
FindMagic(data, i) ==
    Min({n \in i..(Len(data) - 2) : SubSeq(data, n, n + 2) \in Magics} \cup {Len(data) + 1})
FindTerminator(data, i) ==
    Min({n \in i..Len(data) : data[n] = Terminator} \cup {Len(data) + 1})

\* Mutant: all noise is passed on, whatever it may be the beginning of.
NoSuffix(data) == 0

\* The bytes at the end that a magic may have begun with.
IncompleteMagicSuffixLength(data) ==
    Max({0} \cup {n \in 1..2 : /\ n <= Len(data)
                               /\ \E m \in Magics : IsPrefix(SubSeq(data, Len(data) - n + 1, Len(data)), m)})

\* parse_stream: the messages in the data, and what is kept until more arrives.
ParseStream(data, from) ==
    LET beyond == Len(data) + 1
        Noise(i, j) == IF i <= j THEN <<Unframed(SubSeq(data, i, j))>> ELSE <<>>
        Then(messages, later) == [later EXCEPT !.messages = messages \o @]
        Stop(messages, i) == [messages |-> messages, rest |-> SubSeq(data, i, Len(data))]
        at[cursor \in 1..beyond] ==
            LET start == FindMagic(data, cursor)
                end == FindTerminator(data, start + 3)
                next == FindMagic(data, start + 3)
                kept == beyond - IncompleteMagicSuffixLength(data)
                before == Noise(cursor, start - 1)
            IN  CASE cursor = beyond -> Stop(<<>>, beyond)
                  [] cursor < beyond /\ start = beyond ->
                        Stop(Noise(cursor, kept - 1), kept)
                  [] start < beyond /\ next < end ->
                        Then(before \o Noise(start, next - 1), at[next])
                  [] start < beyond /\ next = beyond /\ end = beyond ->
                        Stop(before, start)
                  [] start < beyond /\ end < next ->
                        Then(before \o <<ClassifyMessage(SubSeq(data, start, end), from)>>,
                             at[end + 1])
    IN  at[1]

\* iter_messages: chunk by chunk, and what is left at the end as a message of its own.
IterMessages(chunks, from) ==
    LET Feed(got, chunk) ==
            LET p == ParseStream(got.rest \o chunk, from)
            IN  [messages |-> got.messages \o p.messages, rest |-> p.rest]
        all == FoldLeft(Feed, [messages |-> <<>>, rest |-> <<>>], chunks)
    IN  all.messages \o (IF all.rest = <<>> THEN <<>> ELSE <<Unframed(all.rest)>>)

IsFramed(message) == message.framed
Raw(messages) == FlattenSeq([i \in DOMAIN messages |-> messages[i].raw])

-----------------------------------------------------------------------------
(* The display *)

\* DisplayStateModel; warnings counts the events that carried one.
NewDisplay == [phase |-> "idle", current |-> <<>>, warnings |-> 0]

Consume(display, message) ==
    LET Enter(phase, expected) ==
            [display EXCEPT !.phase = phase,
                            !.warnings = IF display.phase \in expected THEN @ ELSE @ + 1]
    IN  CASE message.kind = "before_buffer" ->
                Enter("before_buffer", {"idle", "after_buffer", "acknowledged"})
          [] message.kind = "display_update" ->
                LET frame == Decode(message.raw)
                IN  [Enter("buffer_received", {"before_buffer"})
                        EXCEPT !.current = SubSeq(frame, 8, Len(frame) - 3)]
          [] message.kind = "after_buffer" -> Enter("after_buffer", {"buffer_received"})
          [] message.kind = "display_ack" -> Enter("acknowledged", {"after_buffer"})
          [] OTHER -> display
=============================================================================
