# IP CommandMic: a TLA+ model of the software CommandMic and radio endpoints

`ip_commandmic` is a Python implementation of both ends of the wire protocol of an
IP-connected radio microphone: a software *mic* that a real radio talks to, and a
software *radio* that a real or software mic talks to. One TCP connection carries
control frames (startup, display, keys, PTT, heartbeat), one UDP flow carries 20 ms
audio packets. The radio connects, the mic listens.

This directory models the parts of that program in which order, timing and failure
matter, checks them with TLC on small instances and proves what matters most with
TLAPS. Paths below are relative to `src/ip_commandmic/` of the repository.

## 1. Inventory

| component | code | state it keeps | operations | what makes it hard |
|---|---|---|---|---|
| mic endpoint: PTT and teardown | `emulator.py` 607-617, 825-935, 1090-1111, 2281-2511 | `_mic_writer`, `_mic_control_task`, `_mic_ptt_asserted`, `_interactive_tx_task`, three events, the PTT lock | press, release, start controls, receive audio state, the `finally` block of `_session` | one asyncio loop, many tasks; the `finally` block takes no lock; a session can end between any two awaits of a call; awaited tasks may have failed |
| mic endpoint: keys and taps | `emulator.py` 554-605, 774-823, 907-952 | `_mic_control_queue`, `_interactive_key`, the key lock | queue a tap, press, release, control loop, key script | two sources of key frames on one connection; state that survives a session |
| session startup and reconnect | `emulator.py` 1090-1126, 1946-1990, 2131-2511, 2554-2840 | `_radio_session_count`, `_mic_session_count`, per-session startup flags, display count | probe session, stable session, heartbeat, watchdog, reconnect loop, listener | two processes that decide independently whether a session is a probe; restarts and half-open connections |
| scripted TX of the mic | `emulator.py` 960-1088 | `_mic_tx_task`, `_mic_tx_error`, two events | one bounded PTT/audio transaction | timeouts, fail-closed release |
| radio endpoint: capture of mic audio | `emulator.py` 2842-3038, 2185-2256 | `_mic_recording`, `_mic_ptt_session_active`, finalize timer, counters | start, release, RTP, finish, limit | timer racing a new press, state stale across sessions |
| radio endpoint: replies, display, diagnostics | `emulator.py` 1128-1944, 2065-2129, 3040-3222 | channel, zone, volume, restore task | key replies, delayed restore, audio transactions, display scans | delayed restore racing a newer screen; two audio transactions sharing one gate |
| mic endpoint: received audio gate | `emulator.py` 3224-3300, 3480-3690 | gate flag, gate session counter, recording | open, close, RTP | TCP control and UDP audio are not ordered with each other |
| jitter buffer and sinks | `audio.py` 430-870 | packet map, expected sequence, started flag; queues of two sinks | push, pop, gate, close | 16-bit sequence wrap, reordering, three threads |
| GUI projection and thread runtime | `gui_server.py` | `GuiState`, loop, task, thread | protocol events, submit, start, stop | two threads, events arriving after shutdown |
| software radio application | `test_app.py` | endpoint state, recording, parrot replay, volume overlay | audit events, record, replay, overlay | tasks cancelled from two threads, replay racing the close of the capture |
| framing and checksums | `protocol.py`, `checksums.py` | stream remainder | `parse_stream`, `classify_message`, encoders | partial frames, bytes that look like framing, resynchronisation |
| display decoding | `display.py` | display buffer and the phase of a transaction | consume, encode | transactions of several frames, cut by a lost connection |
| controls encoding | `controls.py` | none | encode taps and states | pure tables |
| stream reassembly | `pcap.py` 225-328 | output, expected sequence, markers | reassemble, decode | loss, retransmission and overlap in any order |
| conformance proxies | `conformance.py`, `_conformance_worker.py` | proxied sessions, fault schedule | soak, proxy, metrics | test tool with its own concurrency |
| offline tooling | the rest of `pcap.py`, `capture.py`, `analysis.py`, `experiments.py`, `tooling.py`, `models.py`, scripts, the Wireshark dissector | none that lasts | batch | pure I/O or arithmetic |

The mic endpoint and the radio endpoint are instances of one class,
`CommandMicEmulator`, with a role; each owns one UDP protocol object
(`VerifiedMicUdpProtocol`, `VerifiedRadioUdpProtocol`) and is owned by an
application object (`SoftwareCommandMicEndpoint`, `SoftwareRadioEndpoint`) that runs it on
a private thread and calls into it with `run_coroutine_threadsafe`.

## 2. Modules

| module | models | proofs |
|---|---|---|
| `MicPtt` | PTT, microphone streams and session teardown of the mic endpoint | `MicPttProofs` |
| `MicKeys` | taps, the key script and held keys of the mic endpoint | `MicKeysProofs` |
| `SessionLink` | both endpoints: probe, stable session, recovery | `SessionLinkProofs` |
| `Jitter` | `RadioAudioJitterBuffer` as operators on its state | through `JitterPlayoutProofs` |
| `Timeline` | what a playout buffer promises, on unbounded numbers (abstract) | `JitterPlayoutProofs` |
| `JitterPlayout` | `Jitter` between a network and a playback clock; implements `Timeline` | `JitterPlayoutProofs` |
| `MiniaudioSink` | `MiniaudioRadioAudioSink`: protocol thread and device callback, over `Jitter` | `MiniaudioSinkProofs` |
| `FfplaySink` | `FfplayRadioAudioSink`: protocol thread, worker, pipe, process, over `Jitter` | `FfplaySinkProofs` |
| `RadioAudio` | both ends of the audio path of the software radio: the mic's PTT and gate, capture, Parrot replay, playback calls | `RadioAudioProofs` |
| `RadioScreen` | everything on the radio that writes to the mic's screen: startup, scans, key replies, restores, overlay, application | `RadioScreenProofs` |
| `Runtime` | the thread, loop and task around an endpoint, requests from other threads, the projected state | `SessionLinkProofs`, as the instance `Gui` |
| `Framing` | frames as bytes, `parse_stream`, message kinds and the display tracker, as operators | |
| `Wire` | `Framing` over one direction of a connection: writers, chunks, a lost link, captures | |

Each `MC*` module extends the module of its name and gives it small values; the `.cfg`
files name the runs. `MiniaudioSink`, `FfplaySink` and `JitterPlayout` extend `Jitter`, so
the buffer that is shown to keep `Timeline`'s promise is the one the sinks play from.

### How state and actions correspond to the code

**The step.** The endpoints run on one asyncio loop each, so an action is the code from one
`await` to the next. `_send_lock` is released between the calls of `_send_frames`, and a
task may wait for it: a send is an action of its own, and whatever may happen before
the lock is got happens before that action. `drain()` is taken not to wait: a few frames of
some ten bytes never fill the transport's buffer. A transport is `open`, at
end of file or without a peer (`eof`: frames are taken and reach nobody), or lost
(`reset`: `is_closing()` is true and `drain()` raises).

**`MicPtt`.** `spc[s]` is the place of a session task in `_session`; `tdControl`, `tdStream`
are the snapshots of the tuple of tasks the `finally` block iterates over; `pc[c]` is the
place of a user's `_ptt` call; `cw`, `ctask`, `cwas`, `failClosed` are its local variables;
the other variables are the attributes of the same name. `keyed[s]` is what the radio
was last told. `PressSendsPttDown`, `PressAcknowledged`, `PressTimesOut`, `SendRaises`
are the four ways on from the awaits of `press_interactive_ptt`; `BeginTeardown`,
`TeardownSendsPttUp`, `TeardownAwaitsControl`, `TeardownAwaitsStream`, `ClearAndClose` are the
`finally` block. The scripted transmission is not in this model.

**`MicKeys`.** `session` numbers the sessions with controls, so that `writer` and `cw[c]` tell
one writer from another. `queue` and `unfinished` are the asyncio queue and its count
for `join()`; `loop` is the place of `_mic_control_loop`; `script`, `next` those of
`_run_mic_key_script`. `down` is what the peer was told: a press adds a key, a release takes
it away, the neutral frame says that none is down. `held` is `_interactive_key`, which no
session owns. Start and teardown of a session are one action each: `MicPtt` has their
inside.

**`SessionLink`.** `radioCount`, `micCount` are the two counters that alone decide whether a
connection is a probe. `radio` and `mic` are the two ends of the connection, `toMic` and
`toRadio` the frames under way, `answered` the three flags that answer hello, ready and
prompt once per session, `displays`, `grace`, `controls` the way to a session with controls.
The startup is a chain: hello, sync, ready, identity, and then the prompt and its answer
(probe) or screens (stable). `MicRestarts`, `RadioRestarts` and `Cut` are faults of the
environment.

**`Jitter`.** `expected`, `started`, `packets` are the attributes of the buffer; `Push`, `Pop`
and `Fresh` are `push`, `pop` and `start_session`, `CanPop` says when `pop` returns a frame.
Sequence numbers are modulo `W`. In `JitterPlayout` the payload of a packet is its number in
the sender's stream, and `next` is the number that `expected` stands for; the buffer never
sees either.

**`MiniaudioSink`.** One step of the clock is a period of 20 ms in which the sender
sends and the device pulls, unless one of them stalls. `Playback` is the generator, which may
be asked for one or two periods; `out` is what it returned, with the session and the
age of each packet.

**`RadioAudio`.** `toRadio`, `toMic`, `rtp` are PTT frames, audio-state frames and datagrams
under way; datagrams may be lost or overtake each other and the frames. `path` is the last
audio state the mic was told, by whoever sent it; `gate`, `drain` are what the mic's reader
makes of it (`MicReads`, and `GateCloses` after the drain). `recording`, `active`, `timer`,
`count` are the attributes of the capture (`RadioReadsDown`, `RadioReadsUp`, `TailElapsed`,
`RtpArrives`); `parrot`, `capturing`, `payloads` those of the Parrot mode. `task[t]` is a
playback: `Open`, `PlaySteps` and `CancelTaken` are `send_interactive_audio_payloads` from
one `await` to the next, cancelled anywhere. `fpc` and `owner` are the caller's thread in
`_run_audio_action` and `_audio_future`: a coroutine is handed over (`SubmitFile`) before the
lock is looked at (`CheckFile`), so that a rejected one may begin, and is cancelled.

**`RadioScreen`.** `lock` is the queue of `_send_lock`, with the screen each waiting task
has already chosen: a task that waits sends what it chose before. `startup` and `step` are
the place in the startup, whose screens, those of a diagnostic scan included, are `Script`.
`restore` and `overlay` are the two delayed tasks; `last` and `special` decide what the
application wants to see. A screen is a text and a tail, and a tail the base
buffer with the one byte that a scan changes. A cancelled task leaves the queue, in which it
waits at most once (`Without`).

**`Runtime`.** `threads` numbers the threads, so that `loop` and `task` tell an old loop from
a new one; `phase` is the place of the newest thread in `_thread_main` and `_run`; `queue` is
what `call_soon_threadsafe` and `run_coroutine_threadsafe` handed to its loop. `call[c]` is
a request, which is checked, queued, made a task and run, each a step of its own. `stop` is
`Stop`, `StopReads`, `StopCancels`, `StopReturns`; that of the software radio first has the
application's display restored, a request like the others (`call["owner"]`), and what that
raises but a `RuntimeError` leaves `stop` (`StopRaises`) with nothing cancelled. A session
ends by `Disconnected`, which the projection hears of, or on the mic by `TeardownBreaks`, where
the `finally` block does not get as far as the event (section 6); `unheard` remembers which.
`connection`, `ready`, `off`, `ptt`, `rx` are the projection. `role` chooses between the
endpoint of `gui_server.py` and that of `test_app.py`, which differ where the actions say so.

**`Framing`, `Wire`.** Bytes are bytes: stuffing, the checksum and the search for magic and
terminator are the code's. `ASSUME HeartbeatAssumption` compares two frames the model builds
with the two the source quotes. A display buffer has `BufferSize` bytes instead of 68, which
the parser never sees. `Write` is one frame of `_send_frames` under the lock, `Read(n)` a read
that returns up to byte `n`, `Lose` the end of a connection; `Captured` lets a capture see a
stretch of the stream, and `DecodeCapture` is what `pcap.py` makes of what it saw.

**`FfplaySink`.** `events` is the queue, `queued` the count that bounds it, `worker` the place
of the thread in `_run`, `writing` the frame it writes, `pipe` what ffplay has not read. As in
`JitterPlayout`, `next` is the number that the buffer's `expected` stands for. `strays` counts the
packets that arrive behind a later one or for the second time.

## 3. Properties and runs

| run | instance | shows |
|---|---|---|
| `ptt_safety` | 2 sessions, 2 callers, 2 streams, one session at a time, symmetry | `NeverKeyedUnknowingly`: a live radio is keyed only if the endpoint records it. `TeardownClears`: no readiness survives its session. `StreamsAreOwned`: no stream without a way to stop it. `TypeOK` |
| `ptt_live` | 1 session, 2 callers, 2 streams, control loop and stream may raise, fairness | `CallsReturn`; `PttReleasedAfterLoss` and `StreamsStop`, unless a teardown broke off |
| `ptt_stream_fails` | a stream may raise | finding: `TeardownClears` fails |
| `mic_keys` | 2 keys, 2 callers, a script of 2 taps, 1 user tap, 2 sessions, fairness | `NoKeyStuck`: a key that is down is held or about to be released. `CountExact`: `join()` waits for what is left and for nothing else. `CallsReturn`, `ScriptGoesOn` |
| `session_link` | 3 faults, none on the mic in a probe | `KindsAgree`: a stable session is a stable session to both. `NoMutualWait`: an idle connection is an established one. `ControlsNeedStable`, `ControlsComeBack` |
| `jitter_playout` | W = 14, 22 packets (two wraps), reordering by 4, clock drift of 3 | `OnTimeline`: modulo W the buffer holds, takes and refuses as on the sender's numbers. `KeepsTimeline`: it implements `Timeline` |
| `miniaudio_sink` | W = 12, prebuffer 3, gap 4, 2 gate sessions, one device stall, 2 sender stalls, one loss | `GateSeparates`: nothing leaks between gates. `PlaysCurrentAudio`: bounded delay. `Resynchronizes`: within the reserve sound comes back, beyond it there is silence only while packets come out of reach |
| `ffplay_sink` | W = 18, 6 packets, prebuffer 1, gap 2, queue of 2, pipe of 1, 2 gate openings, any losses, 2 packets up to 2 behind or again, a process that may die, fairness | `QueueBounded`: the count that bounds the queue is exact. `NothingReplayed`: no packet is written twice or after a later one. `DrainEnds`, `CloseEnds` |
| `radio_audio` | 2 presses, recordings of 2 packets, Parrot mode, 2 callers with 2 files, called at the same time too, 1 lost connection, half duplex | `PathKept`: nobody closes or leaves open the path of another. `GateFollowsPath`: a close that drains never closes the next gate. `TimerAfterRelease`, `ReplayIsOnePress`, `ReleaseClosesTx` |
| `radio_screen` | key replies, the application, or one of five scans; 4 keys, 4 calls, 2 lost connections, fairness | `HomeComesBack`, `AppScreenComesBack`: whatever delayed task wrote last, the screen ends as it should. `ScanShownWhole`, `ScanEnds`, `NothingExperimentalLeft` |
| `runtime` | either role, 2 threads started, 2 callers, 2 requests beside those of stop, 2 sessions, fairness | `StopEnds`: stop ends, and once it has read what to cancel, with the thread gone. `RequestsAnswered`. `QuietWithoutSession`, unless a teardown broke off |
| `wire` | jobs of 2 writers, a backlog of 2 frames, 1 lost link, captures of 2 frames in 3 segments | `AnyChunksSameMessages`, `TransactionsWhole`: chunks and interleaving make no difference. `CaptureFaithful`: what a capture holds whole is found, and nothing is made up |

Types are checked with the first invariant of a module where they have no theorem: `TypeOK` is
a conjunct of `OnTimeline`, `QueueBounded`, `GateFollowsPath`, `NothingExperimentalLeft` and
`QuietWithoutSession`.

**Why the bounds are enough.** Two sessions give a session a past; two callers are one that
holds a lock and one that waits; two streams are one left by a call and one started by the
next. Key taps matter one at a time, and two scripted taps have one wait between them.
Session counters only distinguish none, one and more. `W` is small and even, more than
twice the gap limit like the code's 65536 and 100, and the runs go round it.
Prebuffer and gap limits are small with the order the code requires. In `miniaudio_sink` the
stalls and the loss go beyond what the prebuffer and the gap limit cover: with the device stall
and the loss the device is further behind than the gap limit, and every packet is ahead of its
window; with two stalls of the sender packets may come just too late for ever. The code recovers
from neither before the next gate. `Resynchronizes` promises sound within the reserve
(`InReserve`) and says that these are the only ways to stay silent beyond it; that sound
comes back in any case, as `docs/LATENCY.md` has it, is false (`MiniaudioBehind.cfg`). For
`PlaysCurrentAudio` section 5 proves how far the budgets may go (`HeardInTime`).

In `radio_audio` two presses let the second meet the tail, the timer and the replay of the
first, and two packets reach the recording's limit. In `radio_screen` the scans are one of
each shape (one byte at rest, one byte lit, several bytes, lights, backlight); the others
are the same code on other bytes and are in `Script`. In `runtime` a second thread
meets the attributes of the first, and two requests are a press and a release, or two that wait
for each other's turn. In `wire` the buffers are one that is full of
framing bytes and a plain one; segments end at, one byte before or two bytes after the end of
a frame, so that magics and terminators are cut. The space of sequence numbers is large enough
for no connection of the run to wrap.

**What the runs set aside.** `HalfDuplex` (`RadioAudio`): nobody presses while the
speaker is in use. The code has no such rule: a press and a playback both send audio
states, and each one's close cuts the other. `StopAnytime`: a playback that is cancelled in
the 10 ms after it opened the path, or in those before it closes it, leaves the mic's gate
open, because only the packets are sent in a `try` block. `LongPress`: a press
that reaches the limit in Parrot mode lets a replay start while the PTT is down.
`LateLock`: a file called within the last 10 ms of another, or while another is being stopped or
outlives its connection, may find the lock free when it is looked at, although its coroutine
began before; it then plays into a closed path or leaves it open. With any of them `PathKept` fails, as it
does with a tone beside a file. `SendsFail` (`RadioScreen`), `StopInTeardown` and `StartAgain` (`Runtime`)
are described with the hazards at `emulator.py:2274` and `test_app.py:232`; with either of the last two `StopEnds`
fails. Two exceptions are in properties instead of constants: `QuietWithoutSession`
leaves out what a broken teardown leaves behind, and `StopEnds` what a stop that raised
leaves running. In `ffplay_sink` a prebuffer of one keeps the worker from the spin of
`FfplayShortGate.cfg`.

**What the PTT runs set aside.** `Overlap`, `LateAck`, `StreamMayFail`, `ControlMayFail` are
constants that admit one behaviour each. `LateAck` lets a session end while a press
waits for `_send_lock` and an earlier acknowledgement is already recorded; the press then
sets `_mic_ptt_asserted` after the `finally` block cleared it and `PttReleasedAfterLoss`
fails. The runs keep it FALSE.

**Deadlock.** `CHECK_DEADLOCK FALSE` is used where the system may stop: users need
not call, sessions and taps are bounded, an idle connection has only heartbeats, which
are not modelled, and a closed sink has nothing left to do.

## 4. Fairness and timing

- Weak fairness for each task of the event loop: a runnable task runs. Strong fairness for
  the calls that wait for a lock: asyncio hands a lock over in order of arrival. In
  `MicKeys` a lost connection is noticed (end of file, or the watchdog), but nothing makes a
  connection be lost, a user call or a peer answer.
- The acknowledgement timeout of a press (1 s) does not elapse while a session awaits
  tasks it has just cancelled, which takes a few turns of the loop; a press resumes within
  three turns of its acknowledgement.
- `reconnect_delay` outlasts the mic's teardown in `SessionLink`, so there is one
  connection at a time; `MicPtt` has sessions that overlap.
- `RadioAudio`: both loops run, datagrams arrive or are lost, sleeps end; users and losses
  are free. A datagram takes less than the 10 ms sleeps, a mic's tail (210 ms) is over before the
  radio closes the path (220 ms), a session's startup outlasts the short sleeps.
- `RadioScreen`: sleeps end, the lock is handed over, the peer comes back; nobody needs to
  press or call, and finitely many connections are lost.
- `Runtime`: threads are scheduled and a loop takes its callbacks in turn. The time-outs of
  `join` (10 or 20 s), `start` and of a caller's request (35 s) are not reached; stop gives its own
  request up if the loop is gone. A request is promised
  an answer if it was handed over before the task was done; one handed over later may be lost
  with the loop, which the code answers with the time-out.
- Sender and device keep the same 20 ms period in `MiniaudioSink` except for the stalls it
  counts. In `FfplaySink` the worker runs and a live ffplay reads its pipe.

## 5. Proofs

All theorems hold for every value of the constants that the `ASSUME`s of the modules allow.

- `MicPttProofs!TypeCorrect`; `MicPttProofs!NeverKeyed`: if sessions do not overlap,
  `NeverKeyedUnknowingly`. The invariant by itself is not inductive: a frame that is
  about to be sent must reach the session that is live. `KeyedInv` adds that one session is
  live (`OneLive`), that only the lock's holder is past its wait (`LockExclusive`), that the
  keyed session is the one `_mic_writer` names (`KeyedIsWriter`), and that a call about
  to send writes to it (`SenderIsWriter`, `ReleaseReachesKeyed`).
- `MicPttProofs!StreamsAlwaysOwned`: `StreamsAreOwned`, streams that fail included, if sessions do
  not overlap, no control loop fails and no acknowledgement is late (`LateAck`). `StreamInv` is needed
  because a press clears the flag that tells a stream to stop: `Owned` does without the flag,
  `RecordingIsHeld` says that such a press meets an older stream only in a teardown, `NoAckWhileEnding`
  and `NoForeignAck` that it is not acknowledged there or by the next session, so the stream
  the teardown awaits is not replaced (`TeardownHoldsStream`). `MicPttProofs!TeardownAlwaysClears`:
  `TeardownClears`, overlap included, if neither streams nor control loops fail; the finding below
  is what happens when one does.
- `MicKeysProofs!TypeCorrect`, `CountStaysExact`: the count goes down by one wherever a
  tap ends, so it is a natural number only because it is exact; the two are
  proved together, with `LoopInv` (which loops exist without a connection, and that a loop
  that sends has a tap) and `CallInv`. `NoKeyStaysDown`: `StuckInv` adds that
  the call that will release a key writes to the current connection, so it cannot fail
  while that connection is open; `LockInv` that a call about to press finds no key held.
- `SessionLinkProofs!TypeCorrect`, with `CountsInv` (the radio's count follows its end of
  the connection); `KindsAlwaysAgree`: if the mic is not struck in a probe, `KindsAgree` for
  any number of faults, from `MicHasCounted` (between a probe and its
  stable session the mic has counted one session); `ControlsOnlyWhenStable`, without that
  restriction, from the frames under way: screens are sent only by a stable
  radio and answered only in that connection (`ScreensInv`, `DisplaysInv`).
- `SessionLinkProofs!NobodyWaitsForTheOther`: `NoMutualWait`, also for a mic that restarts in a
  probe. The property speaks of empty channels only, so it says nothing about the step that empties
  them. `ShakeInv` says at which of seven stages a shared connection is (`Greeted`, `Synced`,
  ... `Established`): until the last, exactly one frame is under way, its receiver has not
  answered one of its kind, and it is the one that brings the startup to the next stage.
- `SessionLinkProofs!QuietAlways`: `QuietWithoutSession` of `Runtime`, types included, for any number
  of threads, sessions, callers and requests, and with `StopInTeardown` and `StartAgain`. It is
  inductive as it stands: what raises a flag of the projection needs a session, and what
  ends one clears them in the same step of the loop or is remembered in `unheard`, so the theorem
  says that a teardown that breaks off is the only way to a stale projection.
- `RadioAudioProofs!TypeCorrect`, and `TimerOnlyAfterRelease`: `TimerAfterRelease`, for any
  number of presses, packets, callers and losses, with `HalfDuplex` or without it.
- `RadioAudioProofs!ReplayAlwaysOnePress`: `ReplayIsOnePress`, with no restriction on who uses the
  radio. Packets of a press may be under way when it ends; that they are gone before
  the next is captured follows from where PTT frames, stream and packets can be at
  once (`PressOrder`, `LinkEnds`, `StreamOrder`), and `CaptureOfPress` says what was kept of them.
- `RadioAudioProofs!PathAlwaysKept` and `GateAlwaysFollows`: `PathKept` and `GateFollowsPath` under
  `TakeTurns`, which are the settings of the run: nobody presses while the speaker is in
  use, no playback is cancelled in its 10 ms, no file is called in the last moment of another
  (`LateLock`), no press reaches the limit, no tones beside the files; files may be called while
  others play. Each of them set aside makes `PathKept` false (section 3). Counts are not restricted:
  files, presses, packets and losses are any number. The path is kept because of who may
  still act on it: nobody plays during a press (`QuietInv`), a replay that waits
  belongs to a capture, which never fills its recording, so that the release finds it recording
  and its answer precedes the replay (`CaptureInv`), and of the files only the owner of the lock
  goes on to send; a caller that lost it is cancelled before it would (`CallInv`). `GateInv` reads
  the frames under way from the last backwards: the last is the path, no frame to receive is
  followed directly by one to transmit, and a drain with nothing behind it ends closed.
- `RadioScreenProofs!TypeCorrect`; `CompleteScanShownWhole`: `ScanShownWhole` for every
  configuration of the code's, any number of keys, calls and lost connections, and with tasks of
  the session that fail (`SendsFail`). `WaitInv` types the queue of the lock, which `TypeOK` leaves out;
  `ScanInv`: while a scan runs only the startup is in the queue, and the mic was shown the
  script of this session up to the screen it is at. `NeverLeftExperimental`:
  `NothingExperimentalLeft` without `SendsFail`; with it a radio that has completed its scan
  connects once more, and the run may end in the middle of that session. `RestInv` carries
  the screen and the light through the script: the end of a scan alone does not tell
  that the screen before was shown.
- `JitterPlayoutProofs!AlwaysOnTimeline`: `OnTimeline`, and `ImplementsTimeline`: every step
  of `JitterPlayout` is a step of `Timeline` or a stutter, for a stream of any length and any `W`,
  `MaxGap`, `Reorder` and `Drift` with `Reorder + Drift <= W \div 2` and `MaxGap <= Drift`.
  `OnTimeline` is not inductive: nothing in it keeps packets that are under way from being
  older than half of the space. `StreamInv` adds that (a packet in flight is at most `Reorder` behind the sender, the
  next slot at most `Drift` from it), `BufferInv` that a buffered packet lies under its own low bits
  within `MaxGap` of the next slot. The lemmas at the head of the module say what is needed
  of arithmetic modulo `W`: numbers less than `W` apart have their distance, and only equal ones
  share a slot (`Distance`, `SameSlot`).
- `MiniaudioSinkProofs!SessionsStaySeparate`: `GateSeparates` for any number of gate sessions,
  stalls and losses. `SessionInv`: what is buffered, and the rest of a frame, is of the latest
  session, and no rest of a frame survives the gate (without that conjunct it would be heard at
  the next opening).
- `MiniaudioSinkProofs!HeardInTime`: `PlaysCurrentAudio`, for any number of gate sessions and
  stalls of the sender, as long as `CollectsInTime` holds (while the prebuffer fills, the next packet is
  within the gap limit) and if `Prebuffer + Losses + DeviceStalls < W \div 2` (`WithinHalf`). `AgeInv`
  has the distance `lag` of the sender from playout as an unbounded integer, of which the
  buffer sees the residue modulo `W` only: while the prebuffer fills, a packet is as old as its
  place behind it (`Collecting`); afterwards the age of a packet, counted in halves of a period, is
  bounded by the halves played before it and what the device still has to pull (`Playing`).
  `HeardIsCurrent` is the same with a condition on the constants only: `CollectsInTime` holds if
  `Prebuffer + Losses <= MaxGap + 1` (`WithinLimits`). Both conditions are needed: with `W` = 14, a gap
  limit of 2, a prebuffer of 2, 3 losses and one stall of either side TLC finds the property violated,
  and kept on the runs that stay within `CollectsInTime`; and with a gap limit of 5 and a prebuffer of 3
  it is violated by 6 stalls of the device, one of the sender and one loss. The code has 65536 numbers and
  the sinks a gap limit of 25: the theorem is about runs that lose or miss some thirty thousand
  packets and pulls in all, and not more than 24 between the first packet and the one that fills the
  prebuffer of 2.
- `FfplaySinkProofs!CountStaysExact`: `QueueBounded`, types included, for any stream, losses, repeats,
  queue and number of gate openings. `PlaceInv` (the buffer's `expected` is `next` modulo `W`) keeps
  what the buffer holds within the numbers sent. The lemmas on `Packets` say what putting an
  event into the queue and taking one out of it do to the count.
- `FfplaySinkProofs!ReplaysNothing`: `NothingReplayed`, as long as each packet the worker takes is
  `InSight`: at most half of the sequence space from the buffer's next slot. Nothing in the property
  speaks of what is still in the queue or the buffer; `ReplayInv` does. What the worker has
  written is behind `next` (`PlayedInv`), what is buffered lies under its own low bits, within
  `MaxGap` of `next` and not behind it (`HeldInv`), and the packets in the queue were sent in order but
  for `Reorder` (`OrderInv`). A buffer that has started again may yet move its start back to an earlier
  packet: while it collects, none that is queued or may still arrive was written (`CollectInv`).
- `FfplaySinkProofs!ShortStreamNotReplayed`: the same with a condition on the constants only,
  `ShortStream`: packets, repeats and queue fit in half of the space, 32768 numbers in the code.
  `AheadInv` bounds how far `next` can run ahead of the sender: every arrival moves it on by at most
  one slot, a packet that comes again included. That is also why a condition is needed:
  in `FfplayRepeats.cfg` the repeats move the buffer on by half of the space, and TLC finds the replay.

Model-checked only:

- every liveness property, since fairness and `ENABLED` are out of the prover's reach (`CallsReturn`,
  `PttReleasedAfterLoss`, `StreamsStop`, `ScriptGoesOn`, `ControlsComeBack`, `Resynchronizes`,
  `DrainEnds`, `CloseEnds`, `ReleaseClosesTx`, `HomeComesBack`, `AppScreenComesBack`, `ScanEnds`, `StopEnds`,
  `RequestsAnswered`);
- the properties of `Wire`. `Framing` parses with recursive functions: that the parser inverts
  the encoder for every input would need induction over data, which the prover does not have.

## 6. Findings

`ptt_stream_fails` exhibits a place where a document says one thing and the code does another:
the `finally` block of `_session` awaits tasks that may have failed, and suppresses only
`CancelledError`; an exception leaves readiness and the control task in place, and no later
session starts controls.

Further divergences have a `.cfg` of their own, to be run by hand; TLC finds the violation in
each.

| cfg, module | property | what happens |
|---|---|---|
| `MicPttOverlap.cfg`, `MCMicPtt` | `NeverKeyedUnknowingly` | the `finally` block of an old session clears `_mic_ptt_asserted` of a newer one: the radio stays keyed and a release sends nothing |
| `MicKeysStaleHold.cfg`, `MCMicKeys` | `HeldKeyIsDown` | `_interactive_key` outlives its session; the next press of that key sends nothing, one of another key raises (`docs/CONTROLS_API.md:113-114`) |
| `SessionMidProbe.cfg`, `MCSessionLink` | `KindsAgree` | a mic that restarts in or right after the probe takes the stable session for its probe: it acknowledges screens, never starts controls, and heartbeats keep the session up |
| `MiniaudioBehind.cfg`, `MCMiniaudioSink` | `CatchesUp` | a device further behind than the gap limit refuses every packet for the rest of the gate (`audio.py:572-577`, `850`), while `docs/LATENCY.md:28-30` has sequence state resynchronize at current RTP |
| `FfplayShortGate.cfg`, `MCFfplaySink` | `DrainEnds` | a gate with fewer packets than the prebuffer is never drained; the worker spins and `close()` raises after two seconds (`audio.py:738`) |
| `FfplayRepeats.cfg`, `MCFfplaySink` | `NothingReplayed` | a packet that comes again is refused, and yet a frame is popped for it (`audio.py:746`): with the default prebuffer of 2 the second repeat without a loss makes every later packet of the gate late, and after half of the sequence space of them an old packet looks new and is played again |
| `PlaybackOverlap.cfg`, `MCRadioAudio` | `PathKept` | `send_tone` and its like go past the lock that rejects overlapping playback (`test_app.py:661`, `CHANGELOG.md:50-51`) |
| `PlaybackLateLock.cfg`, `MCRadioAudio` | `PathKept` | a file is handed over before the lock is looked at: called in the last moment of another, it opens the path before that one closes it, and then plays into a closed path (`test_app.py:585-592`) |
| `RuntimeStale.cfg`, `MCRuntime` | `ClearedAlways` | the `finally` block of a mic session breaks off before "disconnected" is written (`emulator.py:2472-2496`): the projection keeps readiness, PTT and the receive gate of a session that is over (`docs/EMULATOR.md:75-76`) |
| `RuntimeStopRaises.cfg`, `MCRuntime` | `StopHeard` | `stop` of the software radio waits for the display it restores; a connection lost meanwhile raises `ConnectionResetError`, which `except RuntimeError` lets through, and the thread goes on (`test_app.py:546-553`) |
| `WireWrap.cfg`, `MCWire` | `CaptureFaithful` | segments are sorted by raw sequence numbers: after a wrap the later one comes first (`pcap.py:248`, `README.md:113`) |

Seen while reading, and not modelled as such: `send_interactive_raw_frame` accepts bytes that
only the parser takes for one message, unframed or with a wrong checksum
(`emulator.py:664-671`, `docs/CONTROLS_API.md:159`); nothing reads the `tx_armed` that
`set_tx_armed` writes (`gui_server.py:440-461`); the boot datagram is sent once in a session and
not repeated (`emulator.py:3273`).

## 7. Not modelled, and why

- The scripted transmission of the mic: one sequential transaction of the press, stream and
  release that `MicPtt` interleaves.
- Microphone sources: device callbacks and an ffmpeg process behind a bounded queue that
  drops stale samples within one call.
- The conformance proxies, analysis tools, scripts and the dissector: tools around the
  program, with sockets and files of their own. Of `pcap.py` what comes before and
  after reassembly: tshark, RTP headers, reports.
- Argument validation, tables of names, the layout of a display buffer, GUI pages, HTTP, the
  event log, meters, and files written beside a capture (`start_recording`).
- Heartbeat frames: they change no state but the watchdog's, which is the action that loses
  a peer. RTP that the mic's gate lets through is the input of the sinks.
- `Wire` has captures of connections without a loss and of two frames only; retransmissions
  that reorder messages in time are compared as a set, since `decode_capture` sorts by time.
  Two mic sessions that overlap would share one display tracker; sessions there are one at a
  time.

## 8. Plan

1. Compositions: `RadioAudio` over `MiniaudioSink`, so that what is heard is compared with
   what was played; `MicPtt` with `RadioAudio` at its other end.
2. Microphone sources and the scripted transmission as further streams of `MicPtt`.
