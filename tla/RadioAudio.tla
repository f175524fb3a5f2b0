------------------------------ MODULE RadioAudio ------------------------------
(***************************************************************************)
(* Sound in both directions through the software radio of the application:   *)
(* a press of the mic's PTT is answered, captured and, in Parrot mode,       *)
(* replayed; callers on threads of their own play files.  Both directions    *)
(* share one audio path: the mic obeys the last audio-state frame it was     *)
(* told, whoever sent it.  automatic_ptt_responses is on and UDP is booted.  *)
(* A datagram takes less than 10 ms.  One asyncio loop on each side.         *)
(***************************************************************************)
EXTENDS Naturals, Sequences, FiniteSets

CONSTANTS
    Files,          \* threads that play sound
    Tones,          \* those of them that call send_tone or send_wav, not send_audio_file
    Parrot,         \* the replay task
    None,           \* Python's None
    Presses,        \* presses of the PTT
    Limit,          \* _mic_recording_max_packets
    Plays,          \* calls of send_audio_file
    Losses,         \* connections that are lost
    HalfDuplex,     \* nobody presses while the speaker is in use, nor the reverse
    LateLock,       \* a file may be called within the last moment of another's closing
                    \* delay, while another is being stopped, or while one goes on for a
                    \* connection that is gone: the lock then comes too late
    StopAnytime,    \* a playback may be stopped before it sends and while it closes
    LongPress       \* a press in Parrot mode may reach Limit

ASSUME AudioAssumption ==
    /\ Tones \subseteq Files /\ Parrot \notin Files /\ None \notin Files \cup {Parrot}
    /\ Presses \in Nat /\ Limit \in Nat \ {0} /\ Plays \in Nat /\ Losses \in Nat
    /\ HalfDuplex \in BOOLEAN /\ LateLock \in BOOLEAN
    /\ StopAnytime \in BOOLEAN /\ LongPress \in BOOLEAN

Tasks == Files \cup {Parrot}

VARIABLES
    link,       \* the connection: up, lost (the session ends), down
    session,    \* its number
    toRadio,    \* PTT frames under way: down, up
    toMic,      \* audio-state frames under way: rx, tx, closed
    rtp,        \* microphone packets under way: press and number
    ptt,        \* the mic's PTT: up, down, wait (for the radio to close)
    stream,     \* its RTP: none, live, tail
    press,      \* presses so far
    sent,       \* packets of this press
    txOn,       \* _mic_tx_active
    gate,       \* _radio_audio_gate_open
    drain,      \* the mic's reader waits before it closes the gate
    path,       \* the last audio state the mic was told
    reader,     \* the radio's reader: read, answering, releasing
    recording,  \* _mic_recording; the completion event is its negation
    active,     \* _mic_ptt_session_active
    timer,      \* _mic_finalize_handle
    count,      \* _mic_packet_count
    parrot,     \* _parrot_enabled
    capturing,  \* _parrot_capturing
    payloads,   \* _parrot_payloads, as the press of each
    task,       \* a playback: its place, its `writer` as a session, the packets it has
                \* left, and its cancellation: no, asked, taken
    fpc,        \* the place of a caller's thread in _run_audio_action
    owner,      \* _audio_future
    plays       \* calls so far

wireVars == <<link, session, toRadio, rtp>>
micVars == <<ptt, stream, press, sent, txOn>>
gateVars == <<gate, drain>>
captureVars == <<recording, active, timer, count>>
parrotVars == <<parrot, capturing, payloads>>
callVars == <<fpc, owner, plays>>
vars == <<wireVars, toMic, micVars, gateVars, path, reader, captureVars, parrotVars,
          task, callVars>>

Init ==
    /\ link = "up" /\ session = 1 /\ toRadio = <<>> /\ toMic = <<>> /\ rtp = {}
    /\ ptt = "up" /\ stream = "none" /\ press = 0 /\ sent = 0 /\ txOn = FALSE
    /\ gate = FALSE /\ drain = FALSE /\ path = "closed" /\ reader = "read"
    /\ recording = FALSE /\ active = FALSE /\ timer = FALSE /\ count = 0
    /\ parrot = FALSE /\ capturing = FALSE /\ payloads = <<>>
    /\ task = [t \in Tasks |-> [at |-> "done", writer |-> 0, left |-> 0, cancel |-> "no"]]
    /\ fpc = [f \in Files |-> "idle"] /\ owner = None /\ plays = 0

Tell(state) == toMic' = Append(toMic, state) /\ path' = state

Done == [at |-> "done", writer |-> 0, left |-> 0, cancel |-> "no"]

At(t) == task[t].at
Opened(t) == At(t) \in {"opening", "sending", "closing"}
Cancel(t) ==
    task' = IF At(t) = "done" THEN task ELSE [task EXCEPT ![t].cancel = "asked"]

-----------------------------------------------------------------------------
(* The mic *)

\* The user presses again once the radio has answered the release.
MicPress ==
    /\ link = "up" /\ ptt # "down" /\ stream = "none" /\ press < Presses
    /\ toRadio = <<>> /\ reader = "read" /\ \A i \in DOMAIN toMic : toMic[i] # "tx"
    /\ HalfDuplex => \A t \in Tasks : At(t) \in {"done", "waiting"}
    /\ ptt' = "down" /\ txOn' = FALSE /\ press' = press + 1 /\ sent' = 0
    /\ toRadio' = Append(toRadio, "down")
    /\ UNCHANGED <<link, session, rtp, stream, toMic, gateVars, path, reader, captureVars,
                   parrotVars, task, callVars>>

MicSendsRtp ==
    /\ stream # "none" /\ sent < Limit
    /\ LongPress \/ ~parrot \/ sent + 1 < Limit
    /\ sent' = sent + 1 /\ rtp' = rtp \cup {<<press, sent'>>}
    /\ UNCHANGED <<link, session, toRadio, toMic, ptt, stream, press, txOn, gateVars, path,
                   reader, captureVars, parrotVars, task, callVars>>

MicRelease ==
    /\ link = "up" /\ ptt = "down"
    /\ ptt' = "wait" /\ toRadio' = Append(toRadio, "up")
    /\ stream' = IF stream = "live" THEN "tail" ELSE stream
    /\ UNCHANGED <<link, session, rtp, press, sent, txOn, toMic, gateVars, path, reader,
                   captureVars, parrotVars, task, callVars>>

TailSent ==
    /\ stream = "tail" /\ stream' = "none" /\ sent' = 0
    /\ UNCHANGED <<wireVars, toMic, ptt, press, txOn, gateVars, path, reader,
                   captureVars, parrotVars, task, callVars>>

\* Mutant: the close waits in a task of its own while the reader goes on.
MicReadsOn ==
    /\ toMic # <<>> /\ toMic' = Tail(toMic)
    /\ gate' = (Head(toMic) = "rx" \/ gate)
    /\ drain' = (Head(toMic) = "closed" \/ drain)
    /\ txOn' = (Head(toMic) = "tx" \/ txOn)
    /\ stream' = IF Head(toMic) = "tx" /\ ptt = "down" THEN "live" ELSE stream
    /\ UNCHANGED <<wireVars, ptt, press, sent, path, reader, captureVars, parrotVars,
                   task, callVars>>

\* The audio-state branch of _verified_mic_session; a press then starts its stream.
MicReads ==
    /\ ~drain /\ toMic # <<>> /\ toMic' = Tail(toMic)
    /\ gate' = (Head(toMic) = "rx" \/ gate)
    /\ drain' = (Head(toMic) = "closed")
    /\ txOn' = (Head(toMic) = "tx" \/ txOn)
    /\ stream' = IF Head(toMic) = "tx" /\ ptt = "down" THEN "live" ELSE stream
    /\ UNCHANGED <<wireVars, ptt, press, sent, path, reader, captureVars, parrotVars,
                   task, callVars>>

\* RADIO_AUDIO_RECEIVE_DRAIN_SECONDS later.
GateCloses ==
    /\ drain /\ drain' = FALSE /\ gate' = FALSE
    /\ ptt' = IF ptt = "wait" /\ txOn THEN "up" ELSE ptt
    /\ UNCHANGED <<wireVars, toMic, stream, press, sent, txOn, path, reader, captureVars,
                   parrotVars, task, callVars>>

-----------------------------------------------------------------------------
(* Capture on the radio *)

\* Mutant: a new press leaves the timer of the last release running.
StartKeepsTimer ==
    /\ recording' = TRUE /\ active' = TRUE /\ count' = 0 /\ UNCHANGED timer

\* start_mic_recording
StartRecording ==
    /\ recording' = TRUE /\ active' = TRUE /\ count' = 0 /\ timer' = FALSE

\* Mutant: a recording that ends takes the press with it.
FinishEndsPress ==
    /\ recording' = FALSE /\ timer' = FALSE /\ active' = FALSE

\* finish_mic_recording: the press it belonged to may go on.
Finish == recording' = FALSE /\ timer' = FALSE /\ UNCHANGED active

\* Mutant: a new capture is appended to the last one.
BeginKeepsPayloads ==
    IF ~parrot THEN UNCHANGED <<capturing, payloads, task>>
    ELSE capturing' = TRUE /\ Cancel(Parrot) /\ UNCHANGED payloads

\* _begin_parrot_capture
BeginCapture ==
    IF ~parrot THEN UNCHANGED <<capturing, payloads, task>>
    ELSE capturing' = TRUE /\ payloads' = <<>> /\ Cancel(Parrot)

RadioReadsDown ==
    /\ link = "up" /\ reader = "read" /\ toRadio # <<>> /\ Head(toRadio) = "down"
    /\ toRadio' = Tail(toRadio) /\ reader' = "answering"
    /\ BeginCapture
    /\ StartRecording
    /\ UNCHANGED <<link, session, rtp, toMic, micVars, gateVars, path, parrot, callVars>>

\* A replay that was cancelled has ended long before the next release.
RadioReadsUp ==
    /\ link = "up" /\ reader = "read" /\ toRadio # <<>> /\ Head(toRadio) = "up"
    /\ toRadio' = Tail(toRadio)
    /\ IF parrot /\ capturing
       THEN /\ At(Parrot) = "done"
            /\ task' = [task EXCEPT ![Parrot].at = "waiting"]
       ELSE UNCHANGED task
    /\ IF active THEN active' = FALSE /\ timer' = recording /\ reader' = "releasing"
       ELSE UNCHANGED <<active, timer, reader>>
    /\ UNCHANGED <<link, session, rtp, toMic, micVars, gateVars, path, recording, count,
                   parrotVars, callVars>>

AnswerPress ==
    /\ reader = "answering" /\ reader' = "read"
    /\ Tell("tx")
    /\ UNCHANGED <<wireVars, micVars, gateVars, captureVars, parrotVars, task, callVars>>

\* 220 ms after the release; the mic's tail takes 210.
AnswerRelease ==
    /\ reader = "releasing" /\ reader' = "read"
    /\ stream = "none" /\ rtp = {}
    /\ Tell("closed")
    /\ UNCHANGED <<wireVars, micVars, gateVars, captureVars, parrotVars, task, callVars>>

\* 350 ms after the release.
TailElapsed ==
    /\ timer /\ reader # "releasing"
    /\ Finish
    /\ UNCHANGED <<wireVars, toMic, micVars, gateVars, path, reader, count, parrotVars,
                   task, callVars>>

\* datagram_received, _record_mic_rtp and _on_audio; or the packet is lost.
RtpArrives ==
    \E packet \in rtp :
        /\ rtp' = rtp \ {packet}
        /\ \/ UNCHANGED <<captureVars, payloads>>
           \/ /\ recording
              /\ count' = count + 1
              /\ payloads' = IF parrot /\ capturing THEN Append(payloads, packet[1])
                             ELSE payloads
              /\ IF count' >= Limit THEN Finish ELSE UNCHANGED <<recording, active, timer>>
        /\ UNCHANGED <<link, session, toRadio, toMic, micVars, gateVars, path, reader, parrot,
                       capturing, task, callVars>>

-----------------------------------------------------------------------------
(* Playback on the radio *)

\* The task goes on with its next step unless it is about to be cancelled.
Runs(t, place) == At(t) = place /\ task[t].cancel # "asked"
Goes(t, place) ==
    task' = IF place = "done" THEN [task EXCEPT ![t] = Done]
            ELSE [task EXCEPT ![t].at = place]
Reaches(t) == link = "up" /\ task[t].writer = session

\* The start of send_interactive_audio_payloads, and its sleep of 10 ms.
Open(t, packets) ==
    IF link = "up" /\ packets > 0
    THEN /\ Tell("rx")
         /\ task' = [task EXCEPT ![t] = [at |-> "opening", writer |-> session,
                                        left |-> packets, cancel |-> @.cancel]]
    ELSE Goes(t, "done") /\ UNCHANGED <<toMic, path>>

\* No press is about to reach the radio.
SpeakerFree == HalfDuplex => ptt # "down" /\ toRadio = <<>> /\ reader # "answering"

\* replay(), woken by the completion event.
Replay ==
    /\ Runs(Parrot, "waiting") /\ ~recording /\ SpeakerFree
    /\ capturing' = FALSE
    /\ Open(Parrot, Len(payloads))
    /\ UNCHANGED <<wireVars, micVars, gateVars, reader, captureVars, parrot, payloads, callVars>>

\* A cancellation asked for before the first step is delivered after it.
FileBegins(f) ==
    /\ At(f) = "start"
    /\ Open(f, 1)
    /\ UNCHANGED <<wireVars, micVars, gateVars, reader, captureVars, parrotVars, callVars>>

\* No caller is between run_coroutine_threadsafe and its look at the lock.
NoneSubmitted == \A f \in Files : fpc[f] # "submitted"

\* A cancellation reaches its task well before a sleep of 10 ms ends.
PlaySteps(t) ==
    /\ \A u \in Tasks : task[u].cancel # "asked"
    /\ UNCHANGED <<wireVars, micVars, gateVars, reader, captureVars, parrotVars, callVars>>
    /\ \/ \* A caller checks for another playback well within the 10 ms.
          /\ At(t) = "opening" /\ NoneSubmitted
          /\ Goes(t, IF Reaches(t) THEN "sending" ELSE "done")
          /\ UNCHANGED <<toMic, path>>
       \/ /\ At(t) = "sending" /\ task[t].left > 0
          /\ task' = [task EXCEPT ![t].left = @ - 1]
          /\ UNCHANGED <<toMic, path>>
       \/ /\ At(t) = "sending" /\ task[t].left = 0
          /\ Goes(t, "closing")
          /\ UNCHANGED <<toMic, path>>
       \/ \* Without LateLock also within the 10 ms before a close.
          /\ At(t) = "closing" /\ (LateLock \/ NoneSubmitted)
          /\ IF Reaches(t) THEN Tell("closed") ELSE UNCHANGED <<toMic, path>>
          /\ Goes(t, "done")

\* Only the packets are sent in a try block: elsewhere nothing closes the path.
CancelTaken(t) ==
    /\ task[t].cancel = "asked" /\ At(t) # "start"
    /\ IF At(t) = "sending"
       THEN task' = [task EXCEPT ![t].at = "closing", ![t].cancel = "taken"]
       ELSE Goes(t, "done")
    /\ UNCHANGED <<wireVars, toMic, micVars, gateVars, path, reader, captureVars, parrotVars,
                   callVars>>

-----------------------------------------------------------------------------
(* The application *)

Stoppable(t) == StopAnytime \/ At(t) \notin {"start", "opening", "closing"}

\* set_parrot_enabled
SetParrot ==
    /\ Stoppable(Parrot)
    /\ parrot' = ~parrot /\ capturing' = FALSE /\ payloads' = <<>>
    /\ Cancel(Parrot)
    /\ UNCHANGED <<wireVars, toMic, micVars, gateVars, path, reader, captureVars, callVars>>

FutureDone(f) == At(f) = "done" \/ task[f].cancel # "no"

\* send_audio_file, send_tone or send_wav, up to run_coroutine_threadsafe: the coroutine is
\* handed over before the lock is looked at.  Without LateLock no playback is being stopped
\* or is left over from a lost connection.
SubmitFile(f) ==
    /\ fpc[f] = "idle" /\ link = "up" /\ plays < Plays /\ At(f) = "done"
    /\ HalfDuplex => /\ ptt = "up" /\ toRadio = <<>> /\ reader = "read"
                     /\ At(Parrot) = "done"
    /\ LateLock \/ \A t \in Files : Opened(t) => Reaches(t) /\ task[t].cancel = "no"
    /\ fpc' = [fpc EXCEPT ![f] = "submitted"] /\ plays' = plays + 1
    /\ Goes(f, "start")
    /\ UNCHANGED <<wireVars, toMic, micVars, gateVars, path, reader, captureVars, parrotVars,
                   owner>>

\* Mutant: nobody looks at the lock.
CheckNothing(f) ==
    /\ fpc[f] = "submitted"
    /\ owner' = IF f \in Tones THEN owner ELSE f
    /\ fpc' = [fpc EXCEPT ![f] = "waiting"]
    /\ UNCHANGED <<wireVars, toMic, micVars, gateVars, path, reader, captureVars, parrotVars,
                   task, plays>>

\* The lock of _run_audio_action; _run_action looks at nothing.
CheckFile(f) ==
    /\ fpc[f] = "submitted"
    /\ IF f \notin Tones /\ owner # None /\ ~FutureDone(owner)
       THEN Cancel(f) /\ fpc' = [fpc EXCEPT ![f] = "idle"] /\ UNCHANGED owner
       ELSE /\ owner' = IF f \in Tones THEN owner ELSE f
            /\ fpc' = [fpc EXCEPT ![f] = "waiting"] /\ UNCHANGED task
    /\ UNCHANGED <<wireVars, toMic, micVars, gateVars, path, reader, captureVars, parrotVars,
                   plays>>

FileReturns(f) ==
    /\ fpc[f] = "waiting" /\ FutureDone(f)
    /\ fpc' = [fpc EXCEPT ![f] = "idle"]
    /\ owner' = IF owner = f THEN None ELSE owner
    /\ UNCHANGED <<wireVars, toMic, micVars, gateVars, path, reader, captureVars, parrotVars,
                   task, plays>>

\* stop_audio_playback
StopFile ==
    /\ owner # None /\ ~FutureDone(owner) /\ Stoppable(owner)
    /\ LateLock \/ NoneSubmitted
    /\ Cancel(owner)
    /\ UNCHANGED <<wireVars, toMic, micVars, gateVars, path, reader, captureVars, parrotVars,
                   callVars>>

-----------------------------------------------------------------------------
(* The connection *)

\* Both sessions end, up to finish_mic_recording; the mic fails closed.
LinkLost ==
    /\ link = "up" /\ session <= Losses /\ link' = "lost"
    /\ toRadio' = <<>> /\ toMic' = <<>> /\ path' = "closed"
    /\ ptt' = "up" /\ stream' = "none" /\ txOn' = FALSE /\ gate' = FALSE /\ drain' = FALSE
    /\ reader' = "read"
    /\ Finish
    /\ UNCHANGED <<session, rtp, press, sent, count, parrotVars, task, callVars>>

\* The event disconnected, and _discard_transient_media on it.
Disconnected ==
    /\ link = "lost" /\ link' = "down"
    /\ capturing' = FALSE /\ payloads' = <<>>
    /\ Cancel(Parrot)
    /\ UNCHANGED <<session, toRadio, rtp, toMic, micVars, gateVars, path, reader, captureVars,
                   parrot, callVars>>

\* The startup of a session takes much longer than the sleeps of 10 ms.
Reconnect ==
    /\ link = "down" /\ link' = "up" /\ session' = session + 1 /\ rtp = {}
    /\ \A t \in Tasks : At(t) \notin {"start", "opening", "closing"}
    /\ UNCHANGED <<toRadio, rtp, toMic, micVars, gateVars, path, reader, captureVars,
                   parrotVars, task, callVars>>

MicSteps == TailSent \/ MicReads \/ GateCloses
ReaderSteps == RadioReadsDown \/ RadioReadsUp \/ AnswerPress \/ AnswerRelease
TaskSteps(t) == PlaySteps(t) \/ CancelTaken(t)
UserSteps == MicPress \/ MicSendsRtp \/ MicRelease \/ SetParrot \/ StopFile \/ LinkLost
FileSteps(f) == SubmitFile(f) \/ FileBegins(f) \/ CheckFile(f) \/ FileReturns(f)

Next ==
    \/ MicSteps \/ ReaderSteps \/ TailElapsed \/ RtpArrives \/ Replay
    \/ UserSteps \/ Disconnected \/ Reconnect
    \/ \E t \in Tasks : TaskSteps(t)
    \/ \E f \in Files : FileSteps(f)

Spec == Init /\ [][Next]_vars

\* Both loops run, datagrams arrive or are lost, timers elapse.  Users need do nothing.
FairSpec ==
    /\ Spec
    /\ WF_vars(TailSent) /\ WF_vars(MicReads) /\ WF_vars(GateCloses)
    /\ WF_vars(ReaderSteps) /\ WF_vars(RtpArrives)
    /\ \A t \in Tasks : WF_vars(TaskSteps(t))

-----------------------------------------------------------------------------
(* Properties *)

States == {"rx", "tx", "closed"}

TypeOK ==
    /\ link \in {"up", "lost", "down"} /\ session \in 1 .. Losses + 1
    /\ toRadio \in Seq({"down", "up"}) /\ toMic \in Seq(States) /\ path \in States
    /\ rtp \subseteq (1 .. Presses) \X (1 .. Limit)
    /\ ptt \in {"up", "down", "wait"} /\ stream \in {"none", "live", "tail"}
    /\ press \in 0 .. Presses /\ sent \in 0 .. Limit /\ count \in 0 .. Limit
    /\ {txOn, gate, drain, recording, active, timer, parrot, capturing} \subseteq BOOLEAN
    /\ reader \in {"read", "answering", "releasing"}
    /\ payloads \in Seq(1 .. Presses)
    /\ task \in [Tasks -> [at : {"waiting", "start", "opening", "sending", "closing", "done"},
                            writer : 0 .. Losses + 1, left : Nat,
                            cancel : {"no", "asked", "taken"}]]
    /\ fpc \in [Files -> {"idle", "submitted", "waiting"}]
    /\ owner \in Files \cup {None} /\ plays \in 0 .. Plays

\* The timer of a release never meets a press: whenever it runs, the PTT is up, and what
\* it will end is a recording.  (start, release and finish_mic_recording)
TimerAfterRelease == timer => recording /\ ~active

\* What Parrot replays comes from one press, however presses, tails, toggles and a lost
\* connection follow each other.  (_begin_parrot_capture: "current-PTT capture")
ReplayIsOnePress == \A i, j \in DOMAIN payloads : payloads[i] = payloads[j]

\* Nobody closes the path of another: a playback between its open and its close has the
\* mic told to receive, and a press that was answered has it told to transmit until the
\* release.  And nobody leaves it open: told to receive, the mic is told so for a playback,
\* however the last one ended: played, rejected, stopped, cancelled, or cut off.
\* (_run_audio_action, stop_audio_playback and the reader's answers to a press.  Files come
\* before the other's last 10 ms, by LateLock; a tone looks at no lock.)
PathKept ==
    /\ path = "rx" => \E t \in Tasks : At(t) = "start" \/ (Opened(t) /\ Reaches(t))
    /\ \A t \in Tasks : Opened(t) /\ Reaches(t) => path = "rx"
    /\ ptt = "down" /\ txOn => path = "tx"

\* The mic's gate is what the radio last told it once it has read everything: a close that
\* drains never closes the gate opened after it.
GateFollowsPath ==
    /\ TypeOK
    /\ link = "up" /\ toMic = <<>> /\ ~drain => gate = (path = "rx")

\* A release is answered: the mic does not stay told to transmit with its PTT up, also
\* when the recording had reached its limit before.
ReleaseClosesTx == ptt # "down" ~> path # "tx" \/ ptt = "down"
=============================================================================
