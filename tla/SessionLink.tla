----------------------------- MODULE SessionLink -----------------------------
(***************************************************************************)
(* How the two endpoints get to a session with controls, and back to one     *)
(* after a fault.  The radio connects, the mic listens.  Each side decides   *)
(* by its own count of sessions whether a connection is the short probe or   *)
(* the stable session: nothing on the wire says so.  One connection at a     *)
(* time: the radio reconnects after reconnect_delay, which outlasts the      *)
(* mic's teardown (MicPtt has sessions that overlap).  Heartbeats keep an    *)
(* idle session up and change nothing else.                                  *)
(***************************************************************************)
EXTENDS Naturals, Sequences

CONSTANTS
    Faults,     \* restarts and cuts that may still happen
    MidProbe    \* the mic may be struck in a probe session or right after it

ASSUME LinkAssumption == Faults \in Nat /\ MidProbe \in BOOLEAN

VARIABLES
    radioCount, \* _radio_session_count
    radio,      \* the radio's end of the connection: closed, probe, stable
    started,    \* startup_task and heartbeat_task of the radio's session
    screens,    \* screens the startup task still sends
    micCount,   \* _mic_session_count; more than one session counts as one
    mic,        \* the mic's end: closed, pending (not yet accepted), probe, stable
    answered,   \* startup_sync_sent, identity_sent, probe_response_sent
    displays,   \* stable_display_count; more than two count as two
    grace,      \* _mic_ready_task waits
    controls,   \* _mic_control_task runs
    toMic,      \* frames under way to the mic
    toRadio,    \* frames under way to the radio
    cut,        \* the network delivers nothing more on this connection
    faults      \* faults so far

radioVars == <<radioCount, radio, started, screens>>
micVars == <<micCount, mic, answered, displays, grace, controls>>
vars == <<radioVars, micVars, toMic, toRadio, cut, faults>>

Init ==
    /\ radioCount = 0 /\ radio = "closed" /\ started = FALSE /\ screens = 0
    /\ micCount = 0 /\ mic = "closed" /\ answered = {} /\ displays = 0
    /\ grace = FALSE /\ controls = FALSE
    /\ toMic = <<>> /\ toRadio = <<>> /\ cut = FALSE
    /\ faults = 0

InSession(end) == end \in {"probe", "stable"}

\* A frame is lost if nobody is left to read it.
SendToMic(frame) == toMic' = IF mic = "closed" THEN toMic ELSE Append(toMic, frame)
SendToRadio(frame) == toRadio' = IF radio = "closed" THEN toRadio ELSE Append(toRadio, frame)

-----------------------------------------------------------------------------
(* The radio *)

\* The loop of run, into _session and _verified_radio_session.
Connect ==
    /\ radio = "closed" /\ mic = "closed"
    /\ radio' = IF radioCount = 0 THEN "probe" ELSE "stable"
    /\ radioCount' = radioCount + 1
    /\ mic' = "pending"
    /\ toMic' = <<"hello">> /\ toRadio' = <<>> /\ cut' = FALSE
    /\ UNCHANGED <<started, screens, micCount, answered, displays, grace, controls, faults>>

RadioTakes(frame) ==
    /\ InSession(radio) /\ ~cut
    /\ toRadio # <<>> /\ Head(toRadio) = frame
    /\ toRadio' = Tail(toRadio)

RadioReady ==
    /\ RadioTakes("sync")
    /\ SendToMic("ready")
    /\ UNCHANGED <<radioVars, micVars, cut, faults>>

\* The mic's identity is answered with the probe prompt, or starts the stable session:
\* two screens, or one when a radio that comes back leaves out its opening text.
RadioIdentified ==
    /\ RadioTakes("identity")
    /\ \/ /\ radio = "probe"
          /\ SendToMic("prompt")
          /\ UNCHANGED <<started, screens>>
       \/ /\ radio = "stable" /\ ~started
          /\ started' = TRUE
          /\ screens' \in {1, 2}
          /\ UNCHANGED toMic
    /\ UNCHANGED <<radioCount, radio, micVars, cut, faults>>

SendScreen ==
    /\ screens > 0 /\ screens' = screens - 1
    /\ SendToMic("screen")
    /\ UNCHANGED <<radioCount, radio, started, micVars, toRadio, cut, faults>>

\* Mutant: the count of an ended stable session stays.
RadioEndsKeepsCount ==
    /\ radio' = "closed" /\ started' = FALSE /\ screens' = 0
    /\ UNCHANGED radioCount

\* The finally blocks of the session: a stable session that ends resets the count.
RadioEnds ==
    /\ radio' = "closed" /\ started' = FALSE /\ screens' = 0
    /\ radioCount' = IF radio = "stable" THEN 0 ELSE radioCount

\* The mic has answered the probe: the radio closes.
ProbeComplete ==
    /\ radio = "probe"
    /\ RadioTakes("answer")
    /\ RadioEnds
    /\ UNCHANGED <<micVars, toMic, cut, faults>>

\* End of file, or the watchdog.
RadioLosesMic ==
    /\ InSession(radio)
    /\ cut \/ (mic = "closed" /\ toRadio = <<>>)
    /\ RadioEnds
    /\ UNCHANGED <<micVars, toMic, toRadio, cut, faults>>

-----------------------------------------------------------------------------
(* The mic *)

\* _accept_session, into _session and _verified_mic_session.
Accept ==
    /\ mic = "pending"
    /\ mic' = IF micCount = 0 THEN "probe" ELSE "stable"
    /\ micCount' = 1
    /\ answered' = {} /\ displays' = 0
    /\ UNCHANGED <<radioVars, grace, controls, toMic, toRadio, cut, faults>>

MicTakes(frame) ==
    /\ InSession(mic) /\ ~cut
    /\ toMic # <<>> /\ Head(toMic) = frame
    /\ toMic' = Tail(toMic)

Reply == [hello |-> "sync", ready |-> "identity", prompt |-> "answer"]

\* Mutant: the probe prompt is answered in a probe session only, as the radio sends it.
MicAnswersInProbe(frame) ==
    /\ MicTakes(frame)
    /\ \/ /\ frame \notin answered /\ (frame = "prompt" => mic = "probe")
          /\ answered' = answered \cup {frame}
          /\ SendToRadio(Reply[frame])
       \/ /\ frame \in answered \/ (frame = "prompt" /\ mic = "stable")
          /\ UNCHANGED <<answered, toRadio>>
    /\ UNCHANGED <<radioVars, micCount, mic, displays, grace, controls, cut, faults>>

\* Hello, ready and the probe prompt are answered once in a session.
MicAnswers(frame) ==
    /\ MicTakes(frame)
    /\ \/ /\ frame \notin answered
          /\ answered' = answered \cup {frame}
          /\ SendToRadio(Reply[frame])
       \/ frame \in answered /\ UNCHANGED <<answered, toRadio>>
    /\ UNCHANGED <<radioVars, micCount, mic, displays, grace, controls, cut, faults>>

\* Mutant: a lone screen starts no delay.
MicShowsTwice ==
    /\ MicTakes("screen")
    /\ IF mic = "probe" THEN UNCHANGED <<displays, controls>>
       ELSE IF displays = 0
       THEN displays' = 1 /\ UNCHANGED controls
       ELSE displays' = 2 /\ controls' = TRUE
    /\ UNCHANGED <<radioVars, micCount, mic, answered, grace, toRadio, cut, faults>>

\* The second screen of a stable session starts the controls, the first one a delay.
MicShows ==
    /\ MicTakes("screen")
    /\ IF mic = "probe" THEN UNCHANGED <<displays, grace, controls>>
       ELSE IF displays = 0
       THEN displays' = 1 /\ grace' = TRUE /\ UNCHANGED controls
       ELSE displays' = 2 /\ grace' = FALSE /\ controls' = TRUE
    /\ UNCHANGED <<radioVars, micCount, mic, answered, toRadio, cut, faults>>

\* _mic_ready_after_single_display
GraceElapsed ==
    /\ grace /\ grace' = FALSE
    /\ controls' = TRUE
    /\ UNCHANGED <<radioVars, micCount, mic, answered, displays, toMic, toRadio, cut, faults>>

\* Mutant: the delay after the first screen outlives its session.
MicEndsKeepsGrace ==
    /\ mic' = "closed" /\ answered' = {} /\ displays' = 0
    /\ controls' = FALSE
    /\ UNCHANGED grace

\* The finally block of _session.
MicEnds ==
    /\ mic' = "closed" /\ answered' = {} /\ displays' = 0
    /\ grace' = FALSE /\ controls' = FALSE

MicLosesRadio ==
    /\ InSession(mic)
    /\ cut \/ (radio = "closed" /\ toMic = <<>>)
    /\ MicEnds
    /\ UNCHANGED <<radioVars, micCount, toMic, toRadio, cut, faults>>

-----------------------------------------------------------------------------
(* Faults *)

Fault == faults < Faults /\ faults' = faults + 1

\* Neither in a probe session nor between it and the stable one.
OutsideProbe == MidProbe \/ radioCount = 0 \/ radio = "stable"

MicRestarts ==
    /\ Fault /\ OutsideProbe
    /\ micCount' = 0
    /\ MicEnds
    /\ UNCHANGED <<radioVars, toMic, toRadio, cut>>

RadioRestarts ==
    /\ Fault
    /\ radioCount' = 0 /\ radio' = "closed" /\ started' = FALSE /\ screens' = 0
    /\ UNCHANGED <<micVars, toMic, toRadio, cut>>

Cut ==
    /\ Fault /\ OutsideProbe
    /\ InSession(radio) /\ ~cut /\ cut' = TRUE
    /\ UNCHANGED <<radioVars, micVars, toMic, toRadio>>

RadioSteps ==
    Connect \/ RadioReady \/ RadioIdentified \/ SendScreen \/ ProbeComplete \/ RadioLosesMic
MicSteps ==
    \/ Accept \/ MicShows \/ GraceElapsed \/ MicLosesRadio
    \/ \E frame \in DOMAIN Reply : MicAnswers(frame)

Next == RadioSteps \/ MicSteps \/ MicRestarts \/ RadioRestarts \/ Cut

Spec == Init /\ [][Next]_vars

\* Both event loops run, the network delivers what it does not cut, and timers elapse.
FairSpec ==
    /\ Spec
    /\ WF_vars(RadioSteps) /\ WF_vars(MicSteps)
    /\ WF_vars(GraceElapsed) /\ WF_vars(SendScreen)

-----------------------------------------------------------------------------
(* Properties *)

Frames == {"hello", "ready", "prompt", "screen", "sync", "identity", "answer"}

TypeOK ==
    /\ radioCount \in 0 .. 2 /\ micCount \in 0 .. 1
    /\ radio \in {"closed", "probe", "stable"}
    /\ mic \in {"closed", "pending", "probe", "stable"}
    /\ started \in BOOLEAN /\ screens \in 0 .. 2
    /\ answered \subseteq DOMAIN Reply /\ displays \in 0 .. 2
    /\ grace \in BOOLEAN /\ controls \in BOOLEAN /\ cut \in BOOLEAN
    /\ toMic \in Seq(Frames) /\ toRadio \in Seq(Frames)
    /\ faults \in 0 .. Faults

\* Both ends read the same connection the same way as far as the radio goes on to a
\* stable session: the mic never takes a stable session for a probe.  The comment in
\* _session: "so both peers agree on probe versus stable startup state".
KindsAgree == radio = "stable" => mic # "probe"

\* Controls run, or wait to, only in a session with a radio that showed a screen, and
\* a live radio at the other end is in its stable session.
ControlsNeedStable ==
    controls \/ grace => /\ mic = "stable" /\ displays > 0
                         /\ radio # "closed" => radio = "stable" /\ started

\* An idle connection is an established one: whenever nothing is under way and both
\* ends wait, the stable session has been reached.
NoMutualWait ==
    InSession(radio) /\ InSession(mic) /\ ~cut /\ toMic = <<>> /\ toRadio = <<>>
        => radio = "stable" /\ started

\* After the last fault the endpoints get to a session with controls and stay there.
ControlsComeBack == <>[](controls /\ radio = "stable")
=============================================================================
