------------------------------- MODULE MicKeys -------------------------------
(***************************************************************************)
(* Key frames of the software CommandMic.  Two sources share a connection:   *)
(* the control loop of the session, which sends queued taps, and user calls  *)
(* that press and release a held key.  The tap queue and the held key belong *)
(* to the endpoint, not to the session.  One asyncio loop: a step is the     *)
(* code between two awaits.  Sessions come one at a time (MicPtt has those   *)
(* that overlap); start of controls and teardown are one step each here.     *)
(***************************************************************************)
EXTENDS Naturals, Sequences

CONSTANTS
    Keys,           \* key buttons
    Callers,        \* concurrent user calls of key()
    None,           \* Python's None
    Script,         \* mic_key_script
    MaxTaps,        \* taps a user queues
    MaxSessions     \* sessions with controls

ASSUME KeysAssumption ==
    /\ None \notin Keys /\ None \notin Callers
    /\ Script \in Seq(Keys)
    /\ MaxTaps \in Nat /\ MaxSessions \in Nat

VARIABLES
    session,    \* number of the session with controls, 0 before the first
    conn,       \* its transport: none, open, eof (the peer is gone), reset
    writer,     \* _mic_writer, as a session number; 0 if None
    down,       \* keys the peer of the connection was told are down
    queue,      \* _mic_control_queue
    unfinished, \* its count of unfinished tasks
    tapped,     \* taps queued by the user so far
    loop,       \* _mic_control_task
    tap,        \* the tap it is sending
    script,     \* _mic_script_task: none, queue, join, done
    next,       \* index of its next key
    held,       \* _interactive_key
    lock,       \* _interactive_key_lock: the caller that holds it
    pc,         \* where each call is
    button,     \* the key of a call: its argument, or the held key it releases
    cw          \* the local variable `writer` of a call, as a session number

linkVars == <<session, conn, writer>>
tapVars == <<queue, unfinished, tapped, loop, tap, script, next>>
callVars == <<held, lock, pc, button, cw>>
vars == <<linkVars, down, tapVars, callVars>>

Init ==
    /\ session = 0 /\ conn = "none" /\ writer = 0 /\ down = {}
    /\ queue = <<>> /\ unfinished = 0 /\ tapped = 0
    /\ loop = "none" /\ tap = None
    /\ script = "none" /\ next = 1
    /\ held = None /\ lock = None
    /\ pc = [c \in Callers |-> "idle"]
    /\ button = [c \in Callers |-> None]
    /\ cw = [c \in Callers |-> 0]

\* is_closing() of the writer of session s, an earlier one or the current one.
Closing(s) == s # session \/ conn \in {"none", "reset"}

ControlsReady == writer # 0 /\ ~Closing(writer)

\* A frame reaches the peer of an open connection and nobody at end of file.
Told(keys) == down' = IF conn = "open" THEN keys ELSE down

-----------------------------------------------------------------------------
(* Sessions *)

\* _start_mic_controls of a new session: not if a control task is left.
StartMicControls ==
    /\ conn = "none" /\ loop = "none"
    /\ session < MaxSessions /\ session' = session + 1
    /\ conn' = "open" /\ writer' = session' /\ down' = {}
    /\ loop' = "get" /\ tap' = None
    /\ script' = (IF Script = <<>> THEN "none" ELSE "queue") /\ next' = 1
    /\ UNCHANGED <<queue, unfinished, tapped, callVars>>

PeerGone ==
    /\ conn = "open" /\ conn' \in {"eof", "reset"}
    /\ UNCHANGED <<session, writer, down, tapVars, callVars>>

Sending == loop \in {"press", "hold", "gap"}

\* Mutant: a cancelled tap stays unfinished.
SessionEndsUnfinished ==
    /\ conn # "none" /\ conn' = "none" /\ down' = {}
    /\ script' = "none"
    /\ loop' = "none" /\ tap' = None /\ writer' = 0
    /\ UNCHANGED <<session, queue, unfinished, tapped, next, callVars>>

\* The finally block of _session: the tasks are cancelled, a tap under way counts as
\* done.  A loop that raised is raised again here, and readiness is not cleared.
SessionEnds ==
    /\ conn # "none" /\ conn' = "none" /\ down' = {}
    /\ script' = "none"
    /\ \/ /\ loop = "failed"
          /\ UNCHANGED <<writer, loop, tap, unfinished>>
       \/ /\ loop # "failed" /\ writer' = 0
          /\ loop' = "none" /\ tap' = None
          /\ unfinished' = IF Sending THEN unfinished - 1 ELSE unfinished
    /\ UNCHANGED <<session, queue, tapped, next, callVars>>

-----------------------------------------------------------------------------
(* Taps *)

Enqueue(key) == queue' = Append(queue, key) /\ unfinished' = unfinished + 1

\* queue_key_tap, which the endpoint calls while controls are ready.
QueueKeyTap ==
    /\ ControlsReady
    /\ tapped < MaxTaps /\ tapped' = tapped + 1
    /\ \E key \in Keys : Enqueue(key)
    /\ UNCHANGED <<linkVars, down, loop, tap, script, next, callVars>>

TakeTap ==
    /\ loop = "get" /\ queue # <<>>
    /\ tap' = Head(queue) /\ queue' = Tail(queue)
    /\ loop' = "press"
    /\ UNCHANGED <<linkVars, down, unfinished, tapped, script, next, callVars>>

SendTapPress ==
    /\ loop = "press" /\ ~Closing(session)
    /\ Told(down \cup {tap})
    /\ loop' = "hold"
    /\ UNCHANGED <<linkVars, queue, unfinished, tapped, tap, script, next, callVars>>

SendTapRelease ==
    /\ loop = "hold" /\ ~Closing(session)
    /\ Told(down \ {tap})
    /\ loop' = "gap"
    /\ UNCHANGED <<linkVars, queue, unfinished, tapped, tap, script, next, callVars>>

\* The neutral frame says that no key is down.
SendTapNeutral ==
    /\ loop = "gap" /\ ~Closing(session)
    /\ Told({})
    /\ unfinished' = unfinished - 1
    /\ loop' = "get" /\ tap' = None
    /\ UNCHANGED <<linkVars, queue, tapped, script, next, callVars>>

\* Mutant: task_done is skipped when sending raises.
TapFailsUnfinished ==
    /\ Sending /\ Closing(session)
    /\ loop' = "failed" /\ tap' = None
    /\ UNCHANGED <<linkVars, down, queue, unfinished, tapped, script, next, callVars>>

\* drain() raises on a lost connection; the finally clause counts the tap as done.
TapFails ==
    /\ Sending /\ Closing(session)
    /\ unfinished' = unfinished - 1
    /\ loop' = "failed" /\ tap' = None
    /\ UNCHANGED <<linkVars, down, queue, tapped, script, next, callVars>>

\* _run_mic_key_script: one tap at a time.
ScriptQueues ==
    /\ script = "queue" /\ next <= Len(Script)
    /\ Enqueue(Script[next])
    /\ next' = next + 1 /\ script' = "join"
    /\ UNCHANGED <<linkVars, down, tapped, loop, tap, callVars>>

ScriptJoins ==
    /\ script = "join" /\ unfinished = 0
    /\ script' = IF next > Len(Script) THEN "done" ELSE "queue"
    /\ UNCHANGED <<linkVars, down, queue, unfinished, tapped, loop, tap, next, callVars>>

-----------------------------------------------------------------------------
(* press_interactive_key and release_interactive_key *)

Goes(c, to) == pc' = [pc EXCEPT ![c] = to]
Return(c) ==
    /\ Goes(c, "idle") /\ lock' = None
    /\ button' = [button EXCEPT ![c] = None] /\ cw' = [cw EXCEPT ![c] = 0]

CallKey(c) ==
    /\ pc[c] = "idle" /\ ControlsReady
    /\ \/ Goes(c, "release") /\ UNCHANGED button
       \/ /\ Goes(c, "press")
          /\ \E key \in Keys : button' = [button EXCEPT ![c] = key]
    /\ UNCHANGED <<linkVars, down, tapVars, held, lock, cw>>

\* No session, the same key already held (nothing to do) or another one (an error).
PressRefused(c) ==
    /\ pc[c] = "press" /\ lock = None
    /\ ~ControlsReady \/ held # None
    /\ Return(c)
    /\ UNCHANGED <<linkVars, down, tapVars, held>>

\* Mutant: a key already held is not looked for.
PressBeginsAnyway(c) ==
    /\ pc[c] = "press" /\ lock = None
    /\ ControlsReady
    /\ lock' = c /\ cw' = [cw EXCEPT ![c] = writer]
    /\ Goes(c, "press_send")
    /\ UNCHANGED <<linkVars, down, tapVars, held, button>>

PressBegins(c) ==
    /\ pc[c] = "press" /\ lock = None
    /\ ControlsReady /\ held = None
    /\ lock' = c /\ cw' = [cw EXCEPT ![c] = writer]
    /\ Goes(c, "press_send")
    /\ UNCHANGED <<linkVars, down, tapVars, held, button>>

PressSends(c) ==
    /\ pc[c] = "press_send" /\ ~Closing(cw[c])
    /\ Told(down \cup {button[c]})
    /\ held' = button[c]
    /\ Return(c)
    /\ UNCHANGED <<linkVars, tapVars>>

\* Mutant: the exception leaves the lock held.
SendRaisesLocked(c) ==
    /\ pc[c] \in {"press_send", "release_send", "neutral_send"} /\ Closing(cw[c])
    /\ Goes(c, "idle")
    /\ UNCHANGED <<linkVars, down, tapVars, held, lock, button, cw>>

\* The connection was lost while the call waited for _send_lock or in its pause.
SendRaises(c) ==
    /\ pc[c] \in {"press_send", "release_send", "neutral_send"} /\ Closing(cw[c])
    /\ Return(c)
    /\ UNCHANGED <<linkVars, down, tapVars, held>>

\* Nothing held, or no session: then the held key is forgotten and the call raises.
ReleaseRefused(c) ==
    /\ pc[c] = "release" /\ lock = None
    /\ held = None \/ ~ControlsReady
    /\ held' = None
    /\ Return(c)
    /\ UNCHANGED <<linkVars, down, tapVars>>

\* The key that is held is released, whatever key the call names.
ReleaseBegins(c) ==
    /\ pc[c] = "release" /\ lock = None
    /\ held # None /\ ControlsReady
    /\ lock' = c /\ cw' = [cw EXCEPT ![c] = writer]
    /\ button' = [button EXCEPT ![c] = held]
    /\ held' = None
    /\ Goes(c, "release_send")
    /\ UNCHANGED <<linkVars, down, tapVars>>

ReleaseSends(c) ==
    /\ pc[c] = "release_send" /\ ~Closing(cw[c])
    /\ Told(down \ {button[c]})
    /\ Goes(c, "neutral_send")
    /\ UNCHANGED <<linkVars, tapVars, held, lock, button, cw>>

NeutralSends(c) ==
    /\ pc[c] = "neutral_send" /\ ~Closing(cw[c])
    /\ Told({})
    /\ Return(c)
    /\ UNCHANGED <<linkVars, tapVars, held>>

LoopSteps == TakeTap \/ SendTapPress \/ SendTapRelease \/ SendTapNeutral \/ TapFails
ScriptSteps == ScriptQueues \/ ScriptJoins
CallSteps(c) ==
    \/ PressRefused(c) \/ PressBegins(c) \/ PressSends(c) \/ SendRaises(c)
    \/ ReleaseRefused(c) \/ ReleaseBegins(c) \/ ReleaseSends(c) \/ NeutralSends(c)

Next ==
    \/ StartMicControls \/ PeerGone \/ SessionEnds
    \/ QueueKeyTap \/ LoopSteps \/ ScriptSteps
    \/ \E c \in Callers : CallKey(c) \/ CallSteps(c)

Spec == Init /\ [][Next]_vars

\* The tasks of the loop run, a lock is handed over in turn, and a lost connection is
\* noticed.  Users need not call, and a connection need not be lost.
FairSpec ==
    /\ Spec
    /\ WF_vars(LoopSteps) /\ WF_vars(ScriptSteps)
    /\ WF_vars(conn # "open" /\ SessionEnds)
    /\ \A c \in Callers : SF_vars(CallSteps(c))

-----------------------------------------------------------------------------
(* Properties *)

TypeOK ==
    /\ session \in 0 .. MaxSessions
    /\ conn \in {"none", "open", "eof", "reset"} /\ writer \in 0 .. session
    /\ down \subseteq Keys
    /\ queue \in Seq(Keys) /\ unfinished \in Nat /\ tapped \in 0 .. MaxTaps
    /\ loop \in {"none", "get", "press", "hold", "gap", "failed"}
    /\ tap \in Keys \cup {None}
    /\ script \in {"none", "queue", "join", "done"} /\ next \in 1 .. Len(Script) + 1
    /\ held \in Keys \cup {None} /\ lock \in Callers \cup {None}
    /\ pc \in [Callers -> {"idle", "press", "press_send", "release", "release_send",
                           "neutral_send"}]
    /\ button \in [Callers -> Keys \cup {None}]
    /\ cw \in [Callers -> 0 .. MaxSessions]

\* The queue's count is exact, through cancelled and failed taps and across sessions:
\* join() neither waits for a tap that is gone nor passes one that is not sent.
CountExact == unfinished = Len(queue) + IF Sending THEN 1 ELSE 0

\* No key stays down at a connected peer once nobody means it to be: a key the peer
\* was told is down is held, or a tap or a call that will release it is under way.
NoKeyStuck ==
    conn = "open" =>
        \A key \in down :
            \/ held = key
            \/ loop = "hold" /\ tap = key
            \/ \E c \in Callers : pc[c] \in {"release_send", "neutral_send"} /\ button[c] = key

\* Every call comes back, whatever the connection and the other calls do.
CallsReturn == \A c \in Callers : pc[c] # "idle" ~> pc[c] = "idle"

\* A script gets past each of its taps, or its session ends.
ScriptGoesOn == script = "join" ~> script # "join"

\* A press that finds its key already held has nothing to send: the key is down at the
\* peer.  docs/CONTROLS_API.md: key() "so a physical mouse/key hold is reproduced on
\* the wire".
HeldKeyIsDown ==
    [][\A c \in Callers :
          pc[c] = "press" /\ pc'[c] = "idle" /\ ControlsReady /\ conn = "open"
          /\ held = button[c]
              => held \in down]_vars
=============================================================================
