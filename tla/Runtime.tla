------------------------------- MODULE Runtime -------------------------------
(***************************************************************************)
(* The thread in which an endpoint of the library runs its asyncio loop, as  *)
(* seen from outside: the owner starts and stops it, callers on threads of   *)
(* their own (the HTTP handlers of the GUI, the users of the Software Radio) *)
(* submit coroutines to its loop, and its protocol events are projected onto *)
(* the state everybody reads.  SoftwareCommandMicEndpoint (role "mic") and   *)
(* SoftwareRadioEndpoint (role "radio") have the same runtime, up to what    *)
(* the actions say.  One session at a time (MicPtt has sessions that         *)
(* overlap); transmitting is enabled.                                        *)
(***************************************************************************)
EXTENDS Naturals, Sequences

CONSTANTS
    Roles,          \* of "mic" and "radio"
    Callers,        \* threads that submit requests
    Starts,         \* threads started
    Sessions,       \* sessions opened
    Calls,          \* requests
    StopInTeardown, \* the radio may be stopped while a session of it ends
    StartAgain      \* a radio whose thread ended by itself may be started again

Parameters ==
    /\ Roles \subseteq {"mic", "radio"} /\ Callers \cap {"owner", "cancel"} = {}
    /\ Starts \in Nat /\ Sessions \in Nat /\ Calls \in Nat
    /\ StopInTeardown \in BOOLEAN /\ StartAgain \in BOOLEAN

ASSUME RuntimeAssumption == Parameters

VARIABLES
    role,
    owner,      \* the owner's call: idle, starting; of stop: restoring, cancelling, joining
    threads,    \* threads started so far; only the newest may be alive
    started,    \* _started
    loop, task, \* _loop and _task, as the thread that made them; 0 is None
    phase,      \* the newest thread: unborn, begun, looped, opening, running, closing
                \* (the finally blocks of run and _run), lastTurn and draining (after
                \* run_until_complete), closed
    queue,      \* what was handed to its loop: who asks, and "cancel"
    session,    \* its session: none, up, ready, ending
    sessions,   \* sessions so far
    unheard,    \* the last session of the mic ended without its "disconnected"
    call,       \* a request: where it is, what it wants, the session it was let into
    calls,      \* requests so far
    keyed,      \* the PTT of the endpoint's session is down
    connection, ready, off, ptt, rx     \* the projection (GuiState, EndpointState)

runVars == <<role, owner, threads, started, loop, task>>
sessionVars == <<session, sessions, keyed, unheard>>
view == <<connection, ready, off, ptt, rx>>
callVars == <<call, calls>>
vars == <<runVars, phase, queue, sessionVars, callVars, view>>

\* The owner asks too: stop of the radio has its display restored.
Askers == Callers \cup {"owner"}

NoCall == [at |-> "idle", wants |-> "press", session |-> 0]

\* What is left of a request whose result is none: only stop minds.
Raised(c) == IF c = "owner" THEN [NoCall EXCEPT !.at = "failed"] ELSE NoCall

Init ==
    /\ role \in Roles /\ owner = "idle" /\ threads = 0 /\ started = FALSE
    /\ loop = 0 /\ task = 0 /\ phase = "unborn" /\ queue = <<>>
    /\ session = "none" /\ sessions = 0 /\ keyed = FALSE /\ unheard = FALSE
    /\ call = [c \in Askers |-> NoCall] /\ calls = 0
    /\ connection = IF role = "mic" THEN "starting" ELSE "disconnected"
    /\ ready = FALSE /\ off = FALSE /\ ptt = FALSE /\ rx = FALSE

Alive == phase \notin {"unborn", "closed"}
Busy == phase \in {"opening", "running", "closing"}     \* the loop runs _run

\* _task.done(), and _loop.is_closed(), of what the attributes hold.
TaskDone == task < threads \/ ~Busy
LoopClosed == loop < threads \/ phase = "closed"
Runs == loop # 0 /\ task # 0 /\ ~TaskDone

Move(c, place) == call' = [call EXCEPT ![c].at = place]

-----------------------------------------------------------------------------
(* The owner *)

\* Mutant: start trusts the event of the last thread.
StartTrusts ==
    /\ owner = "idle" /\ ~Alive /\ threads < Starts
    /\ owner' = "starting" /\ threads' = threads + 1 /\ phase' = "begun" /\ queue' = <<>>
    /\ UNCHANGED <<role, started, loop, task, sessionVars, callVars, view>>

\* start; it returns at once if the thread is alive.  The radio's does not clear _started.
Start ==
    /\ owner = "idle" /\ ~Alive /\ threads < Starts
    /\ role = "radio" => StartAgain \/ ~started
    /\ started' = (role = "radio" /\ started)
    /\ owner' = "starting" /\ threads' = threads + 1 /\ phase' = "begun" /\ queue' = <<>>
    /\ UNCHANGED <<role, loop, task, sessionVars, callVars, view>>

StartReturns ==
    /\ owner = "starting" /\ started
    /\ owner' = "idle"
    /\ UNCHANGED <<role, threads, started, loop, task, phase, queue, sessionVars, callVars, view>>

\* stop.  The radio's first leaves Parrot mode, for which the emulator, if there is one, is
\* asked to show the application's screen again.
Stop ==
    /\ owner = "idle" /\ threads > 0 /\ owner' = "restoring"
    /\ call' = IF role = "radio" /\ phase \in {"running", "closing"} /\ Runs
               THEN [call EXCEPT !["owner"].at = "checked"] ELSE call
    /\ UNCHANGED <<role, threads, started, loop, task, phase, queue, sessionVars, calls, view>>

\* A RuntimeError is caught: no runtime, no loop or no session.  Any other exception of the
\* request, of a connection lost under it above all, leaves stop, and nothing was cancelled.
StopRaises ==
    /\ owner = "restoring" /\ call["owner"].at = "failed"
    /\ owner' = "idle" /\ call' = [call EXCEPT !["owner"] = NoCall]
    /\ UNCHANGED <<role, threads, started, loop, task, phase, queue, sessionVars, calls, view>>

\* It looks at _loop and _task.
StopReads ==
    /\ owner = "restoring" /\ call["owner"].at = "idle"
    /\ role = "radio" /\ session = "ending" => StopInTeardown
    /\ owner' = IF Runs /\ ~LoopClosed THEN "cancelling" ELSE "joining"
    /\ UNCHANGED <<role, threads, started, loop, task, phase, queue, sessionVars, callVars, view>>

\* call_soon_threadsafe raises if the loop was closed meanwhile, and stop with it.
StopCancels ==
    /\ owner = "cancelling"
    /\ role = "radio" /\ session = "ending" => StopInTeardown
    /\ IF LoopClosed THEN owner' = "idle" /\ UNCHANGED queue
       ELSE owner' = "joining" /\ queue' = Append(queue, "cancel")
    /\ UNCHANGED <<role, threads, started, loop, task, phase, sessionVars, callVars, view>>

\* The thread is joined, within 10 or 20 seconds or stop raises.
StopReturns ==
    /\ owner = "joining" /\ ~Alive
    /\ owner' = "idle" /\ loop' = 0 /\ task' = 0 /\ started' = FALSE
    /\ UNCHANGED <<role, threads, phase, queue, sessionVars, callVars, view>>

-----------------------------------------------------------------------------
(* The thread: _thread_main and _run *)

MakesLoop ==
    /\ phase = "begun" /\ phase' = "looped" /\ loop' = threads
    /\ UNCHANGED <<role, owner, threads, started, task, queue, sessionVars, callVars, view>>

MakesTask ==
    /\ phase = "looped" /\ phase' = "opening" /\ task' = threads /\ started' = TRUE
    /\ UNCHANGED <<role, owner, threads, loop, queue, sessionVars, callVars, view>>

\* Devices, UDP port and listener are open; an emulator exists.
Opens ==
    /\ phase = "opening" /\ phase' = "running"
    /\ connection' = IF role = "mic" THEN "waiting_for_radio" ELSE "connecting"
    /\ UNCHANGED <<runVars, queue, sessionVars, callVars, ready, off, ptt, rx>>

\* One of them is not: _run raises through its finally block.
OpenFails ==
    /\ phase = "opening" /\ phase' = "lastTurn"
    /\ connection' = "error" /\ ready' = FALSE
    /\ UNCHANGED <<runVars, queue, sessionVars, callVars, off, ptt, rx>>

\* Task.cancel.  The session of the mic is a task that run() cancels and waits for.  That
\* of the radio belongs to the cancelled task: while its finally block waits for a task
\* it suppresses CancelledError, its own as well.
CancelTaken ==
    /\ Alive /\ phase \notin {"begun", "looped", "draining"}
    /\ queue # <<>> /\ Head(queue) = "cancel" /\ queue' = Tail(queue)
    /\ \/ /\ ~Busy \/ phase = "closing" \/ (role = "radio" /\ session = "ending")
          /\ UNCHANGED <<phase, session, keyed>>
       \/ /\ Busy /\ phase # "closing" /\ phase' = "closing"
          /\ session' = IF session = "none" THEN "none" ELSE "ending"
          /\ keyed' = FALSE
    /\ UNCHANGED <<runVars, sessions, unheard, callVars, view>>

\* _run ends.
Finishes ==
    /\ phase = "closing" /\ session = "none" /\ phase' = "lastTurn"
    /\ IF role = "radio"
       THEN connection' = "disconnected" /\ ready' = FALSE /\ ptt' = FALSE
       ELSE UNCHANGED <<connection, ready, ptt>>
    /\ UNCHANGED <<runVars, queue, sessionVars, callVars, off, rx>>

\* Mutant: the loop is closed as soon as its task is done.
LastTurnCloses ==
    /\ phase = "lastTurn" /\ phase' = "closed"
    /\ call' = [c \in Askers |-> IF call[c].at = "queued" THEN [call[c] EXCEPT !.at = "lost"]
                                 ELSE call[c]]
    /\ UNCHANGED <<runVars, queue, sessionVars, calls, view>>

\* The loop stops at the end of its turn: what was handed to it has become a task.
LastTurn ==
    /\ phase = "lastTurn" /\ phase' = "draining"
    /\ call' = [c \in Askers |-> IF call[c].at = "queued" /\ \E i \in DOMAIN queue : queue[i] = c
                                 THEN [call[c] EXCEPT !.at = "task"] ELSE call[c]]
    /\ queue' = <<>>
    /\ UNCHANGED <<runVars, sessionVars, calls, view>>

Pending(c) == call[c].at \in {"task", "sending"}

\* _thread_main cancels the tasks that are left and waits for them, if there are any.
DrainTurn(c) ==
    /\ phase = "draining" /\ Pending(c)
    /\ call' = [d \in Askers |->
                   IF d = c THEN Raised(c)
                   ELSE IF queue # <<>> /\ d = Head(queue) THEN [call[d] EXCEPT !.at = "task"]
                   ELSE call[d]]
    /\ queue' = IF queue = <<>> THEN queue ELSE Tail(queue)
    /\ UNCHANGED <<runVars, phase, sessionVars, calls, view>>

\* What was handed over since is never looked at.
Close ==
    /\ phase = "draining" /\ \A c \in Askers : ~Pending(c)
    /\ phase' = "closed"
    /\ call' = [c \in Askers |-> IF call[c].at = "queued" THEN [call[c] EXCEPT !.at = "lost"]
                                 ELSE call[c]]
    /\ UNCHANGED <<runVars, queue, sessionVars, calls, view>>

-----------------------------------------------------------------------------
(* Sessions and their events: on_protocol_event and _on_audit *)

Connects ==
    /\ phase = "running" /\ session = "none" /\ sessions < Sessions
    /\ session' = "up" /\ sessions' = sessions + 1
    /\ connection' = IF off THEN "standby" ELSE "negotiating"
    /\ ready' = IF role = "mic" THEN FALSE ELSE ready
    /\ UNCHANGED <<runVars, phase, queue, keyed, unheard, callVars, off, ptt, rx>>

\* mic_controls_ready, startup_complete.  (Where an earlier session of the same thread was
\* broken off with its controls the code refuses the next ones; here they may come.)
Ready ==
    /\ phase = "running" /\ session = "up"
    /\ session' = "ready" /\ connection' = "connected" /\ ready' = TRUE /\ off' = FALSE
    /\ UNCHANGED <<runVars, phase, queue, sessions, keyed, unheard, callVars, ptt, rx>>

\* mic_power_transition_prompt: the radio is switched off or on; display_event.
PowerOff ==
    /\ role = "mic" /\ session \in {"up", "ready"} /\ ~off
    /\ connection' = "standby" /\ off' = TRUE /\ ready' = FALSE /\ ptt' = FALSE /\ rx' = FALSE
    /\ UNCHANGED <<runVars, phase, queue, sessionVars, callVars>>

PowerOn ==
    /\ role = "mic" /\ session \in {"up", "ready"} /\ off
    /\ connection' = "powering_on" /\ ready' = FALSE
    /\ UNCHANGED <<runVars, phase, queue, sessionVars, callVars, off, ptt, rx>>

DisplayArrives ==
    /\ role = "mic" /\ session \in {"up", "ready"} /\ off
    /\ off' = FALSE
    /\ UNCHANGED <<runVars, phase, queue, sessionVars, callVars, connection, ready, ptt, rx>>

\* accepted_verified_radio_audio_state on the mic, ptt_state on the radio.
AudioState ==
    /\ session \in {"up", "ready"}
    /\ IF role = "mic" THEN rx' = ~rx /\ UNCHANGED ptt ELSE ptt' = ~ptt /\ UNCHANGED rx
    /\ UNCHANGED <<runVars, phase, queue, sessionVars, callVars, connection, ready, off>>

\* The connection is lost: the finally block of _session begins.
Drops ==
    /\ role = "radio" /\ owner \in {"cancelling", "joining"} => StopInTeardown
    /\ session \in {"up", "ready"} /\ session' = "ending" /\ keyed' = FALSE
    /\ UNCHANGED <<runVars, phase, queue, sessions, unheard, callVars, view>>

\* It ends, and the projection hears of it.
Disconnected ==
    /\ session = "ending" /\ session' = "none" /\ unheard' = FALSE
    /\ connection' = CASE role = "radio" -> "reconnecting"
                       [] off -> "standby"
                       [] OTHER -> "waiting_for_radio"
    /\ ready' = FALSE /\ ptt' = FALSE /\ rx' = FALSE
    /\ UNCHANGED <<runVars, phase, queue, sessions, keyed, callVars, off>>

\* On the mic it may break off before "disconnected" is written: a task it awaits had
\* failed, or it is cancelled while it waits for its transport to close.
TeardownBreaks ==
    /\ role = "mic" /\ session = "ending" /\ session' = "none" /\ unheard' = TRUE
    /\ UNCHANGED <<runVars, phase, queue, sessions, keyed, callVars, view>>

-----------------------------------------------------------------------------
(* Requests *)

\* _submit and _run_action look at _loop and _task, and then hand over.
Check(c, wants) ==
    /\ call[c].at = "idle" /\ calls < Calls
    /\ role = "radio" => wants = "press"      \* a frame to send, whichever
    /\ Runs
    /\ call' = [call EXCEPT ![c] = [at |-> "checked", wants |-> wants, session |-> 0]]
    /\ calls' = calls + 1
    /\ UNCHANGED <<runVars, phase, queue, sessionVars, view>>

\* A loop that is gone, or closed, makes the call raise.
Submit(c) ==
    /\ call[c].at = "checked"
    /\ IF LoopClosed THEN call' = [call EXCEPT ![c] = NoCall] /\ UNCHANGED queue
       ELSE Move(c, "queued") /\ queue' = Append(queue, c)
    /\ UNCHANGED <<runVars, phase, sessionVars, calls, view>>

\* The loop makes a task of it.
Taken(c) ==
    /\ Busy /\ queue # <<>> /\ Head(queue) = c
    /\ queue' = Tail(queue) /\ Move(c, "task")
    /\ UNCHANGED <<runVars, phase, sessionVars, calls, view>>

\* The first step of _ptt and of the radio's senders: a writer is picked, or RuntimeError
\* raised.  (A press on a writer that a broken teardown left is given up within a second.)
Begins(c) ==
    /\ Busy /\ call[c].at = "task"
    /\ call' = [call EXCEPT ![c] = IF session = "ready"
                                   THEN [@ EXCEPT !.at = "sending", !.session = sessions]
                                   ELSE NoCall]
    /\ UNCHANGED <<runVars, phase, queue, sessionVars, calls, view>>

\* Mutant: what waited for its turn goes out whatever became of its connection.
SendsAnyway(c) ==
    /\ Busy /\ call[c].at = "sending" /\ call' = [call EXCEPT ![c] = NoCall]
    /\ IF role = "mic"
       THEN keyed' = (call[c].wants = "press") /\ ptt' = keyed'
       ELSE UNCHANGED <<keyed, ptt>>
    /\ UNCHANGED <<runVars, phase, queue, session, sessions, unheard, calls,
                   connection, ready, off, rx>>

OpenFor(c) == session \in {"up", "ready"} /\ call[c].session = sessions

\* Its frame is sent while its connection is open, and mic_ptt_asserted or
\* mic_ptt_released written; else it raises, on a connection that is ending perhaps
\* not yet.  A release without a press sends nothing.
Sends(c) ==
    /\ Busy /\ call[c].at = "sending"
    /\ \E answer \in {NoCall} \cup (IF OpenFor(c) THEN {} ELSE {Raised(c)}) :
          call' = [call EXCEPT ![c] = answer]
    /\ IF role = "mic" /\ OpenFor(c) /\ keyed = (call[c].wants = "release")
       THEN keyed' = ~keyed /\ ptt' = ~keyed
       ELSE UNCHANGED <<keyed, ptt>>
    /\ UNCHANGED <<runVars, phase, queue, session, sessions, unheard, calls,
                   connection, ready, off, rx>>

\* A caller of the radio waits for its result up to 35 seconds.
GivesUp(c) ==
    /\ call[c].at = "lost" /\ call' = [call EXCEPT ![c] = Raised(c)]
    /\ UNCHANGED <<runVars, phase, queue, sessionVars, calls, view>>

ThreadSteps ==
    \/ MakesLoop \/ MakesTask \/ Opens \/ OpenFails \/ Finishes \/ LastTurn \/ Close
    \/ CancelTaken \/ Disconnected \/ TeardownBreaks \/ \E c \in Askers : DrainTurn(c)
OwnerReturns == StartReturns \/ StopRaises \/ StopReads \/ StopCancels \/ StopReturns
CallSteps(c) == Taken(c) \/ Begins(c) \/ Sends(c)

Next ==
    \/ Start \/ Stop \/ OwnerReturns \/ ThreadSteps
    \/ Connects \/ Ready \/ PowerOff \/ PowerOn \/ DisplayArrives \/ AudioState \/ Drops
    \/ \E c \in Askers : Submit(c) \/ CallSteps(c) \/ GivesUp(c)
    \/ \E c \in Callers, wants \in {"press", "release"} : Check(c, wants)

Spec == Init /\ [][Next]_vars

\* Threads are scheduled, and so are the callbacks of a loop, each in its turn; stop gives
\* up waiting for its request.  Nobody need call, no session need come or end.
FairSpec ==
    /\ Spec
    /\ WF_vars(OwnerReturns) /\ WF_vars(ThreadSteps)
    /\ \A c \in Askers : WF_vars(CallSteps(c)) /\ WF_vars(Submit(c))
    /\ WF_vars(GivesUp("owner"))

-----------------------------------------------------------------------------
(* Properties *)

TypeOK ==
    /\ role \in Roles /\ owner \in {"idle", "starting", "restoring", "cancelling", "joining"}
    /\ threads \in 0 .. Starts /\ loop \in 0 .. threads /\ task \in 0 .. threads
    /\ phase \in {"unborn", "begun", "looped", "opening", "running", "closing", "lastTurn",
                  "draining", "closed"}
    /\ queue \in Seq(Askers \cup {"cancel"})
    /\ session \in {"none", "up", "ready", "ending"} /\ sessions \in 0 .. Sessions
    /\ call \in [Askers -> [at : {"idle", "checked", "queued", "task", "sending", "lost", "failed"},
                            wants : {"press", "release"}, session : 0 .. Sessions]]
    /\ calls \in 0 .. Calls
    /\ started \in BOOLEAN /\ keyed \in BOOLEAN /\ unheard \in BOOLEAN
    /\ ready \in BOOLEAN /\ off \in BOOLEAN /\ ptt \in BOOLEAN /\ rx \in BOOLEAN
    /\ connection \in {"starting", "disconnected", "waiting_for_radio", "connecting", "error",
                       "standby", "negotiating", "connected", "powering_on", "reconnecting"}

Quiet == ~ready /\ ~ptt /\ ~rx

\* Without a session the projection shows no controls, no PTT and no open receive gate,
\* whatever requests were under way when the session ended or the endpoint was stopped,
\* unless the mic's teardown of its last session broke off.
\* (The finally block of _session, and on_protocol_event at "disconnected")
QuietWithoutSession ==
    /\ TypeOK
    /\ session = "none" /\ ~unheard => Quiet

\* EMULATOR.md:75-76: "Stopping or losing the peer clears readiness, PTT and audio state
\* before a subsequent session can become active".  RuntimeStale.cfg: not where a
\* task failed, of a microphone stream for one; what was shown then stays.
ClearedAlways == session = "none" => Quiet

\* A call of stop ends.  Once it has read what to cancel it leaves no thread behind: it is
\* heard also by a thread that has just started, is ending by itself, or, on the mic, is
\* losing its session.  Before, it may raise: the radio's restores the display.
StopEnds ==
    /\ owner = "restoring" ~> owner # "restoring"
    /\ owner \in {"cancelling", "joining"} ~> owner = "idle" /\ ~Alive

\* test_app.py:549-550, where stop catches RuntimeError: "Shutdown must remain idempotent
\* after the peer has already torn down the control session."  RuntimeStopRaises.cfg: not
\* where the connection is lost while the display is restored; the thread goes on.
StopHeard == owner = "restoring" ~> ~Alive

\* A request handed to the loop of a running endpoint is answered, also when the endpoint
\* is stopped or fails before its turn: its coroutine runs, raises or is cancelled.
RequestsAnswered ==
    \A c \in Callers : call[c].at = "queued" /\ ~TaskDone ~> call[c].at = "idle"
=============================================================================
