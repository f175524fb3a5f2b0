------------------------------- MODULE MicPtt -------------------------------
(***************************************************************************)
(* Interactive push-to-talk of the software CommandMic, together with the  *)
(* life of the TCP sessions it runs on (class CommandMicEmulator, role     *)
(* "mic", listening).                                                      *)
(*                                                                         *)
(* Everything runs on one asyncio loop, so a step is the code between two  *)
(* awaits.  The tasks that interleave are: one task per accepted session   *)
(* (reader loop, then the finally block of _session), the control loop of  *)
(* a session, one task per user call of press/release, and the microphone  *)
(* stream started by a press.  They share the attributes of the emulator:  *)
(* _mic_writer, _mic_control_task, _mic_ptt_asserted, _interactive_tx_task *)
(* and three events.  Only user calls take the PTT lock: the session's     *)
(* finally block does not.                                                 *)
(***************************************************************************)
EXTENDS Naturals

CONSTANTS
    Sessions,        \* TCP connections, each accepted at most once
    Callers,         \* concurrent user calls of press/release
    Streams,         \* task objects for microphone streams
    None,            \* Python's None
    Overlap,         \* TRUE: a peer may reconnect before the old session ended
    LateAck,         \* TRUE: a session may end while a press waits for _send_lock
                     \*   and an acknowledgement owed to an earlier press is in
    StreamMayFail,   \* TRUE: send_live_transmit_until may raise
    ControlMayFail   \* TRUE: a tap may be sending when its connection is reset

ASSUME NoneAssumption ==
    None \notin Sessions /\ None \notin Callers /\ None \notin Streams
ASSUME SwitchAssumption ==
    {Overlap, LateAck, StreamMayFail, ControlMayFail} \subseteq BOOLEAN

VARIABLES
    conn,       \* the transport as this endpoint sees it
    spc,        \* where the session task of each connection is
    tdControl,  \* teardown's snapshot of _mic_control_task
    tdStream,   \* teardown's snapshot of _interactive_tx_task
    keyed,      \* last PTT state frame each connection delivered to the radio
    micWriter,  \* _mic_writer, as the session it belongs to
    controlTask,\* _mic_control_task, as the session whose loop it runs
    control,    \* state of each session's control loop
    asserted,   \* _mic_ptt_asserted
    txActive,   \* _mic_tx_active
    txClosed,   \* _mic_tx_closed
    stop,       \* _interactive_tx_stop
    txTask,     \* _interactive_tx_task
    stream,     \* state of each microphone stream
    lock,       \* _interactive_ptt_lock: the caller that holds it
    pc,         \* where each user call is
    cw,         \* the local variable `writer` of a call
    ctask,      \* the local variable `task` of a release
    cwas,       \* the local variable `was_asserted` of a release
    failClosed  \* the argument fail_closed of a release

sessionVars == <<conn, spc, tdControl, tdStream, keyed>>
sharedVars  == <<micWriter, controlTask, control, asserted>>
mediaVars   == <<txActive, txClosed, stop, txTask, stream>>
callVars    == <<lock, pc, cw, ctask, cwas, failClosed>>
vars == <<sessionVars, sharedVars, mediaVars, callVars>>

-----------------------------------------------------------------------------
(* Helpers *)

\* writer.is_closing(): reset by the peer, or closed here.  A connection at
\* end-of-file, or one whose peer vanished, is not closing.
Closing(s) == conn[s] \in {"reset", "closed"}

\* The property controls_ready, also read by _ptt before it calls the emulator.
ControlsReady == micWriter # None /\ ~Closing(micWriter)

\* Writing a PTT state frame and draining it, once _send_lock was got.  On a
\* closing transport the write is dropped and drain() raises; a connection
\* without a peer takes the frame and delivers it to nobody.  drain() does not
\* wait: the frames in flight never fill the transport's buffer.
Send(s, frame) ==
    keyed' = IF conn[s] = "open" THEN [keyed EXCEPT ![s] = frame] ELSE keyed

\* A task object nobody refers to any more can be used again.
Unused(t) ==
    /\ stream[t] \notin {"running", "tail"} /\ txTask # t
    /\ \A s \in Sessions : tdStream[s] # t
    /\ \A c \in Callers : ctask[c] # t

Live(s) == spc[s] \notin {"idle", "ended"}

\* The lock is released and the call's local variables die.
Return(c) ==
    /\ lock' = None
    /\ pc' = [pc EXCEPT ![c] = "idle"]
    /\ cw' = [cw EXCEPT ![c] = None]
    /\ ctask' = [ctask EXCEPT ![c] = None]
    /\ cwas' = [cwas EXCEPT ![c] = FALSE]
    /\ failClosed' = [failClosed EXCEPT ![c] = FALSE]

Init ==
    /\ conn = [s \in Sessions |-> "idle"]
    /\ spc = [s \in Sessions |-> "idle"]
    /\ tdControl = [s \in Sessions |-> None]
    /\ tdStream = [s \in Sessions |-> None]
    /\ keyed = [s \in Sessions |-> "never"]
    /\ micWriter = None
    /\ controlTask = None
    /\ control = [s \in Sessions |-> "none"]
    /\ asserted = FALSE
    /\ txActive = FALSE
    /\ txClosed = FALSE
    /\ stop = FALSE
    /\ txTask = None
    /\ stream = [t \in Streams |-> "none"]
    /\ lock = None
    /\ pc = [c \in Callers |-> "idle"]
    /\ cw = [c \in Callers |-> None]
    /\ ctask = [c \in Callers |-> None]
    /\ cwas = [c \in Callers |-> FALSE]
    /\ failClosed = [c \in Callers |-> FALSE]

-----------------------------------------------------------------------------
(* The peer and the network *)

Accept(s) ==
    /\ conn[s] = "idle"
    /\ Overlap \/ \A o \in Sessions : ~Live(o)
    /\ conn' = [conn EXCEPT ![s] = "open"]
    /\ spc' = [spc EXCEPT ![s] = "reading"]
    /\ UNCHANGED <<tdControl, tdStream, keyed, sharedVars, mediaVars, callVars>>

\* The peer closes its side or vanishes; nothing written from now on is received.
PeerGone(s) ==
    /\ conn[s] = "open"
    /\ conn' = [conn EXCEPT ![s] = "eof"]
    /\ UNCHANGED <<spc, tdControl, tdStream, keyed, sharedVars, mediaVars, callVars>>

\* The connection is reset: connection_lost closes the transport.
ConnectionReset(s) ==
    /\ conn[s] \in {"open", "eof"}
    /\ conn' = [conn EXCEPT ![s] = "reset"]
    /\ UNCHANGED <<spc, tdControl, tdStream, keyed, sharedVars, mediaVars, callVars>>

-----------------------------------------------------------------------------
(* The session task: reader loop *)

\* The second stable display, or the grace period after the first one,
\* starts ordinary controls unless a control task is already recorded.
StartMicControls(s) ==
    /\ spc[s] = "reading" /\ ~Closing(s)
    /\ controlTask = None
    /\ micWriter' = s
    /\ controlTask' = s
    /\ control' = [control EXCEPT ![s] = "running"]
    /\ UNCHANGED <<asserted, sessionVars, mediaVars, callVars>>

\* The radio answers a PTT_DOWN it received on this connection, perhaps so late
\* that the press it answers is over.
ReceiveTransmitActive(s) ==
    /\ spc[s] = "reading" /\ conn[s] = "open"
    /\ keyed[s] # "never"
    /\ txActive' = TRUE
    /\ UNCHANGED <<txClosed, stop, txTask, stream, sessionVars, sharedVars, callVars>>

\* audio_state "closed": the handler sleeps for the receive drain first.
ReceiveClosed(s) ==
    /\ spc[s] = "reading" /\ conn[s] = "open"
    /\ spc' = [spc EXCEPT ![s] = "draining"]
    /\ UNCHANGED <<conn, tdControl, tdStream, keyed, sharedVars, mediaVars, callVars>>

ReceiveDrained(s) ==
    /\ spc[s] = "draining"
    /\ spc' = [spc EXCEPT ![s] = "reading"]
    /\ txClosed' = (txClosed \/ asserted \/ txActive)
    /\ UNCHANGED <<txActive, stop, txTask, stream, conn, tdControl, tdStream, keyed,
                   sharedVars, callVars>>

-----------------------------------------------------------------------------
(* The session task: the finally block of _session *)

\* Mutant: the two tasks are taken in the wrong order.
BeginTeardownSwapped(s) ==
    /\ spc' = [spc EXCEPT ![s] = "end_control"]
    /\ asserted' = FALSE
    /\ stop' = TRUE
    /\ tdControl' = [tdControl EXCEPT ![s] = txTask]
    /\ tdStream' = [tdStream EXCEPT ![s] = controlTask]

\* From _mic_ptt_asserted = False to the first await of a task.
BeginTeardown(s) ==
    /\ spc' = [spc EXCEPT ![s] = "end_control"]
    /\ asserted' = FALSE
    /\ stop' = TRUE
    /\ tdControl' = [tdControl EXCEPT ![s] = controlTask]
    /\ tdStream' = [tdStream EXCEPT ![s] = txTask]

\* A call c in state `where` finds the acknowledgement already recorded.
AckSeen(where) == txActive /\ \E c \in Callers : pc[c] = where

\* End of file, a read error, the read watchdog or cancellation by the server
\* ends the reader loop; a held PTT is first released on this session's writer.
\* A press waiting for the acknowledgement resumes within three turns of the loop
\* after it came, before the reader can see the end of the same connection.
SessionEnds(s) ==
    /\ spc[s] = "reading"
    /\ ~AckSeen("press_ack")
    /\ LateAck \/ ~AckSeen("press_send")
    /\ IF asserted /\ ~Closing(s)
       THEN /\ spc' = [spc EXCEPT ![s] = "end_send"]
            /\ UNCHANGED <<asserted, stop, tdControl, tdStream>>
       ELSE BeginTeardown(s)
    /\ UNCHANGED <<conn, keyed, micWriter, controlTask, control, txActive, txClosed,
                   txTask, stream, callVars>>

\* ConnectionError and OSError of that send are suppressed.
TeardownSendsPttUp(s) ==
    /\ spc[s] = "end_send"
    /\ Send(s, "up")
    /\ BeginTeardown(s)
    /\ UNCHANGED <<conn, micWriter, controlTask, control, txActive, txClosed,
                   txTask, stream, callVars>>

\* The session task is over, with an exception or without.
SessionOver(s) ==
    /\ spc' = [spc EXCEPT ![s] = "ended"]
    /\ tdControl' = [tdControl EXCEPT ![s] = None]
    /\ tdStream' = [tdStream EXCEPT ![s] = None]

\* Mutant: _mic_control_task is not cleared.
ClearAndCloseKeepsTask(s) ==
    /\ SessionOver(s)
    /\ txTask' = None
    /\ micWriter' = None
    /\ conn' = [conn EXCEPT ![s] = "closed"]
    /\ UNCHANGED controlTask

\* The last statements: clear the shared attributes, whoever's they are, and
\* close this session's writer.
ClearAndClose(s) ==
    /\ SessionOver(s)
    /\ controlTask' = None
    /\ txTask' = None
    /\ micWriter' = None
    /\ conn' = [conn EXCEPT ![s] = "closed"]

\* Cancel and await the control loop.  Only CancelledError is suppressed: the
\* exception of a control loop that had already failed leaves the finally block
\* here, and nothing after it happens.  The stream is awaited next, if any.
TeardownAwaitsControl(s) ==
    /\ spc[s] = "end_control"
    /\ LET k == tdControl[s] IN
       IF k # None /\ control[k] = "failed"
       THEN /\ SessionOver(s)
            /\ UNCHANGED <<conn, control, controlTask, txTask, micWriter>>
       ELSE /\ control' = IF k # None /\ control[k] = "running"
                          THEN [control EXCEPT ![k] = "done"] ELSE control
            /\ IF tdStream[s] = None
               THEN ClearAndClose(s)
               ELSE /\ spc' = [spc EXCEPT ![s] = "end_stream"]
                    /\ UNCHANGED <<conn, tdControl, tdStream, controlTask, txTask,
                                   micWriter>>
    /\ UNCHANGED <<keyed, asserted, txActive, txClosed, stop, stream, callVars>>

\* Cancel and await the stream, in the same way.
TeardownAwaitsStream(s) ==
    /\ spc[s] = "end_stream"
    /\ LET t == tdStream[s] IN
       IF stream[t] = "failed"
       THEN /\ SessionOver(s)
            /\ UNCHANGED <<stream, conn, controlTask, txTask, micWriter>>
       ELSE /\ stream' = IF stream[t] \in {"running", "tail"}
                         THEN [stream EXCEPT ![t] = "cancelled"] ELSE stream
            /\ ClearAndClose(s)
    /\ UNCHANGED <<keyed, control, asserted, txActive, txClosed, stop, callVars>>

-----------------------------------------------------------------------------
(* The control loop and the microphone stream *)

\* The loop ends when its writer is closing, or raises when it was sending the
\* frames of a tap at the moment the connection was lost.
ControlLoopEnds(s) ==
    /\ control[s] = "running" /\ Closing(s)
    /\ \E outcome \in {"done"} \cup (IF ControlMayFail THEN {"failed"} ELSE {}) :
         control' = [control EXCEPT ![s] = outcome]
    /\ UNCHANGED <<micWriter, controlTask, asserted, sessionVars, mediaVars, callVars>>

\* No verified UDP boot, a closed transport or a bad source frame.
StreamFails(t) ==
    /\ StreamMayFail
    /\ stream[t] \in {"running", "tail"}
    /\ stream' = [stream EXCEPT ![t] = "failed"]
    /\ UNCHANGED <<txActive, txClosed, stop, txTask, sessionVars, sharedVars, callVars>>

StreamSeesStop(t) ==
    /\ stream[t] = "running" /\ stop
    /\ stream' = [stream EXCEPT ![t] = "tail"]
    /\ UNCHANGED <<txActive, txClosed, stop, txTask, sessionVars, sharedVars, callVars>>

StreamTailSent(t) ==
    /\ stream[t] = "tail"
    /\ stream' = [stream EXCEPT ![t] = "done"]
    /\ UNCHANGED <<txActive, txClosed, stop, txTask, sessionVars, sharedVars, callVars>>

-----------------------------------------------------------------------------
(* press_interactive_ptt *)

\* The GUI checks controls_ready, then waits for the PTT lock.
CallPress(c) ==
    /\ pc[c] = "idle" /\ ControlsReady
    /\ pc' = [pc EXCEPT ![c] = "press"]
    /\ UNCHANGED <<lock, cw, ctask, cwas, failClosed, sessionVars, sharedVars, mediaVars>>

\* Already asserted, or no usable writer: the call returns or raises at once.
PressRefused(c) ==
    /\ pc[c] = "press" /\ lock = None
    /\ asserted \/ ~ControlsReady
    /\ pc' = [pc EXCEPT ![c] = "idle"]
    /\ UNCHANGED <<lock, cw, ctask, cwas, failClosed, sessionVars, sharedVars, mediaVars>>

PressBegins(c) ==
    /\ pc[c] = "press" /\ lock = None
    /\ ~asserted /\ ControlsReady
    /\ lock' = c
    /\ cw' = [cw EXCEPT ![c] = micWriter]
    /\ txActive' = FALSE
    /\ txClosed' = FALSE
    /\ stop' = FALSE
    /\ pc' = [pc EXCEPT ![c] = "press_send"]
    /\ UNCHANGED <<ctask, cwas, failClosed, txTask, stream, sessionVars, sharedVars>>

\* _mic_ptt_asserted is set only after the frame was sent.
PressSendsPttDown(c) ==
    /\ pc[c] = "press_send" /\ ~Closing(cw[c])
    /\ Send(cw[c], "down")
    /\ asserted' = TRUE
    /\ pc' = [pc EXCEPT ![c] = "press_ack"]
    /\ UNCHANGED <<conn, spc, tdControl, tdStream, lock, cw, ctask, cwas, failClosed,
                   micWriter, controlTask, control, mediaVars>>

\* The connection was lost while the call waited for _send_lock: a press or a
\* release raises, and what it would have set or cleared stays as it is.
SendRaises(c) ==
    /\ pc[c] \in {"press_send", "release_send"} /\ Closing(cw[c])
    /\ Return(c)
    /\ UNCHANGED <<sessionVars, sharedVars, mediaVars>>

\* The radio acknowledged: start the stream on the prewarmed source.
PressAcknowledged(c) ==
    /\ pc[c] = "press_ack" /\ txActive
    /\ \E t \in Streams :
         /\ Unused(t)
         /\ stream' = [stream EXCEPT ![t] = "running"]
         /\ txTask' = t
    /\ Return(c)
    /\ UNCHANGED <<txActive, txClosed, stop, sessionVars, sharedVars>>

\* A session is between two awaits of tasks it just cancelled: milliseconds.
Cancelling == \E s \in Sessions : spc[s] \in {"end_control", "end_stream"}

\* Mutant: a press that is not acknowledged forgets PTT instead of releasing it.
PressTimesOutForgets(c) ==
    /\ pc[c] = "press_ack" /\ ~txActive
    /\ Return(c)
    /\ asserted' = FALSE
    /\ UNCHANGED <<micWriter, controlTask, control, sessionVars, mediaVars>>

\* Mutant: the wait has no timeout of its own and ends with the session only.
PressWaitsForSession(c) ==
    /\ pc[c] = "press_ack" /\ ~txActive /\ ~ControlsReady
    /\ failClosed' = [failClosed EXCEPT ![c] = TRUE]
    /\ pc' = [pc EXCEPT ![c] = "release_locked"]
    /\ UNCHANGED <<lock, cw, ctask, cwas, sessionVars, sharedVars, mediaVars>>

\* No acknowledgement within one second, which outlasts any such await: release
\* fail-closed, then raise.
PressTimesOut(c) ==
    /\ pc[c] = "press_ack" /\ ~txActive /\ ~Cancelling
    /\ failClosed' = [failClosed EXCEPT ![c] = TRUE]
    /\ pc' = [pc EXCEPT ![c] = "release_locked"]
    /\ UNCHANGED <<lock, cw, ctask, cwas, sessionVars, sharedVars, mediaVars>>

-----------------------------------------------------------------------------
(* release_interactive_ptt *)

CallRelease(c) ==
    /\ pc[c] = "idle" /\ ControlsReady
    /\ pc' = [pc EXCEPT ![c] = "release"]
    /\ UNCHANGED <<lock, cw, ctask, cwas, failClosed, sessionVars, sharedVars, mediaVars>>

ReleaseLocks(c) ==
    /\ pc[c] = "release" /\ lock = None
    /\ lock' = c
    /\ pc' = [pc EXCEPT ![c] = "release_locked"]
    /\ UNCHANGED <<cw, ctask, cwas, failClosed, sessionVars, sharedVars, mediaVars>>

\* A held PTT is released on the current writer, whichever session's it is.
ReleaseBegins(c) ==
    /\ pc[c] = "release_locked"
    /\ asserted /\ ControlsReady
    /\ cw' = [cw EXCEPT ![c] = micWriter]
    /\ pc' = [pc EXCEPT ![c] = "release_send"]
    /\ UNCHANGED <<lock, ctask, cwas, failClosed, sessionVars, sharedVars, mediaVars>>

\* Where a release goes once its stream is dealt with.
AfterStream(was) == IF was THEN "release_closed" ELSE "release_done"

\* PTT is off, and the stream is told to stop.
StopStream(c) ==
    /\ cwas' = [cwas EXCEPT ![c] = asserted]
    /\ asserted' = FALSE
    /\ stop' = TRUE
    /\ ctask' = [ctask EXCEPT ![c] = txTask]
    /\ txTask' = None
    /\ pc' = [pc EXCEPT ![c] = IF txTask # None THEN "release_stream"
                               ELSE AfterStream(asserted)]
    /\ UNCHANGED <<lock, cw, failClosed, micWriter, controlTask, control, txActive,
                   txClosed, stream>>

ReleaseSendsPttUp(c) ==
    /\ pc[c] = "release_send" /\ ~Closing(cw[c])
    /\ Send(cw[c], "up")
    /\ StopStream(c)
    /\ UNCHANGED <<conn, spc, tdControl, tdStream>>

\* Mutant: without a usable writer a release raises before it clears anything.
ReleaseNeedsWriter(c) ==
    /\ pc[c] = "release_locked" /\ ~(asserted /\ ControlsReady)
    /\ IF ControlsReady THEN StopStream(c)
       ELSE Return(c) /\ UNCHANGED <<sharedVars, mediaVars>>
    /\ UNCHANGED sessionVars

\* Not asserted, or no usable writer: nothing is sent.
ReleaseWithoutSend(c) ==
    /\ pc[c] = "release_locked" /\ ~(asserted /\ ControlsReady)
    /\ StopStream(c)
    /\ UNCHANGED sessionVars

\* The stream's tail was sent within a second.
ReleaseStreamDone(c) ==
    /\ pc[c] = "release_stream" /\ stream[ctask[c]] = "done"
    /\ pc' = [pc EXCEPT ![c] = AfterStream(cwas[c])]
    /\ UNCHANGED <<lock, cw, ctask, cwas, failClosed, sessionVars, sharedVars, mediaVars>>

\* Mutant: the timeout leaves the stream running.
ReleaseStreamLeft(c) ==
    /\ pc[c] = "release_stream" /\ stream[ctask[c]] # "done"
    /\ pc' = [pc EXCEPT ![c] = IF failClosed[c] THEN AfterStream(cwas[c])
                               ELSE "release_done"]
    /\ UNCHANGED <<lock, cw, ctask, cwas, failClosed, sessionVars, sharedVars, mediaVars>>

\* It failed, was cancelled, or is cancelled now because the second is over:
\* an ordinary release raises here, without waiting for the radio's close.
ReleaseStreamLost(c) ==
    /\ pc[c] = "release_stream" /\ stream[ctask[c]] # "done"
    /\ stream' = IF stream[ctask[c]] \in {"running", "tail"}
                 THEN [stream EXCEPT ![ctask[c]] = "cancelled"] ELSE stream
    /\ pc' = [pc EXCEPT ![c] = IF failClosed[c] THEN AfterStream(cwas[c])
                               ELSE "release_done"]
    /\ UNCHANGED <<lock, cw, ctask, cwas, failClosed, txActive, txClosed, stop, txTask,
                   sessionVars, sharedVars>>

\* txClosed, or its one-second timeout, which is suppressed; then the call is over.
ReleaseReturns(c) ==
    /\ pc[c] \in {"release_closed", "release_done"}
    /\ Return(c)
    /\ UNCHANGED <<sessionVars, sharedVars, mediaVars>>

-----------------------------------------------------------------------------
PeerStep(s) == Accept(s) \/ PeerGone(s) \/ ConnectionReset(s)
                 \/ ReceiveTransmitActive(s) \/ ReceiveClosed(s)

\* The session task's own progress once its connection is over.
SessionStep(s) ==
    \/ StartMicControls(s)
    \/ ReceiveDrained(s)
    \/ SessionEnds(s)
    \/ TeardownSendsPttUp(s)
    \/ TeardownAwaitsControl(s)
    \/ TeardownAwaitsStream(s)
    \/ ControlLoopEnds(s)

StreamStep(t) == StreamFails(t) \/ StreamSeesStop(t) \/ StreamTailSent(t)

\* What a call does once it has been made.
CallStep(c) ==
    \/ PressRefused(c)
    \/ PressBegins(c)
    \/ PressSendsPttDown(c)
    \/ SendRaises(c)
    \/ PressAcknowledged(c)
    \/ PressTimesOut(c)
    \/ ReleaseLocks(c)
    \/ ReleaseBegins(c)
    \/ ReleaseSendsPttUp(c)
    \/ ReleaseWithoutSend(c)
    \/ ReleaseStreamDone(c)
    \/ ReleaseStreamLost(c)
    \/ ReleaseReturns(c)

Next ==
    \/ \E s \in Sessions : PeerStep(s) \/ SessionStep(s)
    \/ \E t \in Streams : StreamStep(t)
    \/ \E c \in Callers : CallPress(c) \/ CallRelease(c) \/ CallStep(c)

Spec == Init /\ [][Next]_vars

\* What the event loop guarantees: a ready task eventually runs, a timer fires,
\* asyncio.Lock serves its waiters in order, and a session whose peer is gone is
\* ended by end-of-file, the error or the six-second watchdog.
TeardownStep(s) ==
    \/ ReceiveDrained(s)
    \/ conn[s] # "open" /\ SessionEnds(s)
    \/ TeardownSendsPttUp(s)
    \/ TeardownAwaitsControl(s)
    \/ TeardownAwaitsStream(s)

LockStep(c) == PressRefused(c) \/ PressBegins(c) \/ ReleaseLocks(c)

Fairness ==
    /\ \A s \in Sessions : WF_vars(TeardownStep(s))
    /\ \A t \in Streams : WF_vars(StreamSeesStop(t) \/ StreamTailSent(t))
    /\ \A c \in Callers : WF_vars(CallStep(c)) /\ SF_vars(LockStep(c))

FairSpec == Spec /\ Fairness

-----------------------------------------------------------------------------
(* Properties *)

Ops == {"idle", "press", "press_send", "press_ack", "release", "release_locked",
        "release_send", "release_stream", "release_closed", "release_done"}

\* Every attribute has a value the code can give it.
TypeOK ==
    /\ conn \in [Sessions -> {"idle", "open", "eof", "reset", "closed"}]
    /\ spc \in [Sessions -> {"idle", "reading", "draining", "end_send", "end_control",
                             "end_stream", "ended"}]
    /\ tdControl \in [Sessions -> Sessions \cup {None}]
    /\ tdStream \in [Sessions -> Streams \cup {None}]
    /\ keyed \in [Sessions -> {"never", "down", "up"}]
    /\ micWriter \in Sessions \cup {None}
    /\ controlTask \in Sessions \cup {None}
    /\ control \in [Sessions -> {"none", "running", "done", "failed"}]
    /\ asserted \in BOOLEAN
    /\ txActive \in BOOLEAN
    /\ txClosed \in BOOLEAN
    /\ stop \in BOOLEAN
    /\ txTask \in Streams \cup {None}
    /\ stream \in [Streams -> {"none", "running", "tail", "done", "failed", "cancelled"}]
    /\ lock \in Callers \cup {None}
    /\ pc \in [Callers -> Ops]
    /\ cw \in [Callers -> Sessions \cup {None}]
    /\ ctask \in [Callers -> Streams \cup {None}]
    /\ cwas \in [Callers -> BOOLEAN]
    /\ failClosed \in [Callers -> BOOLEAN]

\* While a session is being read over a live connection, the radio is keyed only
\* if the endpoint knows it holds PTT: no order of presses, releases, timeouts and
\* session ends leaves the radio transmitting with nobody left to release it.
NeverKeyedUnknowingly ==
    \A s \in Sessions :
        spc[s] = "reading" /\ conn[s] = "open" /\ keyed[s] = "down" => asserted

\* The argument for NeverKeyedUnknowingly, used by the proofs: without overlap
\* only one session is live; the lock holder is the only call past its wait; a
\* live session that is keyed is the one _mic_writer names, and the one a
\* call about to send would write to if that session is still live.
Holding == Ops \ {"idle", "press", "release"}
Served(s) == spc[s] \in {"reading", "draining"} /\ conn[s] = "open"

OneLive == \A s, o \in Sessions : Live(s) /\ Live(o) => s = o
LockExclusive == \A c \in Callers : pc[c] \in Holding <=> lock = c
KeyedIsAsserted == \A s \in Sessions : Served(s) /\ keyed[s] = "down" => asserted
KeyedIsWriter == \A s \in Sessions : Live(s) /\ keyed[s] = "down" => micWriter = s
SenderIsWriter ==
    \A c \in Callers : pc[c] = "press_send" =>
        \A s \in Sessions : Live(s) /\ cw[c] = s => micWriter = s
ReleaseReachesKeyed ==
    \A c \in Callers : pc[c] = "release_send" =>
        \A s \in Sessions : Live(s) /\ keyed[s] = "down" => cw[c] = s
IdleIsFresh ==
    \A s \in Sessions :
        /\ conn[s] = "idle" <=> spc[s] = "idle"
        /\ spc[s] = "idle" => /\ keyed[s] = "never" /\ micWriter # s
                              /\ \A c \in Callers : cw[c] # s

KeyedInv ==
    /\ OneLive
    /\ LockExclusive
    /\ KeyedIsAsserted
    /\ KeyedIsWriter
    /\ SenderIsWriter
    /\ ReleaseReachesKeyed
    /\ IdleIsFresh

\* A stream that samples the microphone is still recorded as the current one, is
\* held by the release that is ending it, or has been told to stop.
StreamsAreOwned ==
    \A t \in Streams :
        stream[t] = "running" =>
            \/ txTask = t
            \/ stop
            \/ \E c \in Callers : pc[c] = "release_stream" /\ ctask[c] = t

\* Losing the peer clears readiness before another session can become active
\* (docs/EMULATOR.md): when no session is live, no writer and no control task of
\* an earlier one is left, so the next session can start its controls.
TeardownClears ==
    (\A s \in Sessions : ~Live(s)) => micWriter = None /\ controlTask = None

\* Every press and every release call comes back, whatever the radio, the
\* connection or the other calls do.
CallsReturn == \A c \in Callers : pc[c] # "idle" ~> pc[c] = "idle"

\* A finally block that an exception cut short: its session is over, its writer is not
\* cleared.
BrokenOff == micWriter # None /\ spc[micWriter] = "ended"

\* PTT still recorded as held when no session is left is eventually released, unless
\* the teardown of the session broke off.
PttReleasedAfterLoss == (\A s \in Sessions : ~Live(s)) /\ asserted ~> ~asserted \/ BrokenOff

\* A microphone stream that was told to stop stops sampling the microphone, unless the
\* teardown that was to cancel it broke off.
StreamsStop ==
    \A t \in Streams : stream[t] = "running" /\ stop ~> stream[t] # "running" \/ BrokenOff
=============================================================================
