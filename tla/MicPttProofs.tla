----------------------------- MODULE MicPttProofs -----------------------------
(***************************************************************************)
(* Proofs about MicPtt, for every number of sessions, calls and streams.   *)
(***************************************************************************)
EXTENDS MicPtt, TLAPS

\* An update at one argument keeps a function in its function set.
LEMMA ExceptType ==
  ASSUME NEW S, NEW T, NEW f \in [S -> T], NEW x, NEW v \in T
  PROVE  [f EXCEPT ![x] = v] \in [S -> T]
  OBVIOUS

\* Every attribute keeps a value of its type at the start and under every step.
LEMMA TypeInit == Init => TypeOK
<1> SUFFICES ASSUME Init PROVE TypeOK
  OBVIOUS
<1>1. cwas \in [Callers -> BOOLEAN] /\ failClosed \in [Callers -> BOOLEAN]
  BY Zenon DEF Init
<1>2. {asserted, txActive, txClosed, stop} \subseteq BOOLEAN
  BY Zenon DEF Init
<1>3. QED
  BY <1>1, <1>2 DEF Init, TypeOK, Ops

LEMMA TypeStep == TypeOK /\ [Next]_vars => TypeOK'
<1> SUFFICES ASSUME TypeOK, [Next]_vars PROVE TypeOK'
  OBVIOUS
<1> USE NoneAssumption DEF TypeOK, Ops, sessionVars, sharedVars, mediaVars, callVars
<1>1. QED
  <2>1. CASE \E s \in Sessions : Accept(s)
    BY <2>1 DEF Accept
  <2>2. CASE \E s \in Sessions : PeerGone(s)
    BY <2>2 DEF PeerGone
  <2>3. CASE \E s \in Sessions : ConnectionReset(s)
    BY <2>3 DEF ConnectionReset
  <2>4. CASE \E s \in Sessions : ReceiveTransmitActive(s)
    BY <2>4 DEF ReceiveTransmitActive
  <2>5. CASE \E s \in Sessions : ReceiveClosed(s)
    BY <2>5 DEF ReceiveClosed
  <2>6. CASE \E s \in Sessions : StartMicControls(s)
    BY <2>6 DEF StartMicControls
  <2>7. CASE \E s \in Sessions : ReceiveDrained(s)
    BY <2>7 DEF ReceiveDrained
  <2>8. CASE \E s \in Sessions : SessionEnds(s)
    <3> PICK s \in Sessions : SessionEnds(s)
      BY <2>8
    <3>1. {asserted', txActive', txClosed', stop'} \subseteq BOOLEAN
      BY Zenon DEF SessionEnds, BeginTeardown
    <3>2. cwas' \in [Callers -> BOOLEAN] /\ failClosed' \in [Callers -> BOOLEAN]
      BY Zenon, ExceptType DEF SessionEnds, BeginTeardown
    <3>3. QED
      BY <3>1, <3>2 DEF SessionEnds, BeginTeardown
  <2>9. CASE \E s \in Sessions : TeardownSendsPttUp(s)
    <3> PICK s \in Sessions : TeardownSendsPttUp(s)
      BY <2>9
    <3>1. {asserted', txActive', txClosed', stop'} \subseteq BOOLEAN
      BY Zenon DEF TeardownSendsPttUp, BeginTeardown, Send
    <3>2. cwas' \in [Callers -> BOOLEAN] /\ failClosed' \in [Callers -> BOOLEAN]
      BY Zenon, ExceptType DEF TeardownSendsPttUp, BeginTeardown, Send
    <3>3. QED
      BY <3>1, <3>2 DEF TeardownSendsPttUp, BeginTeardown, Send
  <2>10. CASE \E s \in Sessions : TeardownAwaitsControl(s)
    BY <2>10 DEF TeardownAwaitsControl, SessionOver, ClearAndClose
  <2>11. CASE \E s \in Sessions : TeardownAwaitsStream(s)
    BY <2>11 DEF TeardownAwaitsStream, SessionOver, ClearAndClose
  <2>12. CASE \E s \in Sessions : ControlLoopEnds(s)
    BY <2>12 DEF ControlLoopEnds
  <2>13. CASE \E t \in Streams : StreamFails(t)
    BY <2>13 DEF StreamFails
  <2>14. CASE \E t \in Streams : StreamSeesStop(t)
    BY <2>14 DEF StreamSeesStop
  <2>15. CASE \E t \in Streams : StreamTailSent(t)
    BY <2>15 DEF StreamTailSent
  <2>16. CASE \E c \in Callers : CallPress(c)
    BY <2>16 DEF CallPress
  <2>17. CASE \E c \in Callers : CallRelease(c)
    BY <2>17 DEF CallRelease
  <2>18. CASE \E c \in Callers : PressRefused(c)
    BY <2>18 DEF PressRefused
  <2>19. CASE \E c \in Callers : PressBegins(c)
    <3> PICK c \in Callers : PressBegins(c)
      BY <2>19
    <3>1. {asserted', txActive', txClosed', stop'} \subseteq BOOLEAN
      BY Zenon DEF PressBegins
    <3>2. cwas' \in [Callers -> BOOLEAN] /\ failClosed' \in [Callers -> BOOLEAN]
      BY Zenon, ExceptType DEF PressBegins
    <3>3. QED
      BY <3>1, <3>2 DEF PressBegins
  <2>20. CASE \E c \in Callers : PressSendsPttDown(c)
    <3> PICK c \in Callers : PressSendsPttDown(c)
      BY <2>20
    <3>1. {asserted', txActive', txClosed', stop'} \subseteq BOOLEAN
      BY Zenon DEF PressSendsPttDown, Send
    <3>2. cwas' \in [Callers -> BOOLEAN] /\ failClosed' \in [Callers -> BOOLEAN]
      BY Zenon, ExceptType DEF PressSendsPttDown, Send
    <3>3. QED
      BY <3>1, <3>2 DEF PressSendsPttDown, Send
  <2>21. CASE \E c \in Callers : SendRaises(c)
    BY <2>21 DEF SendRaises, Return
  <2>22. CASE \E c \in Callers : PressAcknowledged(c)
    BY <2>22 DEF PressAcknowledged, Return
  <2>23. CASE \E c \in Callers : PressTimesOut(c)
    BY <2>23 DEF PressTimesOut
  <2>24. CASE \E c \in Callers : ReleaseLocks(c)
    BY <2>24 DEF ReleaseLocks
  <2>25. CASE \E c \in Callers : ReleaseBegins(c)
    BY <2>25 DEF ReleaseBegins
  <2>26. CASE \E c \in Callers : ReleaseSendsPttUp(c)
    <3> PICK c \in Callers : ReleaseSendsPttUp(c)
      BY <2>26
    <3>1. {asserted', txActive', txClosed', stop'} \subseteq BOOLEAN
      BY Zenon DEF ReleaseSendsPttUp, Send, StopStream, AfterStream
    <3>2. cwas' \in [Callers -> BOOLEAN] /\ failClosed' \in [Callers -> BOOLEAN]
      BY Zenon, ExceptType DEF ReleaseSendsPttUp, Send, StopStream, AfterStream
    <3>3. QED
      BY <3>1, <3>2 DEF ReleaseSendsPttUp, Send, StopStream, AfterStream
  <2>27. CASE \E c \in Callers : ReleaseWithoutSend(c)
    <3> PICK c \in Callers : ReleaseWithoutSend(c)
      BY <2>27
    <3>1. {asserted', txActive', txClosed', stop'} \subseteq BOOLEAN
      BY Zenon DEF ReleaseWithoutSend, StopStream, AfterStream
    <3>2. cwas' \in [Callers -> BOOLEAN] /\ failClosed' \in [Callers -> BOOLEAN]
      BY Zenon, ExceptType DEF ReleaseWithoutSend, StopStream, AfterStream
    <3>3. QED
      BY <3>1, <3>2 DEF ReleaseWithoutSend, StopStream, AfterStream
  <2>28. CASE \E c \in Callers : ReleaseStreamDone(c)
    BY <2>28 DEF ReleaseStreamDone, AfterStream
  <2>29. CASE \E c \in Callers : ReleaseStreamLost(c)
    <3> PICK c \in Callers : ReleaseStreamLost(c)
      BY <2>29
    <3>1. {asserted', txActive', txClosed', stop'} \subseteq BOOLEAN
      BY Zenon DEF ReleaseStreamLost, AfterStream
    <3>2. cwas' \in [Callers -> BOOLEAN] /\ failClosed' \in [Callers -> BOOLEAN]
      BY Zenon, ExceptType DEF ReleaseStreamLost, AfterStream
    <3>3. QED
      BY <3>1, <3>2 DEF ReleaseStreamLost, AfterStream
  <2>30. CASE \E c \in Callers : ReleaseReturns(c)
    BY <2>30 DEF ReleaseReturns, Return
  <2>31. CASE UNCHANGED vars
    BY <2>31 DEF vars, sessionVars, sharedVars, mediaVars, callVars
  <2>32. QED
    BY <2>1, <2>2, <2>3, <2>4, <2>5, <2>6, <2>7, <2>8, <2>9, <2>10, <2>11, <2>12,
        <2>13, <2>14, <2>15, <2>16, <2>17, <2>18, <2>19, <2>20, <2>21, <2>22, <2>23,
        <2>24, <2>25, <2>26, <2>27, <2>28, <2>29, <2>30, <2>31
    DEF Next, PeerStep, SessionStep, StreamStep, CallStep

\* Every attribute of the mic endpoint always has a value of its type, with any
\* number of overlapping sessions, failing streams and concurrent calls.
THEOREM TypeCorrect == Spec => []TypeOK
<1>1. Init => TypeOK
  BY TypeInit
<1>2. TypeOK /\ [Next]_vars => TypeOK'
  BY TypeStep
<1>3. QED
  BY <1>1, <1>2, PTL DEF Spec

-----------------------------------------------------------------------------
\* The invariant that NeverKeyedUnknowingly follows from (see MicPtt) holds initially
\* and, without overlap, is kept by every step.
LEMMA KeyedInit == Init => KeyedInv
  BY NoneAssumption
  DEF Init, KeyedInv, OneLive, LockExclusive, KeyedIsAsserted, KeyedIsWriter,
      SenderIsWriter, ReleaseReachesKeyed, IdleIsFresh, Live, Served, Holding, Ops,
      Closing, ControlsReady, TypeOK

LEMMA KeyedStep ==
  ASSUME ~Overlap, TypeOK, KeyedInv, [Next]_vars
  PROVE  KeyedInv'
<1> USE NoneAssumption
        DEF KeyedInv, OneLive, LockExclusive, KeyedIsAsserted, KeyedIsWriter,
            SenderIsWriter, ReleaseReachesKeyed, IdleIsFresh,
            Live, Served, Holding, Ops, Closing, ControlsReady, TypeOK,
            sessionVars, sharedVars, mediaVars, callVars
<1>1. QED
  \* a fresh connection was never keyed and nobody writes to it
  <2>1. CASE \E s \in Sessions : Accept(s)
    BY <2>1 DEF Accept
  <2>2. CASE \E s \in Sessions : PeerGone(s)
    BY <2>2 DEF PeerGone
  <2>3. CASE \E s \in Sessions : ConnectionReset(s)
    BY <2>3 DEF ConnectionReset
  <2>4. CASE \E s \in Sessions : ReceiveTransmitActive(s)
    BY <2>4 DEF ReceiveTransmitActive
  <2>5. CASE \E s \in Sessions : ReceiveClosed(s)
    BY <2>5 DEF ReceiveClosed
  \* this session is the only live one, so it may become the writer
  <2>6. CASE \E s \in Sessions : StartMicControls(s)
    BY <2>6 DEF StartMicControls
  <2>7. CASE \E s \in Sessions : ReceiveDrained(s)
    BY <2>7 DEF ReceiveDrained
  \* the session stops being served, and no other one is live
  <2>8. CASE \E s \in Sessions : SessionEnds(s)
    BY <2>8 DEF SessionEnds, BeginTeardown
  \* as above: asserted is cleared, but nothing is served any more
  <2>9. CASE \E s \in Sessions : TeardownSendsPttUp(s)
    BY <2>9 DEF TeardownSendsPttUp, BeginTeardown, Send
  \* _mic_writer is cleared when no session is left live
  <2>10. CASE \E s \in Sessions : TeardownAwaitsControl(s)
    BY <2>10 DEF TeardownAwaitsControl, SessionOver, ClearAndClose
  \* as above
  <2>11. CASE \E s \in Sessions : TeardownAwaitsStream(s)
    BY <2>11 DEF TeardownAwaitsStream, SessionOver, ClearAndClose
  <2>12. CASE \E s \in Sessions : ControlLoopEnds(s)
    BY <2>12 DEF ControlLoopEnds
  <2>13. CASE \E t \in Streams : StreamFails(t)
    BY <2>13 DEF StreamFails
  <2>14. CASE \E t \in Streams : StreamSeesStop(t)
    BY <2>14 DEF StreamSeesStop
  <2>15. CASE \E t \in Streams : StreamTailSent(t)
    BY <2>15 DEF StreamTailSent
  <2>16. CASE \E c \in Callers : CallPress(c)
    BY <2>16 DEF CallPress
  <2>17. CASE \E c \in Callers : CallRelease(c)
    BY <2>17 DEF CallRelease
  <2>18. CASE \E c \in Callers : PressRefused(c)
    BY <2>18 DEF PressRefused
  \* the call captures _mic_writer
  <2>19. CASE \E c \in Callers : PressBegins(c)
    BY <2>19 DEF PressBegins
  \* SenderIsWriter: a live session keyed now is the writer
  <2>20. CASE \E c \in Callers : PressSendsPttDown(c)
    BY <2>20 DEF PressSendsPttDown, Send
  <2>21. CASE \E c \in Callers : SendRaises(c)
    BY <2>21 DEF SendRaises, Return
  <2>22. CASE \E c \in Callers : PressAcknowledged(c)
    BY <2>22 DEF PressAcknowledged, Return
  <2>23. CASE \E c \in Callers : PressTimesOut(c)
    BY <2>23 DEF PressTimesOut
  <2>24. CASE \E c \in Callers : ReleaseLocks(c)
    BY <2>24 DEF ReleaseLocks
  \* KeyedIsWriter: the writer captured is the keyed session, if any
  <2>25. CASE \E c \in Callers : ReleaseBegins(c)
    BY <2>25 DEF ReleaseBegins
  \* ReleaseReachesKeyed: the keyed session gets PTT_UP as asserted is cleared
  <2>26. CASE \E c \in Callers : ReleaseSendsPttUp(c)
    BY <2>26 DEF ReleaseSendsPttUp, Send, StopStream, AfterStream
  \* KeyedIsWriter: a served keyed session would have made ControlsReady true
  <2>27. CASE \E c \in Callers : ReleaseWithoutSend(c)
    BY <2>27 DEF ReleaseWithoutSend, StopStream, AfterStream
  <2>28. CASE \E c \in Callers : ReleaseStreamDone(c)
    BY <2>28 DEF ReleaseStreamDone, AfterStream
  <2>29. CASE \E c \in Callers : ReleaseStreamLost(c)
    BY <2>29 DEF ReleaseStreamLost, AfterStream
  <2>30. CASE \E c \in Callers : ReleaseReturns(c)
    BY <2>30 DEF ReleaseReturns, Return
  <2>31. CASE UNCHANGED vars
    BY <2>31 DEF vars
  <2>32. QED
    BY <2>1, <2>2, <2>3, <2>4, <2>5, <2>6, <2>7, <2>8, <2>9, <2>10, <2>11, <2>12,
        <2>13, <2>14, <2>15, <2>16, <2>17, <2>18, <2>19, <2>20, <2>21, <2>22, <2>23,
        <2>24, <2>25, <2>26, <2>27, <2>28, <2>29, <2>30, <2>31
    DEF Next, PeerStep, SessionStep, StreamStep, CallStep

\* Without overlapping sessions, whatever the number of calls and whether or not
\* streams and taps fail, the radio served by a session is keyed only while the
\* endpoint knows that it holds PTT (press, release and teardown of _session).
THEOREM NeverKeyed == (~Overlap) => (Spec => []NeverKeyedUnknowingly)
<1> SUFFICES ASSUME ~Overlap PROVE Spec => []NeverKeyedUnknowingly
  OBVIOUS
<1>1. Init => TypeOK /\ KeyedInv
  BY TypeInit, KeyedInit
<1>2. TypeOK /\ KeyedInv /\ [Next]_vars => (TypeOK /\ KeyedInv)'
  BY TypeStep, KeyedStep
<1>3. TypeOK /\ KeyedInv => NeverKeyedUnknowingly
  BY DEF KeyedInv, KeyedIsAsserted, Served, NeverKeyedUnknowingly
<1>4. QED
  BY <1>1, <1>2, <1>3, PTL DEF Spec

-----------------------------------------------------------------------------
(* Streams, while sessions do not overlap and no control loop fails *)

Ending == {"end_send", "end_control", "end_stream"}
Pressing(c) == pc[c] \in {"press_send", "press_ack"}
Recording == txTask # None /\ stream[txTask] = "running"

\* A running stream is the current one, or held by the release that is ending it: the
\* flag that tells it to stop is not needed, for a later press clears it.
Owned ==
    \A t \in Streams :
        stream[t] = "running" =>
            txTask = t \/ \E c \in Callers : pc[c] = "release_stream" /\ ctask[c] = t

\* A session does not end while a press is about to see its acknowledgement.
NoAckWhileEnding ==
    \A s \in Sessions, c \in Callers : spc[s] \in Ending /\ Pressing(c) => ~txActive

\* Nor does a later session acknowledge a press whose session has ended.
NoForeignAck ==
    \A c \in Callers : pc[c] = "press_ack" /\ ~asserted =>
        /\ ~txActive
        /\ \A s \in Sessions : spc[s] \in {"reading", "draining"} => keyed[s] = "never"

\* The stream is not replaced while the teardown awaits it.
TeardownHoldsStream ==
    \A s \in Sessions : spc[s] \in {"end_control", "end_stream"} => txTask \in {None, tdStream[s]}

\* PTT is not held while its stream records, or pressed once more, only in a teardown.
RecordingIsHeld ==
    Recording /\ (~asserted \/ \E c \in Callers : Pressing(c)) => Cancelling

NoControlFailed == \A s \in Sessions : control[s] # "failed"

StreamInv ==
    /\ Owned
    /\ NoAckWhileEnding
    /\ NoForeignAck
    /\ TeardownHoldsStream
    /\ RecordingIsHeld
    /\ NoControlFailed

\* The initial states.
LEMMA StreamInit == Init => StreamInv
  BY NoneAssumption
  DEF Init, StreamInv, Owned, NoAckWhileEnding, NoForeignAck, TeardownHoldsStream,
      RecordingIsHeld, NoControlFailed, Ending, Pressing, Recording, Cancelling

\* Each action keeps the invariant.
LEMMA StreamStepKeeps ==
  ASSUME ~Overlap, ~LateAck, ~ControlMayFail, TypeOK, KeyedInv, StreamInv, [Next]_vars
  PROVE  StreamInv'
<1> USE NoneAssumption
        DEF KeyedInv, OneLive, LockExclusive, IdleIsFresh, Live, Holding, Ops,
            StreamInv, Owned, NoAckWhileEnding, NoForeignAck, TeardownHoldsStream,
            RecordingIsHeld, NoControlFailed, Ending, Pressing, Recording, Cancelling,
            TypeOK, sessionVars, sharedVars, mediaVars, callVars
<1>1. QED
  <2>1. CASE \E s \in Sessions : Accept(s)
    BY <2>1 DEF Accept
  <2>2. CASE \E s \in Sessions : PeerGone(s)
    BY <2>2 DEF PeerGone
  <2>3. CASE \E s \in Sessions : ConnectionReset(s)
    BY <2>3 DEF ConnectionReset
  <2>4. CASE \E s \in Sessions : ReceiveTransmitActive(s)
    BY <2>4 DEF ReceiveTransmitActive
  <2>5. CASE \E s \in Sessions : ReceiveClosed(s)
    BY <2>5 DEF ReceiveClosed
  <2>6. CASE \E s \in Sessions : StartMicControls(s)
    BY <2>6 DEF StartMicControls
  <2>7. CASE \E s \in Sessions : ReceiveDrained(s)
    BY <2>7 DEF ReceiveDrained
  <2>8. CASE \E s \in Sessions : SessionEnds(s)
    BY <2>8 DEF SessionEnds, BeginTeardown, AckSeen
  <2>9. CASE \E s \in Sessions : TeardownSendsPttUp(s)
    BY <2>9 DEF TeardownSendsPttUp, BeginTeardown, Send
  <2>10. CASE \E s \in Sessions : TeardownAwaitsControl(s)
    BY <2>10 DEF TeardownAwaitsControl, SessionOver, ClearAndClose
  <2>11. CASE \E s \in Sessions : TeardownAwaitsStream(s)
    BY <2>11 DEF TeardownAwaitsStream, SessionOver, ClearAndClose
  <2>12. CASE \E s \in Sessions : ControlLoopEnds(s)
    BY <2>12 DEF ControlLoopEnds
  <2>13. CASE \E t \in Streams : StreamFails(t)
    BY <2>13 DEF StreamFails
  <2>14. CASE \E t \in Streams : StreamSeesStop(t)
    BY <2>14 DEF StreamSeesStop
  <2>15. CASE \E t \in Streams : StreamTailSent(t)
    BY <2>15 DEF StreamTailSent
  <2>16. CASE \E c \in Callers : CallPress(c)
    BY <2>16 DEF CallPress
  <2>17. CASE \E c \in Callers : CallRelease(c)
    BY <2>17 DEF CallRelease
  <2>18. CASE \E c \in Callers : PressRefused(c)
    BY <2>18 DEF PressRefused
  <2>19. CASE \E c \in Callers : PressBegins(c)
    BY <2>19 DEF PressBegins
  <2>20. CASE \E c \in Callers : PressSendsPttDown(c)
    BY <2>20 DEF PressSendsPttDown, Send
  <2>21. CASE \E c \in Callers : SendRaises(c)
    BY <2>21 DEF SendRaises, Return
  <2>22. CASE \E c \in Callers : PressAcknowledged(c)
    BY <2>22 DEF PressAcknowledged, Return, Unused
  <2>23. CASE \E c \in Callers : PressTimesOut(c)
    BY <2>23 DEF PressTimesOut
  <2>24. CASE \E c \in Callers : ReleaseLocks(c)
    BY <2>24 DEF ReleaseLocks
  <2>25. CASE \E c \in Callers : ReleaseBegins(c)
    BY <2>25 DEF ReleaseBegins
  <2>26. CASE \E c \in Callers : ReleaseSendsPttUp(c)
    BY <2>26 DEF ReleaseSendsPttUp, Send, StopStream, AfterStream
  <2>27. CASE \E c \in Callers : ReleaseWithoutSend(c)
    BY <2>27 DEF ReleaseWithoutSend, StopStream, AfterStream
  <2>28. CASE \E c \in Callers : ReleaseStreamDone(c)
    BY <2>28 DEF ReleaseStreamDone, AfterStream
  <2>29. CASE \E c \in Callers : ReleaseStreamLost(c)
    BY <2>29 DEF ReleaseStreamLost, AfterStream
  <2>30. CASE \E c \in Callers : ReleaseReturns(c)
    BY <2>30 DEF ReleaseReturns, Return
  <2>31. CASE UNCHANGED vars
    BY <2>31 DEF vars
  <2>32. QED
    BY <2>1, <2>2, <2>3, <2>4, <2>5, <2>6, <2>7, <2>8, <2>9, <2>10, <2>11, <2>12,
        <2>13, <2>14, <2>15, <2>16, <2>17, <2>18, <2>19, <2>20, <2>21, <2>22, <2>23,
        <2>24, <2>25, <2>26, <2>27, <2>28, <2>29, <2>30, <2>31
    DEF Next, PeerStep, SessionStep, StreamStep, CallStep

\* Without overlap and failing taps, every stream that samples the microphone is the
\* current one, held by the release that ends it, or told to stop. (press, release,
\* and the finally block of _session)
THEOREM StreamsAlwaysOwned ==
    ~Overlap /\ ~LateAck /\ ~ControlMayFail => (Spec => []StreamsAreOwned)
<1> SUFFICES ASSUME ~Overlap, ~LateAck, ~ControlMayFail PROVE Spec => []StreamsAreOwned
  OBVIOUS
<1>1. Init => TypeOK /\ KeyedInv /\ StreamInv
  BY TypeInit, KeyedInit, StreamInit
<1>2. TypeOK /\ KeyedInv /\ StreamInv /\ [Next]_vars => (TypeOK /\ KeyedInv /\ StreamInv)'
  BY TypeStep, KeyedStep, StreamStepKeeps
<1>3. StreamInv => StreamsAreOwned
  BY DEF StreamInv, Owned, StreamsAreOwned
<1>4. QED
  BY <1>1, <1>2, <1>3, PTL DEF Spec

-----------------------------------------------------------------------------
(* Readiness, while neither streams nor control loops fail *)

\* Nothing has failed that the finally block awaits, and what a session leaves is cleared.
TeardownInv ==
    /\ NoControlFailed
    /\ \A t \in Streams : stream[t] # "failed"
    /\ \A s \in Sessions : spc[s] = "end_stream" => tdStream[s] # None
    /\ TeardownClears

\* Each action keeps the invariant.
LEMMA TeardownStepKeeps ==
  ASSUME ~StreamMayFail, ~ControlMayFail, TypeOK, TeardownInv, [Next]_vars
  PROVE  TeardownInv'
<1> USE NoneAssumption
        DEF TeardownInv, NoControlFailed, TeardownClears, Live, TypeOK,
            sessionVars, sharedVars, mediaVars, callVars
<1>1. QED
  <2>1. CASE \E s \in Sessions : Accept(s)
    BY <2>1 DEF Accept
  <2>2. CASE \E s \in Sessions : PeerGone(s)
    BY <2>2 DEF PeerGone
  <2>3. CASE \E s \in Sessions : ConnectionReset(s)
    BY <2>3 DEF ConnectionReset
  <2>4. CASE \E s \in Sessions : ReceiveTransmitActive(s)
    BY <2>4 DEF ReceiveTransmitActive
  <2>5. CASE \E s \in Sessions : ReceiveClosed(s)
    BY <2>5 DEF ReceiveClosed
  <2>6. CASE \E s \in Sessions : StartMicControls(s)
    BY <2>6 DEF StartMicControls
  <2>7. CASE \E s \in Sessions : ReceiveDrained(s)
    BY <2>7 DEF ReceiveDrained
  <2>8. CASE \E s \in Sessions : SessionEnds(s)
    BY <2>8 DEF SessionEnds, BeginTeardown, AckSeen
  <2>9. CASE \E s \in Sessions : TeardownSendsPttUp(s)
    BY <2>9 DEF TeardownSendsPttUp, BeginTeardown, Send
  <2>10. CASE \E s \in Sessions : TeardownAwaitsControl(s)
    BY <2>10 DEF TeardownAwaitsControl, SessionOver, ClearAndClose
  <2>11. CASE \E s \in Sessions : TeardownAwaitsStream(s)
    BY <2>11 DEF TeardownAwaitsStream, SessionOver, ClearAndClose
  <2>12. CASE \E s \in Sessions : ControlLoopEnds(s)
    BY <2>12 DEF ControlLoopEnds
  <2>13. CASE \E t \in Streams : StreamFails(t)
    BY <2>13 DEF StreamFails
  <2>14. CASE \E t \in Streams : StreamSeesStop(t)
    BY <2>14 DEF StreamSeesStop
  <2>15. CASE \E t \in Streams : StreamTailSent(t)
    BY <2>15 DEF StreamTailSent
  <2>16. CASE \E c \in Callers : CallPress(c)
    BY <2>16 DEF CallPress
  <2>17. CASE \E c \in Callers : CallRelease(c)
    BY <2>17 DEF CallRelease
  <2>18. CASE \E c \in Callers : PressRefused(c)
    BY <2>18 DEF PressRefused
  <2>19. CASE \E c \in Callers : PressBegins(c)
    BY <2>19 DEF PressBegins
  <2>20. CASE \E c \in Callers : PressSendsPttDown(c)
    BY <2>20 DEF PressSendsPttDown, Send
  <2>21. CASE \E c \in Callers : SendRaises(c)
    BY <2>21 DEF SendRaises, Return
  <2>22. CASE \E c \in Callers : PressAcknowledged(c)
    BY <2>22 DEF PressAcknowledged, Return, Unused
  <2>23. CASE \E c \in Callers : PressTimesOut(c)
    BY <2>23 DEF PressTimesOut
  <2>24. CASE \E c \in Callers : ReleaseLocks(c)
    BY <2>24 DEF ReleaseLocks
  <2>25. CASE \E c \in Callers : ReleaseBegins(c)
    BY <2>25 DEF ReleaseBegins
  <2>26. CASE \E c \in Callers : ReleaseSendsPttUp(c)
    BY <2>26 DEF ReleaseSendsPttUp, Send, StopStream, AfterStream
  <2>27. CASE \E c \in Callers : ReleaseWithoutSend(c)
    BY <2>27 DEF ReleaseWithoutSend, StopStream, AfterStream
  <2>28. CASE \E c \in Callers : ReleaseStreamDone(c)
    BY <2>28 DEF ReleaseStreamDone, AfterStream
  <2>29. CASE \E c \in Callers : ReleaseStreamLost(c)
    BY <2>29 DEF ReleaseStreamLost, AfterStream
  <2>30. CASE \E c \in Callers : ReleaseReturns(c)
    BY <2>30 DEF ReleaseReturns, Return
  <2>31. CASE UNCHANGED vars
    BY <2>31 DEF vars
  <2>32. QED
    BY <2>1, <2>2, <2>3, <2>4, <2>5, <2>6, <2>7, <2>8, <2>9, <2>10, <2>11, <2>12,
        <2>13, <2>14, <2>15, <2>16, <2>17, <2>18, <2>19, <2>20, <2>21, <2>22, <2>23,
        <2>24, <2>25, <2>26, <2>27, <2>28, <2>29, <2>30, <2>31
    DEF Next, PeerStep, SessionStep, StreamStep, CallStep

\* Losing the peer clears readiness: with no live session there is no writer and no
\* control task left, sessions that overlap included. (the finally block of _session)
THEOREM TeardownAlwaysClears ==
    ~StreamMayFail /\ ~ControlMayFail => (Spec => []TeardownClears)
<1> SUFFICES ASSUME ~StreamMayFail, ~ControlMayFail PROVE Spec => []TeardownClears
  OBVIOUS
<1>1. Init => TypeOK /\ TeardownInv
  BY TypeInit, NoneAssumption DEF Init, TeardownInv, NoControlFailed, TeardownClears
<1>2. TypeOK /\ TeardownInv /\ [Next]_vars => (TypeOK /\ TeardownInv)'
  BY TypeStep, TeardownStepKeeps
<1>3. TeardownInv => TeardownClears
  BY DEF TeardownInv
<1>4. QED
  BY <1>1, <1>2, <1>3, PTL DEF Spec
=============================================================================
