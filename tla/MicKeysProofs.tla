---------------------------- MODULE MicKeysProofs ----------------------------
(***************************************************************************)
(* For any keys, callers, script and number of taps and sessions: the types  *)
(* and the exact count of the tap queue, and that no key stays down.         *)
(***************************************************************************)
EXTENDS MicKeys, SequenceTheorems, TLAPS

\* A session without a connection has no loop but one that failed; a loop that sends
\* has a tap to send.
LoopInv ==
    /\ Sending => tap \in Keys
    /\ conn = "none" => loop \in {"none", "failed"}
    /\ loop = "none" => conn = "none" /\ writer = 0
    /\ loop # "none" => writer = session /\ session > 0

\* A call that presses or releases has a key to send.
CallInv == \A c \in Callers : pc[c] \notin {"idle", "release"} => button[c] \in Keys

CountInv == TypeOK /\ CountExact /\ LoopInv /\ CallInv

-----------------------------------------------------------------------------
(* Types and the count *)

\* Queuing adds one tap to the queue and one to the count.
LEMMA EnqueueCounts ==
    ASSUME queue \in Seq(Keys), unfinished \in Nat, CountExact, NEW key \in Keys, Enqueue(key)
    PROVE  /\ queue' \in Seq(Keys) /\ unfinished' \in Nat
           /\ unfinished' = Len(queue') + IF Sending THEN 1 ELSE 0
<1>1. Append(queue, key) \in Seq(Keys) /\ Len(Append(queue, key)) = Len(queue) + 1
  BY AppendProperties
<1>2. Len(queue) \in Nat
  BY LenProperties
<1>3. QED
  BY <1>1, <1>2 DEF Enqueue, CountExact

\* Taking a tap moves it from the queue to the loop.
LEMMA TakeKeepsCount ==
    ASSUME queue \in Seq(Keys), queue # <<>>
    PROVE  /\ Head(queue) \in Keys /\ Tail(queue) \in Seq(Keys)
           /\ Len(queue) \in Nat /\ Len(Tail(queue)) = Len(queue) - 1
  BY HeadTailProperties, LenProperties

LEMMA CountInit == Init => CountInv
<1> SUFFICES ASSUME Init PROVE CountInv
  OBVIOUS
<1>1. Len(Script) \in Nat
  BY KeysAssumption, LenProperties DEF KeysAssumption
<1>2. <<>> \in Seq(Keys) /\ Len(<<>>) = 0
  BY EmptySeq
<1>3. QED
  BY <1>1, <1>2, KeysAssumption
  DEF KeysAssumption, Init, CountInv, TypeOK, CountExact, LoopInv, CallInv, Sending

LEMMA CountStep == CountInv /\ [Next]_vars => CountInv'
<1> SUFFICES ASSUME CountInv, [Next]_vars PROVE CountInv'
  OBVIOUS
<1> USE KeysAssumption DEF KeysAssumption, CountInv, TypeOK, LoopInv, CallInv
<1>0. Len(Script) \in Nat /\ Len(queue) \in Nat
  BY LenProperties
<1>1. CASE StartMicControls
  BY <1>0, <1>1 DEF StartMicControls, callVars, CountExact, Sending
<1>2. CASE PeerGone
  BY <1>2 DEF PeerGone, tapVars, callVars, CountExact, Sending
<1>3. CASE SessionEnds
  BY <1>0, <1>3 DEF SessionEnds, callVars, CountExact, Sending
<1>4. CASE QueueKeyTap
  <2>1. PICK key \in Keys : Enqueue(key)
    BY <1>4 DEF QueueKeyTap
  <2>2. /\ queue' \in Seq(Keys) /\ unfinished' \in Nat
        /\ unfinished' = Len(queue') + IF Sending THEN 1 ELSE 0
    BY <2>1, EnqueueCounts
  <2>3. QED
    BY <1>4, <2>2 DEF QueueKeyTap, linkVars, callVars, CountExact, Sending
<1>5. CASE ScriptQueues
  <2>1. Script[next] \in Keys
    BY <1>0, <1>5 DEF ScriptQueues
  <2>2. /\ queue' \in Seq(Keys) /\ unfinished' \in Nat
        /\ unfinished' = Len(queue') + IF Sending THEN 1 ELSE 0
    BY <1>5, <2>1, EnqueueCounts DEF ScriptQueues
  <2>3. QED
    BY <1>0, <1>5, <2>2 DEF ScriptQueues, linkVars, callVars, CountExact, Sending
<1>6. CASE TakeTap
  BY <1>6, TakeKeepsCount DEF TakeTap, linkVars, callVars, CountExact, Sending
<1>7. CASE SendTapPress
  BY <1>7 DEF SendTapPress, Told, linkVars, callVars, CountExact, Sending
<1>8. CASE SendTapRelease
  BY <1>8 DEF SendTapRelease, Told, linkVars, callVars, CountExact, Sending
<1>9. CASE SendTapNeutral
  BY <1>0, <1>9 DEF SendTapNeutral, Told, linkVars, callVars, CountExact, Sending
<1>10. CASE TapFails
  BY <1>0, <1>10 DEF TapFails, linkVars, callVars, CountExact, Sending
<1>11. CASE ScriptJoins
  BY <1>11 DEF ScriptJoins, linkVars, callVars, CountExact, Sending
<1>12. ASSUME NEW c \in Callers, CallKey(c) \/ CallSteps(c) PROVE CountInv'
  <2> USE DEF linkVars, tapVars, Goes, Return, CountExact, Sending, Told
  <2>1. CASE CallKey(c)
    BY <2>1 DEF CallKey
  <2>2. CASE PressRefused(c)
    BY <2>2 DEF PressRefused
  <2>3. CASE PressBegins(c)
    BY <2>3 DEF PressBegins
  <2>4. CASE PressSends(c)
    <3>1. button[c] \in Keys
      BY <2>4 DEF PressSends
    <3>2. down' \subseteq Keys /\ held' \in Keys
      BY <2>4, <3>1 DEF PressSends
    <3>3. QED
      BY <2>4, <3>2 DEF PressSends
  <2>5. CASE SendRaises(c)
    BY <2>5 DEF SendRaises
  <2>6. CASE ReleaseRefused(c)
    BY <2>6 DEF ReleaseRefused
  <2>7. CASE ReleaseBegins(c)
    BY <2>7 DEF ReleaseBegins
  <2>8. CASE ReleaseSends(c)
    BY <2>8 DEF ReleaseSends
  <2>9. CASE NeutralSends(c)
    BY <2>9 DEF NeutralSends
  <2>10. QED
    BY <1>12, <2>1, <2>2, <2>3, <2>4, <2>5, <2>6, <2>7, <2>8, <2>9 DEF CallSteps
<1>13. CASE UNCHANGED vars
  BY <1>13 DEF vars, linkVars, tapVars, callVars, CountExact, Sending
<1>14. QED
  BY <1>1, <1>2, <1>3, <1>4, <1>5, <1>6, <1>7, <1>8, <1>9, <1>10, <1>11, <1>12, <1>13
  DEF Next, LoopSteps, ScriptSteps

\* Every attribute has a value the code can give it, however many sessions, taps and
\* callers there are.
THEOREM TypeCorrect == Spec => []TypeOK
<1>1. Spec => []CountInv
  BY CountInit, CountStep, PTL DEF Spec
<1>2. CountInv => TypeOK
  BY DEF CountInv
<1>3. QED
  BY <1>1, <1>2, PTL

\* The queue's count of unfinished taps is exact, so join() waits for the taps that are
\* queued or being sent and for nothing else.
THEOREM CountStaysExact == Spec => []CountExact
<1>1. Spec => []CountInv
  BY CountInit, CountStep, PTL DEF Spec
<1>2. CountInv => CountExact
  BY DEF CountInv
<1>3. QED
  BY <1>1, <1>2, PTL

-----------------------------------------------------------------------------
(* No key stays down *)

\* A call about to press finds no key held, and is alone past the lock.
LockInv ==
    \A c \in Callers :
        /\ pc[c] \in {"press_send", "release_send", "neutral_send"} => lock = c
        /\ pc[c] = "press_send" => held = None

\* A key that is down is accounted for; a call that releases one on this connection
\* cannot fail while it is open.
StuckInv ==
    conn = "open" =>
        \A key \in down :
            \/ held = key
            \/ loop = "hold" /\ tap = key
            \/ \E c \in Callers : /\ pc[c] \in {"release_send", "neutral_send"}
                                  /\ button[c] = key /\ cw[c] = session

KeyInv == CountInv /\ LockInv /\ StuckInv

LEMMA KeyInit == Init => KeyInv
  BY CountInit DEF Init, KeyInv, LockInv, StuckInv

LEMMA LockStep == CountInv /\ LockInv /\ [Next]_vars => LockInv'
<1> SUFFICES ASSUME CountInv, LockInv, [Next]_vars PROVE LockInv'
  OBVIOUS
<1> USE KeysAssumption
    DEF KeysAssumption, CountInv, TypeOK, LockInv, linkVars, tapVars, callVars, Goes, Return
<1>1. CASE UNCHANGED callVars
  BY <1>1
<1>2. ASSUME NEW c \in Callers, CallKey(c) PROVE LockInv'
  BY <1>2 DEF CallKey
<1>3. ASSUME NEW c \in Callers, PressRefused(c) PROVE LockInv'
  BY <1>3 DEF PressRefused
<1>4. ASSUME NEW c \in Callers, PressBegins(c) PROVE LockInv'
  BY <1>4 DEF PressBegins
<1>5. ASSUME NEW c \in Callers, PressSends(c) PROVE LockInv'
  BY <1>5 DEF PressSends
<1>6. ASSUME NEW c \in Callers, SendRaises(c) PROVE LockInv'
  BY <1>6 DEF SendRaises
<1>7. ASSUME NEW c \in Callers, ReleaseRefused(c) PROVE LockInv'
  BY <1>7 DEF ReleaseRefused
<1>8. ASSUME NEW c \in Callers, ReleaseBegins(c) PROVE LockInv'
  BY <1>8 DEF ReleaseBegins
<1>9. ASSUME NEW c \in Callers, ReleaseSends(c) PROVE LockInv'
  BY <1>9 DEF ReleaseSends
<1>10. ASSUME NEW c \in Callers, NeutralSends(c) PROVE LockInv'
  BY <1>10 DEF NeutralSends
<1>11. ASSUME ~ \E c \in Callers : CallKey(c) \/ CallSteps(c) PROVE UNCHANGED callVars
  BY <1>11 DEF Next, vars, LoopSteps, ScriptSteps, StartMicControls, PeerGone, SessionEnds,
     QueueKeyTap, TakeTap, SendTapPress, SendTapRelease, SendTapNeutral, TapFails,
     ScriptQueues, ScriptJoins
<1>12. QED
  BY <1>1, <1>2, <1>3, <1>4, <1>5, <1>6, <1>7, <1>8, <1>9, <1>10, <1>11 DEF CallSteps

LEMMA StuckStep == KeyInv /\ [Next]_vars => StuckInv'
<1> SUFFICES ASSUME KeyInv, [Next]_vars PROVE StuckInv'
  OBVIOUS
<1> USE KeysAssumption
    DEF KeysAssumption, KeyInv, CountInv, TypeOK, LoopInv, CallInv, LockInv, StuckInv,
        linkVars, tapVars, callVars, Goes, Return, Told, Closing, ControlsReady
<1>1. CASE StartMicControls
  BY <1>1 DEF StartMicControls
<1>2. CASE PeerGone \/ SessionEnds
  BY <1>2 DEF PeerGone, SessionEnds
<1>3. CASE QueueKeyTap \/ ScriptQueues \/ ScriptJoins
  BY <1>3 DEF QueueKeyTap, ScriptQueues, ScriptJoins
<1>4. CASE TakeTap
  BY <1>4 DEF TakeTap
<1>5. CASE SendTapPress
  BY <1>5 DEF SendTapPress
<1>6. CASE SendTapRelease
  BY <1>6 DEF SendTapRelease
<1>7. CASE SendTapNeutral
  BY <1>7 DEF SendTapNeutral
<1>8. CASE TapFails
  BY <1>8 DEF TapFails
<1>9. ASSUME NEW c \in Callers, CallKey(c) PROVE StuckInv'
  BY <1>9 DEF CallKey
<1>10. ASSUME NEW c \in Callers, PressRefused(c) PROVE StuckInv'
  BY <1>10 DEF PressRefused
<1>11. ASSUME NEW c \in Callers, PressBegins(c) PROVE StuckInv'
  BY <1>11 DEF PressBegins
<1>12. ASSUME NEW c \in Callers, PressSends(c) PROVE StuckInv'
  BY <1>12 DEF PressSends
<1>13. ASSUME NEW c \in Callers, SendRaises(c) PROVE StuckInv'
  BY <1>13 DEF SendRaises
<1>14. ASSUME NEW c \in Callers, ReleaseRefused(c) PROVE StuckInv'
  BY <1>14 DEF ReleaseRefused
<1>15. ASSUME NEW c \in Callers, ReleaseBegins(c) PROVE StuckInv'
  BY <1>15 DEF ReleaseBegins
<1>16. ASSUME NEW c \in Callers, ReleaseSends(c) PROVE StuckInv'
  BY <1>16 DEF ReleaseSends
<1>17. ASSUME NEW c \in Callers, NeutralSends(c) PROVE StuckInv'
  BY <1>17 DEF NeutralSends
<1>18. CASE UNCHANGED vars
  BY <1>18 DEF vars
<1>19. QED
  BY <1>1, <1>2, <1>3, <1>4, <1>5, <1>6, <1>7, <1>8, <1>9, <1>10, <1>11, <1>12, <1>13,
     <1>14, <1>15, <1>16, <1>17, <1>18 DEF Next, LoopSteps, ScriptSteps, CallSteps

\* However taps, scripts, holds, errors and sessions interleave, a key the connected
\* peer was told is down is held, or a tap or a call is under way that releases it.
THEOREM NoKeyStaysDown == Spec => []NoKeyStuck
<1>1. KeyInv /\ [Next]_vars => KeyInv'
  BY CountStep, LockStep, StuckStep DEF KeyInv
<1>2. KeyInv => NoKeyStuck
  BY DEF KeyInv, StuckInv, NoKeyStuck
<1>3. QED
  BY KeyInit, <1>1, <1>2, PTL DEF Spec
=============================================================================
