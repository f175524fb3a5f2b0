-------------------------- MODULE SessionLinkProofs --------------------------
(***************************************************************************)
(* For every number of faults: the types; the agreement of the two ends on   *)
(* the kind of a session as long as the mic is not struck in a probe; and,   *)
(* struck or not, controls run in stable sessions only and neither end waits *)
(* for the other.  And for any threads, callers and requests: the projection *)
(* of the runtime that hosts such a session is quiet without one.            *)
(***************************************************************************)
EXTENDS SessionLink, SequenceTheorems, TLAPS

-----------------------------------------------------------------------------
(* Types *)

\* Sending appends a frame or nothing.
LEMMA SendTyped ==
    ASSUME toMic \in Seq(Frames), toRadio \in Seq(Frames), NEW frame \in Frames
    PROVE  /\ SendToMic(frame) => toMic' \in Seq(Frames)
           /\ SendToRadio(frame) => toRadio' \in Seq(Frames)
<1>1. Append(toMic, frame) \in Seq(Frames) /\ Append(toRadio, frame) \in Seq(Frames)
  BY AppendProperties
<1>2. QED
  BY <1>1 DEF SendToMic, SendToRadio

\* Taking drops the first frame.
LEMMA TakeTyped ==
    ASSUME toMic \in Seq(Frames), toRadio \in Seq(Frames), NEW frame
    PROVE  /\ MicTakes(frame) => toMic' \in Seq(Frames)
           /\ RadioTakes(frame) => toRadio' \in Seq(Frames)
<1>1. ASSUME MicTakes(frame) PROVE toMic' \in Seq(Frames)
  BY <1>1, HeadTailProperties DEF MicTakes
<1>2. ASSUME RadioTakes(frame) PROVE toRadio' \in Seq(Frames)
  BY <1>2, HeadTailProperties DEF RadioTakes
<1>3. QED
  BY <1>1, <1>2

\* The radio's count follows its end of the connection: one in a probe, two in a
\* stable session, and never two in between.
CountsInv ==
    /\ radio = "probe" => radioCount = 1
    /\ radio = "stable" => radioCount = 2
    /\ radio = "closed" => radioCount # 2

TypeInv == TypeOK /\ CountsInv

\* The types in three parts: flags, frames, and the rest.
FlagsInv == {started, grace, controls, cut} \subseteq BOOLEAN

StateInv ==
    /\ CountsInv
    /\ radioCount \in 0 .. 2 /\ micCount \in 0 .. 1
    /\ radio \in {"closed", "probe", "stable"}
    /\ mic \in {"closed", "pending", "probe", "stable"}
    /\ screens \in 0 .. 2
    /\ answered \subseteq DOMAIN Reply /\ displays \in 0 .. 2
    /\ faults \in 0 .. Faults

LEMMA TypeInit == Init => TypeInv
<1> SUFFICES ASSUME Init PROVE TypeInv
  OBVIOUS
<1>1. {started, grace, controls, cut} \subseteq BOOLEAN
  BY Zenon DEF Init
<1>2. toMic \in Seq(Frames) /\ toRadio \in Seq(Frames)
  BY EmptySeq DEF Init
<1>3. answered \subseteq DOMAIN Reply
  BY Zenon DEF Init
<1>4. QED
  BY <1>1, <1>2, <1>3, LinkAssumption DEF LinkAssumption, Init, TypeInv, TypeOK, CountsInv

\* The frames stay frames.
LEMMA FramesStep ==
    TypeInv /\ [Next]_vars => toMic' \in Seq(Frames) /\ toRadio' \in Seq(Frames)
<1> SUFFICES ASSUME TypeInv, [Next]_vars
             PROVE  toMic' \in Seq(Frames) /\ toRadio' \in Seq(Frames)
  OBVIOUS
<1> USE DEF TypeInv, TypeOK
<1>0. \A f \in DOMAIN Reply : Reply[f] \in Frames
  BY DEF Reply, Frames
<1>1. CASE Connect
  <2>1. <<"hello">> \in Seq(Frames) /\ <<>> \in Seq(Frames)
    BY DEF Frames
  <2>2. QED
    BY <1>1, <2>1 DEF Connect
<1>2. CASE RadioReady
  BY <1>2, SendTyped, TakeTyped DEF RadioReady, Frames
<1>3. CASE RadioIdentified
  BY <1>3, SendTyped, TakeTyped DEF RadioIdentified, Frames
<1>4. CASE SendScreen
  BY <1>4, SendTyped DEF SendScreen, Frames
<1>5. CASE ProbeComplete
  BY <1>5, TakeTyped DEF ProbeComplete
<1>6. CASE RadioLosesMic
  BY <1>6 DEF RadioLosesMic
<1>7. CASE Accept
  BY <1>7 DEF Accept
<1>8. CASE MicShows
  BY <1>8, TakeTyped DEF MicShows
<1>9. CASE GraceElapsed
  BY <1>9 DEF GraceElapsed
<1>10. CASE MicLosesRadio
  BY <1>10 DEF MicLosesRadio
<1>11. ASSUME NEW f \in DOMAIN Reply, MicAnswers(f)
       PROVE  toMic' \in Seq(Frames) /\ toRadio' \in Seq(Frames)
  BY <1>0, <1>11, SendTyped, TakeTyped DEF MicAnswers
<1>12. CASE MicRestarts \/ RadioRestarts \/ Cut
  BY <1>12 DEF MicRestarts, RadioRestarts, Cut
<1>13. CASE UNCHANGED vars
  BY <1>13 DEF vars
<1>14. QED
  BY <1>1, <1>2, <1>3, <1>4, <1>5, <1>6, <1>7, <1>8, <1>9, <1>10, <1>11, <1>12, <1>13
  DEF Next, RadioSteps, MicSteps

LEMMA FlagsStep == FlagsInv /\ [Next]_vars => FlagsInv'
<1> SUFFICES ASSUME FlagsInv, [Next]_vars PROVE FlagsInv'
  OBVIOUS
<1> USE DEF FlagsInv, radioVars, micVars
<1>1. CASE Connect
  BY Zenon, <1>1 DEF Connect
<1>2. CASE RadioReady
  BY Zenon, <1>2 DEF RadioReady
<1>3. CASE RadioIdentified
  BY Zenon, <1>3 DEF RadioIdentified
<1>4. CASE SendScreen
  BY Zenon, <1>4 DEF SendScreen
<1>5. CASE ProbeComplete
  BY Zenon, <1>5 DEF ProbeComplete, RadioEnds
<1>6. CASE RadioLosesMic
  BY Zenon, <1>6 DEF RadioLosesMic, RadioEnds
<1>7. CASE Accept
  BY Zenon, <1>7 DEF Accept
<1>8. CASE MicShows
  BY Zenon, <1>8 DEF MicShows
<1>9. CASE GraceElapsed
  BY Zenon, <1>9 DEF GraceElapsed
<1>10. CASE MicLosesRadio
  BY Zenon, <1>10 DEF MicLosesRadio, MicEnds
<1>11. ASSUME NEW f \in DOMAIN Reply, MicAnswers(f) PROVE FlagsInv'
  BY Zenon, <1>11 DEF MicAnswers
<1>12. CASE MicRestarts
  BY Zenon, <1>12 DEF MicRestarts, MicEnds
<1>13. CASE RadioRestarts
  BY Zenon, <1>13 DEF RadioRestarts
<1>14. CASE Cut
  BY Zenon, <1>14 DEF Cut
<1>15. CASE UNCHANGED vars
  BY Zenon, <1>15 DEF vars
<1>16. QED
  BY <1>1, <1>2, <1>3, <1>4, <1>5, <1>6, <1>7, <1>8, <1>9, <1>10, <1>11, <1>12, <1>13,
     <1>14, <1>15 DEF Next, RadioSteps, MicSteps

LEMMA StateStep == StateInv /\ [Next]_vars => StateInv'
<1> SUFFICES ASSUME StateInv, [Next]_vars PROVE StateInv'
  OBVIOUS
<1> USE LinkAssumption DEF LinkAssumption, StateInv, CountsInv, radioVars, micVars
<1>1. CASE Connect
  BY <1>1 DEF Connect
<1>2. CASE RadioReady
  BY <1>2 DEF RadioReady
<1>3. CASE RadioIdentified
  BY <1>3 DEF RadioIdentified
<1>4. CASE SendScreen
  BY <1>4 DEF SendScreen
<1>5. CASE ProbeComplete
  BY <1>5 DEF ProbeComplete, RadioEnds
<1>6. CASE RadioLosesMic
  BY <1>6 DEF RadioLosesMic, RadioEnds, InSession
<1>7. CASE Accept
  BY <1>7 DEF Accept
<1>8. CASE MicShows
  BY <1>8 DEF MicShows
<1>9. CASE GraceElapsed
  BY <1>9 DEF GraceElapsed
<1>10. CASE MicLosesRadio
  BY <1>10 DEF MicLosesRadio, MicEnds
<1>11. ASSUME NEW f \in DOMAIN Reply, MicAnswers(f) PROVE StateInv'
  BY <1>11 DEF MicAnswers
<1>12. CASE MicRestarts
  BY <1>12 DEF MicRestarts, Fault, MicEnds
<1>13. CASE RadioRestarts
  BY <1>13 DEF RadioRestarts, Fault
<1>14. CASE Cut
  BY <1>14 DEF Cut, Fault
<1>15. CASE UNCHANGED vars
  BY <1>15 DEF vars
<1>16. QED
  BY <1>1, <1>2, <1>3, <1>4, <1>5, <1>6, <1>7, <1>8, <1>9, <1>10, <1>11, <1>12, <1>13,
     <1>14, <1>15 DEF Next, RadioSteps, MicSteps

LEMMA TypeStep == TypeInv /\ [Next]_vars => TypeInv'
<1>1. TypeInv <=> StateInv /\ FlagsInv /\ toMic \in Seq(Frames) /\ toRadio \in Seq(Frames)
  BY DEF TypeInv, TypeOK, StateInv, FlagsInv
<1>2. (TypeInv <=> StateInv /\ FlagsInv /\ toMic \in Seq(Frames) /\ toRadio \in Seq(Frames))'
  BY DEF TypeInv, TypeOK, StateInv, FlagsInv
<1>3. QED
  BY <1>1, <1>2, StateStep, FlagsStep, FramesStep

\* Every attribute, counter and frame of the two endpoints has its type, however many
\* faults there are.
THEOREM TypeCorrect == Spec => []TypeOK
<1>1. TypeInv => TypeOK
  BY DEF TypeInv
<1>2. QED
  BY <1>1, TypeInit, TypeStep, PTL DEF Spec

-----------------------------------------------------------------------------
(* Agreement on the kind of a session *)

\* The mic has had a session, or is about to, by the time the radio goes on to a stable
\* one.
MicHasCounted ==
    /\ radioCount = 1 => micCount = 1 \/ mic = "pending"
    /\ radio = "stable" /\ mic = "pending" => micCount = 1

KindsInv == TypeInv /\ MicHasCounted /\ KindsAgree

LEMMA KindsInit == Init => MicHasCounted /\ KindsAgree
BY DEF Init, MicHasCounted, KindsAgree

LEMMA KindsStep == ~MidProbe /\ KindsInv /\ [Next]_vars => KindsInv'
<1> SUFFICES ASSUME ~MidProbe, KindsInv, [Next]_vars PROVE (MicHasCounted /\ KindsAgree)'
  BY TypeStep DEF KindsInv
<1> USE DEF KindsInv, TypeInv, TypeOK, CountsInv, MicHasCounted, KindsAgree, radioVars, micVars
<1>1. CASE Connect
  BY <1>1 DEF Connect
<1>2. CASE RadioReady \/ RadioIdentified \/ SendScreen
  BY <1>2 DEF RadioReady, RadioIdentified, SendScreen
<1>3. CASE ProbeComplete
  BY <1>3 DEF ProbeComplete, RadioEnds
<1>4. CASE RadioLosesMic
  BY <1>4 DEF RadioLosesMic, RadioEnds, InSession
<1>5. CASE Accept
  BY <1>5 DEF Accept
<1>6. CASE MicShows \/ GraceElapsed
  BY <1>6 DEF MicShows, GraceElapsed
<1>7. CASE MicLosesRadio
  BY <1>7 DEF MicLosesRadio, MicEnds, InSession
<1>8. ASSUME NEW f \in DOMAIN Reply, MicAnswers(f) PROVE (MicHasCounted /\ KindsAgree)'
  BY <1>8 DEF MicAnswers
<1>9. CASE MicRestarts
  BY <1>9 DEF MicRestarts, MicEnds, OutsideProbe
<1>10. CASE RadioRestarts
  BY <1>10 DEF RadioRestarts
<1>11. CASE Cut
  BY <1>11 DEF Cut
<1>12. CASE UNCHANGED vars
  BY <1>12 DEF vars
<1>13. QED
  BY <1>1, <1>2, <1>3, <1>4, <1>5, <1>6, <1>7, <1>8, <1>9, <1>10, <1>11, <1>12
  DEF Next, RadioSteps, MicSteps

\* If the mic is struck neither in a probe session nor between it and the stable one,
\* it never takes the radio's stable session for a probe, however often it restarts
\* otherwise and whatever the radio and the network do.
THEOREM KindsAlwaysAgree == ~MidProbe /\ Spec => []KindsAgree
<1> SUFFICES ASSUME ~MidProbe PROVE Spec => []KindsAgree
  OBVIOUS
<1>1. Init => KindsInv
  BY TypeInit, KindsInit DEF KindsInv
<1>2. KindsInv /\ [Next]_vars => KindsInv'
  BY KindsStep
<1>3. KindsInv => KindsAgree
  BY DEF KindsInv
<1>4. QED
  BY <1>1, <1>2, <1>3, PTL DEF Spec

-----------------------------------------------------------------------------
(* Controls need a stable session *)

\* A screen under way was sent by a stable session of the radio that is still there.
ScreensInv ==
    /\ \A i \in 1 .. Len(toMic) : toMic[i] = "screen" => radio = "closed" \/ started
    /\ screens > 0 => started
    /\ started => radio = "stable"

\* Screens are counted, and controls started, in stable sessions of the mic only.
DisplaysInv ==
    /\ displays > 0 => mic = "stable" /\ (radio = "closed" \/ started)
    /\ controls \/ grace => displays > 0

ControlsInv == TypeInv /\ ScreensInv /\ DisplaysInv

LEMMA ScreensInit == Init => ScreensInv /\ DisplaysInv
BY DEF Init, ScreensInv, DisplaysInv

\* A frame that is not a screen, or one from a started session, keeps the screens known.
LEMMA SendKnown ==
    ASSUME toMic \in Seq(Frames), NEW frame \in Frames, SendToMic(frame), NEW P,
           frame = "screen" => P,
           \A i \in 1 .. Len(toMic) : toMic[i] = "screen" => P
    PROVE  \A i \in 1 .. Len(toMic') : toMic'[i] = "screen" => P
<1>1. Append(toMic, frame) \in Seq(Frames)
      /\ Len(Append(toMic, frame)) = Len(toMic) + 1
      /\ Append(toMic, frame)[Len(toMic) + 1] = frame
      /\ \A i \in 1 .. Len(toMic) : Append(toMic, frame)[i] = toMic[i]
  BY AppendProperties
<1>2. QED
  BY <1>1 DEF SendToMic

LEMMA TakeKnown ==
    ASSUME toMic \in Seq(Frames), NEW frame, MicTakes(frame), NEW P,
           \A i \in 1 .. Len(toMic) : toMic[i] = "screen" => P
    PROVE  /\ \A i \in 1 .. Len(toMic') : toMic'[i] = "screen" => P
           /\ frame = "screen" => P
<1>1. /\ toMic # <<>> /\ toMic' = Tail(toMic) /\ Head(toMic) = frame
  BY DEF MicTakes
<1>2. /\ Len(toMic) \in Nat /\ Len(toMic) > 0 /\ Head(toMic) = toMic[1]
      /\ Len(Tail(toMic)) = Len(toMic) - 1
      /\ \A i \in 1 .. Len(Tail(toMic)) : Tail(toMic)[i] = toMic[i + 1]
  BY <1>1, HeadTailProperties, EmptySeq
<1>3. QED
  BY <1>1, <1>2

LEMMA ScreensStep == ControlsInv /\ [Next]_vars => ScreensInv'
<1> SUFFICES ASSUME ControlsInv, [Next]_vars PROVE ScreensInv'
  OBVIOUS
<1> USE DEF ControlsInv, TypeInv, TypeOK, ScreensInv, radioVars, micVars
<1> DEFINE P == radio = "closed" \/ started
<1>1. CASE Connect
  <2>1. Len(toMic') = 1 /\ toMic'[1] = "hello"
    BY <1>1 DEF Connect
  <2>2. QED
    BY <1>1, <2>1 DEF Connect
<1>2. CASE RadioReady
  <2>1. \A i \in 1 .. Len(toMic') : toMic'[i] = "screen" => P
    BY <1>2, SendKnown DEF RadioReady, Frames
  <2>2. QED
    BY <1>2, <2>1 DEF RadioReady
<1>3. CASE RadioIdentified
  <2>1. CASE radio = "probe"
    <3>1. \A i \in 1 .. Len(toMic') : toMic'[i] = "screen" => P
      BY <1>3, <2>1, SendKnown DEF RadioIdentified, Frames
    <3>2. QED
      BY <1>3, <2>1, <3>1 DEF RadioIdentified
  <2>2. CASE radio = "stable" /\ started' = TRUE /\ UNCHANGED <<radio, toMic>>
    BY <2>2
  <2>3. QED
    BY <1>3, <2>1, <2>2 DEF RadioIdentified
<1>4. CASE SendScreen
  <2>1. \A i \in 1 .. Len(toMic') : toMic'[i] = "screen" => P
    BY <1>4, SendKnown DEF SendScreen, Frames
  <2>2. QED
    BY <1>4, <2>1 DEF SendScreen
<1>5. CASE ProbeComplete
  BY <1>5 DEF ProbeComplete, RadioEnds
<1>6. CASE RadioLosesMic
  BY <1>6 DEF RadioLosesMic, RadioEnds
<1>7. CASE Accept \/ GraceElapsed \/ MicLosesRadio
  BY <1>7 DEF Accept, GraceElapsed, MicLosesRadio, MicEnds
<1>8. CASE MicShows
  <2>1. \A i \in 1 .. Len(toMic') : toMic'[i] = "screen" => P
    BY <1>8, TakeKnown DEF MicShows
  <2>2. QED
    BY <1>8, <2>1 DEF MicShows
<1>9. ASSUME NEW f \in DOMAIN Reply, MicAnswers(f) PROVE ScreensInv'
  <2>1. \A i \in 1 .. Len(toMic') : toMic'[i] = "screen" => P
    BY <1>9, TakeKnown DEF MicAnswers
  <2>2. QED
    BY <1>9, <2>1 DEF MicAnswers
<1>10. CASE MicRestarts \/ Cut
  BY <1>10 DEF MicRestarts, Cut
<1>11. CASE RadioRestarts
  BY <1>11 DEF RadioRestarts
<1>12. CASE UNCHANGED vars
  BY <1>12 DEF vars
<1>13. QED
  BY <1>1, <1>2, <1>3, <1>4, <1>5, <1>6, <1>7, <1>8, <1>9, <1>10, <1>11, <1>12
  DEF Next, RadioSteps, MicSteps

LEMMA DisplaysStep == ControlsInv /\ [Next]_vars => DisplaysInv'
<1> SUFFICES ASSUME ControlsInv, [Next]_vars PROVE DisplaysInv'
  OBVIOUS
<1> USE DEF ControlsInv, TypeInv, TypeOK, DisplaysInv, radioVars, micVars
<1>1. CASE Connect
  BY <1>1 DEF Connect
<1>2. CASE RadioReady \/ RadioIdentified \/ SendScreen
  BY <1>2 DEF RadioReady, RadioIdentified, SendScreen
<1>3. CASE ProbeComplete \/ RadioLosesMic
  BY <1>3 DEF ProbeComplete, RadioLosesMic, RadioEnds
<1>4. CASE Accept
  BY <1>4 DEF Accept
<1>5. CASE MicShows
  <2>1. radio = "closed" \/ started
    BY <1>5, TakeKnown DEF MicShows, ScreensInv
  <2>2. CASE mic = "probe"
    BY <1>5, <2>2 DEF MicShows
  <2>3. CASE mic # "probe"
    <3>1. mic = "stable" /\ displays' \in 1 .. 2
      BY <1>5, <2>3 DEF MicShows, MicTakes, InSession
    <3>2. QED
      BY <1>5, <2>1, <3>1 DEF MicShows
  <2>4. QED
    BY <2>2, <2>3
<1>6. CASE GraceElapsed
  BY <1>6 DEF GraceElapsed
<1>7. CASE MicLosesRadio \/ MicRestarts
  BY <1>7 DEF MicLosesRadio, MicRestarts, MicEnds
<1>8. ASSUME NEW f \in DOMAIN Reply, MicAnswers(f) PROVE DisplaysInv'
  BY <1>8 DEF MicAnswers
<1>9. CASE RadioRestarts
  BY <1>9 DEF RadioRestarts
<1>10. CASE Cut
  BY <1>10 DEF Cut
<1>11. CASE UNCHANGED vars
  BY <1>11 DEF vars
<1>12. QED
  BY <1>1, <1>2, <1>3, <1>4, <1>5, <1>6, <1>7, <1>8, <1>9, <1>10, <1>11
  DEF Next, RadioSteps, MicSteps

\* Whatever is restarted or cut, and whenever: controls run only in a stable session
\* of the mic that has shown a screen, and a radio still at the other end is in its
\* stable session too.
THEOREM ControlsOnlyWhenStable == Spec => []ControlsNeedStable
<1>1. Init => ControlsInv
  BY TypeInit, ScreensInit DEF ControlsInv
<1>2. ControlsInv /\ [Next]_vars => ControlsInv'
  BY TypeStep, ScreensStep, DisplaysStep DEF ControlsInv
<1>3. ControlsInv => ControlsNeedStable
  BY DEF ControlsInv, TypeInv, TypeOK, ScreensInv, DisplaysInv, ControlsNeedStable
<1>4. QED
  BY <1>1, <1>2, <1>3, PTL DEF Spec

-----------------------------------------------------------------------------
(* Nobody waits for the other *)

\* Mic and radio share a connection: whoever comes back waits until the other has left.
Shared == InSession(radio) /\ mic # "closed"

\* The stages of a session's startup.  In each but the last exactly one frame is under
\* way, and it is the one its receiver answers.
Greeted ==
    /\ toMic = <<"hello">> /\ toRadio = <<>> /\ ~started
    /\ mic = "pending" \/ answered = {}
Synced ==
    /\ toMic = <<>> /\ toRadio = <<"sync">> /\ ~started
    /\ mic # "pending" /\ answered = {"hello"}
Readied ==
    /\ toMic = <<"ready">> /\ toRadio = <<>> /\ ~started
    /\ mic # "pending" /\ answered = {"hello"}
Named ==
    /\ toMic = <<>> /\ toRadio = <<"identity">> /\ ~started
    /\ mic # "pending" /\ answered = {"hello", "ready"}
Prompted ==
    /\ radio = "probe" /\ toMic = <<"prompt">> /\ toRadio = <<>> /\ ~started
    /\ mic # "pending" /\ answered = {"hello", "ready"}
Probed ==
    /\ radio = "probe" /\ toMic = <<>> /\ toRadio = <<"answer">> /\ ~started
    /\ mic # "pending"
Established == radio = "stable" /\ started /\ mic # "pending"

ShakeInv ==
    /\ radio = "closed" => ~started
    /\ Shared => \/ Greeted \/ Synced \/ Readied \/ Named \/ Prompted \/ Probed
                 \/ Established

WaitInv == ControlsInv /\ ShakeInv

LEMMA ShakeInit == Init => ShakeInv
BY DEF Init, ShakeInv, Shared, InSession

\* A channel that holds one frame, or none.
LEMMA OneFrame ==
    ASSUME NEW frame \in Frames
    PROVE  /\ <<frame>> # <<>> /\ Head(<<frame>>) = frame /\ Tail(<<frame>>) = <<>>
           /\ Append(<<>>, frame) = <<frame>>
OBVIOUS

\* In a session shared with the mic a frame that is taken was the only one under way.
LEMMA OnlyFrame ==
    ASSUME NEW frame \in Frames, TypeInv, ShakeInv, Shared, ~Established
    PROVE  /\ MicTakes(frame) =>
                toMic = <<frame>> /\ toMic' = <<>> /\ toRadio = <<>>
           /\ RadioTakes(frame) =>
                toRadio = <<frame>> /\ toRadio' = <<>> /\ toMic = <<>>
<1> USE DEF Greeted, Synced, Readied, Named, Prompted, Probed, Frames
<1>1. PICK f \in Frames : \/ toMic = <<f>> /\ toRadio = <<>>
                          \/ toRadio = <<f>> /\ toMic = <<>>
  BY DEF ShakeInv
<1>2. <<f>> # <<>> /\ Head(<<f>>) = f /\ Tail(<<f>>) = <<>>
  BY OneFrame
<1>3. QED
  BY <1>1, <1>2 DEF MicTakes, RadioTakes

LEMMA ShakeStep == WaitInv /\ [Next]_vars => ShakeInv'
<1> SUFFICES ASSUME WaitInv, [Next]_vars PROVE ShakeInv'
  OBVIOUS
<1> USE DEF WaitInv, ControlsInv, TypeInv, TypeOK, ScreensInv, ShakeInv, Shared, InSession, Established,
            radioVars, micVars
<1> DEFINE Stages == Greeted \/ Synced \/ Readied \/ Named \/ Prompted \/ Probed
<1>1. CASE Connect
  BY <1>1 DEF Connect, Greeted
<1>2. CASE RadioReady
  <2>1. CASE Shared /\ ~Established
    <3>1. toRadio = <<"sync">> /\ toRadio' = <<>> /\ toMic = <<>>
      BY <1>2, <2>1, OnlyFrame DEF RadioReady, Frames
    <3>2. toMic' = <<"ready">>
      BY <1>2, <2>1, <3>1, OneFrame DEF RadioReady, SendToMic, Frames
    <3>3. Synced
      BY <2>1, <3>1 DEF Greeted, Synced, Readied, Named, Prompted, Probed
    <3>4. Readied'
      BY <1>2, <3>1, <3>2, <3>3 DEF RadioReady, Synced, Readied
    <3>5. QED
      BY <1>2, <3>4 DEF RadioReady
  <2>2. QED
    BY <1>2, <2>1 DEF RadioReady
<1>3. CASE RadioIdentified
  <2>1. CASE Shared /\ ~Established
    <3>1. toRadio = <<"identity">> /\ toRadio' = <<>> /\ toMic = <<>>
      BY <1>3, <2>1, OnlyFrame DEF RadioIdentified, Frames
    <3>2. Named
      BY <2>1, <3>1 DEF Greeted, Synced, Readied, Named, Prompted, Probed
    <3>3. CASE radio = "probe" /\ SendToMic("prompt") /\ UNCHANGED <<started, screens>>
      <4>1. toMic' = <<"prompt">>
        BY <2>1, <3>1, <3>3, OneFrame DEF SendToMic, Frames
      <4>2. Prompted'
        BY <1>3, <3>1, <3>2, <3>3, <4>1 DEF RadioIdentified, Named, Prompted
      <4>3. QED
        BY <1>3, <3>3, <4>2 DEF RadioIdentified
    <3>4. CASE radio = "stable" /\ started' = TRUE
      BY <1>3, <3>2, <3>4 DEF RadioIdentified, Named
    <3>5. QED
      BY <1>3, <3>3, <3>4 DEF RadioIdentified
  <2>2. QED
    BY <1>3, <2>1 DEF RadioIdentified, RadioTakes
<1>4. CASE SendScreen
  BY <1>4 DEF SendScreen, Greeted, Synced, Readied, Named, Prompted, Probed
<1>5. CASE ProbeComplete \/ RadioLosesMic
  BY <1>5 DEF ProbeComplete, RadioLosesMic, RadioEnds
<1>6. CASE Accept
  BY <1>6 DEF Accept, Greeted, Synced, Readied, Named, Prompted, Probed
<1>7. CASE MicShows
  <2>1. CASE Shared /\ ~Established
    <3>1. toMic = <<"screen">>
      BY <1>7, <2>1, OnlyFrame DEF MicShows, Frames
    <3>2. QED
      BY <2>1, <3>1 DEF Greeted, Synced, Readied, Named, Prompted, Probed
  <2>2. QED
    BY <1>7, <2>1 DEF MicShows
<1>8. CASE GraceElapsed
  BY <1>8 DEF GraceElapsed, Greeted, Synced, Readied, Named, Prompted, Probed
<1>9. CASE MicLosesRadio \/ MicRestarts
  BY <1>9 DEF MicLosesRadio, MicRestarts, MicEnds
<1>10. ASSUME NEW f \in DOMAIN Reply, MicAnswers(f) PROVE ShakeInv'
  <2>1. f \in {"hello", "ready", "prompt"} /\ f \in Frames
    BY DEF Reply, Frames
  <2>2. CASE Shared /\ ~Established
    <3>1. toMic = <<f>> /\ toMic' = <<>> /\ toRadio = <<>>
      BY <1>10, <2>1, <2>2, OnlyFrame DEF MicAnswers
    <3>2. Greeted \/ Readied \/ Prompted
      BY <2>2, <3>1 DEF Greeted, Synced, Readied, Named, Prompted, Probed
    <3>3. mic # "pending" /\ radio # "closed"
      BY <1>10, <2>2 DEF MicAnswers, MicTakes
    <3>4. f \notin answered /\ answered' = answered \cup {f}
      BY <1>10, <2>1, <3>1, <3>2, <3>3 DEF MicAnswers, Greeted, Readied, Prompted
    <3>5. toRadio' = <<Reply[f]>>
      <4>1. SendToRadio(Reply[f])
        BY <1>10, <3>4 DEF MicAnswers
      <4>2. Reply[f] \in Frames
        BY <2>1 DEF Reply, Frames
      <4>3. QED
        BY <3>1, <3>3, <4>1, <4>2, OneFrame DEF SendToRadio
    <3>6. CASE Greeted
      <4>1. f = "hello" /\ Reply[f] = "sync"
        BY <3>1, <3>6 DEF Greeted, Reply
      <4>2. Synced'
        BY <1>10, <3>1, <3>3, <3>4, <3>5, <3>6, <4>1 DEF MicAnswers, Greeted, Synced
      <4>3. QED
        BY <1>10, <4>2 DEF MicAnswers
    <3>7. CASE Readied
      <4>1. f = "ready" /\ Reply[f] = "identity"
        BY <3>1, <3>7 DEF Readied, Reply
      <4>2. Named'
        BY <1>10, <3>1, <3>3, <3>4, <3>5, <3>7, <4>1 DEF MicAnswers, Readied, Named
      <4>3. QED
        BY <1>10, <4>2 DEF MicAnswers
    <3>8. CASE Prompted
      <4>1. f = "prompt" /\ Reply[f] = "answer"
        BY <3>1, <3>8 DEF Prompted, Reply
      <4>2. Probed'
        BY <1>10, <3>1, <3>3, <3>5, <3>8, <4>1 DEF MicAnswers, Prompted, Probed
      <4>3. QED
        BY <1>10, <4>2 DEF MicAnswers
    <3>9. QED
      BY <3>2, <3>6, <3>7, <3>8
  <2>3. QED
    BY <1>10, <2>2 DEF MicAnswers
<1>11. CASE RadioRestarts
  BY <1>11 DEF RadioRestarts
<1>12. CASE Cut
  BY <1>12 DEF Cut, Greeted, Synced, Readied, Named, Prompted, Probed
<1>13. CASE UNCHANGED vars
  BY <1>13 DEF vars, Greeted, Synced, Readied, Named, Prompted, Probed
<1>14. QED
  BY <1>1, <1>2, <1>3, <1>4, <1>5, <1>6, <1>7, <1>8, <1>9, <1>10, <1>11, <1>12, <1>13
  DEF Next, RadioSteps, MicSteps

\* The two endpoints never wait for each other: however often either restarts, and also
\* where they disagree on probe and stable, a connection with nothing under way that is
\* not cut has reached its stable session.  (startup of _verified_radio_session and
\* _verified_mic_session)
THEOREM NobodyWaitsForTheOther == Spec => []NoMutualWait
<1>1. Init => WaitInv
  BY TypeInit, ScreensInit, ShakeInit DEF WaitInv, ControlsInv
<1>2. WaitInv /\ [Next]_vars => WaitInv'
  BY TypeStep, ScreensStep, DisplaysStep, ShakeStep DEF WaitInv, ControlsInv
<1>3. WaitInv => NoMutualWait
  <2>1. <<"hello">> # <<>> /\ <<"sync">> # <<>> /\ <<"ready">> # <<>> /\ <<"identity">> # <<>>
        /\ <<"prompt">> # <<>> /\ <<"answer">> # <<>>
    OBVIOUS
  <2>2. QED
    BY <2>1 DEF WaitInv, ShakeInv, Shared, InSession, NoMutualWait, Greeted, Synced,
                Readied, Named, Prompted, Probed, Established
<1>4. QED
  BY <1>1, <1>2, <1>3, PTL DEF Spec

-----------------------------------------------------------------------------
(* The runtime of the GUI, whose thread runs such sessions *)

CONSTANTS Roles, Callers, Starts, Sessions, Calls, StopInTeardown, StartAgain

VARIABLES
    role, owner, threads, hostStarted, loop, task, phase, queue,
    session, sessions, call, calls, keyed, unheard, connection, ready, off, ptt, rx

Gui == INSTANCE Runtime WITH started <- hostStarted

Entries == Gui!Askers \cup {"cancel"}

\* What a thread hands over is put behind what waits; what the loop takes is in front.
LEMMA QueueKeepsType ==
    ASSUME queue \in Seq(Entries)
    PROVE  /\ \A e \in Entries : Append(queue, e) \in Seq(Entries)
           /\ <<>> \in Seq(Entries)
           /\ queue # <<>> => Head(queue) \in Entries /\ Tail(queue) \in Seq(Entries)
  BY AppendProperties, HeadTailProperties, EmptySeq

Requests ==
    [at : {"idle", "checked", "queued", "task", "sending", "lost", "failed"},
     wants : {"press", "release"}, session : 0 .. Sessions]

\* The flags, and everything else; they are typed apart.
FlagsOK ==
    /\ hostStarted \in BOOLEAN /\ keyed \in BOOLEAN /\ unheard \in BOOLEAN
    /\ ready \in BOOLEAN /\ off \in BOOLEAN /\ ptt \in BOOLEAN /\ rx \in BOOLEAN

RunOK ==
    /\ role \in Roles /\ owner \in {"idle", "starting", "restoring", "cancelling", "joining"}
    /\ threads \in 0 .. Starts /\ loop \in 0 .. threads /\ task \in 0 .. threads
    /\ phase \in {"unborn", "begun", "looped", "opening", "running", "closing", "lastTurn",
                  "draining", "closed"}
    /\ queue \in Seq(Entries)
    /\ session \in {"none", "up", "ready", "ending"} /\ sessions \in 0 .. Sessions
    /\ call \in [Gui!Askers -> Requests]
    /\ calls \in 0 .. Calls
    /\ connection \in {"starting", "disconnected", "waiting_for_radio", "connecting", "error",
                       "standby", "negotiating", "connected", "powering_on", "reconnecting"}
    /\ session = "none" /\ ~unheard => ~ready /\ ~ptt /\ ~rx

\* A request may be forgotten, or moved on.
LEMMA RequestTypes ==
    ASSUME Gui!Parameters
    PROVE  /\ Gui!NoCall \in Requests
           /\ \A c : Gui!Raised(c) \in Requests
           /\ \A request \in Requests,
                place \in {"idle", "checked", "queued", "task", "sending", "lost", "failed"} :
                  [request EXCEPT !.at = place] \in Requests
<1>1. Gui!NoCall \in Requests
  BY DEF Gui!Parameters, Gui!NoCall, Requests
<1>2. \A request \in Requests,
         place \in {"idle", "checked", "queued", "task", "sending", "lost", "failed"} :
           [request EXCEPT !.at = place] \in Requests
  BY DEF Requests
<1>3. \A c : Gui!Raised(c) \in Requests
  BY <1>1, <1>2 DEF Gui!Raised
<1>4. QED
  BY <1>1, <1>2, <1>3

LEMMA QuietInit == Gui!Parameters /\ Gui!Init => FlagsOK /\ RunOK
<1> SUFFICES ASSUME Gui!Parameters, Gui!Init PROVE FlagsOK /\ RunOK
  OBVIOUS
<1>1. FlagsOK
  BY DEF Gui!Init, FlagsOK
<1>2. <<>> \in Seq(Entries)
  BY EmptySeq
<1>3. RunOK
  BY <1>2, RequestTypes DEF Gui!Parameters, Gui!Init, RunOK
<1>4. QED
  BY <1>1, <1>3

\* No step makes a flag anything else; a press keys, a release does not.
LEMMA GuiFlagsStep == FlagsOK /\ [Gui!Next]_(Gui!vars) => FlagsOK'
<1> SUFFICES ASSUME FlagsOK, [Gui!Next]_(Gui!vars) PROVE FlagsOK'
  OBVIOUS
<1> USE DEF FlagsOK, Gui!runVars, Gui!sessionVars, Gui!callVars, Gui!view
<1>1. CASE Gui!Start \/ Gui!Stop
  BY <1>1 DEF Gui!Start, Gui!Stop
<1>2. CASE Gui!OwnerReturns
  BY <1>2 DEF Gui!OwnerReturns, Gui!StartReturns, Gui!StopRaises, Gui!StopReads,
              Gui!StopCancels, Gui!StopReturns
<1>3. CASE Gui!ThreadSteps
  <2>1. CASE Gui!MakesLoop \/ Gui!MakesTask \/ Gui!Opens \/ Gui!OpenFails
    BY <2>1 DEF Gui!MakesLoop, Gui!MakesTask, Gui!Opens, Gui!OpenFails
  <2>2. CASE Gui!Finishes \/ Gui!Disconnected \/ Gui!TeardownBreaks \/ Gui!CancelTaken
    BY <2>2 DEF Gui!Finishes, Gui!Disconnected, Gui!TeardownBreaks, Gui!CancelTaken
  <2>3. CASE Gui!LastTurn \/ Gui!Close
    BY <2>3 DEF Gui!LastTurn, Gui!Close
  <2>4. CASE \E c \in Gui!Askers : Gui!DrainTurn(c)
    BY <2>4 DEF Gui!DrainTurn
  <2>5. QED
    BY <1>3, <2>1, <2>2, <2>3, <2>4 DEF Gui!ThreadSteps
<1>4. CASE Gui!Connects \/ Gui!Ready \/ Gui!Drops
  BY <1>4 DEF Gui!Connects, Gui!Ready, Gui!Drops
<1>5. CASE Gui!PowerOff \/ Gui!PowerOn \/ Gui!DisplayArrives \/ Gui!AudioState
  BY <1>5 DEF Gui!PowerOff, Gui!PowerOn, Gui!DisplayArrives, Gui!AudioState
<1>6. CASE \E c \in Callers, wants \in {"press", "release"} : Gui!Check(c, wants)
  BY <1>6 DEF Gui!Check
<1>7. ASSUME NEW c \in Gui!Askers, Gui!Submit(c) \/ Gui!CallSteps(c) \/ Gui!GivesUp(c)
      PROVE  FlagsOK'
  <2>1. CASE Gui!Submit(c) \/ Gui!Taken(c) \/ Gui!Begins(c)
    BY <2>1 DEF Gui!Submit, Gui!Taken, Gui!Begins
  <2>2. CASE Gui!Sends(c)
    BY <2>2 DEF Gui!Sends
  <2>3. CASE Gui!GivesUp(c)
    BY <2>3 DEF Gui!GivesUp
  <2>4. QED
    BY <1>7, <2>1, <2>2, <2>3 DEF Gui!CallSteps
<1>8. CASE UNCHANGED Gui!vars
  BY <1>8 DEF Gui!vars
<1>9. QED
  BY <1>1, <1>2, <1>3, <1>4, <1>5, <1>6, <1>7, <1>8 DEF Gui!Next

\* The rest: what raises a flag has a session, what ends a session clears them.
LEMMA GuiStep == Gui!Parameters /\ RunOK /\ [Gui!Next]_(Gui!vars) => RunOK'
<1> SUFFICES ASSUME Gui!Parameters, RunOK, [Gui!Next]_(Gui!vars) PROVE RunOK'
  OBVIOUS
<1> USE DEF Gui!Parameters, RunOK
<1>0. /\ \A e \in Entries : Append(queue, e) \in Seq(Entries)
      /\ <<>> \in Seq(Entries)
      /\ queue # <<>> => Head(queue) \in Entries /\ Tail(queue) \in Seq(Entries)
  BY QueueKeepsType DEF Entries
<1> USE DEF Gui!runVars, Gui!sessionVars, Gui!callVars, Gui!view
<1>1. CASE Gui!Start
  BY <1>0, <1>1 DEF Gui!Start, Entries
<1>2. CASE Gui!Stop
  <2>1. [call EXCEPT !["owner"].at = "checked"] \in [Gui!Askers -> Requests]
    BY RequestTypes DEF Gui!Askers
  <2>2. QED
    BY <1>2, <2>1 DEF Gui!Stop
<1>3. CASE Gui!OwnerReturns
  <2>1. CASE Gui!StartReturns \/ Gui!StopReads
    BY <2>1 DEF Gui!StartReturns, Gui!StopReads
  <2>2. CASE Gui!StopCancels
    <3>1. queue' \in Seq(Entries) /\ owner' \in {"idle", "joining"}
      BY <1>0, <2>2 DEF Gui!StopCancels, Entries
    <3>2. QED
      BY <2>2, <3>1 DEF Gui!StopCancels
  <2>3. CASE Gui!StopReturns
    BY <2>3 DEF Gui!StopReturns
  <2>4. CASE Gui!StopRaises
    BY <2>4, RequestTypes DEF Gui!StopRaises
  <2>5. QED
    BY <1>3, <2>1, <2>2, <2>3, <2>4 DEF Gui!OwnerReturns
<1>4. CASE Gui!ThreadSteps
  <2>1. CASE Gui!MakesLoop \/ Gui!MakesTask \/ Gui!Opens
    BY <2>1 DEF Gui!MakesLoop, Gui!MakesTask, Gui!Opens
  <2>2. CASE Gui!CancelTaken
    BY <1>0, <2>2 DEF Gui!CancelTaken, Entries
  <2>3. CASE Gui!LastTurn
    <3>1. call' \in [Gui!Askers -> Requests]
      <4>1. \A d \in Gui!Askers : [call[d] EXCEPT !.at = "task"] \in Requests
        BY RequestTypes
      <4>2. QED
        BY <2>3, <4>1 DEF Gui!LastTurn
    <3>2. QED
      BY <1>0, <2>3, <3>1 DEF Gui!LastTurn
  <2>4. CASE Gui!Close
    BY <2>4, RequestTypes DEF Gui!Close
  <2>5. ASSUME NEW c \in Gui!Askers, Gui!DrainTurn(c) PROVE RunOK'
    <3>1. queue' \in Seq(Entries)
      BY <1>0, <2>5 DEF Gui!DrainTurn, Entries
    <3>2. QED
      BY <2>5, <3>1, RequestTypes DEF Gui!DrainTurn
  <2>6. CASE Gui!OpenFails \/ Gui!Finishes \/ Gui!Disconnected \/ Gui!TeardownBreaks
    BY <2>6 DEF Gui!OpenFails, Gui!Finishes, Gui!Disconnected, Gui!TeardownBreaks
  <2>7. QED
    BY <1>4, <2>1, <2>2, <2>3, <2>4, <2>5, <2>6 DEF Gui!ThreadSteps
<1>5. CASE Gui!Connects
  BY <1>5 DEF Gui!Connects
<1>6. CASE Gui!Ready \/ Gui!PowerOff \/ Gui!PowerOn \/ Gui!DisplayArrives \/ Gui!AudioState \/ Gui!Drops
  BY <1>6 DEF Gui!Ready, Gui!PowerOff, Gui!PowerOn, Gui!DisplayArrives, Gui!AudioState, Gui!Drops
<1>7. ASSUME NEW c \in Callers, NEW wants \in {"press", "release"}, Gui!Check(c, wants)
      PROVE  RunOK'
  BY <1>7 DEF Gui!Check, Requests, Gui!Askers
<1>8. ASSUME NEW c \in Gui!Askers, Gui!Submit(c) \/ Gui!CallSteps(c) \/ Gui!GivesUp(c)
      PROVE  RunOK'
  <2>1. CASE Gui!Submit(c)
    <3>1. queue' \in Seq(Entries)
      BY <1>0, <2>1 DEF Gui!Submit, Entries
    <3>2. call' \in [Gui!Askers -> Requests]
      <4>1. CASE Gui!LoopClosed
        <5>1. call' = [call EXCEPT ![c] = Gui!NoCall]
          BY <2>1, <4>1 DEF Gui!Submit
        <5>2. QED
          BY <5>1, RequestTypes
      <4>2. CASE ~Gui!LoopClosed
        <5>1. call' = [call EXCEPT ![c].at = "queued"]
          BY <2>1, <4>2 DEF Gui!Submit, Gui!Move
        <5>2. QED
          BY <5>1, RequestTypes
      <4>3. QED
        BY <4>1, <4>2
    <3>3. QED
      BY <2>1, <3>1, <3>2 DEF Gui!Submit
  <2>2. CASE Gui!Taken(c)
    BY <1>0, <2>2, RequestTypes DEF Gui!Taken, Gui!Move
  <2>3. CASE Gui!Begins(c)
    <3>1. call' \in [Gui!Askers -> Requests]
      <4>1. CASE session = "ready"
        <5>1. [call[c] EXCEPT !.at = "sending", !.session = sessions] \in Requests
          BY DEF Requests
        <5>2. QED
          BY <2>3, <4>1, <5>1 DEF Gui!Begins
      <4>2. CASE session # "ready"
        BY <2>3, <4>2, RequestTypes DEF Gui!Begins
      <4>3. QED
        BY <4>1, <4>2
    <3>2. QED
      BY <2>3, <3>1 DEF Gui!Begins
  <2>4. CASE Gui!Sends(c)
    <3>1. PICK answer \in {Gui!NoCall, Gui!Raised(c)} : call' = [call EXCEPT ![c] = answer]
      BY <2>4 DEF Gui!Sends
    <3>2. call' \in [Gui!Askers -> Requests]
      BY <3>1, RequestTypes
    <3>3. session = "none" => UNCHANGED ptt
      BY <2>4 DEF Gui!Sends, Gui!OpenFor
    <3>4. QED
      BY <2>4, <3>2, <3>3 DEF Gui!Sends
  <2>5. CASE Gui!GivesUp(c)
    BY <2>5, RequestTypes DEF Gui!GivesUp
  <2>6. QED
    BY <1>8, <2>1, <2>2, <2>3, <2>4, <2>5 DEF Gui!CallSteps
<1>9. CASE UNCHANGED Gui!vars
  BY <1>9 DEF Gui!vars
<1>10. QED
  BY <1>1, <1>2, <1>3, <1>4, <1>5, <1>6, <1>7, <1>8, <1>9 DEF Gui!Next

\* Without a session nothing of it is shown, for either role, whatever stop meets, and
\* whatever requests were under way, unless the mic's teardown of its last session broke
\* off: no other way out of a session, and no late request, leaves anything behind.
\* (_session, on_protocol_event, _on_audit and _ptt)
THEOREM QuietAlways == Gui!Parameters => (Gui!Spec => []Gui!QuietWithoutSession)
<1> SUFFICES ASSUME Gui!Parameters PROVE Gui!Spec => []Gui!QuietWithoutSession
  OBVIOUS
<1>1. Gui!Init => FlagsOK /\ RunOK
  BY QuietInit
<1>2. FlagsOK /\ RunOK /\ [Gui!Next]_(Gui!vars) => FlagsOK' /\ RunOK'
  BY GuiFlagsStep, GuiStep
<1>3. FlagsOK /\ RunOK => Gui!QuietWithoutSession
  BY DEF FlagsOK, RunOK, Gui!QuietWithoutSession, Gui!Quiet, Gui!TypeOK, Entries,
            Requests
<1>4. QED
  BY <1>1, <1>2, <1>3, PTL DEF Gui!Spec
=============================================================================
