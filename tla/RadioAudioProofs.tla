--------------------------- MODULE RadioAudioProofs ---------------------------
(***************************************************************************)
(* For any callers, presses, packets and losses, half duplex or not: the     *)
(* types, the timer of a release never meets a press, and a replay is of one *)
(* press.  Where speaker and microphone take turns: nobody takes the path of *)
(* another or leaves it open, and the mic's gate follows the path.           *)
(***************************************************************************)
EXTENDS RadioAudio, SequenceTheorems, FiniteSetTheorems, TLAPS

TimerInv == timer \in BOOLEAN /\ active \in BOOLEAN /\ recording \in BOOLEAN /\ TimerAfterRelease

LEMMA TimerInit == Init => TimerInv
  BY DEF Init, TimerInv, TimerAfterRelease

LEMMA TimerStep == TimerInv /\ [Next]_vars => TimerInv'
<1> SUFFICES ASSUME TimerInv, [Next]_vars PROVE TimerInv'
  OBVIOUS
<1> USE DEF TimerInv, TimerAfterRelease, captureVars
<1>1. CASE MicSteps
  BY <1>1 DEF MicSteps, TailSent, MicReads, GateCloses
<1>2. CASE ReaderSteps
  <2>1. CASE RadioReadsDown
    BY <2>1 DEF RadioReadsDown, StartRecording
  <2>2. CASE RadioReadsUp
    BY <2>2 DEF RadioReadsUp
  <2>3. CASE AnswerPress \/ AnswerRelease
    BY <2>3 DEF AnswerPress, AnswerRelease
  <2>4. QED
    BY <1>2, <2>1, <2>2, <2>3 DEF ReaderSteps
<1>3. CASE TailElapsed
  BY <1>3 DEF TailElapsed, Finish
<1>4. CASE RtpArrives
  BY <1>4 DEF RtpArrives, Finish
<1>5. CASE Replay \/ Disconnected \/ Reconnect
  BY <1>5 DEF Replay, Disconnected, Reconnect
<1>6. CASE UserSteps
  <2>1. CASE MicPress \/ MicSendsRtp \/ MicRelease
    BY <2>1 DEF MicPress, MicSendsRtp, MicRelease
  <2>2. CASE SetParrot \/ StopFile
    BY <2>2 DEF SetParrot, StopFile
  <2>3. CASE LinkLost
    BY <2>3 DEF LinkLost, Finish
  <2>4. QED
    BY <1>6, <2>1, <2>2, <2>3 DEF UserSteps
<1>7. ASSUME NEW t \in Tasks, TaskSteps(t) PROVE TimerInv'
  BY <1>7 DEF TaskSteps, PlaySteps, CancelTaken
<1>8. ASSUME NEW f \in Files, FileSteps(f) PROVE TimerInv'
  BY <1>8 DEF FileSteps, SubmitFile, FileBegins, CheckFile, FileReturns
<1>9. CASE UNCHANGED vars
  BY <1>9 DEF vars
<1>10. QED
  BY <1>1, <1>2, <1>3, <1>4, <1>5, <1>6, <1>7, <1>8, <1>9 DEF Next

\* Whenever the timer of a release runs, the PTT is up and a recording goes on that it
\* will end: no press of any length of play finds the timer of the one before it.
\* (start_mic_recording, release_mic_recording and finish_mic_recording)
THEOREM TimerOnlyAfterRelease == Spec => []TimerAfterRelease
<1>1. TimerInv => TimerAfterRelease
  BY DEF TimerInv
<1>2. QED
  BY TimerInit, TimerStep, <1>1, PTL DEF Spec

-----------------------------------------------------------------------------
(* Playbacks *)

Places == {"waiting", "start", "opening", "sending", "closing", "done"}
Cancels == {"no", "asked", "taken"}
Playbacks == [at : Places, writer : 0 .. Losses + 1, left : Nat, cancel : Cancels]

\* A step of one playback is that: the others stay where they are.
Others(t) == \A u \in Tasks : u # t => task'[u] = task[u]

\* A playback that goes on keeps its session and its cancellation, one that ends is done.
LEMMA GoesOn ==
    ASSUME task \in [Tasks -> Playbacks], NEW t \in Tasks, NEW place \in Places, Goes(t, place)
    PROVE  /\ task' \in [Tasks -> Playbacks] /\ Others(t)
           /\ place = "done" => task'[t] = Done
           /\ place # "done" => /\ task'[t].at = place
                                /\ task'[t].writer = task[t].writer
                                /\ task'[t].left = task[t].left
                                /\ task'[t].cancel = task[t].cancel
<1> USE DEF Places, Cancels, Playbacks, Others
<1>1. CASE place = "done"
  BY <1>1, AudioAssumption DEF AudioAssumption, Goes, Done
<1>2. CASE place # "done"
  BY <1>2 DEF Goes
<1>3. QED
  BY <1>1, <1>2

\* Cancelling a playback changes what it is asked, and nothing if it has ended.
LEMMA CancelAsks ==
    ASSUME task \in [Tasks -> Playbacks], NEW t \in Tasks, Cancel(t)
    PROVE  /\ task' \in [Tasks -> Playbacks] /\ Others(t)
           /\ At(t) = "done" => task'[t] = task[t]
           /\ At(t) # "done" => /\ task'[t].at = At(t)
                                /\ task'[t].writer = task[t].writer
                                /\ task'[t].left = task[t].left
                                /\ task'[t].cancel = "asked"
BY DEF Places, Cancels, Playbacks, Others, Cancel, At

\* A playback that opens belongs to the session it opens in; without one it ends.
LEMMA OpenBegins ==
    ASSUME task \in [Tasks -> Playbacks], NEW t \in Tasks, NEW packets \in Nat,
           session \in 1 .. Losses + 1, Open(t, packets)
    PROVE  /\ task' \in [Tasks -> Playbacks] /\ Others(t)
           /\ \/ /\ link = "up" /\ Tell("rx")
                 /\ task'[t].at = "opening" /\ task'[t].writer = session
                 /\ task'[t].cancel = task[t].cancel
              \/ /\ link # "up" \/ packets = 0
                 /\ task'[t] = Done /\ UNCHANGED <<toMic, path>>
<1>1. CASE link = "up" /\ packets > 0
  BY <1>1 DEF Open, Places, Cancels, Playbacks, Others
<1>2. CASE ~(link = "up" /\ packets > 0)
  <2>1. Goes(t, "done") /\ UNCHANGED <<toMic, path>>
    BY <1>2 DEF Open
  <2>2. link # "up" \/ packets = 0
    BY <1>2
  <2>3. QED
    BY <2>1, <2>2, GoesOn DEF Places
<1>3. QED
  BY <1>1, <1>2

\* One step of a playback: to send, a packet, to close, to the end.
LEMMA PlayGoes ==
    ASSUME task \in [Tasks -> Playbacks], NEW t \in Tasks, PlaySteps(t)
    PROVE  /\ task' \in [Tasks -> Playbacks] /\ Others(t)
           /\ \/ /\ At(t) = "opening" /\ Reaches(t) /\ task'[t].at = "sending"
                 /\ NoneSubmitted
                 /\ UNCHANGED <<toMic, path>>
              \/ /\ At(t) = "opening" /\ ~Reaches(t) /\ task'[t] = Done
                 /\ UNCHANGED <<toMic, path>>
              \/ /\ At(t) = "sending" /\ task'[t].at \in {"sending", "closing"}
                 /\ UNCHANGED <<toMic, path>>
              \/ /\ At(t) = "closing" /\ task'[t] = Done /\ (LateLock \/ NoneSubmitted)
                 /\ \/ Reaches(t) /\ Tell("closed")
                    \/ ~Reaches(t) /\ UNCHANGED <<toMic, path>>
           /\ task'[t] # Done => /\ task'[t].writer = task[t].writer
                                 /\ task'[t].cancel = task[t].cancel
<1>1. CASE At(t) = "opening" /\ NoneSubmitted
           /\ Goes(t, IF Reaches(t) THEN "sending" ELSE "done")
           /\ UNCHANGED <<toMic, path>>
  BY <1>1, GoesOn DEF Places
<1>2. CASE At(t) = "sending" /\ task[t].left > 0 /\ task' = [task EXCEPT ![t].left = @ - 1]
           /\ UNCHANGED <<toMic, path>>
  BY <1>2 DEF Places, Cancels, Playbacks, Others, At
<1>3. CASE At(t) = "sending" /\ Goes(t, "closing") /\ UNCHANGED <<toMic, path>>
  BY <1>3, GoesOn DEF Places
<1>4. CASE At(t) = "closing" /\ Goes(t, "done") /\ (LateLock \/ NoneSubmitted)
           /\ IF Reaches(t) THEN Tell("closed") ELSE UNCHANGED <<toMic, path>>
  BY <1>4, GoesOn DEF Places
<1>5. QED
  BY <1>1, <1>2, <1>3, <1>4 DEF PlaySteps

LEMMA CancelEnds ==
    ASSUME task \in [Tasks -> Playbacks], NEW t \in Tasks, CancelTaken(t)
    PROVE  /\ task' \in [Tasks -> Playbacks] /\ Others(t)
           /\ \/ /\ At(t) = "sending" /\ task'[t].at = "closing"
                 /\ task'[t].writer = task[t].writer /\ task'[t].cancel = "taken"
              \/ At(t) # "sending" /\ task'[t] = Done
<1>1. CASE At(t) = "sending"
  BY <1>1 DEF CancelTaken, Places, Cancels, Playbacks, Others, At
<1>2. CASE At(t) # "sending"
  BY <1>2, GoesOn DEF CancelTaken, Places
<1>3. QED
  BY <1>1, <1>2

\* A release in Parrot mode has a replay wait for the end of the recording.
LEMMA ReplayWaits ==
    ASSUME task \in [Tasks -> Playbacks], RadioReadsUp
    PROVE  \/ UNCHANGED task /\ ~(parrot /\ capturing)
           \/ /\ parrot /\ capturing /\ At(Parrot) = "done"
              /\ task' \in [Tasks -> Playbacks] /\ Others(Parrot)
              /\ task'[Parrot].at = "waiting"
              /\ task'[Parrot].writer = task[Parrot].writer
              /\ task'[Parrot].cancel = task[Parrot].cancel
<1>1. CASE parrot /\ capturing
  <2>1. Parrot \in Tasks /\ At(Parrot) = "done"
        /\ task' = [task EXCEPT ![Parrot].at = "waiting"]
    BY <1>1 DEF RadioReadsUp, Tasks
  <2>2. QED
    BY <1>1, <2>1 DEF Playbacks, Places, Cancels, Others
<1>2. CASE ~(parrot /\ capturing)
  BY <1>2 DEF RadioReadsUp
<1>3. QED
  BY <1>1, <1>2

-----------------------------------------------------------------------------
(* Types *)

FlagsTyped == {txOn, gate, drain, recording, active, timer, parrot, capturing} \subseteq BOOLEAN

\* A recording has room for the next packet, a connection that is up or lost may be
\* lost no more often than it was, and packets are those of a press.
CountsTyped ==
    /\ link \in {"up", "lost", "down"} /\ session \in 1 .. Losses + 1
    /\ rtp \subseteq (1 .. Presses) \X (1 .. Limit)
    /\ ptt \in {"up", "down", "wait"} /\ stream \in {"none", "live", "tail"}
    /\ press \in 0 .. Presses /\ sent \in 0 .. Limit /\ count \in 0 .. Limit
    /\ reader \in {"read", "answering", "releasing"}
    /\ recording => count < Limit
    /\ link # "up" => session <= Losses
    /\ ptt = "down" \/ stream # "none" => press > 0

FramesTyped ==
    /\ toRadio \in Seq({"down", "up"}) /\ toMic \in Seq(States) /\ path \in States
    /\ payloads \in Seq(1 .. Presses)

CallsTyped ==
    /\ fpc \in [Files -> {"idle", "submitted", "waiting"}]
    /\ owner \in Files \cup {None} /\ plays \in 0 .. Plays

\* No playback belongs to a session that is yet to come.
TasksTyped == task \in [Tasks -> Playbacks] /\ \A t \in Tasks : task[t].writer <= session

TypeInv == FlagsTyped /\ CountsTyped /\ FramesTyped /\ CallsTyped /\ TasksTyped

LEMMA TypeInit == Init => TypeInv
<1> SUFFICES ASSUME Init PROVE TypeInv
  OBVIOUS
<1> USE AudioAssumption DEF AudioAssumption
<1>1. FlagsTyped
  BY Zenon DEF Init, FlagsTyped
<1>2. CountsTyped /\ CallsTyped
  BY DEF Init, CountsTyped, CallsTyped
<1>3. FramesTyped
  BY EmptySeq DEF Init, FramesTyped, States
<1>4. TasksTyped
  BY DEF Init, TasksTyped, Playbacks, Places, Cancels
<1>5. QED
  BY <1>1, <1>2, <1>3, <1>4 DEF TypeInv

LEMMA FlagsStep == FlagsTyped /\ [Next]_vars => FlagsTyped'
<1> SUFFICES ASSUME FlagsTyped, [Next]_vars PROVE FlagsTyped'
  OBVIOUS
<1> USE DEF FlagsTyped, micVars, gateVars, captureVars, parrotVars
<1>1. CASE TailSent \/ GateCloses
  BY Zenon, <1>1 DEF TailSent, GateCloses
<1>2. CASE MicReads
  <2>1. gate' \in BOOLEAN /\ drain' \in BOOLEAN /\ txOn' \in BOOLEAN
    BY Zenon, <1>2 DEF MicReads
  <2>2. QED
    BY Zenon, <1>2, <2>1 DEF MicReads
<1>3. CASE RadioReadsDown
  BY Zenon, <1>3 DEF RadioReadsDown, BeginCapture, StartRecording
<1>4. CASE RadioReadsUp
  BY Zenon, <1>4 DEF RadioReadsUp
<1>5. CASE AnswerPress \/ AnswerRelease
  BY Zenon, <1>5 DEF AnswerPress, AnswerRelease
<1>6. CASE TailElapsed \/ RtpArrives
  BY Zenon, <1>6 DEF TailElapsed, RtpArrives, Finish
<1>7. CASE Replay \/ Disconnected \/ Reconnect
  BY Zenon, <1>7 DEF Replay, Disconnected, Reconnect
<1>8. CASE MicPress \/ MicSendsRtp \/ MicRelease
  BY Zenon, <1>8 DEF MicPress, MicSendsRtp, MicRelease
<1>9. CASE SetParrot
  <2>1. parrot' \in BOOLEAN
    BY Zenon, <1>9 DEF SetParrot
  <2>2. QED
    BY Zenon, <1>9, <2>1 DEF SetParrot
<1>10. CASE StopFile \/ LinkLost
  BY Zenon, <1>10 DEF StopFile, LinkLost, Finish
<1>11. ASSUME NEW t \in Tasks, TaskSteps(t) PROVE FlagsTyped'
  BY Zenon, <1>11 DEF TaskSteps, PlaySteps, CancelTaken
<1>12. ASSUME NEW f \in Files, FileSteps(f) PROVE FlagsTyped'
  BY Zenon, <1>12 DEF FileSteps, SubmitFile, FileBegins, CheckFile, FileReturns
<1>13. CASE UNCHANGED vars
  BY Zenon, <1>13 DEF vars
<1>14. QED
  BY <1>1, <1>2, <1>3, <1>4, <1>5, <1>6, <1>7, <1>8, <1>9, <1>10, <1>11, <1>12, <1>13
  DEF Next, MicSteps, ReaderSteps, UserSteps

LEMMA CountsStep == CountsTyped /\ [Next]_vars => CountsTyped'
<1> SUFFICES ASSUME CountsTyped, [Next]_vars PROVE CountsTyped'
  OBVIOUS
<1> USE AudioAssumption DEF AudioAssumption, CountsTyped, wireVars, micVars, captureVars
<1>1. CASE TailSent \/ GateCloses
  BY <1>1 DEF TailSent, GateCloses
<1>2. CASE MicReads
  BY <1>2 DEF MicReads
<1>3. CASE RadioReadsDown
  BY <1>3 DEF RadioReadsDown, StartRecording
<1>4. CASE RadioReadsUp
  BY <1>4 DEF RadioReadsUp
<1>5. CASE AnswerPress \/ AnswerRelease
  BY <1>5 DEF AnswerPress, AnswerRelease
<1>6. CASE TailElapsed
  BY <1>6 DEF TailElapsed, Finish
<1>7. CASE RtpArrives
  BY <1>7 DEF RtpArrives, Finish
<1>8. CASE Replay \/ Disconnected
  BY <1>8 DEF Replay, Disconnected
<1>9. CASE Reconnect
  BY <1>9 DEF Reconnect
<1>10. CASE MicPress
  BY <1>10 DEF MicPress
<1>11. CASE MicSendsRtp
  <2>1. sent + 1 \in 1 .. Limit /\ press \in 1 .. Presses
    BY <1>11 DEF MicSendsRtp
  <2>2. rtp' \subseteq (1 .. Presses) \X (1 .. Limit) /\ sent' \in 0 .. Limit
    BY <1>11, <2>1 DEF MicSendsRtp
  <2>3. QED
    BY <1>11, <2>2 DEF MicSendsRtp
<1>12. CASE MicRelease
  BY <1>12 DEF MicRelease
<1>13. CASE SetParrot \/ StopFile
  BY <1>13 DEF SetParrot, StopFile
<1>14. CASE LinkLost
  BY <1>14 DEF LinkLost, Finish
<1>15. ASSUME NEW t \in Tasks, TaskSteps(t) PROVE CountsTyped'
  BY <1>15 DEF TaskSteps, PlaySteps, CancelTaken
<1>16. ASSUME NEW f \in Files, FileSteps(f) PROVE CountsTyped'
  BY <1>16 DEF FileSteps, SubmitFile, FileBegins, CheckFile, FileReturns
<1>17. CASE UNCHANGED vars
  BY <1>17 DEF vars
<1>18. QED
  BY <1>1, <1>2, <1>3, <1>4, <1>5, <1>6, <1>7, <1>8, <1>9, <1>10, <1>11, <1>12, <1>13,
     <1>14, <1>15, <1>16, <1>17 DEF Next, MicSteps, ReaderSteps, UserSteps

\* Telling the mic, and putting a frame or a packet at the end.
LEMMA TellTyped ==
    ASSUME toMic \in Seq(States), NEW state \in States, Tell(state)
    PROVE  toMic' \in Seq(States) /\ path' \in States
BY AppendProperties DEF Tell

LEMMA FramesStep == TypeInv /\ [Next]_vars => FramesTyped'
<1> SUFFICES ASSUME TypeInv, [Next]_vars PROVE FramesTyped'
  OBVIOUS
<1> USE DEF TypeInv, FramesTyped, wireVars, parrotVars
<1>0. /\ \A s \in States : Append(toMic, s) \in Seq(States)
      /\ \A p \in 1 .. Presses : Append(payloads, p) \in Seq(1 .. Presses)
      /\ \A d \in {"down", "up"} : Append(toRadio, d) \in Seq({"down", "up"})
      /\ toMic # <<>> => Tail(toMic) \in Seq(States)
      /\ toRadio # <<>> => Tail(toRadio) \in Seq({"down", "up"})
      /\ <<>> \in Seq(States) /\ <<>> \in Seq({"down", "up"}) /\ <<>> \in Seq(1 .. Presses)
      /\ Len(payloads) \in Nat
  BY AppendProperties, HeadTailProperties, EmptySeq, LenProperties
<1>1. CASE TailSent \/ GateCloses \/ TailElapsed
  BY <1>1 DEF TailSent, GateCloses, TailElapsed
<1>2. CASE MicReads
  BY <1>2, <1>0 DEF MicReads
<1>3. CASE RadioReadsDown
  BY <1>3, <1>0 DEF RadioReadsDown, BeginCapture
<1>4. CASE RadioReadsUp
  BY <1>4, <1>0 DEF RadioReadsUp
<1>5. CASE AnswerPress \/ AnswerRelease
  BY <1>5, <1>0 DEF AnswerPress, AnswerRelease, Tell, States
<1>6. CASE RtpArrives
  BY <1>6, <1>0 DEF RtpArrives, CountsTyped
<1>7. CASE Replay
  <2>1. toMic' \in Seq(States) /\ path' \in States
    BY <1>7, <1>0, OpenBegins, TellTyped DEF Replay, Tasks, TasksTyped, CountsTyped, States
  <2>2. QED
    BY <1>7, <2>1 DEF Replay
<1>8. CASE MicPress \/ MicSendsRtp \/ MicRelease
  BY <1>8, <1>0 DEF MicPress, MicSendsRtp, MicRelease
<1>9. CASE SetParrot \/ StopFile
  BY <1>9, <1>0 DEF SetParrot, StopFile
<1>10. CASE LinkLost \/ Disconnected \/ Reconnect
  BY <1>10, <1>0 DEF LinkLost, Disconnected, Reconnect, States
<1>11. ASSUME NEW t \in Tasks, PlaySteps(t) PROVE FramesTyped'
  <2>1. toMic' \in Seq(States) /\ path' \in States
    BY <1>11, PlayGoes, TellTyped DEF TasksTyped, States
  <2>2. QED
    BY <1>11, <2>1 DEF PlaySteps
<1>12. ASSUME NEW t \in Tasks, CancelTaken(t) PROVE FramesTyped'
  BY <1>12 DEF CancelTaken
<1>13. ASSUME NEW f \in Files, FileBegins(f) PROVE FramesTyped'
  <2>1. toMic' \in Seq(States) /\ path' \in States
    BY <1>13, OpenBegins, TellTyped DEF FileBegins, Tasks, TasksTyped, CountsTyped, States
  <2>2. QED
    BY <1>13, <2>1 DEF FileBegins
<1>14. ASSUME NEW f \in Files, SubmitFile(f) \/ CheckFile(f) \/ FileReturns(f)
       PROVE FramesTyped'
  BY <1>14 DEF SubmitFile, CheckFile, FileReturns
<1>15. CASE UNCHANGED vars
  BY <1>15 DEF vars
<1>16. QED
  BY <1>1, <1>2, <1>3, <1>4, <1>5, <1>6, <1>7, <1>8, <1>9, <1>10, <1>11, <1>12, <1>13,
     <1>14, <1>15 DEF Next, MicSteps, ReaderSteps, UserSteps, TaskSteps, FileSteps

LEMMA CallsStep == CallsTyped /\ [Next]_vars => CallsTyped'
<1> SUFFICES ASSUME CallsTyped, [Next]_vars PROVE CallsTyped'
  OBVIOUS
<1> USE AudioAssumption DEF AudioAssumption, CallsTyped, callVars
<1>1. CASE MicSteps
  BY <1>1 DEF MicSteps, TailSent, MicReads, GateCloses
<1>2. CASE ReaderSteps
  BY <1>2 DEF ReaderSteps, RadioReadsDown, RadioReadsUp, AnswerPress, AnswerRelease
<1>3. CASE TailElapsed \/ RtpArrives \/ Replay
  BY <1>3 DEF TailElapsed, RtpArrives, Replay
<1>4. CASE UserSteps
  BY <1>4 DEF UserSteps, MicPress, MicSendsRtp, MicRelease, SetParrot, StopFile, LinkLost
<1>5. CASE Disconnected \/ Reconnect
  BY <1>5 DEF Disconnected, Reconnect
<1>6. ASSUME NEW t \in Tasks, TaskSteps(t) PROVE CallsTyped'
  BY <1>6 DEF TaskSteps, PlaySteps, CancelTaken
<1>7. ASSUME NEW f \in Files, FileSteps(f) PROVE CallsTyped'
  BY <1>7 DEF FileSteps, SubmitFile, FileBegins, CheckFile, FileReturns
<1>8. CASE UNCHANGED vars
  BY <1>8 DEF vars
<1>9. QED
  BY <1>1, <1>2, <1>3, <1>4, <1>5, <1>6, <1>7, <1>8 DEF Next

LEMMA TasksStep == TypeInv /\ [Next]_vars => TasksTyped'
<1> SUFFICES ASSUME TypeInv, [Next]_vars PROVE TasksTyped'
  OBVIOUS
<1> USE AudioAssumption
    DEF AudioAssumption, TypeInv, TasksTyped, CountsTyped, CallsTyped, wireVars, callVars
<1>0. /\ Parrot \in Tasks /\ Files \subseteq Tasks
      /\ Len(payloads) \in Nat
  BY LenProperties DEF Tasks, FramesTyped
<1> DEFINE Typed(t) == /\ task' \in [Tasks -> Playbacks] /\ Others(t)
                       /\ task'[t].writer <= session
<1>1. CASE MicSteps
  BY <1>1 DEF MicSteps, TailSent, MicReads, GateCloses
<1>2. CASE RadioReadsDown
  <2>1. UNCHANGED task \/ Typed(Parrot)
    BY <1>0, <1>2, CancelAsks DEF RadioReadsDown, BeginCapture
  <2>2. QED
    BY <1>2, <2>1 DEF RadioReadsDown, Others
<1>3. CASE RadioReadsUp
  <2>1. UNCHANGED task \/ Typed(Parrot)
    BY <1>0, <1>3, ReplayWaits
  <2>2. QED
    BY <1>3, <2>1 DEF RadioReadsUp, Others
<1>4. CASE AnswerPress \/ AnswerRelease \/ TailElapsed \/ RtpArrives
  BY <1>4 DEF AnswerPress, AnswerRelease, TailElapsed, RtpArrives
<1>5. CASE Replay
  <2>1. Typed(Parrot)
    BY <1>0, <1>5, OpenBegins DEF Replay, Done
  <2>2. QED
    BY <1>5, <2>1 DEF Replay, Others
<1>6. CASE MicPress \/ MicSendsRtp \/ MicRelease \/ LinkLost
  BY <1>6 DEF MicPress, MicSendsRtp, MicRelease, LinkLost
<1>7. CASE SetParrot \/ Disconnected
  <2>1. Typed(Parrot) /\ session' = session
    BY <1>0, <1>7, CancelAsks DEF SetParrot, Disconnected
  <2>2. QED
    BY <2>1 DEF Others
<1>8. CASE StopFile
  <2>1. owner \in Tasks
    BY <1>0, <1>8 DEF StopFile
  <2>2. Typed(owner) /\ session' = session
    BY <1>8, <2>1, CancelAsks DEF StopFile
  <2>3. QED
    BY <2>2 DEF Others
<1>9. CASE Reconnect
  BY <1>9 DEF Reconnect, Playbacks
<1>10. ASSUME NEW t \in Tasks, TaskSteps(t) PROVE TasksTyped'
  <2>1. Typed(t)
    BY <1>10, PlayGoes, CancelEnds DEF TaskSteps, Done
  <2>2. QED
    BY <1>10, <2>1 DEF TaskSteps, PlaySteps, CancelTaken, Others
<1>11. ASSUME NEW f \in Files, SubmitFile(f) PROVE TasksTyped'
  <2>1. Typed(f)
    BY <1>0, <1>11, GoesOn DEF SubmitFile, Places
  <2>2. QED
    BY <1>11, <2>1 DEF SubmitFile, Others
<1>12. ASSUME NEW f \in Files, FileBegins(f) PROVE TasksTyped'
  <2>1. Typed(f)
    BY <1>0, <1>12, OpenBegins DEF FileBegins, Done
  <2>2. QED
    BY <1>12, <2>1 DEF FileBegins, Others
<1>13. ASSUME NEW f \in Files, CheckFile(f) PROVE TasksTyped'
  <2>1. UNCHANGED task \/ Typed(f)
    BY <1>0, <1>13, CancelAsks DEF CheckFile
  <2>2. QED
    BY <1>13, <2>1 DEF CheckFile, Others
<1>14. ASSUME NEW f \in Files, FileReturns(f) PROVE TasksTyped'
  BY <1>14 DEF FileReturns
<1>15. CASE UNCHANGED vars
  BY <1>15 DEF vars
<1>16. QED
  BY <1>1, <1>2, <1>3, <1>4, <1>5, <1>6, <1>7, <1>8, <1>9, <1>10, <1>11, <1>12, <1>13,
     <1>14, <1>15 DEF Next, ReaderSteps, UserSteps, FileSteps

LEMMA TypeStep == TypeInv /\ [Next]_vars => TypeInv'
BY FlagsStep, CountsStep, FramesStep, CallsStep, TasksStep DEF TypeInv

\* Every attribute, counter, frame, packet and playback has its type; among others a
\* recording never holds more than its limit of packets.
THEOREM TypeCorrect == Spec => []TypeOK
<1>1. TypeInv => TypeOK
  BY DEF TypeInv, FlagsTyped, CountsTyped, FramesTyped, CallsTyped, TasksTyped, Playbacks,
         Places, Cancels, TypeOK
<1>2. QED
  BY TypeInit, TypeStep, <1>1, PTL DEF Spec

-----------------------------------------------------------------------------
(* A press on the wire *)

\* The radio has yet to read the press.
Unread == toRadio \in {<<"down">>, <<"down", "up">>}

\* What a press leaves under way, by how far the radio has read it: a release follows its
\* press, and a mic that is up with nothing under way has sent its tail.
PressOrder ==
    /\ toRadio \in {<<>>, <<"down">>, <<"down", "up">>, <<"up">>}
    /\ toRadio = <<"down">> => ptt = "down" /\ reader = "read"
    /\ toRadio = <<"down", "up">> => ptt # "down" /\ reader = "read"
    /\ toRadio = <<"up">> => ptt # "down" /\ active /\ reader # "releasing"
    /\ toRadio = <<>> => \/ ptt = "down" /\ active /\ reader # "releasing"
                         \/ ptt # "down" /\ reader = "releasing"
                         \/ ptt # "down" /\ reader = "read" /\ stream = "none"
                            /\ (link = "up" => rtp = {})

\* Nothing is under way without a connection.
LinkEnds ==
    link # "up" => /\ toRadio = <<>> /\ ptt = "up" /\ stream = "none"
                   /\ reader = "read" /\ ~recording

NoTx == \A i \in 1 .. Len(toMic) : toMic[i] # "tx"

\* A stream belongs to the press the radio answered; its packets are of the last press.
StreamOrder ==
    /\ Unread => stream = "none" /\ rtp = {} /\ sent = 0
    /\ Unread \/ reader = "answering" => NoTx
    /\ stream = "tail" => ptt # "down"
    /\ stream = "live" => ptt = "down"
    /\ \A packet \in rtp : packet[1] = press

PressInv == TypeInv /\ PressOrder /\ LinkEnds /\ StreamOrder

LEMMA PressInit == Init => PressOrder /\ LinkEnds /\ StreamOrder
<1> SUFFICES ASSUME Init PROVE PressOrder /\ LinkEnds /\ StreamOrder
  OBVIOUS
<1>1. <<>> # <<"down">> /\ <<>> # <<"down", "up">> /\ <<>> # <<"up">>
  OBVIOUS
<1>2. QED
  BY <1>1 DEF Init, PressOrder, LinkEnds, StreamOrder, Unread, NoTx

\* The frames of a press and its release, and what putting and taking them does.
LEMMA PressFrames ==
    /\ <<>> # <<"down">> /\ <<>> # <<"down", "up">> /\ <<>> # <<"up">>
    /\ <<"down">> # <<"down", "up">> /\ <<"down">> # <<"up">> /\ <<"down", "up">> # <<"up">>
    /\ Append(<<>>, "down") = <<"down">> /\ Append(<<>>, "up") = <<"up">>
    /\ Append(<<"down">>, "up") = <<"down", "up">>
    /\ Head(<<"down">>) = "down" /\ Tail(<<"down">>) = <<>>
    /\ Head(<<"down", "up">>) = "down" /\ Tail(<<"down", "up">>) = <<"up">>
    /\ Head(<<"up">>) = "up" /\ Tail(<<"up">>) = <<>>
<1> DEFINE Word == Seq({"down", "up"})
<1>1. /\ <<>> \in Word /\ <<"down">> \in Word /\ <<"up">> \in Word /\ <<"down", "up">> \in Word
  OBVIOUS
<1>2. /\ Len(<<>>) = 0 /\ Len(<<"down">>) = 1 /\ Len(<<"up">>) = 1 /\ Len(<<"down", "up">>) = 2
      /\ <<"down">>[1] = "down" /\ <<"up">>[1] = "up"
      /\ <<"down", "up">>[1] = "down" /\ <<"down", "up">>[2] = "up"
  OBVIOUS
<1>3. /\ <<>> # <<"down">> /\ <<>> # <<"down", "up">> /\ <<>> # <<"up">>
      /\ <<"down">> # <<"down", "up">> /\ <<"down">> # <<"up">> /\ <<"down", "up">> # <<"up">>
  BY <1>2
<1>4. Append(<<>>, "down") = <<"down">> /\ Append(<<>>, "up") = <<"up">>
  OBVIOUS
<1>5. Append(<<"down">>, "up") = <<"down", "up">>
  <2>1. /\ Append(<<"down">>, "up") \in Word /\ Len(Append(<<"down">>, "up")) = 2
        /\ Append(<<"down">>, "up")[1] = "down" /\ Append(<<"down">>, "up")[2] = "up"
    BY <1>1, <1>2, AppendProperties
  <2>2. \A i \in 1 .. 2 : Append(<<"down">>, "up")[i] = <<"down", "up">>[i]
    BY <1>2, <2>1
  <2>3. \A s, t \in Word : Len(s) = Len(t) /\ (\A i \in 1 .. Len(s) : s[i] = t[i]) => s = t
    BY SeqEqual
  <2> HIDE DEF Word
  <2>4. QED
    BY <1>1, <1>2, <2>1, <2>2, <2>3
<1>6. Head(<<"down">>) = "down" /\ Tail(<<"down">>) = <<>>
  OBVIOUS
<1>7. Head(<<"up">>) = "up" /\ Tail(<<"up">>) = <<>>
  OBVIOUS
<1>8. Head(<<"down", "up">>) = "down"
  OBVIOUS
<1>9. Tail(<<"down", "up">>) = <<"up">>
  OBVIOUS
<1>10. QED
  BY <1>3, <1>4, <1>5, <1>6, <1>7, <1>8, <1>9

\* Telling anything but "tx", or reading a frame, brings no "tx".
LEMMA TellNoTx ==
    ASSUME toMic \in Seq(States), NEW state \in States, Tell(state), state # "tx", NoTx
    PROVE  NoTx'
<1>1. /\ Len(toMic') = Len(toMic) + 1 /\ Len(toMic) \in Nat
      /\ toMic'[Len(toMic) + 1] = state
      /\ \A i \in 1 .. Len(toMic) : toMic'[i] = toMic[i]
  BY AppendProperties, LenProperties DEF Tell
<1>2. QED
  BY <1>1 DEF NoTx

LEMMA ReadNoTx ==
    ASSUME toMic \in Seq(States), toMic # <<>>, toMic' = Tail(toMic), NoTx
    PROVE  NoTx' /\ Head(toMic) # "tx"
<1>1. /\ Len(toMic') = Len(toMic) - 1 /\ Len(toMic) \in Nat /\ Len(toMic) > 0
      /\ Head(toMic) = toMic[1]
      /\ \A i \in 1 .. Len(toMic') : toMic'[i] = toMic[i + 1]
  BY HeadTailProperties, LenProperties, EmptySeq
<1>2. QED
  BY <1>1 DEF NoTx

\* A step of a playback, or of a caller, says "tx" to nobody.
LEMMA PlaysNoTx ==
    ASSUME TypeInv, NoTx
    PROVE  /\ \A t \in Tasks : TaskSteps(t) => NoTx'
           /\ \A f \in Files : FileSteps(f) => NoTx'
           /\ Replay => NoTx'
<1> USE DEF TypeInv, TasksTyped, FramesTyped
<1>1. UNCHANGED toMic => NoTx'
  BY DEF NoTx
<1>2. \A state \in {"rx", "closed"} : Tell(state) => NoTx'
  BY TellNoTx DEF States
<1>3. ASSUME NEW t \in Tasks, TaskSteps(t) PROVE NoTx'
  <2>1. CASE PlaySteps(t)
    BY <1>1, <1>2, <2>1, PlayGoes
  <2>2. CASE CancelTaken(t)
    BY <1>1, <2>2 DEF CancelTaken
  <2>3. QED
    BY <1>3, <2>1, <2>2 DEF TaskSteps
<1>4. ASSUME NEW f \in Files, FileSteps(f) PROVE NoTx'
  <2>1. CASE FileBegins(f)
    BY <1>1, <1>2, <2>1, OpenBegins DEF FileBegins, Tasks, CountsTyped
  <2>2. CASE SubmitFile(f) \/ CheckFile(f) \/ FileReturns(f)
    BY <1>1, <2>2 DEF SubmitFile, CheckFile, FileReturns
  <2>3. QED
    BY <1>4, <2>1, <2>2 DEF FileSteps
<1>5. ASSUME Replay PROVE NoTx'
  BY <1>1, <1>2, <1>5, OpenBegins, LenProperties DEF Replay, Tasks, CountsTyped
<1>6. QED
  BY <1>3, <1>4, <1>5

LEMMA PressStep == PressInv /\ [Next]_vars => PressInv'
<1> SUFFICES ASSUME PressInv, [Next]_vars PROVE (PressOrder /\ LinkEnds /\ StreamOrder)'
  BY TypeStep DEF PressInv
<1> USE DEF PressInv, PressOrder, LinkEnds, StreamOrder, Unread,
            wireVars, micVars, captureVars
<1>0. toMic \in Seq(States) /\ (UNCHANGED toMic => (NoTx' <=> NoTx))
  BY DEF TypeInv, FramesTyped, NoTx
<1>1. CASE TailSent
  BY <1>0, <1>1 DEF TailSent
<1>2. CASE MicReads
  <2>1. NoTx => NoTx' /\ Head(toMic) # "tx"
    BY <1>0, <1>2, ReadNoTx DEF MicReads
  <2>2. QED
    BY <1>2, <2>1, PressFrames DEF MicReads
<1>3. CASE GateCloses
  BY <1>0, <1>3 DEF GateCloses
<1>4. CASE RadioReadsDown
  BY <1>0, <1>4, PressFrames DEF RadioReadsDown, StartRecording
<1>5. CASE RadioReadsUp
  BY <1>0, <1>5, PressFrames DEF RadioReadsUp
<1>6. CASE AnswerPress
  BY <1>6, PressFrames DEF AnswerPress
<1>7. CASE AnswerRelease
  BY <1>7, PressFrames DEF AnswerRelease
<1>8. CASE TailElapsed
  BY <1>0, <1>8 DEF TailElapsed, Finish
<1>9. CASE RtpArrives
  BY <1>0, <1>9 DEF RtpArrives, Finish
<1>10. CASE Replay
  BY <1>10, PlaysNoTx DEF Replay
<1>11. CASE MicPress
  <2>1. NoTx
    BY <1>11 DEF MicPress, NoTx, TypeInv, FramesTyped
  <2>2. toRadio' = <<"down">> /\ rtp = {}
    BY <1>11, PressFrames DEF MicPress
  <2>3. QED
    BY <1>0, <1>11, <2>1, <2>2, PressFrames DEF MicPress
<1>12. CASE MicSendsRtp
  BY <1>0, <1>12 DEF MicSendsRtp
<1>13. CASE MicRelease
  BY <1>0, <1>13, PressFrames DEF MicRelease
<1>14. CASE SetParrot \/ StopFile
  BY <1>0, <1>14 DEF SetParrot, StopFile
<1>15. CASE LinkLost
  BY <1>15, PressFrames DEF LinkLost, Finish
<1>16. CASE Disconnected \/ Reconnect
  BY <1>0, <1>16 DEF Disconnected, Reconnect
<1>17. ASSUME NEW t \in Tasks, TaskSteps(t) PROVE (PressOrder /\ LinkEnds /\ StreamOrder)'
  BY <1>17, PlaysNoTx DEF TaskSteps, PlaySteps, CancelTaken
<1>18. ASSUME NEW f \in Files, FileSteps(f) PROVE (PressOrder /\ LinkEnds /\ StreamOrder)'
  BY <1>18, PlaysNoTx DEF FileSteps, SubmitFile, FileBegins, CheckFile, FileReturns
<1>19. CASE UNCHANGED vars
  BY <1>0, <1>19 DEF vars
<1>20. QED
  BY <1>1, <1>2, <1>3, <1>4, <1>5, <1>6, <1>7, <1>8, <1>9, <1>10, <1>11, <1>12, <1>13,
     <1>14, <1>15, <1>16, <1>17, <1>18, <1>19 DEF Next, MicSteps, ReaderSteps, UserSteps

-----------------------------------------------------------------------------
(* A replay is of one press *)

\* What is captured while a press is on its way, or after it, is of that press; without
\* Parrot mode, or a session, there is nothing.
CaptureOfPress ==
    /\ ~parrot => payloads = <<>> /\ ~capturing
    /\ link = "down" => payloads = <<>> /\ ~capturing
    /\ link = "up" /\ ~Unread => \A i \in 1 .. Len(payloads) : payloads[i] = press
    /\ \A i, j \in 1 .. Len(payloads) : payloads[i] = payloads[j]

ReplayInv == PressInv /\ CaptureOfPress

LEMMA ReplayInit == Init => CaptureOfPress
BY DEF Init, CaptureOfPress

LEMMA ReplayStep == ReplayInv /\ [Next]_vars => CaptureOfPress'
<1> SUFFICES ASSUME ReplayInv, [Next]_vars PROVE CaptureOfPress'
  OBVIOUS
<1> USE DEF ReplayInv, CaptureOfPress, wireVars, micVars, parrotVars
<1>0. payloads \in Seq(1 .. Presses) /\ Len(<<>>) = 0
  BY EmptySeq DEF PressInv, TypeInv, FramesTyped
<1> DEFINE Payloads == /\ link = "up" /\ ~Unread => \A i \in 1 .. Len(payloads) : payloads[i] = press
                       /\ \A i, j \in 1 .. Len(payloads) : payloads[i] = payloads[j]
<1>1. CASE TailSent \/ MicReads \/ GateCloses
  BY <1>1 DEF TailSent, MicReads, GateCloses, Unread
<1>2. CASE RadioReadsDown
  <2>1. payloads' = <<>> /\ link' = "up" /\ parrot' = parrot /\ (capturing' => parrot \/ capturing)
    BY <1>2 DEF RadioReadsDown, BeginCapture
  <2>2. QED
    BY <1>0, <2>1
<1>3. CASE RadioReadsUp
  BY <1>3, PressFrames DEF RadioReadsUp, Unread, PressInv, PressOrder
<1>4. CASE AnswerPress \/ AnswerRelease \/ TailElapsed
  BY <1>4 DEF AnswerPress, AnswerRelease, TailElapsed, Unread
<1>5. CASE RtpArrives
  <2>1. PICK packet \in rtp : \/ UNCHANGED payloads
                              \/ recording /\ parrot /\ payloads' = Append(payloads, packet[1])
    BY <1>5 DEF RtpArrives
  <2>2. CASE UNCHANGED payloads
    BY <1>5, <2>2 DEF RtpArrives, Unread
  <2>3. CASE recording /\ parrot /\ payloads' = Append(payloads, packet[1])
    <3>1. link = "up" /\ ~Unread /\ packet[1] = press
      BY <2>1, <2>3 DEF PressInv, LinkEnds, StreamOrder
    <3>2. /\ Len(payloads') = Len(payloads) + 1 /\ Len(payloads) \in Nat
          /\ payloads'[Len(payloads) + 1] = press
          /\ \A i \in 1 .. Len(payloads) : payloads'[i] = payloads[i]
      <4>1. packet[1] \in 1 .. Presses
        BY <2>1 DEF PressInv, TypeInv, CountsTyped
      <4>2. QED
        BY <1>0, <2>3, <3>1, <4>1, AppendProperties, LenProperties
    <3>3. \A i \in 1 .. Len(payloads') : payloads'[i] = press
      BY <3>1, <3>2
    <3>4. QED
      BY <1>5, <2>3, <3>1, <3>3 DEF RtpArrives
  <2>4. QED
    BY <2>1, <2>2, <2>3
<1>6. CASE Replay
  BY <1>6 DEF Replay, Unread
<1>7. CASE MicPress
  <2>1. ~Unread
    BY <1>7, PressFrames DEF MicPress, Unread
  <2>2. Unread'
    BY <1>7, PressFrames DEF MicPress, Unread
  <2>3. QED
    BY <1>7, <2>2 DEF MicPress
<1>8. CASE MicSendsRtp
  BY <1>8 DEF MicSendsRtp, Unread
<1>9. CASE MicRelease
  BY <1>9, PressFrames DEF MicRelease, Unread, PressInv, PressOrder
<1>10. CASE SetParrot
  BY <1>0, <1>10 DEF SetParrot
<1>11. CASE StopFile
  BY <1>11 DEF StopFile, Unread
<1>12. CASE LinkLost
  BY <1>12 DEF LinkLost
<1>13. CASE Disconnected
  BY <1>0, <1>13 DEF Disconnected
<1>14. CASE Reconnect
  BY <1>0, <1>14 DEF Reconnect
<1>15. ASSUME NEW t \in Tasks, TaskSteps(t) PROVE CaptureOfPress'
  BY <1>15 DEF TaskSteps, PlaySteps, CancelTaken, Unread
<1>16. ASSUME NEW f \in Files, FileSteps(f) PROVE CaptureOfPress'
  BY <1>16 DEF FileSteps, SubmitFile, FileBegins, CheckFile, FileReturns, Unread
<1>17. CASE UNCHANGED vars
  BY <1>17 DEF vars, Unread
<1>18. QED
  BY <1>1, <1>2, <1>3, <1>4, <1>5, <1>6, <1>7, <1>8, <1>9, <1>10, <1>11, <1>12, <1>13,
     <1>14, <1>15, <1>16, <1>17 DEF Next, MicSteps, ReaderSteps, UserSteps

\* What Parrot replays comes from one press: with any number of presses, packets that are
\* late or lost, tails, toggles of the mode at any moment, playbacks beside it and lost
\* connections.  (_begin_parrot_capture, _on_audio, _discard_transient_media)
THEOREM ReplayAlwaysOnePress == Spec => []ReplayIsOnePress
<1>1. Init => ReplayInv
  BY TypeInit, PressInit, ReplayInit DEF ReplayInv, PressInv
<1>2. ReplayInv /\ [Next]_vars => ReplayInv'
  BY PressStep, ReplayStep DEF ReplayInv
<1>3. ReplayInv => ReplayIsOnePress
  <2> SUFFICES ASSUME ReplayInv PROVE ReplayIsOnePress
    OBVIOUS
  <2>1. DOMAIN payloads = 1 .. Len(payloads)
    BY DEF ReplayInv, PressInv, TypeInv, FramesTyped
  <2>2. QED
    BY <2>1 DEF ReplayInv, CaptureOfPress, ReplayIsOnePress
<1>4. QED
  BY <1>1, <1>2, <1>3, PTL DEF Spec

-----------------------------------------------------------------------------
(* The path is kept *)

\* The conditions under which speaker and microphone take turns: what the code leaves to
\* its callers, and without which PathKept is false.  Any number of files may still be
\* called while another opens, sends or closes: the lock of _run_audio_action rejects them.
TakeTurns == HalfDuplex /\ ~LateLock /\ ~StopAnytime /\ ~LongPress /\ Tones = {}

Idle(t) == At(t) \in {"done", "waiting"}
Holds(t) == Opened(t) /\ Reaches(t)
Asked(t) == task[t].cancel = "asked"
\* The radio has read the press, and its connection is up.
Taken == link = "up" /\ ~Unread

\* No playback goes on while a press does.
QuietInv ==
    ptt = "down" \/ toRadio # <<>> \/ reader = "answering" => \A t \in Tasks : Idle(t)

\* A replay that will go on is that of a capture; a capture never fills its recording,
\* so that the release finds it recording and its answer comes before the replay.
CaptureInv ==
    /\ At(Parrot) = "waiting" /\ ~Asked(Parrot) => parrot /\ capturing
    /\ capturing /\ Taken => /\ count + Cardinality(rtp) < Limit
                             /\ active => recording
    /\ capturing /\ Taken /\ (stream # "none" \/ ptt = "down") =>
           count + Cardinality(rtp) <= sent /\ sent < Limit
    /\ reader = "releasing" => /\ \A t \in Tasks : Idle(t)
                               /\ At(Parrot) = "waiting" /\ ~Asked(Parrot) => recording

\* A file that is on its way to send, or sends for the connection there is.
Carries(f) ==
    \/ At(f) \in {"start", "opening"} /\ task[f].cancel = "no"
    \/ At(f) \in {"sending", "closing"} /\ Reaches(f)

\* Beside a file f that sends, g has ended, is about to meet the lock that f holds, or has.
Behind(f, g) ==
    /\ \/ At(g) = "done"
       \/ At(g) \in {"start", "opening"} /\ (fpc[g] = "submitted" \/ Asked(g))
    /\ fpc[g] = "submitted" => task[f].cancel = "no"
    /\ link = "up" /\ fpc[g] = "submitted" /\ At(g) # "done" => Reaches(f)

\* Replay and files exclude each other.  Of files that were called at the same time, or
\* while another sends, one has passed the lock; the others have yet to look at it, or
\* are cancelled in their first sleep, and they are so while another carries the sound.
CallInv ==
    /\ At(Parrot) # "start" /\ \A f \in Files : At(f) # "waiting"
    /\ At(Parrot) # "done" => \A f \in Files : At(f) = "done"
    /\ owner # None => fpc[owner] = "waiting"
    /\ \A f \in Files :
           At(f) # "done" /\ task[f].cancel = "no" /\ fpc[f] # "submitted" => owner = f
    /\ \A f \in Files :
           fpc[f] = "submitted" => At(f) \in {"start", "opening", "done"} /\ task[f].cancel = "no"
    /\ \A f, g \in Files :
           f # g /\ At(f) \in {"sending", "closing"} => Behind(f, g)
    /\ \A t \in Tasks : At(t) # "closing" => task[t].cancel # "taken"
    /\ \A t \in Tasks : At(t) = "done" => task[t].cancel = "no"
    /\ link = "up" =>
           /\ \A t \in Tasks : At(t) = "opening" => Reaches(t)
           /\ \A t \in Tasks : Asked(t) => At(t) # "closing"
           /\ Asked(Parrot) => At(Parrot) # "opening"
           /\ \A f \in Files : Asked(f) /\ At(f) \in {"start", "opening"} =>
                  \E g \in Files : g # f /\ Carries(g)

WayInv ==
    /\ link # "up" => path = "closed"
    /\ path = "rx" => \E t \in Tasks : At(t) = "start" \/ Holds(t)
    /\ \A t \in Tasks : Holds(t) => path = "rx"
    /\ ptt = "down" /\ (Unread \/ reader = "answering") => ~txOn
    /\ ptt = "down" /\ ~(Unread \/ reader = "answering") => path = "tx"

TurnsInv == QuietInv /\ CaptureInv /\ CallInv /\ WayInv

HeldInv == ReplayInv /\ TimerInv /\ TurnsInv

LEMMA TurnsInit == Init => TurnsInv
<1> SUFFICES ASSUME Init PROVE TurnsInv
  OBVIOUS
<1>1. \A t \in Tasks : task[t] = Done
  BY DEF Init, Done
<1>2. Parrot \in Tasks /\ Files \subseteq Tasks
  BY DEF Tasks
<1>3. QuietInv
  BY <1>1, <1>2 DEF QuietInv, Idle, At, Done
<1>4. CaptureInv
  BY <1>1, <1>2 DEF Init, CaptureInv, At, Done
<1>5. CallInv
  BY <1>1, <1>2 DEF Init, CallInv, At, Done, Asked
<1>6. WayInv
  BY <1>1, <1>2 DEF Init, WayInv, At, Done, Holds, Opened
<1>7. QED
  BY <1>3, <1>4, <1>5, <1>6 DEF TurnsInv

\* What a group of the invariant depends on: a step that changes none of it keeps it.
LEMMA QuietKept == QuietInv /\ UNCHANGED <<ptt, toRadio, reader, task>> => QuietInv'
BY DEF QuietInv, Idle, At

LEMMA CaptureKept ==
    CaptureInv /\ UNCHANGED <<link, toRadio, rtp, ptt, stream, sent, reader, recording, active,
                              count, parrot, capturing, task>> => CaptureInv'
BY DEF CaptureInv, Idle, At, Asked, Taken, Unread

LEMMA CallKept == CallInv /\ UNCHANGED <<link, session, task, callVars>> => CallInv'
BY DEF CallInv, Carries, Behind, At, Asked, Reaches, callVars

LEMMA WayKept ==
    WayInv /\ UNCHANGED <<link, session, toRadio, ptt, txOn, path, reader, task>> => WayInv'
BY DEF WayInv, At, Holds, Opened, Reaches, Unread

\* Nothing starts and nothing holds the path where everything is idle.
LEMMA IdleLetsGo ==
    ASSUME NEW t \in Tasks, Idle(t)
    PROVE  At(t) # "start" /\ ~Holds(t)
BY DEF Idle, Holds, Opened

LEMMA PacketsFinite ==
    ASSUME TypeInv
    PROVE  /\ Cardinality(rtp) \in Nat /\ Cardinality({}) = 0
           /\ \A packet \in rtp : /\ Cardinality(rtp \ {packet}) \in Nat
                                  /\ Cardinality(rtp \ {packet}) + 1 = Cardinality(rtp)
           /\ \A packet : /\ Cardinality(rtp \cup {packet}) \in Nat
                          /\ Cardinality(rtp \cup {packet}) <= Cardinality(rtp) + 1
<1>1. IsFiniteSet((1 .. Presses) \X (1 .. Limit))
  <2>1. Presses \in Int /\ Limit \in Int
    BY AudioAssumption DEF AudioAssumption
  <2>2. IsFiniteSet(1 .. Presses) /\ IsFiniteSet(1 .. Limit)
    BY <2>1, FS_Interval
  <2>3. QED
    BY <2>2, FS_Product
<1>2. IsFiniteSet(rtp)
  BY <1>1, FS_Subset DEF TypeInv, CountsTyped
<1>3. Cardinality(rtp) \in Nat /\ Cardinality({}) = 0
  BY <1>2, FS_CardinalityType, FS_EmptySet
<1>4. ASSUME NEW packet \in rtp
      PROVE  /\ Cardinality(rtp \ {packet}) \in Nat
             /\ Cardinality(rtp \ {packet}) + 1 = Cardinality(rtp)
  <2>1. /\ IsFiniteSet(rtp \ {packet})
        /\ Cardinality(rtp \ {packet}) = Cardinality(rtp) - 1
    BY <1>2, FS_RemoveElement
  <2>2. Cardinality(rtp \ {packet}) \in Nat
    BY <2>1, FS_CardinalityType
  <2>3. QED
    BY <1>3, <2>1, <2>2
<1>5. ASSUME NEW packet
      PROVE  /\ Cardinality(rtp \cup {packet}) \in Nat
             /\ Cardinality(rtp \cup {packet}) <= Cardinality(rtp) + 1
  <2>1. /\ IsFiniteSet(rtp \cup {packet})
        /\ Cardinality(rtp \cup {packet}) =
               IF packet \in rtp THEN Cardinality(rtp) ELSE Cardinality(rtp) + 1
    BY <1>2, FS_AddElement
  <2>2. QED
    BY <1>3, <2>1
<1>6. QED
  BY <1>3, <1>4, <1>5

-----------------------------------------------------------------------------
(* Steps that leave the playbacks alone *)

LEMMA MicKeepsTurns ==
    TakeTurns /\ HeldInv /\ (MicSteps \/ MicPress \/ MicSendsRtp \/ MicRelease) => TurnsInv'
<1> SUFFICES ASSUME TakeTurns, HeldInv, MicSteps \/ MicPress \/ MicSendsRtp \/ MicRelease
             PROVE  TurnsInv'
  OBVIOUS
<1> USE DEF HeldInv, TurnsInv, ReplayInv, PressInv, callVars
<1>0. /\ Cardinality(rtp) \in Nat /\ count \in Nat /\ sent \in Nat /\ Limit \in Nat
      /\ toRadio \in {<<>>, <<"down">>, <<"down", "up">>, <<"up">>}
  BY PacketsFinite, AudioAssumption DEF TypeInv, CountsTyped, AudioAssumption, PressOrder
<1>1. CallInv'
  <2>1. UNCHANGED <<link, session, task, callVars>>
    BY DEF MicSteps, TailSent, MicReads, GateCloses, MicPress, MicSendsRtp, MicRelease, wireVars
  <2>2. QED
    BY <2>1, CallKept
<1>2. CASE TailSent
  <2>1. QuietInv' /\ WayInv'
    BY <1>2, QuietKept, WayKept DEF TailSent, wireVars
  <2>2. CaptureInv'
    BY <1>0, <1>2 DEF TailSent, wireVars, captureVars, parrotVars, CaptureInv, StreamOrder,
                      Idle, At, Asked, Taken, Unread
  <2>3. QED
    BY <1>1, <2>1, <2>2
<1>3. CASE MicReads
  <2>1. QuietInv'
    BY <1>3, QuietKept DEF MicReads, wireVars
  <2>2. CaptureInv'
    BY <1>3 DEF MicReads, wireVars, captureVars, parrotVars, CaptureInv,
                Idle, At, Asked, Taken, Unread
  <2>3. NoTx => Head(toMic) # "tx"
    BY <1>3, ReadNoTx DEF MicReads, TypeInv, FramesTyped
  <2>4. WayInv'
    <3>1. Unread \/ reader = "answering" => txOn' = txOn
      BY <1>3, <2>3 DEF MicReads, StreamOrder, TypeInv, FlagsTyped
    <3>2. QED
      BY <1>3, <3>1 DEF MicReads, wireVars, WayInv, At, Holds, Opened, Reaches, Unread
  <2>5. QED
    BY <1>1, <2>1, <2>2, <2>4
<1>4. CASE GateCloses
  <2>1. QuietInv' /\ WayInv'
    BY <1>4 DEF GateCloses, wireVars, QuietInv, WayInv, Idle, At, Holds, Opened, Reaches, Unread
  <2>2. CaptureInv'
    BY <1>4 DEF GateCloses, wireVars, captureVars, parrotVars, CaptureInv,
                Idle, At, Asked, Taken, Unread
  <2>3. QED
    BY <1>1, <2>1, <2>2
<1>5. CASE MicPress
  <2>1. toRadio' = <<"down">> /\ \A t \in Tasks : Idle(t)
    BY <1>5, PressFrames DEF MicPress, TakeTurns, Idle
  <2>2. Unread' /\ txOn' = FALSE /\ ~Taken'
    BY <1>5, <2>1 DEF MicPress, Unread, Taken
  <2>3. QuietInv'
    BY <1>5, <2>1 DEF MicPress, QuietInv, Idle, At
  <2>4. CaptureInv'
    BY <1>5, <2>2 DEF MicPress, captureVars, parrotVars, CaptureInv, Idle, At, Asked
  <2>5. WayInv'
    BY <1>5, <2>2 DEF MicPress, WayInv, At, Holds, Opened, Reaches
  <2>6. QED
    BY <1>1, <2>3, <2>4, <2>5
<1>6. CASE MicSendsRtp
  <2>1. QuietInv' /\ WayInv'
    BY <1>6, QuietKept, WayKept DEF MicSendsRtp
  <2>2. CaptureInv'
    <3>1. Cardinality(rtp') \in Nat /\ Cardinality(rtp') <= Cardinality(rtp) + 1
      BY <1>6, PacketsFinite DEF MicSendsRtp
    <3>2. capturing => sent' = sent + 1 /\ sent' < Limit
      BY <1>6 DEF MicSendsRtp, TakeTurns, CaptureOfPress
    <3>3. QED
      BY <1>0, <1>6, <3>1, <3>2 DEF MicSendsRtp, captureVars, parrotVars, CaptureInv,
                                   Idle, At, Asked, Taken, Unread
  <2>3. QED
    BY <1>1, <2>1, <2>2
<1>7. CASE MicRelease
  <2>1. toRadio' \in {<<"up">>, <<"down", "up">>} /\ (Unread' <=> Unread) /\ ptt' = "wait"
    BY <1>0, <1>7, PressFrames DEF MicRelease, PressOrder, Unread
  <2>2. QuietInv'
    BY <1>7 DEF MicRelease, QuietInv, Idle, At
  <2>3. CaptureInv'
    BY <1>0, <1>7, <2>1 DEF MicRelease, captureVars, parrotVars, CaptureInv,
                            Idle, At, Asked, Taken
  <2>4. WayInv'
    BY <1>7, <2>1 DEF MicRelease, WayInv, At, Holds, Opened, Reaches
  <2>5. QED
    BY <1>1, <2>2, <2>3, <2>4
<1>8. QED
  BY <1>2, <1>3, <1>4, <1>5, <1>6, <1>7 DEF MicSteps

LEMMA AnswersKeepTurns ==
    HeldInv /\ (AnswerPress \/ AnswerRelease \/ TailElapsed \/ RtpArrives) => TurnsInv'
<1> SUFFICES ASSUME HeldInv, AnswerPress \/ AnswerRelease \/ TailElapsed \/ RtpArrives
             PROVE  TurnsInv'
  OBVIOUS
<1> USE DEF HeldInv, TurnsInv, ReplayInv, PressInv, callVars
<1>0. /\ Cardinality(rtp) \in Nat /\ count \in Nat /\ sent \in Nat /\ Limit \in Nat
      /\ toRadio \in {<<>>, <<"down">>, <<"down", "up">>, <<"up">>}
  BY PacketsFinite, AudioAssumption DEF TypeInv, CountsTyped, AudioAssumption, PressOrder
<1>1. CallInv'
  <2>1. UNCHANGED <<link, session, task, callVars>>
    BY DEF AnswerPress, AnswerRelease, TailElapsed, RtpArrives, wireVars
  <2>2. QED
    BY <2>1, CallKept
<1>2. CASE AnswerPress
  <2>1. QuietInv'
    BY <1>2 DEF AnswerPress, wireVars, micVars, QuietInv, Idle, At
  <2>2. CaptureInv'
    BY <1>2 DEF AnswerPress, wireVars, micVars, captureVars, parrotVars, CaptureInv,
                Idle, At, Asked, Taken, Unread
  <2>3. WayInv'
    <3>1. \A t \in Tasks : ~Holds(t)
      BY <1>2, IdleLetsGo DEF AnswerPress, QuietInv
    <3>2. ~Unread /\ path' = "tx" /\ link = "up"
      BY <1>0, <1>2, PressFrames DEF AnswerPress, Tell, PressOrder, Unread, LinkEnds
    <3>3. QED
      BY <1>2, <3>1, <3>2 DEF AnswerPress, wireVars, micVars, WayInv, At, Holds, Opened,
                              Reaches, Unread
  <2>4. QED
    BY <1>1, <2>1, <2>2, <2>3
<1>3. CASE AnswerRelease
  <2>1. QuietInv'
    BY <1>3 DEF AnswerRelease, wireVars, micVars, QuietInv, Idle, At
  <2>2. CaptureInv'
    BY <1>3 DEF AnswerRelease, wireVars, micVars, captureVars, parrotVars, CaptureInv,
                Idle, At, Asked, Taken, Unread
  <2>3. WayInv'
    <3>1. \A t \in Tasks : ~Holds(t)
      BY <1>3, IdleLetsGo DEF AnswerRelease, CaptureInv
    <3>2. ptt # "down" /\ path' = "closed"
      BY <1>0, <1>3, PressFrames DEF AnswerRelease, Tell, PressOrder
    <3>3. QED
      BY <1>3, <3>1, <3>2 DEF AnswerRelease, wireVars, micVars, WayInv, At, Holds, Opened,
                              Reaches
  <2>4. QED
    BY <1>1, <2>1, <2>2, <2>3
<1>4. CASE TailElapsed
  <2>1. QuietInv' /\ WayInv'
    BY <1>4, QuietKept, WayKept DEF TailElapsed, wireVars, micVars
  <2>2. CaptureInv'
    BY <1>4 DEF TailElapsed, Finish, wireVars, micVars, parrotVars, CaptureInv, TimerInv,
                TimerAfterRelease, Idle, At, Asked, Taken, Unread
  <2>3. QED
    BY <1>1, <2>1, <2>2
<1>5. CASE RtpArrives
  <2>1. QuietInv' /\ WayInv'
    BY <1>5, QuietKept, WayKept DEF RtpArrives, micVars
  <2>2. CaptureInv'
    <3>1. PICK packet \in rtp :
              /\ rtp' = rtp \ {packet}
              /\ \/ UNCHANGED captureVars
                 \/ /\ recording /\ count' = count + 1
                    /\ IF count' >= Limit THEN Finish ELSE UNCHANGED <<recording, active, timer>>
      BY <1>5 DEF RtpArrives
    <3>2. Cardinality(rtp') \in Nat /\ Cardinality(rtp') + 1 = Cardinality(rtp)
      BY <3>1, PacketsFinite
    <3>3. CASE UNCHANGED captureVars
      BY <1>0, <1>5, <3>2, <3>3 DEF RtpArrives, micVars, captureVars, CaptureInv,
                                    Idle, At, Asked, Taken, Unread
    <3>4. CASE recording /\ count' = count + 1
               /\ IF count' >= Limit THEN Finish ELSE UNCHANGED <<recording, active, timer>>
      <4>1. Taken
        BY <3>1, <3>4 DEF LinkEnds, StreamOrder, Taken
      <4>2. /\ capturing' = capturing /\ parrot' = parrot /\ Taken' = Taken
            /\ UNCHANGED <<stream, ptt, sent, reader, task>>
        BY <1>5 DEF RtpArrives, micVars, Taken, Unread
      <4>3. CASE capturing
        <5>1. count' < Limit /\ ~(count' >= Limit)
          BY <1>0, <3>2, <3>4, <4>1, <4>3 DEF CaptureInv
        <5>2. UNCHANGED <<recording, active>>
          BY Zenon, <3>4, <5>1
        <5>3. QED
          BY <1>0, <3>2, <3>4, <4>2, <5>2 DEF CaptureInv, Idle, At, Asked
      <4>4. CASE ~capturing
        BY <4>2, <4>4 DEF CaptureInv, Idle, At, Asked
      <4>5. QED
        BY <4>3, <4>4
    <3>5. QED
      BY <3>1, <3>3, <3>4
  <2>3. QED
    BY <1>1, <2>1, <2>2
<1>6. QED
  BY <1>2, <1>3, <1>4, <1>5

LEMMA LinkKeepsTurns == HeldInv /\ (LinkLost \/ Reconnect) => TurnsInv'
<1> SUFFICES ASSUME HeldInv, LinkLost \/ Reconnect PROVE TurnsInv'
  OBVIOUS
<1> USE DEF HeldInv, TurnsInv, ReplayInv, PressInv, callVars
<1>1. CASE LinkLost
  <2>1. /\ link' = "lost" /\ toRadio' = <<>> /\ ptt' = "up" /\ reader' = "read"
        /\ path' = "closed" /\ UNCHANGED <<session, task, callVars>>
    BY <1>1 DEF LinkLost
  <2>2. QuietInv'
    BY <2>1 DEF QuietInv
  <2>3. CaptureInv'
    BY <1>1, <2>1 DEF LinkLost, parrotVars, CaptureInv, At, Asked, Taken
  <2>4. CallInv'
    BY <2>1 DEF CallInv, Behind, At, Asked
  <2>5. WayInv'
    BY <2>1 DEF WayInv, Holds, Reaches
  <2>6. QED
    BY <2>2, <2>3, <2>4, <2>5
<1>2. CASE Reconnect
  <2>1. /\ link = "down" /\ link' = "up" /\ session' = session + 1
        /\ UNCHANGED <<toRadio, ptt, reader, path, txOn, task, callVars>>
        /\ \A t \in Tasks : At(t) \notin {"start", "opening", "closing"}
        /\ ~capturing /\ ptt = "up"
    BY <1>2 DEF Reconnect, micVars, CaptureOfPress, LinkEnds
  <2>2. \A t \in Tasks : ~Holds(t)'
    BY <2>1 DEF TypeInv, TasksTyped, CountsTyped, Playbacks, Holds, Reaches
  <2>3. QuietInv'
    BY <2>1, QuietKept
  <2>4. CaptureInv'
    BY <1>2, <2>1 DEF Reconnect, captureVars, parrotVars, CaptureInv, Idle, At, Asked
  <2>5. CallInv'
    <3>1. Parrot \in Tasks /\ Files \subseteq Tasks
      BY DEF Tasks
    <3>2. QED
      BY <2>1, <3>1 DEF CallInv, Behind, At, Asked
  <2>6. WayInv'
    BY <2>1, <2>2 DEF WayInv, At
  <2>7. QED
    BY <2>3, <2>4, <2>5, <2>6
<1>3. QED
  BY <1>1, <1>2

-----------------------------------------------------------------------------
(* Steps of the radio that cancel a playback or have one wait *)

LEMMA TaskNames ==
    /\ Parrot \in Tasks /\ Parrot \notin Files /\ None \notin Files
    /\ \A t \in Tasks : t = Parrot \/ t \in Files
    /\ \A f \in Files : f \in Tasks /\ f # Parrot
BY AudioAssumption DEF AudioAssumption, Tasks

\* A press stops a replay before it captures anew.
LEMMA PressKeepsTurns == HeldInv /\ RadioReadsDown => TurnsInv'
<1> SUFFICES ASSUME HeldInv, RadioReadsDown PROVE TurnsInv'
  OBVIOUS
<1> USE TaskNames DEF HeldInv, TurnsInv, ReplayInv, PressInv, callVars
<1>1. /\ link = "up" /\ link' = "up" /\ session' = session /\ UNCHANGED <<fpc, owner>>
      /\ reader' = "answering" /\ UNCHANGED <<ptt, stream, sent, txOn, path, rtp, parrot>>
      /\ count' = 0 /\ recording' = TRUE
  BY DEF RadioReadsDown, StartRecording, micVars
<1>2. Unread /\ ~Unread' /\ toRadio # <<>> /\ rtp = {} /\ sent = 0
  BY PressFrames DEF RadioReadsDown, PressOrder, StreamOrder, Unread
<1>3. \A t \in Tasks : Idle(t)
  BY <1>2 DEF QuietInv
<1>4. /\ \A f \in Files : At(f) = "done" /\ task'[f] = task[f]
      /\ task'[Parrot].at = At(Parrot) /\ task'[Parrot].writer = task[Parrot].writer
      /\ \/ At(Parrot) = "done" /\ task'[Parrot].cancel = task[Parrot].cancel
         \/ At(Parrot) = "waiting" /\ task'[Parrot].cancel = "asked"
         \/ At(Parrot) = "waiting" /\ ~parrot /\ task'[Parrot].cancel = task[Parrot].cancel
  <2>1. \A f \in Files : At(f) = "done"
    BY <1>3 DEF Idle, CallInv
  <2>2. At(Parrot) \in {"done", "waiting"}
    BY <1>3 DEF Idle
  <2>3. CASE parrot
    <3>1. Cancel(Parrot)
      BY <2>3 DEF RadioReadsDown, BeginCapture
    <3>2. /\ \A f \in Files : task'[f] = task[f]
          /\ At(Parrot) = "done" => task'[Parrot] = task[Parrot]
          /\ At(Parrot) # "done" => /\ task'[Parrot].at = At(Parrot)
                                    /\ task'[Parrot].writer = task[Parrot].writer
                                    /\ task'[Parrot].cancel = "asked"
      BY <3>1, CancelAsks DEF TypeInv, TasksTyped, Others
    <3>3. QED
      BY <2>1, <2>2, <3>2 DEF At
  <2>4. CASE ~parrot
    <3>1. UNCHANGED task
      BY <2>4 DEF RadioReadsDown, BeginCapture
    <3>2. QED
      BY <2>1, <2>2, <2>4, <3>1 DEF At
  <2>5. QED
    BY <2>3, <2>4
<1>5. QuietInv'
  BY <1>3, <1>4 DEF QuietInv, Idle, At
<1>6. CaptureInv'
  <2>1. At(Parrot)' = "waiting" => Asked(Parrot)'
    BY <1>4 DEF CaptureInv, CaptureOfPress, At, Asked
  <2>2. count' + Cardinality(rtp') = 0 /\ Limit \in Nat \ {0}
    BY <1>1, <1>2, PacketsFinite, AudioAssumption DEF AudioAssumption
  <2>3. QED
    BY <1>1, <1>2, <2>1, <2>2 DEF CaptureInv
<1>7. CallInv'
  <2>1. \A f \in Files : At(f)' = "done"
    BY <1>4 DEF At
  <2>2. QED
    BY <1>1, <1>4, <2>1 DEF CallInv, At, Asked, Reaches
<1>8. WayInv'
  <2>1. \A t \in Tasks : ~Holds(t) /\ At(t) # "start" /\ ~Holds(t)' /\ At(t)' # "start"
    BY <1>3, <1>4, IdleLetsGo DEF Idle, At, Holds, Opened
  <2>2. QED
    BY <1>1, <1>2, <2>1 DEF WayInv
<1>9. QED
  BY <1>5, <1>6, <1>7, <1>8

\* The release of a captured press finds its recording going on.
LEMMA ReleaseKeepsTurns == HeldInv /\ RadioReadsUp => TurnsInv'
<1> SUFFICES ASSUME HeldInv, RadioReadsUp PROVE TurnsInv'
  OBVIOUS
<1> USE TaskNames DEF HeldInv, TurnsInv, ReplayInv, PressInv, callVars
<1>1. /\ link = "up" /\ link' = "up" /\ session' = session /\ UNCHANGED <<fpc, owner>>
      /\ UNCHANGED <<ptt, stream, sent, txOn, path, rtp, parrot, capturing, count, recording>>
      /\ active => active' = FALSE
  BY DEF RadioReadsUp, micVars, parrotVars
<1>2. toRadio = <<"up">> /\ toRadio' = <<>> /\ ptt # "down" /\ active
  BY PressFrames DEF RadioReadsUp, PressOrder
<1>3. Taken /\ ~Unread /\ ~Unread' /\ Taken' /\ toRadio # <<>>
  BY <1>1, <1>2, PressFrames DEF Taken, Unread
<1>4. \A t \in Tasks : Idle(t)
  BY <1>3 DEF QuietInv
<1>5. /\ \A f \in Files : At(f) = "done" /\ task'[f] = task[f]
      /\ \/ UNCHANGED task /\ ~(parrot /\ capturing)
         \/ /\ parrot /\ capturing /\ task'[Parrot].at = "waiting"
            /\ task'[Parrot].cancel = "no"
  BY <1>4, ReplayWaits DEF Idle, CallInv, TypeInv, TasksTyped, Others
<1>6. \A t \in Tasks : Idle(t)'
  BY <1>4, <1>5 DEF Idle, At
<1>7. QuietInv'
  BY <1>6 DEF QuietInv
<1>8. CaptureInv'
  <2>1. At(Parrot)' = "waiting" /\ ~Asked(Parrot)' => parrot /\ capturing
    BY <1>5 DEF CaptureInv, At, Asked
  <2>2. capturing => recording
    BY <1>2, <1>3 DEF CaptureInv
  <2>3. QED
    BY <1>1, <1>2, <1>3, <1>6, <2>1, <2>2 DEF CaptureInv
<1>9. CallInv'
  <2>1. \A f \in Files : At(f)' = "done"
    BY <1>5 DEF At
  <2>2. QED
    BY <1>1, <1>5, <2>1 DEF CallInv, At, Asked, Reaches
<1>10. WayInv'
  <2>1. \A t \in Tasks : ~Holds(t) /\ At(t) # "start" /\ ~Holds(t)' /\ At(t)' # "start"
    BY <1>4, <1>6 DEF Idle, At, Holds, Opened
  <2>2. QED
    BY <1>1, <1>2, <2>1 DEF WayInv
<1>11. QED
  BY <1>7, <1>8, <1>9, <1>10

\* Parrot mode is turned on or off, or its session is gone: whatever waits is cancelled.
LEMMA ToggleKeepsTurns == TakeTurns /\ HeldInv /\ (SetParrot \/ Disconnected) => TurnsInv'
<1> SUFFICES ASSUME TakeTurns, HeldInv, SetParrot \/ Disconnected PROVE TurnsInv'
  OBVIOUS
<1> USE TaskNames DEF HeldInv, TurnsInv, ReplayInv, PressInv, callVars
<1>1. /\ UNCHANGED <<session, toRadio, ptt, stream, sent, txOn, path, reader, fpc, owner>>
      /\ UNCHANGED <<rtp, count, recording, active>>
      /\ capturing' = FALSE /\ Cancel(Parrot)
      /\ \/ link' = link /\ At(Parrot) \notin {"start", "opening", "closing"}
         \/ link = "lost" /\ link' = "down"
  BY DEF SetParrot, Disconnected, wireVars, micVars, captureVars, Stoppable, TakeTurns
<1>2. /\ \A f \in Files : task'[f] = task[f]
      /\ task'[Parrot].at = At(Parrot) /\ task'[Parrot].writer = task[Parrot].writer
      /\ At(Parrot) = "done" => task'[Parrot].cancel = task[Parrot].cancel
      /\ At(Parrot) # "done" => task'[Parrot].cancel = "asked"
  BY <1>1, CancelAsks DEF TypeInv, TasksTyped, Others, At
<1>3. \A t \in Tasks : At(t)' = At(t) /\ task'[t].writer = task[t].writer
  BY <1>2 DEF At
<1>4. QuietInv'
  BY <1>1, <1>3 DEF QuietInv, Idle
<1>5. CaptureInv'
  <2>1. At(Parrot)' = "waiting" => Asked(Parrot)'
    BY <1>2, <1>3 DEF Asked
  <2>2. QED
    BY <1>1, <1>3, <2>1 DEF CaptureInv, Idle
<1>6. CallInv'
  <2>1. \A f \in Files : task'[f] = task[f] /\ (Asked(f)' <=> Asked(f))
    BY <1>2 DEF Asked
  <2>2. link' = "up" => link = "up" /\ \A t \in Tasks : Reaches(t)' <=> Reaches(t)
    BY <1>1, <1>3 DEF Reaches
  <2>3. link' = "up" => \A f \in Files : Carries(f)' <=> Carries(f)
    BY <1>3, <2>1, <2>2 DEF Carries
  <2>4. \A f, g \in Files : Behind(f, g) => Behind(f, g)'
    BY <1>1, <1>3, <2>1, <2>2 DEF Behind
  <2>5. QED
    BY <1>1, <1>2, <1>3, <2>1, <2>2, <2>3, <2>4 DEF CallInv, Asked
<1>7. WayInv'
  BY <1>1, <1>3 DEF WayInv, Holds, Opened, Reaches, Unread
<1>8. QED
  BY <1>4, <1>5, <1>6, <1>7

LEMMA StopKeepsTurns == TakeTurns /\ HeldInv /\ StopFile => TurnsInv'
<1> SUFFICES ASSUME TakeTurns, HeldInv, StopFile PROVE TurnsInv'
  OBVIOUS
<1> USE TaskNames DEF HeldInv, TurnsInv, ReplayInv, PressInv
<1>1. /\ UNCHANGED <<wireVars, micVars, path, reader, captureVars, parrotVars, callVars>>
      /\ owner \in Files /\ At(owner) = "sending" /\ Cancel(owner) /\ NoneSubmitted
  <2>1. owner \in Files /\ Cancel(owner)
    BY DEF StopFile, TypeInv, CallsTyped
  <2>2. At(owner) \in Places
    BY <2>1 DEF TypeInv, TasksTyped, Playbacks, At
  <2>3. At(owner) = "sending"
    BY <2>1, <2>2 DEF StopFile, FutureDone, Stoppable, TakeTurns, Places, CallInv
  <2>4. QED
    BY <2>1, <2>3 DEF StopFile, TakeTurns
<1>2. /\ \A t \in Tasks \ {owner} : task'[t] = task[t]
      /\ task'[owner].at = "sending" /\ task'[owner].writer = task[owner].writer
      /\ task'[owner].cancel = "asked"
  BY <1>1, CancelAsks DEF TypeInv, TasksTyped, Others, At
<1>3. \A t \in Tasks : At(t)' = At(t) /\ task'[t].writer = task[t].writer
  BY <1>1, <1>2 DEF At
<1>4. QuietInv'
  BY <1>1, <1>3 DEF QuietInv, Idle, wireVars, micVars
<1>5. CaptureInv'
  <2>1. Asked(Parrot)' <=> Asked(Parrot)
    BY <1>1, <1>2 DEF Asked
  <2>2. QED
    BY <1>1, <1>3, <2>1 DEF CaptureInv, Idle, Taken, Unread, wireVars, micVars, captureVars,
                            parrotVars
<1>6. CallInv'
  <2>1. \A t \in Tasks : t # owner => task'[t].cancel = task[t].cancel
    BY <1>2
  <2>2. \A t \in Tasks : /\ Asked(t) => Asked(t)'
                         /\ Reaches(t)' <=> Reaches(t)
                         /\ t # owner => (Asked(t)' <=> Asked(t))
    BY <1>1, <1>2, <1>3 DEF Asked, Reaches, wireVars
  <2>3. ASSUME NEW f \in Files, Carries(f) PROVE Carries(f)'
    <3>1. At(f)' = At(f) /\ (Reaches(f) => Reaches(f)')
      BY <1>3, <2>2
    <3>2. f # owner => task'[f].cancel = task[f].cancel
      BY <2>1
    <3>3. QED
      BY <1>1, <2>3, <3>1, <3>2 DEF Carries
  <2>4. \A f \in Files : fpc[f] # "submitted"
    BY <1>1 DEF NoneSubmitted
  <2>5. \A f \in Files : Asked(f)' /\ At(f)' \in {"start", "opening"} => Asked(f)
    BY <1>1, <1>3, <2>2
  <2>6. ASSUME NEW f \in Files, NEW g \in Files, f # g, At(f)' \in {"sending", "closing"}
        PROVE  Behind(f, g)'
    <3>1. Behind(f, g) /\ fpc' = fpc /\ At(g)' = At(g) /\ (Asked(g) => Asked(g)')
      BY <1>1, <1>3, <2>2, <2>6 DEF CallInv, callVars
    <3>2. QED
      BY <2>4, <3>1 DEF Behind
  <2>7. owner' # None => fpc'[owner'] = "waiting"
    BY <1>1 DEF CallInv, callVars
  <2>8. /\ At(Parrot)' # "start" /\ \A f \in Files : At(f)' # "waiting"
        /\ At(Parrot)' # "done" => \A f \in Files : At(f)' = "done"
    BY <1>3 DEF CallInv
  <2>9. \A f \in Files : /\ At(f)' # "done" /\ task'[f].cancel = "no" /\ fpc'[f] # "submitted"
                                => owner' = f
                         /\ fpc'[f] # "submitted"
    BY <1>1, <1>3, <2>1, <2>4 DEF CallInv, callVars
  <2>10. \A t \in Tasks : /\ At(t)' # "closing" => task'[t].cancel # "taken"
                          /\ At(t)' = "done" => task'[t].cancel = "no"
    BY <1>1, <1>2, <1>3, <2>1 DEF CallInv
  <2>11. ASSUME link' = "up"
         PROVE  /\ \A t \in Tasks : At(t)' = "opening" => Reaches(t)'
                /\ \A t \in Tasks : Asked(t)' => At(t)' # "closing"
                /\ Asked(Parrot)' => At(Parrot)' # "opening"
    BY <1>1, <1>3, <2>2, <2>11 DEF CallInv, wireVars
  <2>12. ASSUME link' = "up", NEW f \in Files, Asked(f)', At(f)' \in {"start", "opening"}
         PROVE  \E g \in Files : g # f /\ Carries(g)'
    <3>1. PICK g \in Files : g # f /\ Carries(g)
      BY <1>1, <1>3, <2>5, <2>12 DEF CallInv, wireVars
    <3>2. QED
      BY <2>3, <3>1
  <2>13. QED
    BY <2>6, <2>7, <2>8, <2>9, <2>10, <2>11, <2>12 DEF CallInv
<1>7. WayInv'
  BY <1>1, <1>3 DEF WayInv, Holds, Opened, Reaches, Unread, wireVars, micVars
<1>8. QED
  BY <1>4, <1>5, <1>6, <1>7

-----------------------------------------------------------------------------
(* Steps of the playbacks *)

LEMMA ReplayKeepsTurns == TakeTurns /\ HeldInv /\ Replay => TurnsInv'
<1> SUFFICES ASSUME TakeTurns, HeldInv, Replay PROVE TurnsInv'
  OBVIOUS
<1> USE TaskNames DEF HeldInv, TurnsInv, ReplayInv, PressInv
<1>1. /\ UNCHANGED <<wireVars, micVars, reader, captureVars, callVars>>
      /\ At(Parrot) = "waiting" /\ ~Asked(Parrot) /\ ~recording /\ capturing' = FALSE
      /\ ptt # "down" /\ toRadio = <<>> /\ reader # "answering"
      /\ Open(Parrot, Len(payloads)) /\ Len(payloads) \in Nat
  BY LenProperties DEF Replay, Runs, Asked, SpeakerFree, TakeTurns, TypeInv, FramesTyped
<1>2. reader # "releasing" /\ \A f \in Files : At(f) = "done"
  BY <1>1 DEF CaptureInv, CallInv
<1>3. /\ \A f \in Files : task'[f] = task[f]
      /\ \/ /\ link = "up" /\ Tell("rx")
            /\ task'[Parrot].at = "opening" /\ task'[Parrot].writer = session
            /\ task'[Parrot].cancel = task[Parrot].cancel
         \/ /\ task'[Parrot] = Done
            /\ UNCHANGED path
  BY <1>1, OpenBegins DEF TypeInv, TasksTyped, CountsTyped, Others
<1>4. \A f \in Files : At(f)' = "done"
  BY <1>2, <1>3 DEF At
<1>5. QuietInv'
  BY <1>1 DEF QuietInv, wireVars, micVars
<1>6. CaptureInv'
  BY <1>1, <1>2, <1>3 DEF CaptureInv, At, Done
<1>7. CallInv'
  <2>1. task[Parrot].cancel = "no"
    BY <1>1 DEF CallInv, Asked, TypeInv, TasksTyped, Playbacks, Cancels
  <2>2. QED
    BY <1>1, <1>3, <1>4, <2>1 DEF CallInv, At, Asked, Reaches, Done, wireVars, callVars
<1>8. WayInv'
  <2>1. \A f \in Files : ~Holds(f) /\ At(f) # "start" /\ ~Holds(f)' /\ At(f)' # "start"
    BY <1>2, <1>4 DEF Holds, Opened
  <2>2. ~Holds(Parrot) /\ At(Parrot) # "start"
    BY <1>1 DEF Holds, Opened
  <2>3. CASE link = "up" /\ Tell("rx") /\ task'[Parrot].at = "opening"
             /\ task'[Parrot].writer = session
    <3>1. Holds(Parrot)' /\ path' = "rx"
      BY <1>1, <2>3 DEF Holds, Opened, Reaches, At, Tell, wireVars
    <3>2. QED
      BY <1>1, <2>3, <3>1 DEF WayInv, wireVars, micVars
  <2>4. CASE task'[Parrot] = Done /\ UNCHANGED path
    <3>1. ~Holds(Parrot)' /\ At(Parrot)' # "start"
      BY <2>4 DEF Holds, Opened, At, Done
    <3>2. QED
      BY <1>1, <2>1, <2>2, <2>4, <3>1 DEF WayInv, wireVars, micVars
  <2>5. QED
    BY <1>3, <2>3, <2>4
<1>9. QED
  BY <1>5, <1>6, <1>7, <1>8

LEMMA PlayKeepsTurns ==
    ASSUME TakeTurns, HeldInv, NEW t \in Tasks, PlaySteps(t) PROVE TurnsInv'
<1> USE TaskNames DEF HeldInv, TurnsInv, ReplayInv, PressInv
<1>1. /\ UNCHANGED <<wireVars, micVars, reader, captureVars, parrotVars, callVars>>
      /\ \A u \in Tasks : ~Asked(u)
      /\ At(t) \in {"opening", "sending", "closing"}
  BY DEF PlaySteps, Asked
<1>2. /\ \A u \in Tasks : u # t => task'[u] = task[u]
      /\ \/ /\ At(t) = "opening" /\ Reaches(t) /\ task'[t].at = "sending"
            /\ NoneSubmitted
            /\ UNCHANGED path
         \/ At(t) = "opening" /\ ~Reaches(t) /\ task'[t] = Done /\ UNCHANGED path
         \/ At(t) = "sending" /\ task'[t].at \in {"sending", "closing"} /\ UNCHANGED path
         \/ /\ At(t) = "closing" /\ task'[t] = Done /\ NoneSubmitted
            /\ \/ Reaches(t) /\ path' = "closed"
               \/ ~Reaches(t) /\ UNCHANGED path
      /\ task'[t] # Done => /\ task'[t].writer = task[t].writer
                            /\ task'[t].cancel = task[t].cancel
  BY PlayGoes DEF TypeInv, TasksTyped, Others, Tell, TakeTurns
<1>3. ptt # "down" /\ toRadio = <<>> /\ reader = "read"
  BY <1>1 DEF QuietInv, CaptureInv, Idle, TypeInv, CountsTyped
<1>4. QuietInv'
  BY <1>1, <1>3 DEF QuietInv, wireVars, micVars
<1>5. CaptureInv'
  <2>1. At(Parrot)' = "waiting" => At(Parrot) = "waiting" /\ task'[Parrot] = task[Parrot]
    BY <1>1, <1>2 DEF At, Done
  <2>2. QED
    BY <1>1, <1>3, <2>1 DEF CaptureInv, Asked, Taken, Unread, wireVars, micVars, captureVars,
                            parrotVars
\* Nothing is about to be cancelled: where no caller has yet to look at the lock either,
\* a file that goes on is the only one.
<1>5a. ASSUME NoneSubmitted, t \in Files
       PROVE  \A f \in Files : f # t => At(f) = "done"
  <2> SUFFICES ASSUME NEW f \in Files, f # t, At(f) # "done" PROVE FALSE
    OBVIOUS
  <2>1. fpc[f] # "submitted" /\ fpc[t] # "submitted" /\ ~Asked(f) /\ ~Asked(t)
    BY <1>1, <1>5a DEF NoneSubmitted
  <2>2. At(f) \notin {"sending", "closing"} /\ At(t) \notin {"sending", "closing"}
    BY <1>1, <1>5a, <2>1 DEF CallInv, Behind
  <2>3. task[f].cancel = "no" /\ task[t].cancel = "no"
    BY <1>5a, <2>1, <2>2 DEF CallInv, Asked, TypeInv, TasksTyped, Playbacks, Cancels
  <2>4. QED
    BY <1>1, <1>5a, <2>1, <2>3 DEF CallInv
<1>6. CallInv'
  <2>1. task'[t].at \in {"sending", "closing"} \/ task'[t] = Done
    BY <1>2
  <2>2. At(Parrot)' # "start" /\ \A f \in Files : At(f)' # "waiting"
    BY <1>2, <2>1 DEF CallInv, At, Done
  <2>3. At(Parrot)' # "done" => \A f \in Files : At(f)' = "done"
    BY <1>1, <1>2, <2>1 DEF CallInv, At, Done
  <2>4. owner' # None => fpc'[owner'] = "waiting"
    BY <1>1 DEF CallInv, callVars
  <2>5. \A f \in Files : At(f)' # "done" /\ task'[f].cancel = "no" /\ fpc'[f] # "submitted"
                             => owner' = f
    BY <1>1, <1>2 DEF CallInv, callVars, At, Done
  <2>6. \A f \in Files : fpc'[f] = "submitted"
                             => At(f)' \in {"start", "opening", "done"} /\ task'[f].cancel = "no"
    BY <1>1, <1>2 DEF CallInv, NoneSubmitted, callVars, At, Done
  <2>7. ASSUME NEW f \in Files, NEW g \in Files, f # g, At(f)' \in {"sending", "closing"}
        PROVE  Behind(f, g)'
    <3>1. CASE NoneSubmitted /\ t \in {f, g}
      BY <1>1, <1>2, <1>5a, <2>7, <3>1 DEF Behind, NoneSubmitted, callVars, At, Done
    <3>2. CASE t \notin {f, g}
      BY <1>1, <1>2, <2>7, <3>2 DEF CallInv, Behind, callVars, wireVars, At, Asked, Reaches
    <3>3. CASE t = f /\ At(f) = "sending"
      <4>1. /\ task'[g] = task[g] /\ task'[f].writer = task[f].writer
            /\ task'[f].cancel = task[f].cancel
        BY <1>2, <2>7, <3>3 DEF At, Done
      <4>2. QED
        BY <1>1, <2>7, <3>3, <4>1 DEF CallInv, Behind, callVars, wireVars, At, Asked, Reaches
    <3>4. CASE t = f /\ At(f) # "sending"
      BY <1>2, <2>7, <3>1, <3>4 DEF At, Done
    <3>5. CASE t = g
      <4>1. At(f) \in {"sending", "closing"}
        BY <1>2, <2>7, <3>5 DEF At
      <4>2. At(g) = "opening"
        BY <1>1, <2>7, <3>5, <4>1 DEF CallInv, Behind
      <4>3. CASE task'[g] = Done
        BY <1>1, <1>2, <2>7, <3>5, <4>1, <4>2, <4>3
        DEF CallInv, Behind, callVars, wireVars, At, Done, Reaches
      <4>4. CASE task'[g] # Done
        BY <1>2, <3>1, <3>5, <4>2, <4>4
      <4>5. QED
        BY <4>3, <4>4
    <3>6. QED
      BY <3>2, <3>3, <3>4, <3>5
  <2>8. \A u \in Tasks : /\ At(u)' # "closing" => task'[u].cancel # "taken"
                         /\ At(u)' = "done" => task'[u].cancel = "no"
                         /\ ~Asked(u)'
    BY <1>1, <1>2 DEF CallInv, At, Asked, Done
  <2>9. link' = "up" => \A u \in Tasks : At(u)' = "opening" => Reaches(u)'
    BY <1>1, <1>2, <2>1 DEF CallInv, At, Reaches, Done, wireVars
  <2>10. QED
    BY <2>2, <2>3, <2>4, <2>5, <2>6, <2>7, <2>8, <2>9 DEF CallInv
<1>7. WayInv'
  <2>1. CASE At(t) = "closing" /\ Reaches(t) /\ task'[t] = Done /\ path' = "closed"
             /\ NoneSubmitted
    <3>1. \A u \in Tasks : u # t => At(u) = "done"
      BY <1>5a, <2>1 DEF CallInv
    <3>2. \A u \in Tasks : ~Holds(u)'
      BY <1>2, <2>1, <3>1 DEF Holds, Opened, At, Done
    <3>3. QED
      BY <1>1, <1>3, <2>1, <3>2 DEF WayInv, wireVars, micVars
  <2>2. CASE UNCHANGED path /\ ~Reaches(t)
    <3>1. \A u \in Tasks : (Holds(u)' <=> Holds(u)) /\ (At(u)' = "start" <=> At(u) = "start")
      BY <1>1, <1>2, <2>2 DEF Holds, Opened, Reaches, At, Done, wireVars
    <3>2. QED
      BY <1>1, <1>3, <2>2, <3>1 DEF WayInv, wireVars, micVars
  <2>3. CASE UNCHANGED path /\ Reaches(t) /\ task'[t].at \in {"sending", "closing"}
    <3>1. \A u \in Tasks : (Holds(u)' <=> Holds(u)) /\ (At(u)' = "start" <=> At(u) = "start")
      BY <1>1, <1>2, <2>3 DEF Holds, Opened, Reaches, At, Done, wireVars
    <3>2. QED
      BY <1>1, <1>3, <2>3, <3>1 DEF WayInv, wireVars, micVars
  <2>4. QED
    BY <1>2, <2>1, <2>2, <2>3
<1>8. QED
  BY <1>4, <1>5, <1>6, <1>7

LEMMA CancelKeepsTurns ==
    ASSUME HeldInv, NEW t \in Tasks, CancelTaken(t) PROVE TurnsInv'
<1> USE TaskNames DEF HeldInv, TurnsInv, ReplayInv, PressInv
<1>1. /\ UNCHANGED <<wireVars, micVars, path, reader, captureVars, parrotVars, callVars>>
      /\ Asked(t)
  BY DEF CancelTaken, Asked
<1>2. /\ \A u \in Tasks : u # t => task'[u] = task[u]
      /\ \/ /\ At(t) = "sending" /\ task'[t].at = "closing"
            /\ task'[t].writer = task[t].writer /\ task'[t].cancel = "taken"
         \/ At(t) # "sending" /\ task'[t] = Done
  BY CancelEnds DEF TypeInv, TasksTyped, Others
<1>3. QuietInv'
  BY <1>1, <1>2 DEF QuietInv, Idle, At, Done, wireVars, micVars
<1>4. CaptureInv'
  <2>1. \A u \in Tasks : Idle(u) => Idle(u)'
    BY <1>2 DEF Idle, At, Done
  <2>2. At(Parrot)' = "waiting" => At(Parrot) = "waiting" /\ task'[Parrot] = task[Parrot]
    BY <1>2 DEF At, Done
  <2>3. QED
    BY <1>1, <2>1, <2>2 DEF CaptureInv, Asked, Taken, Unread, wireVars, micVars, captureVars,
                            parrotVars
<1>5. CallInv'
  <2>1. At(Parrot)' # "start" /\ \A f \in Files : At(f)' # "waiting"
    BY <1>2 DEF CallInv, At, Done
  <2>2. At(Parrot)' # "done" => \A f \in Files : At(f)' = "done"
    BY <1>2 DEF CallInv, At, Done
  <2>3. owner' # None => fpc'[owner'] = "waiting"
    BY <1>1 DEF CallInv, callVars
  <2>4. \A f \in Files : At(f)' # "done" /\ task'[f].cancel = "no" /\ fpc'[f] # "submitted"
                             => owner' = f
    BY <1>1, <1>2 DEF CallInv, callVars, At, Done
  <2>5. \A f \in Files : fpc'[f] = "submitted"
                             => At(f)' \in {"start", "opening", "done"} /\ task'[f].cancel = "no"
    BY <1>1, <1>2 DEF CallInv, callVars, At, Asked, Done
  <2>6. ASSUME NEW f \in Files, NEW g \in Files, f # g, At(f)' \in {"sending", "closing"}
        PROVE  Behind(f, g)'
    <3>1. At(f) \in {"sending", "closing"} /\ task'[f].writer = task[f].writer
      BY <1>2, <2>6 DEF At, Done
    <3>2. fpc[g] = "submitted" => f # t /\ g # t
      BY <1>1, <2>6, <3>1 DEF CallInv, Behind, Asked
    <3>3. At(g) # "sending"
      BY <2>6, <3>1 DEF CallInv, Behind
    <3>4. g = t => At(g)' = "done"
      BY <1>2, <3>3 DEF At, Done
    <3>5. g # t => task'[g] = task[g]
      BY <1>2
    <3>6. QED
      BY <1>1, <1>2, <2>6, <3>1, <3>2, <3>4, <3>5
      DEF CallInv, Behind, callVars, wireVars, At, Asked, Reaches
  <2>7. \A u \in Tasks : /\ At(u)' # "closing" => task'[u].cancel # "taken"
                         /\ At(u)' = "done" => task'[u].cancel = "no"
    BY <1>2 DEF CallInv, At, Done
  <2>8. ASSUME link' = "up"
        PROVE  /\ \A u \in Tasks : At(u)' = "opening" => Reaches(u)'
               /\ \A u \in Tasks : Asked(u)' => At(u)' # "closing"
               /\ Asked(Parrot)' => At(Parrot)' # "opening"
    BY <1>1, <1>2, <2>8 DEF CallInv, At, Asked, Reaches, Done, wireVars
  <2>9. ASSUME link' = "up", NEW f \in Files, Asked(f)', At(f)' \in {"start", "opening"}
        PROVE  \E g \in Files : g # f /\ Carries(g)'
    <3>1. f # t /\ Asked(f) /\ At(f) \in {"start", "opening"}
      BY <1>2, <2>9 DEF At, Asked, Done
    <3>2. PICK g \in Files : g # f /\ Carries(g)
      BY <1>1, <2>9, <3>1 DEF CallInv, wireVars
    <3>3. Carries(g)'
      BY <1>1, <1>2, <2>9, <3>2 DEF Carries, CallInv, At, Asked, Reaches, wireVars
    <3>4. QED
      BY <3>2, <3>3
  <2>10. QED
    BY <2>1, <2>2, <2>3, <2>4, <2>5, <2>6, <2>7, <2>8, <2>9 DEF CallInv
<1>6. WayInv'
  <2>1. \A u \in Tasks : Holds(u)' => Holds(u)
    BY <1>1, <1>2 DEF Holds, Opened, Reaches, At, Done, wireVars
  <2>2. ASSUME path = "rx" PROVE \E u \in Tasks : At(u)' = "start" \/ Holds(u)'
    <3>1. link = "up"
      BY <2>2 DEF WayInv
    <3>2. PICK u \in Tasks : At(u) = "start" \/ Holds(u)
      BY <2>2 DEF WayInv
    <3>3. CASE u # t
      <4>1. At(u)' = "start" \/ Holds(u)'
        BY <1>1, <1>2, <3>2, <3>3 DEF Holds, Opened, Reaches, At, wireVars
      <4>2. QED
        BY <4>1
    <3>4. CASE u = t /\ At(t) = "sending"
      <4>1. Holds(t)'
        BY <1>1, <1>2, <3>2, <3>4 DEF Holds, Opened, Reaches, At, wireVars
      <4>2. QED
        BY <4>1
    <3>5. CASE u = t /\ At(t) # "sending"
      <4>1. t \in Files /\ At(t) \in {"start", "opening"}
        BY <1>1, <3>1, <3>2, <3>5 DEF Holds, Opened, CallInv
      <4>2. PICK g \in Files : g # t /\ Carries(g)
        BY <1>1, <3>1, <4>1 DEF CallInv
      <4>3. At(g) = "start" \/ Holds(g)
        BY <3>1, <4>2 DEF CallInv, Carries, Holds, Opened
      <4>4. At(g)' = "start" \/ Holds(g)'
        BY <1>1, <1>2, <4>2, <4>3 DEF Holds, Opened, Reaches, At, wireVars
      <4>5. QED
        BY <4>4
    <3>6. QED
      BY <3>3, <3>4, <3>5
  <2>3. QED
    BY <1>1, <2>1, <2>2 DEF WayInv, Unread, wireVars, micVars
<1>7. QED
  BY <1>3, <1>4, <1>5, <1>6

-----------------------------------------------------------------------------
(* Steps of the callers *)

LEMMA SubmitKeepsTurns ==
    ASSUME TakeTurns, HeldInv, NEW f \in Files, SubmitFile(f) PROVE TurnsInv'
<1> USE TaskNames DEF HeldInv, TurnsInv, ReplayInv, PressInv
<1>1. /\ UNCHANGED <<wireVars, micVars, path, reader, captureVars, parrotVars, owner>>
      /\ fpc[f] = "idle" /\ fpc' = [fpc EXCEPT ![f] = "submitted"] /\ At(f) = "done"
      /\ ptt = "up" /\ toRadio = <<>> /\ reader = "read"
      /\ At(Parrot) = "done"
      /\ \A g \in Files : Opened(g) => Reaches(g) /\ task[g].cancel = "no"
      /\ Goes(f, "start")
  BY DEF SubmitFile, TakeTurns
<1>2. /\ \A u \in Tasks : u # f => task'[u] = task[u]
      /\ task'[f].at = "start" /\ task'[f].cancel = "no"
  BY <1>1, GoesOn DEF TypeInv, TasksTyped, Others, Places, CallInv
<1>3. /\ fpc'[f] = "submitted" /\ \A g \in Files : g # f => fpc'[g] = fpc[g]
  BY <1>1 DEF TypeInv, CallsTyped
<1>4. /\ \A u \in Tasks : u # f => At(u)' = At(u)
      /\ \A u \in Tasks : u # f => (Reaches(u)' <=> Reaches(u)) /\ (Asked(u)' <=> Asked(u))
      /\ At(f)' = "start" /\ ~Asked(f)'
  BY <1>1, <1>2 DEF At, Reaches, Asked, wireVars
<1>5. QuietInv'
  BY <1>1 DEF QuietInv, wireVars, micVars
<1>6. CaptureInv'
  BY <1>1, <1>2 DEF CaptureInv, At, Asked, Taken, Unread, wireVars, micVars, captureVars,
                    parrotVars
<1>7. CallInv'
  <2>1. owner' # None => fpc'[owner'] = "waiting"
    BY <1>1, <1>3 DEF CallInv, TypeInv, CallsTyped
  <2>2. \A g \in Files :
            At(g)' # "done" /\ task'[g].cancel = "no" /\ fpc'[g] # "submitted" => owner' = g
    BY <1>1, <1>2, <1>3, <1>4 DEF CallInv
  <2>3. \A g \in Files : fpc'[g] = "submitted"
            => At(g)' \in {"start", "opening", "done"} /\ task'[g].cancel = "no"
    BY <1>2, <1>3, <1>4 DEF CallInv
  <2>4. ASSUME NEW g \in Files, NEW h \in Files, g # h, At(g)' \in {"sending", "closing"}
        PROVE  Behind(g, h)'
    <3>1. g # f /\ At(g) \in {"sending", "closing"}
      BY <1>4, <2>4
    <3>2. Reaches(g) /\ task[g].cancel = "no"
      BY <1>1, <3>1 DEF Opened
    <3>3. QED
      BY <1>2, <1>3, <1>4, <2>4, <3>1, <3>2 DEF CallInv, Behind
  <2>5. \A u \in Tasks : /\ At(u)' # "closing" => task'[u].cancel # "taken"
                         /\ At(u)' = "done" => task'[u].cancel = "no"
    BY <1>2, <1>4 DEF CallInv
  <2>6. ASSUME link' = "up"
        PROVE  /\ \A u \in Tasks : At(u)' = "opening" => Reaches(u)'
               /\ \A u \in Tasks : Asked(u)' => At(u)' # "closing"
               /\ Asked(Parrot)' => At(Parrot)' # "opening"
    BY <1>1, <1>4, <2>6 DEF CallInv, wireVars
  <2>7. ASSUME link' = "up", NEW g \in Files, Asked(g)', At(g)' \in {"start", "opening"}
        PROVE  \E h \in Files : h # g /\ Carries(h)'
    <3>1. g # f /\ Asked(g) /\ At(g) \in {"start", "opening"}
      BY <1>4, <2>7
    <3>2. PICK h \in Files : h # g /\ Carries(h)
      BY <1>1, <2>7, <3>1 DEF CallInv, wireVars
    <3>3. h # f
      BY <1>1, <3>2 DEF Carries
    <3>4. Carries(h)'
      BY <1>2, <1>4, <3>2, <3>3 DEF Carries
    <3>5. QED
      BY <3>2, <3>4
  <2>8. /\ At(Parrot)' = "done" /\ \A g \in Files : At(g)' # "waiting"
    BY <1>1, <1>4 DEF CallInv
  <2>9. QED
    BY <2>1, <2>2, <2>3, <2>4, <2>5, <2>6, <2>7, <2>8 DEF CallInv
<1>8. WayInv'
  <2>1. \A u \in Tasks : Holds(u)' => Holds(u)
    BY <1>4 DEF Holds, Opened
  <2>2. path = "rx" => At(f)' = "start"
    BY <1>4
  <2>3. QED
    BY <1>1, <2>1, <2>2 DEF WayInv, wireVars, micVars
<1>9. QED
  BY <1>5, <1>6, <1>7, <1>8

LEMMA BeginKeepsTurns ==
    ASSUME HeldInv, NEW f \in Files, FileBegins(f) PROVE TurnsInv'
<1> USE TaskNames DEF HeldInv, TurnsInv, ReplayInv, PressInv
<1>1. /\ UNCHANGED <<wireVars, micVars, reader, captureVars, parrotVars, callVars>>
      /\ At(f) = "start" /\ Open(f, 1)
  BY DEF FileBegins
<1>2. /\ \A u \in Tasks : u # f => task'[u] = task[u]
      /\ \/ /\ link = "up" /\ path' = "rx"
            /\ task'[f].at = "opening" /\ task'[f].writer = session
            /\ task'[f].cancel = task[f].cancel
         \/ link # "up" /\ task'[f] = Done /\ UNCHANGED path
  BY <1>1, OpenBegins DEF TypeInv, TasksTyped, CountsTyped, Others, Tell
<1>3. ptt # "down" /\ toRadio = <<>> /\ reader = "read" /\ At(Parrot) = "done"
  BY <1>1 DEF QuietInv, CaptureInv, CallInv, Idle, TypeInv, CountsTyped
<1>4. task[f].cancel # "taken"
  BY <1>1 DEF CallInv
<1>5. QuietInv'
  BY <1>1, <1>3 DEF QuietInv, wireVars, micVars
<1>6. CaptureInv'
  BY <1>1, <1>2, <1>3 DEF CaptureInv, At, Asked, Taken, Unread, wireVars, micVars,
                          captureVars, parrotVars
<1>7. CallInv'
  <2>1. \/ /\ link = "up" /\ At(f)' = "opening" /\ task'[f].cancel = task[f].cancel
           /\ Reaches(f)'
        \/ link # "up" /\ task'[f] = Done /\ At(f)' = "done"
    BY <1>1, <1>2 DEF At, Reaches, Done, wireVars
  <2>2. \A u \in Tasks : u # f => /\ At(u)' = At(u) /\ task'[u] = task[u]
                                  /\ (Asked(u)' <=> Asked(u)) /\ (Reaches(u)' <=> Reaches(u))
    BY <1>1, <1>2 DEF At, Asked, Reaches, wireVars
  <2>3. Asked(f)' => Asked(f) /\ link = "up" /\ At(f)' = "opening"
    BY <2>1 DEF Asked, Done
  <2>4. At(Parrot)' = "done" /\ \A g \in Files : At(g)' # "waiting"
    BY <1>3, <2>1, <2>2 DEF CallInv
  <2>5. owner' # None => fpc'[owner'] = "waiting"
    BY <1>1 DEF CallInv, callVars
  <2>6. \A g \in Files :
            At(g)' # "done" /\ task'[g].cancel = "no" /\ fpc'[g] # "submitted" => owner' = g
    BY <1>1, <2>1, <2>2 DEF CallInv, callVars
  <2>7. \A g \in Files : fpc'[g] = "submitted"
            => At(g)' \in {"start", "opening", "done"} /\ task'[g].cancel = "no"
    BY <1>1, <2>1, <2>2 DEF CallInv, callVars, Done
  <2>8. ASSUME NEW g \in Files, NEW h \in Files, g # h, At(g)' \in {"sending", "closing"}
        PROVE  Behind(g, h)'
    <3>1. g # f /\ At(g) \in {"sending", "closing"}
      BY <2>1, <2>2, <2>8
    <3>2. CASE h = f
      BY <1>1, <2>1, <2>2, <2>8, <3>1, <3>2 DEF CallInv, Behind, Asked, callVars, wireVars
    <3>3. CASE h # f
      BY <1>1, <2>2, <2>8, <3>1, <3>3 DEF CallInv, Behind, callVars, wireVars
    <3>4. QED
      BY <3>2, <3>3
  <2>9. \A u \in Tasks : /\ At(u)' # "closing" => task'[u].cancel # "taken"
                         /\ At(u)' = "done" => task'[u].cancel = "no"
    BY <1>4, <2>1, <2>2 DEF CallInv, Done
  <2>10. ASSUME link' = "up"
         PROVE  /\ \A u \in Tasks : At(u)' = "opening" => Reaches(u)'
                /\ \A u \in Tasks : Asked(u)' => At(u)' # "closing"
                /\ Asked(Parrot)' => At(Parrot)' # "opening"
    BY <1>1, <2>1, <2>2, <2>4, <2>10 DEF CallInv, wireVars
  <2>11. ASSUME link' = "up", NEW g \in Files, Asked(g)', At(g)' \in {"start", "opening"}
         PROVE  \E h \in Files : h # g /\ Carries(h)'
    <3>1. Asked(g) /\ At(g) \in {"start", "opening"}
      BY <1>1, <2>2, <2>3, <2>11
    <3>2. PICK h \in Files : h # g /\ Carries(h)
      BY <1>1, <2>11, <3>1 DEF CallInv, wireVars
    <3>3. CASE h = f
      <4>1. At(f)' = "opening" /\ task'[f].cancel = "no"
        BY <1>1, <2>1, <2>11, <3>2, <3>3 DEF Carries, wireVars
      <4>2. QED
        BY <3>2, <3>3, <4>1 DEF Carries
    <3>4. CASE h # f
      BY <2>2, <3>2, <3>4 DEF Carries
    <3>5. QED
      BY <3>3, <3>4
  <2>12. QED
    BY <2>4, <2>5, <2>6, <2>7, <2>8, <2>9, <2>10, <2>11 DEF CallInv
<1>8. WayInv'
  <2>1. CASE link = "up" /\ path' = "rx" /\ task'[f].at = "opening"
             /\ task'[f].writer = session
    <3>1. Holds(f)'
      BY <1>1, <2>1 DEF Holds, Opened, Reaches, At, wireVars
    <3>2. QED
      BY <1>1, <1>3, <2>1, <3>1 DEF WayInv, wireVars, micVars
  <2>2. CASE link # "up" /\ UNCHANGED path
    <3>1. path' = "closed" /\ \A u \in Tasks : ~Holds(u)'
      BY <1>1, <2>2 DEF WayInv, Holds, Reaches, wireVars
    <3>2. QED
      BY <1>1, <1>3, <3>1 DEF WayInv, wireVars, micVars
  <2>3. QED
    BY <1>2, <2>1, <2>2
<1>9. QED
  BY <1>5, <1>6, <1>7, <1>8

LEMMA CheckKeepsTurns ==
    ASSUME TakeTurns, HeldInv, NEW f \in Files, CheckFile(f) PROVE TurnsInv'
<1> USE TaskNames DEF HeldInv, TurnsInv, ReplayInv, PressInv
<1> DEFINE Rejected == owner # None /\ ~FutureDone(owner)
<1>1. /\ UNCHANGED <<wireVars, micVars, path, reader, captureVars, parrotVars>>
      /\ fpc[f] = "submitted"
      /\ Rejected => Cancel(f) /\ fpc' = [fpc EXCEPT ![f] = "idle"] /\ UNCHANGED owner
      /\ ~Rejected => owner' = f /\ fpc' = [fpc EXCEPT ![f] = "waiting"] /\ UNCHANGED task
  BY DEF CheckFile, TakeTurns
<1>2. /\ \A u \in Tasks : u # f => task'[u] = task[u]
      /\ task'[f].at = At(f) /\ task'[f].writer = task[f].writer
      /\ ~Rejected \/ At(f) = "done" => task'[f].cancel = task[f].cancel
      /\ Rejected /\ At(f) # "done" => task'[f].cancel = "asked"
  <2>1. CASE Rejected
    <3>1. Cancel(f)
      BY <1>1, <2>1
    <3>2. /\ \A u \in Tasks : u # f => task'[u] = task[u]
          /\ At(f) = "done" => task'[f] = task[f]
          /\ At(f) # "done" => /\ task'[f].at = At(f) /\ task'[f].writer = task[f].writer
                               /\ task'[f].cancel = "asked"
      BY <3>1, CancelAsks DEF TypeInv, TasksTyped, Others
    <3>3. QED
      BY <2>1, <3>2 DEF At
  <2>2. CASE ~Rejected
    BY <1>1, <2>2 DEF At
  <2>3. QED
    BY <2>1, <2>2
<1>3. \A g \in Files : g # f => fpc'[g] = fpc[g]
  BY <1>1 DEF TypeInv, CallsTyped
<1>4. fpc'[f] = IF Rejected THEN "idle" ELSE "waiting"
  BY <1>1 DEF TypeInv, CallsTyped
<1>5. \A u \in Tasks : At(u)' = At(u) /\ task'[u].writer = task[u].writer
  BY <1>2 DEF At
<1>6. QuietInv'
  BY <1>1, <1>5 DEF QuietInv, Idle, wireVars, micVars
<1>7. CaptureInv'
  <2>1. Asked(Parrot)' <=> Asked(Parrot)
    BY <1>2 DEF Asked
  <2>2. QED
    BY <1>1, <1>5, <2>1 DEF CaptureInv, Idle, Taken, Unread, wireVars, micVars, captureVars,
                            parrotVars
<1>8. CallInv'
  <2>1. /\ \A u \in Tasks : u # f => task'[u] = task[u] /\ (Asked(u)' <=> Asked(u))
        /\ \A u \in Tasks : Reaches(u)' <=> Reaches(u)
        /\ link' = link /\ At(f) \in {"start", "opening", "done"} /\ task[f].cancel = "no"
    BY <1>1, <1>2, <1>5 DEF Asked, Reaches, CallInv, wireVars
  \* A file that sends has passed the lock: a caller that meets it is rejected.
  <2>2. ASSUME NEW g \in Files, g # f, At(g) \in {"sending", "closing"}
        PROVE  Rejected /\ owner = g
    <3>1. task[g].cancel = "no" /\ fpc[g] # "submitted"
      BY <1>1, <2>2 DEF CallInv, Behind
    <3>2. owner = g
      BY <2>2, <3>1 DEF CallInv
    <3>3. QED
      BY <2>2, <3>1, <3>2 DEF FutureDone
  \* A caller is rejected for an owner that carries the sound.
  <2>3. Rejected => /\ owner \in Files \ {f} /\ task[owner].cancel = "no"
                    /\ link = "up" /\ At(f) # "done" => Carries(owner)
    <3> SUFFICES ASSUME Rejected
                 PROVE  /\ owner \in Files \ {f} /\ task[owner].cancel = "no"
                        /\ link = "up" /\ At(f) # "done" => Carries(owner)
      OBVIOUS
    <3>1. owner \in Files /\ owner # f
      BY <1>1 DEF TypeInv, CallsTyped, CallInv
    <3>2. At(owner) \in Places /\ At(owner) # "done" /\ task[owner].cancel = "no"
      BY <3>1 DEF FutureDone, TypeInv, TasksTyped, Playbacks, At
    <3>3. At(owner) # "waiting"
      BY <3>1 DEF CallInv
    <3>4. link = "up" /\ At(f) # "done" /\ At(owner) \in {"sending", "closing"}
              => Reaches(owner)
      BY <1>1, <3>1 DEF CallInv, Behind
    <3>5. QED
      BY <3>1, <3>2, <3>3, <3>4 DEF Places, Carries
  <2>4. owner' # None => fpc'[owner'] = "waiting"
    BY <1>1, <1>3, <1>4, <2>3 DEF CallInv
  <2>5. ASSUME NEW g \in Files, At(g)' # "done", task'[g].cancel = "no", fpc'[g] # "submitted"
        PROVE  owner' = g
    <3>1. CASE g = f
      BY <1>1, <1>2, <1>5, <2>5, <3>1
    <3>2. CASE g # f
      <4>1. At(g) # "done" /\ task[g].cancel = "no" /\ owner = g
        BY <1>2, <1>3, <1>5, <2>5, <3>2 DEF CallInv
      <4>2. Rejected
        BY <4>1 DEF FutureDone
      <4>3. QED
        BY <1>1, <4>1, <4>2
    <3>3. QED
      BY <3>1, <3>2
  <2>6. \A g \in Files : fpc'[g] = "submitted"
            => At(g)' \in {"start", "opening", "done"} /\ task'[g].cancel = "no"
    BY <1>3, <1>4, <1>5, <2>1 DEF CallInv
  <2>7. ASSUME NEW g \in Files, NEW h \in Files, g # h, At(g)' \in {"sending", "closing"}
        PROVE  Behind(g, h)'
    <3>1. At(g) \in {"sending", "closing"} /\ g # f
      BY <1>5, <2>1, <2>7
    <3>2. CASE h = f
      <4>1. At(f) # "done" => Asked(f)'
        BY <1>2, <2>2, <3>1 DEF Asked
      <4>2. QED
        BY <1>4, <1>5, <2>1, <3>2, <4>1 DEF Behind
    <3>3. CASE h # f
      BY <1>3, <1>5, <2>1, <2>7, <3>1, <3>3 DEF CallInv, Behind
    <3>4. QED
      BY <3>2, <3>3
  <2>8. \A u \in Tasks : /\ At(u)' # "closing" => task'[u].cancel # "taken"
                         /\ At(u)' = "done" => task'[u].cancel = "no"
    BY <1>2, <1>5 DEF CallInv
  <2>9. ASSUME link' = "up"
        PROVE  /\ \A u \in Tasks : At(u)' = "opening" => Reaches(u)'
               /\ \A u \in Tasks : Asked(u)' => At(u)' # "closing"
               /\ Asked(Parrot)' => At(Parrot)' # "opening"
    BY <1>5, <2>1, <2>9 DEF CallInv
  <2>10. ASSUME link' = "up", NEW g \in Files, Asked(g)', At(g)' \in {"start", "opening"}
         PROVE  \E h \in Files : h # g /\ Carries(h)'
    <3>1. CASE Rejected /\ At(f) # "done"
      <4>1. owner \in Files \ {f} /\ Carries(owner) /\ task[owner].cancel = "no"
        BY <2>1, <2>3, <2>10, <3>1
      <4>2. owner # g
        BY <2>1, <2>10, <4>1 DEF Asked
      <4>3. Carries(owner)'
        BY <1>5, <2>1, <4>1, <1>1, <3>1 DEF Carries
      <4>4. QED
        BY <4>1, <4>2, <4>3, <1>1, <3>1
    <3>2. CASE ~(Rejected /\ At(f) # "done")
      <4>1. \A u \in Tasks : task'[u].cancel = task[u].cancel
        BY <1>2, <3>2
      <4>2. PICK h \in Files : h # g /\ Carries(h)
        BY <1>5, <2>1, <2>10, <4>1 DEF CallInv, Asked
      <4>3. Carries(h)'
        BY <1>5, <2>1, <4>1, <4>2 DEF Carries
      <4>4. QED
        BY <4>2, <4>3
    <3>3. QED
      BY <3>1, <3>2
  <2>11. QED
    BY <1>5, <2>4, <2>5, <2>6, <2>7, <2>8, <2>9, <2>10 DEF CallInv
<1>9. WayInv'
  BY <1>1, <1>5 DEF WayInv, Holds, Opened, Reaches, Unread, wireVars, micVars
<1>10. QED
  BY <1>6, <1>7, <1>8, <1>9

LEMMA ReturnKeepsTurns ==
    ASSUME HeldInv, NEW f \in Files, FileReturns(f) PROVE TurnsInv'
<1> USE TaskNames DEF HeldInv, TurnsInv, ReplayInv, PressInv
<1>1. /\ UNCHANGED <<wireVars, micVars, path, reader, captureVars, parrotVars, task>>
      /\ fpc[f] = "waiting" /\ FutureDone(f)
      /\ fpc' = [fpc EXCEPT ![f] = "idle"]
      /\ owner' = IF owner = f THEN None ELSE owner
  BY DEF FileReturns
<1>2. fpc'[f] = "idle" /\ \A g \in Files : g # f => fpc'[g] = fpc[g]
  BY <1>1 DEF TypeInv, CallsTyped
<1>3. QuietInv' /\ WayInv'
  BY <1>1, QuietKept, WayKept DEF wireVars, micVars
<1>4. CaptureInv'
  BY <1>1, CaptureKept DEF wireVars, micVars, captureVars, parrotVars
<1>5. CallInv'
  <2>1. owner' # None => fpc'[owner'] = "waiting"
    BY <1>1, <1>2 DEF CallInv, TypeInv, CallsTyped
  <2>2. At(f) = "done" \/ task[f].cancel # "no"
    BY <1>1 DEF FutureDone
  <2>3. \A g \in Files : At(g) # "done" /\ task[g].cancel = "no" /\ fpc'[g] # "submitted"
                             => owner' = g
    BY <1>1, <1>2, <2>2 DEF CallInv
  <2>4. \A g \in Files : fpc'[g] = "submitted" <=> fpc[g] = "submitted"
    BY <1>1, <1>2
  <2>5. /\ \A u \in Tasks : At(u)' = At(u) /\ task'[u] = task[u] /\ (Asked(u)' <=> Asked(u))
        /\ \A u \in Tasks : Reaches(u)' <=> Reaches(u)
        /\ \A g \in Files : Carries(g)' <=> Carries(g)
        /\ link' = link
    BY <1>1 DEF At, Asked, Reaches, Carries, wireVars
  <2>6. \A g, h \in Files : Behind(g, h)' <=> Behind(g, h)
    BY <2>4, <2>5 DEF Behind
  <2>7. QED
    BY <2>1, <2>3, <2>4, <2>5, <2>6 DEF CallInv
<1>6. QED
  BY <1>3, <1>4, <1>5

-----------------------------------------------------------------------------

LEMMA TurnsStep == TakeTurns /\ HeldInv /\ [Next]_vars => HeldInv'
<1> SUFFICES ASSUME TakeTurns, HeldInv, [Next]_vars PROVE TurnsInv'
  BY PressStep, ReplayStep, TimerStep DEF HeldInv, ReplayInv
<1>1. CASE MicSteps \/ MicPress \/ MicSendsRtp \/ MicRelease
  BY <1>1, MicKeepsTurns
<1>2. CASE AnswerPress \/ AnswerRelease \/ TailElapsed \/ RtpArrives
  BY <1>2, AnswersKeepTurns
<1>3. CASE LinkLost \/ Reconnect
  BY <1>3, LinkKeepsTurns
<1>4. CASE RadioReadsDown \/ RadioReadsUp
  BY <1>4, PressKeepsTurns, ReleaseKeepsTurns
<1>5. CASE SetParrot \/ Disconnected \/ StopFile
  BY <1>5, ToggleKeepsTurns, StopKeepsTurns
<1>6. CASE Replay
  BY <1>6, ReplayKeepsTurns
<1>7. ASSUME NEW t \in Tasks, TaskSteps(t) PROVE TurnsInv'
  BY <1>7, PlayKeepsTurns, CancelKeepsTurns DEF TaskSteps
<1>8. ASSUME NEW f \in Files, FileSteps(f) PROVE TurnsInv'
  BY <1>8, SubmitKeepsTurns, BeginKeepsTurns, CheckKeepsTurns, ReturnKeepsTurns DEF FileSteps
<1>9. CASE UNCHANGED vars
  <2>1. QuietInv' /\ CallInv' /\ WayInv'
    BY <1>9, QuietKept, CallKept, WayKept DEF vars, HeldInv, TurnsInv, wireVars, micVars, callVars
  <2>2. CaptureInv'
    BY <1>9, CaptureKept DEF vars, HeldInv, TurnsInv, wireVars, micVars, captureVars, parrotVars
  <2>3. QED
    BY <2>1, <2>2 DEF TurnsInv
<1>10. QED
  BY <1>1, <1>2, <1>3, <1>4, <1>5, <1>6, <1>7, <1>8, <1>9 DEF Next, ReaderSteps, UserSteps

LEMMA HeldInit == Init => HeldInv
BY TypeInit, PressInit, ReplayInit, TimerInit, TurnsInit DEF HeldInv, ReplayInv, PressInv

\* With any number of callers, at the same time too, of replays, presses and lost
\* connections, where speaker and microphone take turns and no call comes too late:
\* a playback between its open and its close has the mic told to receive, an answered
\* press has it told to transmit, and the mic is left receiving by none, however it ends.
\* (_run_audio_action, send_interactive_audio_payloads, replay)
THEOREM PathAlwaysKept == TakeTurns /\ Spec => []PathKept
<1> SUFFICES ASSUME TakeTurns PROVE Spec => []PathKept
  OBVIOUS
<1>1. HeldInv /\ [Next]_vars => HeldInv'
  BY TurnsStep
<1>2. HeldInv => PathKept
  <2> SUFFICES ASSUME HeldInv PROVE PathKept
    OBVIOUS
  <2>1. WayInv
    BY DEF HeldInv, TurnsInv
  <2>2. ptt = "down" /\ txOn => path = "tx"
    BY <2>1 DEF WayInv
  <2>3. QED
    BY <2>1, <2>2 DEF WayInv, Holds, PathKept
<1>3. QED
  BY HeldInit, <1>1, <1>2, PTL DEF Spec

-----------------------------------------------------------------------------
(* The mic's gate follows the path *)

\* The last frame under way says what the mic was told last; no transmission follows a
\* reception without a close between, so that it finds the gate closed, or closing.
GateInv ==
    /\ toMic # <<>> => path = toMic[Len(toMic)]
    /\ \A i \in 1 .. Len(toMic) - 1 : toMic[i] = "rx" => toMic[i + 1] # "tx"
    /\ toMic # <<>> /\ toMic[1] = "tx" => ~gate \/ drain
    /\ toMic = <<>> /\ drain => path = "closed"
    /\ toMic = <<>> /\ ~drain => (gate <=> path = "rx")

FollowInv == HeldInv /\ GateInv

LEMMA GateInit == Init => GateInv
BY EmptySeq DEF Init, GateInv

LEMMA GateKept == GateInv /\ UNCHANGED <<toMic, gateVars, path>> => GateInv'
BY DEF GateInv, gateVars

\* Telling the mic to transmit is the only thing that needs the path to be let go of.
LEMMA TellFollows ==
    ASSUME GateInv, toMic \in Seq(States), NEW state \in States, Tell(state),
           UNCHANGED gateVars, state = "tx" => path # "rx"
    PROVE  GateInv'
<1>1. /\ toMic' \in Seq(States) /\ Len(toMic') = Len(toMic) + 1 /\ Len(toMic) \in Nat
      /\ toMic'[Len(toMic) + 1] = state /\ path' = state
      /\ \A i \in 1 .. Len(toMic) : toMic'[i] = toMic[i]
  BY AppendProperties, LenProperties DEF Tell
<1>2. toMic' # <<>>
  BY <1>1, EmptySeq
<1>3. CASE toMic = <<>>
  BY <1>1, <1>2, <1>3, EmptySeq DEF GateInv, gateVars
<1>4. CASE toMic # <<>>
  <2>1. Len(toMic) > 0 /\ path = toMic[Len(toMic)] /\ toMic'[1] = toMic[1]
    BY <1>1, <1>4, EmptySeq DEF GateInv
  <2>2. QED
    BY <1>1, <1>2, <1>4, <2>1 DEF GateInv, gateVars
<1>5. QED
  BY <1>3, <1>4

LEMMA PlaysFollow ==
    ASSUME FollowInv
    PROVE  /\ \A t \in Tasks : TaskSteps(t) => GateInv'
           /\ \A f \in Files : FileSteps(f) => GateInv'
           /\ Replay => GateInv'
<1> USE DEF FollowInv, HeldInv, ReplayInv, PressInv, TypeInv, TasksTyped, FramesTyped
<1>1. UNCHANGED <<toMic, gateVars, path>> => GateInv'
  BY GateKept
<1>2. ASSUME UNCHANGED gateVars, NEW state \in {"rx", "closed"}, Tell(state) PROVE GateInv'
  BY <1>2, TellFollows DEF States
<1>3. ASSUME NEW t \in Tasks, TaskSteps(t) PROVE GateInv'
  <2>1. CASE PlaySteps(t)
    <3>1. UNCHANGED gateVars
      BY <2>1 DEF PlaySteps
    <3>2. UNCHANGED <<toMic, path>> \/ Tell("closed")
      BY <2>1, PlayGoes
    <3>3. QED
      BY <1>1, <1>2, <3>1, <3>2
  <2>2. CASE CancelTaken(t)
    BY <1>1, <2>2 DEF CancelTaken
  <2>3. QED
    BY <1>3, <2>1, <2>2 DEF TaskSteps
<1>4. ASSUME NEW f \in Files, FileSteps(f) PROVE GateInv'
  <2>1. CASE FileBegins(f)
    <3>1. UNCHANGED gateVars
      BY <2>1 DEF FileBegins
    <3>2. UNCHANGED <<toMic, path>> \/ Tell("rx")
      BY <2>1, OpenBegins DEF FileBegins, Tasks, CountsTyped
    <3>3. QED
      BY <1>1, <1>2, <3>1, <3>2
  <2>2. CASE SubmitFile(f) \/ CheckFile(f) \/ FileReturns(f)
    BY <1>1, <2>2 DEF SubmitFile, CheckFile, FileReturns
  <2>3. QED
    BY <1>4, <2>1, <2>2 DEF FileSteps
<1>5. ASSUME Replay PROVE GateInv'
  <2>1. UNCHANGED gateVars
    BY <1>5 DEF Replay
  <2>2. UNCHANGED <<toMic, path>> \/ Tell("rx")
    BY <1>5, OpenBegins, LenProperties DEF Replay, Tasks, CountsTyped
  <2>3. QED
    BY <1>1, <1>2, <2>1, <2>2
<1>6. QED
  BY <1>3, <1>4, <1>5

\* The mic reads one frame: it opens its gate, begins to close it, or transmits with it
\* closed.
LEMMA ReadFollows ==
    ASSUME GateInv, toMic \in Seq(States), gate \in BOOLEAN, drain \in BOOLEAN, MicReads
    PROVE  GateInv'
<1>1. /\ toMic # <<>> /\ drain = FALSE /\ toMic' = Tail(toMic) /\ path' = path
      /\ gate' <=> (Head(toMic) = "rx" \/ gate)
      /\ drain' <=> Head(toMic) = "closed"
  BY DEF MicReads
<1>2. /\ Len(toMic) \in Nat \ {0} /\ Head(toMic) = toMic[1]
      /\ Len(toMic') = Len(toMic) - 1 /\ toMic' \in Seq(States)
      /\ \A i \in 1 .. Len(toMic') : toMic'[i] = toMic[i + 1]
  BY <1>1, HeadTailProperties, EmptySeq
<1>3. toMic[1] \in States
  BY <1>2, ElementOfSeq
<1>4. toMic[1] = "tx" => ~gate
  BY <1>1 DEF GateInv
<1>5. CASE Len(toMic) = 1
  <2>1. toMic' = <<>> /\ path = toMic[1]
    BY <1>1, <1>2, <1>5, EmptySeq DEF GateInv
  <2>2. Len(toMic') = 0
    BY <1>2, <1>5
  <2>3. QED
    BY <1>1, <1>2, <1>3, <1>4, <2>1, <2>2 DEF GateInv, States
<1>6. CASE Len(toMic) # 1
  <2>1. /\ toMic' # <<>> /\ toMic'[1] = toMic[2]
        /\ toMic'[Len(toMic')] = toMic[Len(toMic)]
    BY <1>2, <1>6, EmptySeq
  <2>2. toMic'[1] = "tx" => ~gate' \/ drain'
    <3>1. toMic[1] = "rx" => toMic[2] # "tx"
      BY <1>2, <1>6 DEF GateInv
    <3>2. QED
      BY <1>1, <1>2, <1>3, <1>4, <2>1, <3>1 DEF States
  <2>3. \A i \in 1 .. Len(toMic') - 1 : toMic'[i] = "rx" => toMic'[i + 1] # "tx"
    BY <1>2 DEF GateInv
  <2>4. QED
    BY <1>1, <2>1, <2>2, <2>3 DEF GateInv
<1>7. QED
  BY <1>5, <1>6

LEMMA GateStep == TakeTurns /\ FollowInv /\ [Next]_vars => GateInv'
<1> SUFFICES ASSUME TakeTurns, FollowInv, [Next]_vars PROVE GateInv'
  OBVIOUS
<1> USE DEF FollowInv, HeldInv, ReplayInv, PressInv, TypeInv, FramesTyped
<1>0. gate \in BOOLEAN /\ drain \in BOOLEAN
  BY DEF FlagsTyped
<1>1. CASE UNCHANGED <<toMic, gateVars, path>>
  BY <1>1, GateKept
<1>2. CASE MicReads
  BY <1>0, <1>2, ReadFollows
<1>3. CASE GateCloses
  <2>1. drain /\ drain' = FALSE /\ gate' = FALSE /\ UNCHANGED <<toMic, path>>
    BY <1>3 DEF GateCloses
  <2>2. QED
    BY <2>1 DEF GateInv
<1>4. CASE AnswerPress
  <2>1. path # "rx"
    BY <1>4, IdleLetsGo DEF AnswerPress, TurnsInv, QuietInv, WayInv
  <2>2. QED
    BY <1>4, <2>1, TellFollows DEF AnswerPress, States
<1>5. CASE AnswerRelease
  BY <1>5, TellFollows DEF AnswerRelease, States
<1>6. CASE LinkLost
  <2>1. toMic' = <<>> /\ path' = "closed" /\ gate' = FALSE /\ drain' = FALSE /\ Len(<<>>) = 0
    BY <1>6, EmptySeq DEF LinkLost
  <2>2. QED
    BY <2>1 DEF GateInv
<1>7. CASE TailSent \/ RadioReadsDown \/ RadioReadsUp \/ TailElapsed \/ RtpArrives
  BY <1>1, <1>7 DEF TailSent, RadioReadsDown, RadioReadsUp, TailElapsed, RtpArrives
<1>8. CASE MicPress \/ MicSendsRtp \/ MicRelease
  BY <1>1, <1>8 DEF MicPress, MicSendsRtp, MicRelease
<1>9. CASE SetParrot \/ StopFile \/ Disconnected \/ Reconnect
  BY <1>1, <1>9 DEF SetParrot, StopFile, Disconnected, Reconnect
<1>10. CASE Replay \/ (\E t \in Tasks : TaskSteps(t)) \/ (\E f \in Files : FileSteps(f))
  BY <1>10, PlaysFollow
<1>11. CASE UNCHANGED vars
  BY <1>1, <1>11 DEF vars
<1>12. QED
  BY <1>2, <1>3, <1>4, <1>5, <1>6, <1>7, <1>8, <1>9, <1>10, <1>11
  DEF Next, MicSteps, ReaderSteps, UserSteps

\* Once the mic has read everything and closed what it was told to close, its gate is
\* open if and only if the last frame told it to receive; everything is well typed.
\* (the audio-state branch of _verified_mic_session)
THEOREM GateAlwaysFollows == TakeTurns /\ Spec => []GateFollowsPath
<1> SUFFICES ASSUME TakeTurns PROVE Spec => []GateFollowsPath
  OBVIOUS
<1>1. Init => FollowInv
  BY HeldInit, GateInit DEF FollowInv
<1>2. FollowInv /\ [Next]_vars => FollowInv'
  BY TurnsStep, GateStep DEF FollowInv
<1>3. FollowInv /\ TypeOK => GateFollowsPath
  <2> SUFFICES ASSUME FollowInv, TypeOK, toMic = <<>>, ~drain PROVE gate = (path = "rx")
    BY DEF GateFollowsPath
  <2>1. gate \in BOOLEAN /\ (gate <=> path = "rx")
    BY DEF FollowInv, GateInv, TypeOK
  <2>2. QED
    BY <2>1
<1>4. QED
  BY <1>1, <1>2, <1>3, TypeCorrect, PTL DEF Spec
=============================================================================
