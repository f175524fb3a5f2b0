----------------------------- MODULE RadioScreen -----------------------------
(***************************************************************************)
(* What the mic's screen shows while several tasks of the radio write to it: *)
(* the startup of a stable session and the diagnostic scans it may run, the  *)
(* reader that answers keys, the delayed restore of the home screen, the     *)
(* volume overlay of the application and the application's own screens.      *)
(* The sends of one connection queue for _send_lock, which is first come,    *)
(* first served; a transaction is sent as a whole.                           *)
(***************************************************************************)
EXTENDS Naturals, Sequences

CONSTANTS
    Modes,          \* what the run allows: names of scans, "replies", "app"
    Screens,        \* screens of the application
    ModeScreen,     \* the display of the Parrot mode
    None,           \* Python's None
    MaxVolume,      \* 32
    Keys,           \* keys pressed
    Calls,          \* calls of the application
    Losses,         \* connections that are lost
    SendsFail       \* a task of the session may fail before the reader sees the end

ASSUME ScreenAssumption ==
    /\ ModeScreen \notin Screens /\ None \notin Screens \cup {ModeScreen}
    /\ "led" \notin Screens \cup {ModeScreen}
    /\ MaxVolume \in Nat \ {0} /\ Keys \in Nat /\ Calls \in Nat /\ Losses \in Nat
    /\ SendsFail \in BOOLEAN

VARIABLES
    mode,       \* how the radio was configured
    link,       \* its stable session: up, lost, down
    lost,       \* connections lost so far
    startup,    \* _stable_startup: send, queued, pause, closing, off
    step,       \* the screen it is at
    reader,     \* read, replying, or restoring: a reply that schedules a restore
    restore,    \* _restore_task: none, sleeping, queued
    overlay,    \* _volume_overlay_task: none, showing, sleeping, restoring
    caller,     \* a thread of the application: idle, submitted, queued
    request,    \* the screen its call wants to send
    lock,       \* the queue of _send_lock: who sends what
    channel, zone, volume,
    last,       \* _last_display
    special,    \* _parrot_display
    complete,   \* _display_test_complete
    ended,      \* run() has returned
    shown, led, \* the mic
    shownBy,    \* whose screen it is
    seen,       \* states of the scan the mic was shown in this session
    keys, calls

startupVars == <<startup, step, complete>>
replyVars == <<reader, restore, channel, zone, volume>>
appVars == <<caller, request, last, special>>
micVars == <<shown, led, shownBy, seen>>
runVars == <<mode, lost, ended>>
countVars == <<keys, calls>>
vars == <<link, startupVars, replyVars, overlay, appVars, lock, micVars, runVars, countVars>>

-----------------------------------------------------------------------------
(* Screens: a text, and a tail by its base and the byte that differs from it *)

Bytes(base, at, value) == [base |-> base, at |-> at, value |-> value]
Baseline == Bytes("suffix", 56, 136)
Show(text, tail) == [text |-> text, tail |-> tail]

HomeText == IF zone = 1 THEN "ZONE TWO" ELSE IF channel = 0 THEN "CHANNEL1" ELSE "CHANNEL2"
Home == Show(HomeText, Baseline)

Bits == <<0, 1, 2, 4, 8, 16, 32, 64, 128>>
Each(values, Screen(_)) == [i \in DOMAIN values |-> Screen(values[i])]

\* The tails of the scans of one byte, the other bytes at rest.
PlainTail(at, value) == Bytes(IF at = 56 THEN "suffix" ELSE "zero", at, value)

\* The tails with offsets 56 to 59 lit.
LitTail(at, value) == Bytes("visible", at, IF at = 59 THEN 240 + value ELSE value)

\* The tails of the keypad letters and their attributes.
LetterTail(at, value) == Bytes("keypad", at, value)

PlainScan(at, values) == Each(values, LAMBDA v : Show(HomeText, PlainTail(at, v)))
LitScan(at, values) == Each(values, LAMBDA v : Show("88888888", LitTail(at, v)))
LitBitScan(at) == LitScan(at, Bits)
LowScan == Each(<<0, 1, 2, 4, 8, 15>>, LAMBDA v : Show("88888888", LitTail(59, v)))
ProbeScan ==
    Each(<<Bytes("plain", 56, 136), LetterTail(56, 136), LetterTail(32, 128),
           LetterTail(33, 128)>>, LAMBDA tail : Show("ABCDEFGH", tail))
BlinkScan == Each(<<28, 29, 30, 31, 32, 33, 34, 35>>,
                  LAMBDA at : Show("ABCDEFGH", LetterTail(at, 128)))
AttributeScan == Each(Bits, LAMBDA v : Show("ABCDEFGH", LetterTail(32, v)))
LedScan == Each(<<0, 2, 4, 6>>, LAMBDA v : Show("led", Bytes("led", 0, v)))
BacklightTest == <<Home, Home>>

\* The diagnostics, by the field of the configuration that selects them.
States ==
    CASE mode = "display_offset56_test" -> PlainScan(56, <<136, 138, 250, 0>>)
      [] mode = "display_offset56_low_bit_test" -> PlainScan(56, <<136, 8, 128, 0>>)
      [] mode = "display_offset56_rssi_ladder_test" ->
             PlainScan(56, <<128, 144, 160, 176, 192, 208, 224, 240>>)
      [] mode = "display_offset56_remaining_bits_test" -> PlainScan(56, <<0, 1, 4, 5>>)
      [] mode = "display_offset57_bit_scan" -> PlainScan(57, Bits)
      [] mode = "display_offset58_bit_scan" -> PlainScan(58, Bits)
      [] mode = "display_offset59_bit_scan" -> PlainScan(59, Bits)
      [] mode = "display_offset59_low_all_visible_test" -> LowScan
      [] mode = "display_offset60_bit_scan_all_visible" -> LitBitScan(60)
      [] mode = "display_offset61_bit_scan_all_visible" -> LitBitScan(61)
      [] mode = "display_offset62_bit_scan_all_visible" -> LitBitScan(62)
      [] mode = "display_offset63_bit_scan_all_visible" -> LitBitScan(63)
      [] mode = "display_offset64_bit_scan_all_visible" -> LitBitScan(64)
      [] mode = "display_offset65_bit_scan_all_visible" -> LitBitScan(65)
      [] mode = "display_offset66_bit_scan_all_visible" -> LitBitScan(66)
      [] mode = "display_offset67_bit_scan_all_visible" -> LitBitScan(67)
      [] mode = "display_offsets8_33_observed_probe" -> ProbeScan
      [] mode = "display_character_blink_position_scan" -> BlinkScan
      [] mode = "display_character_attribute_bit_scan" -> AttributeScan
      [] mode = "status_led_observed_scan" -> LedScan
      [] mode = "backlight_timeout_wake_test" -> BacklightTest
      [] OTHER -> <<>>

Scanning == mode \notin {"replies", "app"}

\* The screens a startup goes through: opening, idle, and those of its scan.  The
\* backlight test ends with the second refresh, the others with a screen at rest.
Script ==
    <<Show("opening", Bytes("zero", 0, 0)), Home>> \o States \o
    (IF ~Scanning \/ mode = "backlight_timeout_wake_test" THEN <<>>
     ELSE IF mode = "status_led_observed_scan" THEN <<Show("led", Bytes("led", 0, 0))>>
     ELSE <<Home>>)

Blank == Show("blank", Bytes("zero", 0, 0))
Wanted == Show(IF special # None THEN special ELSE last, Baseline)

Init ==
    /\ mode \in Modes /\ link = "down" /\ lost = 0 /\ ended = FALSE
    /\ startup = "off" /\ step = 0 /\ complete = FALSE
    /\ reader = "read" /\ restore = "none" /\ overlay = "none"
    /\ caller = "idle" /\ request = None /\ lock = <<>>
    /\ channel = 0 /\ zone = 0 /\ volume = 1
    /\ last \in Screens /\ special = None
    /\ shown = Blank /\ led = 0 /\ shownBy = "nobody" /\ seen = <<>>
    /\ keys = 0 /\ calls = 0

Queue(who, screen) == lock' = Append(lock, [by |-> who, screen |-> screen])

\* The queue without who, which waits in it at most once.
Without(queue, who) ==
    IF \A i \in 1 .. Len(queue) : queue[i].by # who THEN queue
    ELSE LET place == CHOOSE i \in 1 .. Len(queue) : queue[i].by = who
         IN  SubSeq(queue, 1, place - 1) \o SubSeq(queue, place + 1, Len(queue))

-----------------------------------------------------------------------------
(* Sessions *)

\* Mutant: a new session goes on with the screen at which the last one stopped.
ConnectResumes ==
    /\ link = "down" /\ ~ended /\ link' = "up" /\ startup' = "send"
    /\ step' = IF step = 0 THEN 1 ELSE step
    /\ reader' = "read" /\ seen' = <<>> /\ shown' = Blank /\ shownBy' = "nobody" /\ led' = 0
    /\ UNCHANGED <<complete, restore, channel, zone, volume, overlay, appVars, lock, runVars,
                   countVars>>

\* A stable session: the mic has restarted its screen, its synchronization arrived.
Connect ==
    /\ link = "down" /\ ~ended /\ link' = "up" /\ startup' = "send" /\ step' = 1
    /\ reader' = "read" /\ seen' = <<>> /\ shown' = Blank /\ shownBy' = "nobody" /\ led' = 0
    /\ UNCHANGED <<complete, restore, channel, zone, volume, overlay, appVars, lock, runVars,
                   countVars>>

LinkLost ==
    /\ link = "up" /\ lost < Losses
    /\ link' = "lost" /\ lost' = lost + 1
    /\ UNCHANGED <<startupVars, replyVars, overlay, appVars, lock, micVars, mode, ended,
                   countVars>>

\* The turn of run() that a session ends, by itself or with an error.
RunReturns(raised) == Scanning /\ complete /\ ~raised

\* Mutant: the end of a session forgets that the scan is complete.
SessionEndsForgets ==
    /\ link = "lost" /\ link' = "down"
    /\ startup' = "off" /\ reader' = "read" /\ restore' = "none" /\ overlay' = "none"
    /\ lock' = <<>> /\ caller' = "idle" /\ request' = None
    /\ complete' = FALSE /\ ended' = FALSE
    /\ UNCHANGED <<step, channel, zone, volume, last, special, micVars, mode, lost, countVars>>

\* The finally blocks, the event disconnected and the end of the turn of run().  A task
\* that failed raises there, and then run() connects again without a look at `complete`.
SessionEnds ==
    /\ link = "lost" /\ link' = "down"
    /\ startup' = "off" /\ reader' = "read" /\ restore' = "none" /\ overlay' = "none"
    /\ lock' = <<>> /\ caller' = "idle" /\ request' = None
    /\ \E raised \in {FALSE, SendsFail} : ended' = RunReturns(raised)
    /\ UNCHANGED <<step, complete, channel, zone, volume, last, special, micVars, mode, lost,
                   countVars>>

-----------------------------------------------------------------------------
(* Startup and scans *)

StartupSends ==
    /\ link = "up" /\ startup = "send" /\ startup' = "queued"
    /\ Queue("startup", Script[step])
    /\ UNCHANGED <<link, step, complete, replyVars, overlay, appVars, micVars, runVars,
                   countVars>>

\* Mutant: the scan counts as complete before the screen is restored.
StartupWakesEarly ==
    /\ link = "up" /\ startup = "pause"
    /\ complete' = (complete \/ (Scanning /\ step >= Len(Script) - 1))
    /\ IF step < Len(Script) THEN step' = step + 1 /\ startup' = "send"
       ELSE startup' = (IF Scanning THEN "closing" ELSE "off") /\ UNCHANGED step
    /\ UNCHANGED <<link, replyVars, overlay, appVars, lock, micVars, runVars, countVars>>

StartupWakes ==
    /\ link = "up" /\ startup = "pause"
    /\ IF step < Len(Script)
       THEN step' = step + 1 /\ startup' = "send" /\ UNCHANGED complete
       ELSE /\ startup' = IF Scanning THEN "closing" ELSE "off"
            /\ complete' = (complete \/ Scanning) /\ UNCHANGED step
    /\ UNCHANGED <<link, replyVars, overlay, appVars, lock, micVars, runVars, countVars>>

StartupCloses ==
    /\ link = "up" /\ startup = "closing"
    /\ startup' = "off" /\ link' = "lost"
    /\ UNCHANGED <<step, complete, replyVars, overlay, appVars, lock, micVars, runVars,
                   countVars>>

-----------------------------------------------------------------------------
(* Keys and restores *)

\* _handle_verified_key, up to its screen.
Reply(button) ==
    /\ link = "up" /\ reader = "read" /\ mode = "replies" /\ keys < Keys /\ keys' = keys + 1
    /\ reader' = IF button \in {"up", "down"} THEN "replying" ELSE "restoring"
    /\ zone' = IF button \in {"left", "right"} THEN (zone + 1) % 2 ELSE zone
    /\ channel' = CASE button \in {"up", "down"} -> (channel + 1) % 2
                    [] button \in {"left", "right"} -> 0
                    [] OTHER -> channel
    /\ volume' = CASE button = "volume_up" /\ volume < MaxVolume -> volume + 1
                   [] button = "volume_down" /\ volume > 0 -> volume - 1
                   [] OTHER -> volume
    /\ Queue("reader",
             IF button \in {"up", "down"} THEN Show(HomeText', Baseline)
             ELSE IF button \in {"left", "right"} THEN Show("ZONE", Baseline)
             ELSE Show("VOL", Baseline))
    /\ UNCHANGED <<link, startupVars, restore, overlay, appVars, micVars, runVars, calls>>

\* Mutant: a restore sends the screen that was shown when it was scheduled.
RestoreWakesStale ==
    /\ link = "up" /\ restore = "sleeping" /\ restore' = "queued"
    /\ Queue("restore", Show("CHANNEL1", Baseline))
    /\ UNCHANGED <<link, startupVars, reader, channel, zone, volume, overlay, appVars, micVars,
                   runVars, countVars>>

RestoreWakes ==
    /\ link = "up" /\ restore = "sleeping" /\ restore' = "queued"
    /\ Queue("restore", Home)
    /\ UNCHANGED <<link, startupVars, reader, channel, zone, volume, overlay, appVars, micVars,
                   runVars, countVars>>

-----------------------------------------------------------------------------
(* The application *)

\* _schedule_volume_overlay on a volume key: the last overlay is cancelled.
OverlayKey ==
    /\ link = "up" /\ mode = "app" /\ keys < Keys /\ keys' = keys + 1
    /\ overlay' = "showing"
    /\ lock' = Append(Without(lock, "overlay"),
                     [by |-> "overlay", screen |-> Show("VOL", Baseline)])
    /\ UNCHANGED <<link, startupVars, replyVars, appVars, micVars, runVars, calls>>

\* Mutant: the overlay restores the application's screen whatever the mode.
OverlayWakesPlain ==
    /\ link = "up" /\ overlay = "sleeping" /\ overlay' = "restoring"
    /\ Queue("overlay", Show(last, Baseline))
    /\ UNCHANGED <<link, startupVars, replyVars, appVars, micVars, runVars, countVars>>

OverlayWakes ==
    /\ link = "up" /\ overlay = "sleeping" /\ overlay' = "restoring"
    /\ Queue("overlay", Wanted)
    /\ UNCHANGED <<link, startupVars, replyVars, appVars, micVars, runVars, countVars>>

\* An application calls once startup_complete told it that the controls are ready.
MayCall ==
    /\ mode = "app" /\ caller = "idle" /\ link = "up" /\ startup = "off" /\ calls < Calls

\* send_display
SendDisplay(screen) ==
    /\ MayCall /\ calls' = calls + 1
    /\ last' = screen
    /\ IF special = None THEN caller' = "submitted" /\ request' = screen
       ELSE UNCHANGED <<caller, request>>
    /\ UNCHANGED <<link, startupVars, replyVars, overlay, special, lock, micVars, runVars, keys>>

\* set_parrot_enabled, with and without a mode_display
SetParrot(display) ==
    /\ MayCall /\ calls' = calls + 1
    /\ special' = display
    /\ caller' = "submitted" /\ request' = IF display = None THEN last ELSE display
    /\ UNCHANGED <<link, startupVars, replyVars, overlay, last, lock, micVars, runVars, keys>>

\* The coroutine of a call starts on the loop.
CallRuns ==
    /\ caller = "submitted" /\ caller' = "queued"
    /\ Queue("app", Show(request, Baseline))
    /\ UNCHANGED <<link, startupVars, replyVars, overlay, request, last, special, micVars,
                   runVars, countVars>>

-----------------------------------------------------------------------------
(* The connection *)

\* What the sender does next.  _schedule_restore replaces the restore before, wherever it is.
Sent(who) ==
    /\ startup' = IF who = "startup" THEN "pause" ELSE startup
    /\ reader' = IF who = "reader" THEN "read" ELSE reader
    /\ CASE who = "reader" /\ reader = "restoring" -> restore' = "sleeping"
         [] who = "restore" -> restore' = "none"
         [] OTHER -> UNCHANGED restore
    /\ overlay' = CASE who # "overlay" -> overlay
                    [] overlay = "showing" -> "sleeping"
                    [] OTHER -> "none"
    /\ caller' = IF who = "app" THEN "idle" ELSE caller
    /\ request' = IF who = "app" THEN None ELSE request

\* _send_frames: the first in the queue of the lock sends.
Send ==
    /\ link = "up" /\ lock # <<>>
    /\ LET entry == Head(lock) IN
       /\ Sent(entry.by)
       /\ IF entry.screen.text = "led"
          THEN led' = entry.screen.tail.value /\ UNCHANGED <<shown, shownBy>>
          ELSE shown' = entry.screen /\ shownBy' = entry.by /\ UNCHANGED led
       /\ seen' = IF entry.by = "startup" THEN Append(seen, entry.screen) ELSE seen
       /\ lock' = IF entry.by = "reader" /\ reader = "restoring"
                  THEN Without(Tail(lock), "restore") ELSE Tail(lock)
    /\ UNCHANGED <<link, step, complete, channel, zone, volume, last, special, runVars,
                   countVars>>

StartupSteps == StartupSends \/ StartupWakes \/ StartupCloses
Buttons == {"up", "right", "volume_up", "volume_down"}

Next ==
    \/ Connect \/ LinkLost \/ SessionEnds \/ StartupSteps
    \/ RestoreWakes \/ OverlayKey \/ OverlayWakes \/ CallRuns \/ Send
    \/ \E button \in Buttons : Reply(button)
    \/ \E screen \in Screens : SendDisplay(screen)
    \/ \E display \in {ModeScreen, None} : SetParrot(display)

Spec == Init /\ [][Next]_vars

\* The loop runs, sleeps end, the peer comes back.  Nobody needs to press or call.
FairSpec ==
    /\ Spec
    /\ WF_vars(Connect) /\ WF_vars(SessionEnds) /\ WF_vars(StartupSteps)
    /\ WF_vars(RestoreWakes) /\ WF_vars(OverlayWakes) /\ WF_vars(CallRuns) /\ WF_vars(Send)

-----------------------------------------------------------------------------
(* Properties *)

TypeOK ==
    /\ mode \in Modes /\ link \in {"up", "lost", "down"} /\ lost \in 0 .. Losses
    /\ startup \in {"send", "queued", "pause", "closing", "off"}
    /\ step \in 0 .. Len(Script)
    /\ reader \in {"read", "replying", "restoring"}
    /\ restore \in {"none", "sleeping", "queued"}
    /\ overlay \in {"none", "showing", "sleeping", "restoring"}
    /\ caller \in {"idle", "submitted", "queued"}
    /\ request \in Screens \cup {ModeScreen, None}
    /\ last \in Screens /\ special \in {ModeScreen, None}
    /\ channel \in 0 .. 1 /\ zone \in 0 .. 1 /\ volume \in 0 .. MaxVolume
    /\ {complete, ended} \subseteq BOOLEAN /\ led \in {0, 2, 4, 6}
    /\ shownBy \in {"nobody", "startup", "reader", "restore", "overlay", "app"}

\* A radio that answers keys comes back to its home screen, the current one, however keys,
\* restores, startups and lost connections follow each other.  (_schedule_restore)
HomeComesBack == <>[](mode = "replies" /\ link = "up" => shown = Home)

\* What the application shows is, in the end, the display of the mode, or without one the
\* last it was given, also what it was given during the mode.  (CONTROLS_API.md, "New
\* application displays submitted during Parrot are retained and restored")
AppScreenComesBack ==
    <>[](link = "up" /\ shownBy \in {"app", "overlay"} => shown = Wanted)

\* A scan that counts as complete was shown in one session from its start to the screen
\* that ends it.  (_display_test_complete)
ScanShownWhole == [][~complete /\ complete' => seen = Script]_vars

\* A radio that ends after its scan leaves no experimental screen or light.  (the comment
\* of _run_display_offset56_low_bit_test: "never left in an experimental state")
NothingExperimentalLeft ==
    /\ TypeOK
    /\ ended => shown = Home /\ led = 0

\* A radio that runs a scan ends.  (run)
ScanEnds == Scanning ~> ended
=============================================================================
