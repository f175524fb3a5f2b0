-------------------------- MODULE RadioScreenProofs --------------------------
(***************************************************************************)
(* Proofs about the mic's screen.  The screens of every scan are typed, so    *)
(* that the script of a startup can be reasoned about by its places; the      *)
(* queue of the send lock keeps its types; while a scan runs nobody else      *)
(* writes and the mic is shown the script in order; a scan that is complete   *)
(* was left at the home screen with the light off.                            *)
(***************************************************************************)
EXTENDS RadioScreen, SequenceTheorems, TLAPS

-----------------------------------------------------------------------------
(* What a script depends on *)

\* The home screen is that of the channel and the zone.
LEMMA HomeStays == UNCHANGED <<zone, channel>> => HomeText' = HomeText /\ Home' = Home
BY DEF HomeText, Home

\* The script of a scan depends on the mode, the channel and the zone only.
LEMMA ScriptStays == UNCHANGED <<mode, zone, channel>> => Script' = Script
<1> SUFFICES ASSUME UNCHANGED <<mode, zone, channel>> PROVE Script' = Script
  OBVIOUS
<1>1. HomeText' = HomeText /\ Home' = Home /\ mode' = mode
  BY HomeStays
<1>2. \A at, values : PlainScan(at, values)' = PlainScan(at, values)
  BY <1>1 DEF PlainScan, Each
<1>3. BacklightTest' = BacklightTest
  BY <1>1 DEF BacklightTest
<1>4. States' = States
  BY <1>1, <1>2, <1>3 DEF States
<1>5. Scanning' = Scanning
  BY <1>1 DEF Scanning
<1>6. QED
  BY <1>1, <1>4, <1>5 DEF Script
-----------------------------------------------------------------------------
(* Screens *)

LedMode == "status_led_observed_scan"
WakeMode == "backlight_timeout_wake_test"

Texts ==
    {"CHANNEL1", "CHANNEL2", "ZONE TWO", "ZONE", "VOL", "opening", "blank", "88888888",
     "ABCDEFGH", "led"} \cup Screens \cup {ModeScreen}
Bases == {"suffix", "zero", "visible", "keypad", "plain", "led"}
Tails == [base : Bases, at : Nat, value : Nat]
Displays ==
    {screen \in [text : Texts, tail : Tails] :
        screen.text = "led" => screen.tail.value \in {0, 2, 4, 6}}

\* The screens that are drawn: the others only set the light.
Drawn == {screen \in Displays : screen.text # "led"}

\* A tail by its base, offset and byte is a tail.
LEMMA BytesTyped ==
  ASSUME NEW base \in Bases, NEW at \in Nat, NEW value \in Nat
  PROVE  Bytes(base, at, value) \in Tails
BY DEF Bytes, Tails

\* So is the tail of a screen at rest,
LEMMA BaselineTyped == Baseline \in Tails
BY BytesTyped DEF Baseline, Bases

\* and a text other than the light's is drawn with any of them.
LEMMA ShowDrawn ==
  ASSUME NEW text \in Texts \ {"led"}, NEW tail \in Tails
  PROVE  Show(text, tail) \in Drawn
<1> DEFINE screen == Show(text, tail)
<1>1. screen \in [text : Texts, tail : Tails] /\ screen.text = text
  BY DEF Show
<1>2. QED
  BY <1>1 DEF Drawn, Displays

\* The home screen is drawn.
LEMMA HomeDrawn == HomeText \in Texts \ {"led"} /\ Home \in Drawn
<1>1. HomeText \in Texts \ {"led"}
  BY DEF HomeText, Texts
<1>2. QED
  BY <1>1, ShowDrawn, BaselineTyped DEF Home

\* A scan of screens that are drawn is a sequence of them.
LEMMA ScanDrawn ==
  ASSUME NEW n \in Nat, NEW scan, DOMAIN scan = 1 .. n, scan = [i \in 1 .. n |-> scan[i]],
         \A i \in 1 .. n : scan[i] \in Drawn
  PROVE  scan \in Seq(Drawn) /\ Len(scan) = n
<1>1. scan \in [1 .. n -> Drawn]
  OBVIOUS
<1>2. QED
  BY <1>1, SeqDef, LenProperties

\* The scans of one byte draw the home text.
LEMMA PlainDrawn ==
  ASSUME NEW at \in Nat, NEW values \in Seq(Nat)
  PROVE  PlainScan(at, values) \in Seq(Drawn)
<1> DEFINE scan == PlainScan(at, values)
<1>1. scan = [i \in 1 .. Len(values) |-> Show(HomeText, PlainTail(at, values[i]))]
  BY DEF PlainScan, Each
<1>2. \A i \in 1 .. Len(values) : PlainTail(at, values[i]) \in Tails
  BY BytesTyped DEF PlainTail, Bases
<1>3. \A i \in 1 .. Len(values) : Show(HomeText, PlainTail(at, values[i])) \in Drawn
  BY <1>2, HomeDrawn, ShowDrawn
<1>4. QED
  BY <1>1, <1>3, ScanDrawn

\* The scans with every segment lit draw all segments.
LEMMA LitDrawn ==
  ASSUME NEW at \in Nat, NEW values \in Seq(Nat)
  PROVE  LitScan(at, values) \in Seq(Drawn)
<1> DEFINE scan == LitScan(at, values)
<1>1. scan = [i \in 1 .. Len(values) |-> Show("88888888", LitTail(at, values[i]))]
  BY DEF LitScan, Each
<1>2. \A i \in 1 .. Len(values) : LitTail(at, values[i]) \in Tails
  BY BytesTyped DEF LitTail, Bases
<1>3. "88888888" \in Texts \ {"led"}
  BY DEF Texts
<1>4. \A i \in 1 .. Len(values) : Show("88888888", LitTail(at, values[i])) \in Drawn
  BY <1>2, <1>3, ShowDrawn
<1>5. QED
  BY <1>1, <1>4, ScanDrawn

\* So does the scan of the low values of offset 59.
LEMMA LowDrawn == LowScan \in Seq(Drawn)
<1> DEFINE values == <<0, 1, 2, 4, 8, 15>>
<1>1. values \in Seq(Nat)
  OBVIOUS
<1>2. LowScan = LitScan(59, values)
  BY DEF LowScan, LitScan
<1>3. QED
  BY <1>1, <1>2, LitDrawn

\* The letters of the keypad are drawn,
LEMMA LettersDrawn == "ABCDEFGH" \in Texts \ {"led"}
BY DEF Texts

\* with their attributes.
LEMMA LetterTyped == \A at, value \in Nat : LetterTail(at, value) \in Tails
BY BytesTyped DEF LetterTail, Bases

\* The probe of the observed tails draws letters,
LEMMA ProbeDrawn == ProbeScan \in Seq(Drawn)
<1> DEFINE tails == <<Bytes("plain", 56, 136), LetterTail(56, 136), LetterTail(32, 128),
                      LetterTail(33, 128)>>
<1>1. tails \in Seq(Tails)
  BY BytesTyped, LetterTyped DEF Bases
<1>2. ProbeScan = [i \in 1 .. Len(tails) |-> Show("ABCDEFGH", tails[i])]
  BY DEF ProbeScan, Each
<1> HIDE DEF tails
<1>3. \A i \in 1 .. Len(tails) : Show("ABCDEFGH", tails[i]) \in Drawn
  BY <1>1, LettersDrawn, ShowDrawn
<1>4. QED
  BY <1>1, <1>2, <1>3, ScanDrawn

\* the scan of blinking positions too.
LEMMA BlinkDrawn == BlinkScan \in Seq(Drawn)
<1> DEFINE places == <<28, 29, 30, 31, 32, 33, 34, 35>>
<1>1. places \in Seq(Nat)
  OBVIOUS
<1>2. BlinkScan = [i \in 1 .. Len(places) |-> Show("ABCDEFGH", LetterTail(places[i], 128))]
  BY DEF BlinkScan, Each
<1> HIDE DEF places
<1>3. \A i \in 1 .. Len(places) : Show("ABCDEFGH", LetterTail(places[i], 128)) \in Drawn
  BY <1>1, LettersDrawn, LetterTyped, ShowDrawn
<1>4. QED
  BY <1>1, <1>2, <1>3, ScanDrawn

\* The bits of a byte are numbers.
LEMMA BitsTyped == Bits \in Seq(Nat)
BY DEF Bits

\* The scan of attribute bits draws letters.
LEMMA AttributeDrawn == AttributeScan \in Seq(Drawn)
<1>1. AttributeScan = [i \in 1 .. Len(Bits) |-> Show("ABCDEFGH", LetterTail(32, Bits[i]))]
  BY BitsTyped DEF AttributeScan, Each
<1>2. \A i \in 1 .. Len(Bits) : Show("ABCDEFGH", LetterTail(32, Bits[i])) \in Drawn
  BY BitsTyped, LettersDrawn, LetterTyped, ShowDrawn
<1>3. QED
  BY <1>1, <1>2, BitsTyped, ScanDrawn

\* The backlight test draws the home screen twice.
LEMMA BacklightDrawn == BacklightTest \in Seq(Drawn)
BY HomeDrawn DEF BacklightTest

\* The light goes through its values, and nothing is drawn.
LEMMA LedDisplays ==
    LedScan \in Seq(Displays) /\ \A i \in 1 .. Len(LedScan) : LedScan[i].text = "led"
<1> DEFINE values == <<0, 2, 4, 6>>
<1>1. values \in Seq({0, 2, 4, 6})
  OBVIOUS
<1>2. LedScan = [i \in 1 .. Len(values) |-> Show("led", Bytes("led", 0, values[i]))]
  BY DEF LedScan, Each
<1> HIDE DEF values
<1>3. ASSUME NEW value \in {0, 2, 4, 6}
      PROVE  /\ Show("led", Bytes("led", 0, value)) \in Displays
             /\ Show("led", Bytes("led", 0, value)).text = "led"
  <2> DEFINE screen == Show("led", Bytes("led", 0, value))
  <2>1. Bytes("led", 0, value) \in Tails /\ Bytes("led", 0, value).value = value
    BY DEF Bytes, Tails, Bases
  <2>2. screen \in [text : Texts, tail : Tails] /\ screen.text = "led"
        /\ screen.tail.value = value
    BY <2>1 DEF Show, Texts
  <2>3. QED
    BY <2>2 DEF Displays
<1>4. LedScan \in [1 .. Len(values) -> Displays]
  BY <1>1, <1>2, <1>3
<1>5. LedScan \in Seq(Displays) /\ Len(LedScan) = Len(values)
  BY <1>1, <1>4, SeqDef, LenProperties
<1>6. QED
  BY <1>1, <1>2, <1>3, <1>5

\* Every scan but that of the light draws its screens.
LEMMA StatesDrawn == mode # LedMode => States \in Seq(Drawn)
<1>1. \A at \in Nat : LitScan(at, Bits) \in Seq(Drawn) /\ PlainScan(at, Bits) \in Seq(Drawn)
  BY BitsTyped, LitDrawn, PlainDrawn
<1>2. /\ PlainScan(56, <<136, 138, 250, 0>>) \in Seq(Drawn)
      /\ PlainScan(56, <<136, 8, 128, 0>>) \in Seq(Drawn)
      /\ PlainScan(56, <<128, 144, 160, 176, 192, 208, 224, 240>>) \in Seq(Drawn)
      /\ PlainScan(56, <<0, 1, 4, 5>>) \in Seq(Drawn)
  <2>1. /\ <<136, 138, 250, 0>> \in Seq(Nat)
        /\ <<136, 8, 128, 0>> \in Seq(Nat)
        /\ <<128, 144, 160, 176, 192, 208, 224, 240>> \in Seq(Nat)
        /\ <<0, 1, 4, 5>> \in Seq(Nat)
    OBVIOUS
  <2>2. 56 \in Nat
    OBVIOUS
  <2>3. QED
    BY <2>1, <2>2, PlainDrawn, Zenon
<1>3. /\ PlainScan(57, Bits) \in Seq(Drawn)
      /\ PlainScan(58, Bits) \in Seq(Drawn)
      /\ PlainScan(59, Bits) \in Seq(Drawn)
      /\ LitBitScan(60) \in Seq(Drawn)
      /\ LitBitScan(61) \in Seq(Drawn)
      /\ LitBitScan(62) \in Seq(Drawn)
      /\ LitBitScan(63) \in Seq(Drawn)
      /\ LitBitScan(64) \in Seq(Drawn)
      /\ LitBitScan(65) \in Seq(Drawn)
      /\ LitBitScan(66) \in Seq(Drawn)
      /\ LitBitScan(67) \in Seq(Drawn)
  BY <1>1 DEF LitBitScan
<1>4. <<>> \in Seq(Drawn)
  OBVIOUS
<1>5. QED
  BY <1>2, <1>3, <1>4, LowDrawn, ProbeDrawn, BlinkDrawn, AttributeDrawn, BacklightDrawn,
     ZenonT(60) DEF States, LedMode

\* The scan of the light is the list of its values,
LEMMA StatesOfLed == mode = LedMode => States = LedScan
BY ZenonT(60) DEF States, LedMode

\* and the backlight test that of its two refreshes.
LEMMA StatesOfWake == mode = WakeMode => States = BacklightTest
BY ZenonT(60) DEF States, WakeMode

\* Without a scan a startup opens the screen and goes idle.
LEMMA StatesOfNone == ~Scanning => States = <<>>
BY ZenonT(60) DEF States, Scanning

-----------------------------------------------------------------------------
(* Scripts *)

Opening == <<Show("opening", Bytes("zero", 0, 0)), Home>>
LedOff == Show("led", Bytes("led", 0, 0))
Ending ==
    IF ~Scanning \/ mode = WakeMode THEN <<>>
    ELSE IF mode = LedMode THEN <<LedOff>> ELSE <<Home>>

\* A script is its opening, the states of the scan and its ending.
LEMMA ScriptParts == Script = Opening \o States \o Ending
BY DEF Script, Opening, Ending, WakeMode, LedMode, LedOff

\* The opening draws two screens, the second of them home.
LEMMA OpeningDrawn ==
    /\ Opening \in Seq(Drawn) /\ Len(Opening) = 2
    /\ Opening[1] \in Drawn /\ Opening[2] = Home
<1>1. Show("opening", Bytes("zero", 0, 0)) \in Drawn
  <2>1. "opening" \in Texts \ {"led"}
    BY DEF Texts
  <2>2. QED
    BY <2>1, BytesTyped, ShowDrawn DEF Bases
<1>2. QED
  BY <1>1, HomeDrawn DEF Opening

\* The last step of the scan of the light puts it out.
LEMMA LedOffTyped == LedOff \in Displays /\ LedOff.text = "led" /\ LedOff.tail.value = 0
<1>1. LedOff.text = "led" /\ LedOff.tail = Bytes("led", 0, 0)
  BY DEF LedOff, Show
<1>2. Bytes("led", 0, 0) \in Tails /\ Bytes("led", 0, 0).value = 0
  BY DEF Bytes, Tails, Bases
<1>3. LedOff \in [text : Texts, tail : Tails]
  BY <1>2 DEF LedOff, Show, Texts
<1>4. QED
  BY <1>1, <1>2, <1>3 DEF Displays

\* A sequence of three parts, by its places.
LEMMA ThreeParts ==
  ASSUME NEW S, NEW a \in Seq(S), NEW b \in Seq(S), NEW c \in Seq(S)
  PROVE  /\ a \o b \o c \in Seq(S)
         /\ Len(a \o b \o c) = Len(a) + Len(b) + Len(c)
         /\ \A i \in 1 .. Len(a) : (a \o b \o c)[i] = a[i]
         /\ \A i \in 1 .. Len(b) : (a \o b \o c)[Len(a) + i] = b[i]
         /\ \A i \in 1 .. Len(c) : (a \o b \o c)[Len(a) + Len(b) + i] = c[i]
<1> DEFINE ab == a \o b
<1>1. /\ ab \in Seq(S) /\ Len(ab) = Len(a) + Len(b)
      /\ \A i \in 1 .. Len(a) : ab[i] = a[i]
      /\ \A i \in 1 .. Len(b) : ab[Len(a) + i] = b[i]
  OBVIOUS
<1> HIDE DEF ab
<1>2. /\ ab \o c \in Seq(S) /\ Len(ab \o c) = Len(ab) + Len(c)
      /\ \A i \in 1 .. Len(ab) : (ab \o c)[i] = ab[i]
      /\ \A i \in 1 .. Len(c) : (ab \o c)[Len(ab) + i] = c[i]
  <2>1. ab \in Seq(S)
    BY <1>1
  <2>2. QED
    BY <2>1
<1>3. ab \o c = a \o b \o c
  BY DEF ab
<1>4. Len(a) \in Nat /\ Len(b) \in Nat
  OBVIOUS
<1>5. QED
  BY <1>1, <1>2, <1>3, <1>4

\* The same of the script, whose first part has two screens.
LEMMA ScriptPlaces ==
  ASSUME NEW S, Opening \in Seq(S), States \in Seq(S), Ending \in Seq(S),
         NEW n \in Nat, n = Len(States), NEW m \in Nat, m = Len(Ending)
  PROVE  /\ Script \in Seq(S)
         /\ Len(Script) = 2 + n + m
         /\ Script[1] = Opening[1] /\ Script[2] = Opening[2]
         /\ \A i \in 1 .. n : Script[2 + i] = States[i]
         /\ \A i \in 1 .. m : Script[2 + n + i] = Ending[i]
<1> DEFINE whole == Opening \o States \o Ending
<1>1. /\ whole \in Seq(S)
      /\ Len(whole) = Len(Opening) + Len(States) + Len(Ending)
      /\ \A i \in 1 .. Len(Opening) : whole[i] = Opening[i]
      /\ \A i \in 1 .. Len(States) : whole[Len(Opening) + i] = States[i]
      /\ \A i \in 1 .. Len(Ending) : whole[Len(Opening) + Len(States) + i] = Ending[i]
  BY ThreeParts
<1>2. whole = Script
  BY ScriptParts
<1> HIDE DEF whole
<1>3. Len(Opening) = 2
  BY OpeningDrawn
<1>4. /\ Script \in Seq(S)
      /\ Len(Script) = 2 + n + m
      /\ \A i \in 1 .. 2 : Script[i] = Opening[i]
      /\ \A i \in 1 .. n : Script[2 + i] = States[i]
      /\ \A i \in 1 .. m : Script[2 + n + i] = Ending[i]
  <2>1. Len(whole) = 2 + n + m
    BY <1>1, <1>3
  <2>2. \A i \in 1 .. 2 : whole[i] = Opening[i]
    BY <1>1, <1>3
  <2>3. \A i \in 1 .. n : whole[2 + i] = States[i]
    BY <1>1, <1>3
  <2>4. \A i \in 1 .. m : whole[2 + n + i] = Ending[i]
    BY <1>1, <1>3
  <2>5. QED
    BY <1>1, <1>2, <2>1, <2>2, <2>3, <2>4, Zenon
<1>5. 1 \in 1 .. 2 /\ 2 \in 1 .. 2
  OBVIOUS
<1>6. QED
  BY <1>4, <1>5, Zenon

\* What a startup goes through: it opens the screen, draws the home screen and, in a scan,
\* ends there or, in that of the light, with the light off and nothing drawn after it.
LEMMA ScriptFacts ==
    /\ Script \in Seq(Displays) /\ Len(Script) \in Nat /\ Len(Script) >= 2
    /\ Script[2] = Home
    /\ ~Scanning => Len(Script) = 2
    /\ mode # LedMode => \A i \in 1 .. Len(Script) : Script[i] \in Drawn
    /\ Scanning /\ mode # LedMode => Script[Len(Script)] = Home
    /\ mode = LedMode =>
           /\ Len(Script) > 2 /\ Script[1] \in Drawn
           /\ \A i \in 3 .. Len(Script) : Script[i].text = "led"
           /\ Script[Len(Script)].tail.value = 0
<1>0. Drawn \subseteq Displays
  BY DEF Drawn
<1>1. CASE mode = LedMode
  <2>1. Ending = <<LedOff>> /\ States = LedScan
    BY <1>1, StatesOfLed DEF Ending, LedMode, WakeMode, Scanning
  <2>2. /\ Opening \in Seq(Displays) /\ States \in Seq(Displays) /\ Ending \in Seq(Displays)
        /\ Len(Ending) = 1 /\ Ending[1] = LedOff
    <3>1. Opening \in Seq(Displays)
      BY <1>0, OpeningDrawn
    <3>2. QED
      BY <2>1, <3>1, LedOffTyped, LedDisplays
  <2> DEFINE n == Len(States)
  <2>3. n \in Nat
    BY <2>2
  <2>4. /\ Script \in Seq(Displays) /\ Len(Script) = n + 3
        /\ Script[1] = Opening[1] /\ Script[2] = Opening[2]
        /\ \A i \in 1 .. n : Script[2 + i] = States[i]
        /\ Script[n + 3] = LedOff
    <3>1. /\ Script \in Seq(Displays) /\ Len(Script) = 2 + n + 1
          /\ Script[1] = Opening[1] /\ Script[2] = Opening[2]
          /\ \A i \in 1 .. n : Script[2 + i] = States[i]
          /\ \A i \in 1 .. 1 : Script[2 + n + i] = Ending[i]
      BY <2>2, <2>3, ScriptPlaces
    <3>2. Script[2 + n + 1] = LedOff
      BY <3>1, <2>2
    <3>3. QED
      BY <3>1, <3>2, <2>3
  <2>5. Script[1] \in Drawn /\ Script[2] = Home
    BY <2>4, OpeningDrawn
  <2>6. \A i \in 3 .. Len(Script) : Script[i].text = "led"
    <3> SUFFICES ASSUME NEW i \in 3 .. Len(Script) PROVE Script[i].text = "led"
      OBVIOUS
    <3>1. CASE i = n + 3
      BY <3>1, <2>4, LedOffTyped
    <3>2. CASE i # n + 3
      <4>1. i - 2 \in 1 .. n /\ 2 + (i - 2) = i
        BY <3>2, <2>3, <2>4
      <4>2. Script[i] = States[i - 2]
        BY <4>1, <2>4
      <4>3. QED
        BY <4>1, <4>2, <2>1, LedDisplays
    <3>3. QED
      BY <3>1, <3>2
  <2>7. Script[Len(Script)].tail.value = 0
    BY <2>4, LedOffTyped
  <2>8. Scanning
    BY <1>1 DEF Scanning, LedMode
  <2>9. QED
    BY <1>1, <2>3, <2>4, <2>5, <2>6, <2>7, <2>8
<1>2. CASE mode # LedMode
  <2>1. /\ Opening \in Seq(Drawn) /\ States \in Seq(Drawn) /\ Ending \in Seq(Drawn)
    BY <1>2, OpeningDrawn, StatesDrawn, HomeDrawn DEF Ending
  <2> DEFINE n == Len(States)
             m == Len(Ending)
  <2>2. n \in Nat /\ m \in Nat
    BY <2>1
  <2>3. /\ Script \in Seq(Drawn) /\ Len(Script) = 2 + n + m
        /\ Script[1] = Opening[1] /\ Script[2] = Opening[2]
        /\ \A i \in 1 .. n : Script[2 + i] = States[i]
        /\ \A i \in 1 .. m : Script[2 + n + i] = Ending[i]
    BY <2>1, <2>2, ScriptPlaces, Zenon
  <2>4. \A i \in 1 .. Len(Script) : Script[i] \in Drawn
    BY <2>3
  <2>5. Script \in Seq(Displays)
    BY <2>3, <1>0
  <2>6. Script[2] = Home
    BY <2>3, OpeningDrawn
  <2>7. ~Scanning => Len(Script) = 2
    BY <2>3, StatesOfNone DEF Ending
  <2>8. ASSUME Scanning PROVE Script[Len(Script)] = Home
    <3>1. CASE mode = WakeMode
      <4>1. States = <<Home, Home>> /\ Ending = <<>>
        BY <3>1, StatesOfWake DEF Ending, BacklightTest
      <4>2. n = 2 /\ m = 0 /\ States[2] = Home
        BY <4>1
      <4>3. Len(Script) = 4 /\ Script[4] = States[2]
        BY <4>2, <2>3
      <4>4. QED
        BY <4>2, <4>3
    <3>2. CASE mode # WakeMode
      <4>1. Ending = <<Home>>
        BY <1>2, <2>8, <3>2 DEF Ending
      <4>2. m = 1 /\ Ending[1] = Home
        BY <4>1
      <4>3. QED
        BY <4>2, <2>2, <2>3
    <3>3. QED
      BY <3>1, <3>2
  <2>9. QED
    BY <1>2, <2>2, <2>3, <2>4, <2>5, <2>6, <2>7, <2>8
<1>3. QED
  BY <1>1, <1>2

-----------------------------------------------------------------------------
(* Queues *)

\* What leaves the queue leaves the others in it.
LEMMA WithoutTyped ==
  ASSUME NEW S, NEW queue \in Seq(S), NEW who
  PROVE  Without(queue, who) \in Seq(S)
<1> DEFINE place == CHOOSE i \in 1 .. Len(queue) : queue[i].by = who
<1>1. CASE \A i \in 1 .. Len(queue) : queue[i].by # who
  BY <1>1 DEF Without
<1>2. CASE \E i \in 1 .. Len(queue) : queue[i].by = who
  <2>1. place \in 1 .. Len(queue)
    BY <1>2
  <2>2. Without(queue, who)
            = SubSeq(queue, 1, place - 1) \o SubSeq(queue, place + 1, Len(queue))
    BY <1>2 DEF Without
  <2> HIDE DEF place
  <2>3. /\ \A i \in 1 .. place - 1 : queue[i] \in S
        /\ \A i \in place + 1 .. Len(queue) : queue[i] \in S
    BY <2>1
  <2>4. place - 1 \in Int /\ place + 1 \in Int /\ Len(queue) \in Int
    BY <2>1
  <2>5. /\ SubSeq(queue, 1, place - 1) \in Seq(S)
        /\ SubSeq(queue, place + 1, Len(queue)) \in Seq(S)
    BY <2>3, <2>4, SubSeqProperties
  <2>6. QED
    BY <2>2, <2>5
<1>3. QED
  BY <1>1, <1>2

-----------------------------------------------------------------------------
(* The inductive invariant *)

Writers == {"startup", "reader", "restore", "overlay", "app"}
Entries == [by : Writers, screen : Displays]

\* Beyond the types: what waits for the lock can be shown, a call which was handed over
\* knows its screen, and a session is at a screen of its script.
WaitInv ==
    /\ TypeOK
    /\ lock \in Seq(Entries)
    /\ caller = "submitted" => request \in Screens \cup {ModeScreen}
    /\ link = "up" => step \in 1 .. Len(Script)

\* The screens of the script that a startup has sent.
SentSoFar == IF startup \in {"send", "queued"} THEN step - 1 ELSE step

\* While a scan runs nobody else writes, and the mic has been shown the script of this
\* session up to the screen the startup is at.
ScanInv ==
    Scanning =>
        /\ reader = "read" /\ restore = "none" /\ overlay = "none" /\ caller = "idle"
        /\ link = "down" => lock = <<>>
        /\ link = "up" =>
               /\ startup # "off"
               /\ seen = SubSeq(Script, 1, SentSoFar)
               /\ lock = IF startup = "queued"
                         THEN <<[by |-> "startup", screen |-> Script[step]]>> ELSE <<>>
               /\ startup = "closing" => step = Len(Script)

\* The screen and the light of the mic follow the script; a scan that is complete was
\* left at home, closes its session and does not begin another.
RestInv ==
    /\ ended => complete /\ link = "down"
    /\ complete =>
           /\ Scanning /\ shown = Home /\ led = 0
           /\ link = "up" => startup = "closing"
           /\ link = "down" => ended
    /\ Scanning /\ mode # LedMode => led = 0
    /\ Scanning /\ link = "up" /\ SentSoFar > 0 =>
           /\ mode # LedMode => shown = Script[SentSoFar]
           /\ mode = LedMode =>
                  /\ SentSoFar > 1 => shown = Home
                  /\ SentSoFar = Len(Script) => led = 0

\* A text at rest can be shown.
LEMMA ShownTyped == \A text \in Texts \ {"led"} : Show(text, Baseline) \in Displays
BY ShowDrawn, BaselineTyped DEF Drawn

\* A screen of the application is not the light.
LEMMA AppTyped ==
  ASSUME NEW text \in Screens \cup {ModeScreen}
  PROVE  Show(text, Baseline) \in Displays
BY ShownTyped, ScreenAssumption DEF Texts

\* Queueing keeps the queue typed.
LEMMA QueueTyped ==
  ASSUME NEW who \in Writers, NEW screen \in Displays, lock \in Seq(Entries),
         Queue(who, screen)
  PROVE  lock' \in Seq(Entries)
BY DEF Queue, Entries

\* A radio that starts has nothing queued and no session.
LEMMA WaitInit == Init => WaitInv
<1> SUFFICES ASSUME Init PROVE WaitInv
  OBVIOUS
<1>1. Len(Script) \in Nat
  BY ScriptFacts
<1>2. {complete, ended} \subseteq BOOLEAN
  BY DEF Init
<1>3. lock \in Seq(Entries)
  BY DEF Init
<1>4. QED
  BY <1>1, <1>2, <1>3, ScreenAssumption DEF Init, WaitInv, TypeOK

\* The two flags stay Booleans: a step keeps them or computes them from a condition.
LEMMA FlagsStay ==
  ASSUME {complete, ended} \subseteq BOOLEAN, [Next]_vars
  PROVE  {complete', ended'} \subseteq BOOLEAN
<1>1. /\ complete' = complete \/ complete' = (complete \/ Scanning)
      /\ ended' = ended \/ \E raised \in {FALSE, SendsFail} : ended' = RunReturns(raised)
  BY DEF Next, vars, Connect, LinkLost, SessionEnds, StartupSteps, StartupSends, StartupWakes,
         StartupCloses, RestoreWakes, OverlayKey, OverlayWakes, CallRuns, Send, Reply,
         SendDisplay, SetParrot, startupVars, runVars
<1>2. complete' \in BOOLEAN
  BY <1>1, Zenon
<1>3. ended' \in BOOLEAN
  BY <1>1, Zenon DEF RunReturns
<1>4. QED
  BY <1>2, <1>3

\* Every step keeps them: what it queues is a screen, and it keeps its place in the script,
\* which changes with the home screen only when there is no scan.
LEMMA WaitStep == WaitInv /\ [Next]_vars => WaitInv'
<1> SUFFICES ASSUME WaitInv, [Next]_vars PROVE WaitInv'
  OBVIOUS
<1>1. {complete', ended'} \subseteq BOOLEAN
  <2>1. {complete, ended} \subseteq BOOLEAN
    BY Zenon DEF WaitInv, TypeOK
  <2>2. QED
    BY <2>1, FlagsStay
<1> DEFINE Rest ==
        /\ mode \in Modes /\ link \in {"up", "lost", "down"} /\ lost \in 0 .. Losses
        /\ startup \in {"send", "queued", "pause", "closing", "off"}
        /\ step \in 0 .. Len(Script)
        /\ reader \in {"read", "replying", "restoring"}
        /\ restore \in {"none", "sleeping", "queued"}
        /\ overlay \in {"none", "showing", "sleeping", "restoring"}
        /\ caller \in {"idle", "submitted", "queued"}
        /\ request \in Screens \cup {ModeScreen, None}
        /\ last \in Screens /\ special \in {ModeScreen, None}
        /\ channel \in 0 .. 1 /\ zone \in 0 .. 1 /\ volume \in 0 .. MaxVolume
        /\ led \in {0, 2, 4, 6}
        /\ shownBy \in {"nobody", "startup", "reader", "restore", "overlay", "app"}
        /\ lock \in Seq(Entries)
        /\ caller = "submitted" => request \in Screens \cup {ModeScreen}
        /\ link = "up" => step \in 1 .. Len(Script)
<1>2. Rest
  BY DEF WaitInv, TypeOK
<1>3. Rest => WaitInv
  BY Zenon DEF WaitInv, TypeOK
<1>4. SUFFICES Rest'
  BY <1>1, Zenon DEF WaitInv, TypeOK
<1>5. Script \in Seq(Displays) /\ Len(Script) \in Nat /\ Len(Script) >= 2
  BY ScriptFacts
<1>6. UNCHANGED <<mode, zone, channel>> => Script' = Script
  BY ScriptStays
<1>7. Home \in Displays
  BY HomeDrawn DEF Drawn
<1>8. CASE UNCHANGED vars
  BY <1>2, <1>6, <1>8 DEF vars, startupVars, replyVars, appVars, micVars, runVars, countVars
<1>9. CASE Connect
  BY <1>2, <1>5, <1>6, <1>9 DEF Connect, appVars, runVars
<1>10. CASE LinkLost
  BY <1>2, <1>5, <1>6, <1>10, ScreenAssumption
     DEF LinkLost, startupVars, replyVars, appVars, micVars
<1>11. CASE SessionEnds
  BY <1>2, <1>5, <1>6, <1>11 DEF SessionEnds, micVars
<1>12. CASE StartupSends
  <2>1. Script[step] \in Displays
    BY <1>2, <1>5, <1>12 DEF StartupSends
  <2>2. lock' \in Seq(Entries)
    BY <1>2, <1>12, <2>1, QueueTyped DEF StartupSends, Writers
  <2>3. QED
    BY <1>2, <1>5, <1>6, <1>12, <2>2 DEF StartupSends, replyVars, appVars, micVars, runVars
<1>13. CASE StartupWakes
  BY <1>2, <1>5, <1>6, <1>13 DEF StartupWakes, replyVars, appVars, micVars, runVars
<1>14. CASE StartupCloses
  BY <1>2, <1>5, <1>6, <1>14 DEF StartupCloses, replyVars, appVars, micVars, runVars
<1>15. CASE RestoreWakes
  <2>1. lock' \in Seq(Entries)
    BY <1>2, <1>7, <1>15, QueueTyped DEF RestoreWakes, Writers
  <2>2. QED
    BY <1>2, <1>5, <1>6, <1>15, <2>1 DEF RestoreWakes, startupVars, appVars, micVars, runVars
<1>16. CASE OverlayKey
  <2>1. [by |-> "overlay", screen |-> Show("VOL", Baseline)] \in Entries
    BY ShownTyped DEF Entries, Writers, Texts
  <2>2. Without(lock, "overlay") \in Seq(Entries)
    BY <1>2, WithoutTyped
  <2>3. lock' \in Seq(Entries)
    BY <1>16, <2>1, <2>2 DEF OverlayKey
  <2>4. QED
    BY <1>2, <1>5, <1>6, <1>16, <2>3
       DEF OverlayKey, startupVars, replyVars, appVars, micVars, runVars
<1>17. CASE OverlayWakes
  <2>1. Wanted \in Displays
    BY <1>2, AppTyped DEF Wanted
  <2>2. lock' \in Seq(Entries)
    BY <1>2, <1>17, <2>1, QueueTyped DEF OverlayWakes, Writers
  <2>3. QED
    BY <1>2, <1>5, <1>6, <1>17, <2>2
       DEF OverlayWakes, startupVars, replyVars, appVars, micVars, runVars
<1>18. CASE CallRuns
  <2>1. Show(request, Baseline) \in Displays
    BY <1>2, <1>18, AppTyped DEF CallRuns
  <2>2. lock' \in Seq(Entries)
    BY <1>2, <1>18, <2>1, QueueTyped DEF CallRuns, Writers
  <2>3. QED
    BY <1>2, <1>5, <1>6, <1>18, <2>2
       DEF CallRuns, startupVars, replyVars, micVars, runVars
<1>19. CASE Send
  <2> DEFINE entry == Head(lock)
  <2>1. entry \in Entries /\ Tail(lock) \in Seq(Entries)
    BY <1>2, <1>19 DEF Send
  <2>2. lock' \in Seq(Entries)
    <3>1. Without(Tail(lock), "restore") \in Seq(Entries)
      BY <2>1, WithoutTyped
    <3>2. QED
      BY <1>19, <2>1, <3>1 DEF Send
  <2>3. entry.by \in Writers /\ entry.screen \in Displays
    BY <2>1 DEF Entries
  <2> HIDE DEF entry
  <2>4. led' \in {0, 2, 4, 6} /\ shownBy' \in Writers \cup {"nobody"}
    BY <1>2, <1>19, <2>3 DEF Send, entry, Displays, Writers
  <2>5. /\ startup' \in {startup, "pause"} /\ (startup' = startup \/ entry.by = "startup")
        /\ reader' \in {reader, "read"}
        /\ restore' \in {restore, "sleeping", "none"}
        /\ overlay' \in {overlay, "sleeping", "none"}
        /\ (caller' = caller /\ request' = request) \/ (caller' = "idle" /\ request' = None)
    BY <1>19, <2>3, Zenon DEF Send, Sent, entry
  <2>6. QED
    BY <1>2, <1>5, <1>6, <1>19, <2>2, <2>4, <2>5 DEF Send, runVars, Writers
<1>20. ASSUME NEW button \in Buttons, Reply(button) PROVE Rest'
  <2>1. /\ link' = link /\ mode' = mode /\ step' = step /\ startup' = startup
        /\ mode = "replies" /\ UNCHANGED <<lost, restore, overlay, caller, request, last, special,
                                         led, shownBy>>
    BY <1>20 DEF Reply, startupVars, appVars, micVars, runVars
  <2>2. Len(Script') = 2 /\ Len(Script) = 2
    <3>1. ~Scanning /\ ~Scanning'
      BY <2>1 DEF Scanning
    <3>2. (~Scanning => Len(Script) = 2)'
      BY ScriptFacts, PTL
    <3>3. QED
      BY <3>1, <3>2, ScriptFacts
  <2>3. HomeText' \in Texts \ {"led"}
    BY DEF HomeText, Texts
  <2>4. /\ Show(HomeText', Baseline) \in Displays
        /\ Show("ZONE", Baseline) \in Displays /\ Show("VOL", Baseline) \in Displays
    BY <2>3, ShownTyped DEF Texts
  <2>5. lock' \in Seq(Entries)
    <3> DEFINE screen == IF button \in {"up", "down"} THEN Show(HomeText', Baseline)
                         ELSE IF button \in {"left", "right"} THEN Show("ZONE", Baseline)
                         ELSE Show("VOL", Baseline)
    <3>1. screen \in Displays
      BY <2>4
    <3>2. lock' = Append(lock, [by |-> "reader", screen |-> screen])
      BY <1>20 DEF Reply, Queue
    <3> HIDE DEF screen
    <3>3. QED
      BY <1>2, <3>1, <3>2 DEF Entries, Writers
  <2>6. zone' \in 0 .. 1 /\ reader' \in {"read", "replying", "restoring"}
    BY <1>2, <1>20 DEF Reply
  <2>7. channel' \in 0 .. 1 /\ volume' \in 0 .. MaxVolume
    <3>1. channel' \in {(channel + 1) % 2, 0, channel}
      BY <1>20, Zenon DEF Reply
    <3>2. volume' = volume \/ (volume < MaxVolume /\ volume' = volume + 1)
          \/ (volume > 0 /\ volume' = volume - 1)
      BY <1>20, Zenon DEF Reply
    <3>3. QED
      BY <1>2, <3>1, <3>2, ScreenAssumption
  <2>8. QED
    BY <1>2, <2>1, <2>2, <2>5, <2>6, <2>7
<1>21. ASSUME NEW screen \in Screens, SendDisplay(screen) PROVE Rest'
  BY <1>2, <1>5, <1>6, <1>21
     DEF SendDisplay, MayCall, startupVars, replyVars, micVars, runVars
<1>22. ASSUME NEW display \in {ModeScreen, None}, SetParrot(display) PROVE Rest'
  BY <1>2, <1>5, <1>6, <1>22
     DEF SetParrot, MayCall, startupVars, replyVars, micVars, runVars
<1>23. QED
  BY <1>8, <1>9, <1>10, <1>11, <1>12, <1>13, <1>14, <1>15, <1>16, <1>17, <1>18, <1>19,
     <1>20, <1>21, <1>22 DEF Next, StartupSteps

-----------------------------------------------------------------------------
(* The script and what was seen of it *)

\* One more screen is seen: the sequence of those sent is one longer.
LEMMA OneMoreSeen ==
  ASSUME NEW S, NEW script \in Seq(S), NEW at \in 1 .. Len(script)
  PROVE  Append(SubSeq(script, 1, at - 1), script[at]) = SubSeq(script, 1, at)
<1> DEFINE before == SubSeq(script, 1, at - 1)
           after == SubSeq(script, 1, at)
<1>1. at \in Nat /\ at >= 1 /\ at - 1 \in Nat /\ Len(script) \in Nat
  OBVIOUS
<1>2. /\ before \in Seq(S) /\ Len(before) = at - 1
      /\ \A i \in 1 .. at - 1 : before[i] = script[i]
  BY <1>1
<1>3. /\ after \in Seq(S) /\ Len(after) = at
      /\ \A i \in 1 .. at : after[i] = script[i]
  BY <1>1
<1>4. script[at] \in S
  OBVIOUS
<1> HIDE DEF before, after
<1> DEFINE more == Append(before, script[at])
<1>5. /\ more \in Seq(S) /\ Len(more) = at
      /\ \A i \in 1 .. at : more[i] = script[i]
  BY <1>1, <1>2, <1>4
<1> HIDE DEF more
<1>6. more = after
  BY <1>1, <1>3, <1>5, SeqEqual
<1>7. QED
  BY <1>6 DEF more, before, after

\* A radio that starts has no session to scan in.
LEMMA ScanInit == Init => ScanInv
BY DEF Init, ScanInv

\* Every step keeps the scan in order: the startup sends the next screen of the script and
\* waits, and nobody else of a scanning radio queues anything.
LEMMA ScanStep == WaitInv /\ ScanInv /\ [Next]_vars => ScanInv'
<1> SUFFICES ASSUME WaitInv, ScanInv, [Next]_vars, Scanning' PROVE ScanInv'
  BY Zenon DEF ScanInv
<1>1. mode' = mode
  BY DEF Next, vars, Connect, LinkLost, SessionEnds, StartupSteps, StartupSends, StartupWakes,
         StartupCloses, RestoreWakes, OverlayKey, OverlayWakes, CallRuns, Send, Reply,
         SendDisplay, SetParrot, runVars
<1>2. Scanning
  BY <1>1 DEF Scanning
<1>3. mode # "replies" /\ mode # "app"
  BY <1>2 DEF Scanning
<1> DEFINE One == <<[by |-> "startup", screen |-> Script[step]]>>
           Scan ==
               /\ reader = "read" /\ restore = "none" /\ overlay = "none" /\ caller = "idle"
               /\ link = "down" => lock = <<>>
               /\ link = "up" =>
                      /\ startup # "off"
                      /\ seen = SubSeq(Script, 1, SentSoFar)
                      /\ lock = IF startup = "queued" THEN One ELSE <<>>
                      /\ startup = "closing" => step = Len(Script)
<1>4. Scan
  BY <1>2, Zenon DEF ScanInv
<1>5. Script \in Seq(Displays) /\ Len(Script) \in Nat /\ Len(Script) >= 2
  BY ScriptFacts
<1>6. UNCHANGED <<zone, channel>> => Script' = Script
  BY <1>1, ScriptStays
<1>7. /\ link \in {"up", "lost", "down"} /\ step \in Nat
      /\ startup \in {"send", "queued", "pause", "closing", "off"}
      /\ link = "up" => step \in 1 .. Len(Script)
  <2>1. /\ link \in {"up", "lost", "down"} /\ step \in 0 .. Len(Script)
        /\ startup \in {"send", "queued", "pause", "closing", "off"}
        /\ link = "up" => step \in 1 .. Len(Script)
    BY Zenon DEF WaitInv, TypeOK
  <2>2. QED
    BY <1>5, <2>1
<1>8. SUFFICES Scan'
  BY Zenon DEF ScanInv
<1>9. CASE UNCHANGED vars
  BY <1>4, <1>6, <1>9
     DEF vars, startupVars, replyVars, appVars, micVars, runVars, countVars, SentSoFar
<1>10. CASE Connect
  BY <1>4, <1>5, <1>6, <1>10 DEF Connect, appVars, runVars, SentSoFar
<1>11. CASE LinkLost
  BY <1>4, <1>6, <1>11 DEF LinkLost, startupVars, replyVars, appVars, micVars
<1>12. CASE SessionEnds
  BY <1>4, <1>6, <1>12 DEF SessionEnds, micVars
<1>13. CASE StartupSends
  <2>1. lock' = One /\ Script' = Script /\ seen' = seen
    BY <1>4, <1>6, <1>13 DEF StartupSends, Queue, replyVars, micVars
  <2>2. QED
    BY <1>4, <1>13, <2>1 DEF StartupSends, replyVars, appVars, micVars, runVars, SentSoFar
<1>14. CASE StartupWakes
  BY <1>2, <1>4, <1>5, <1>6, <1>7, <1>14
     DEF StartupWakes, replyVars, appVars, micVars, runVars, SentSoFar
<1>15. CASE StartupCloses
  BY <1>4, <1>6, <1>15 DEF StartupCloses, replyVars, appVars, micVars, runVars
<1>16. CASE Send
  <2>1. lock = One /\ startup = "queued" /\ seen = SubSeq(Script, 1, step - 1) /\ link = "up"
    BY <1>4, <1>16 DEF Send, SentSoFar
  <2>2. Head(lock) = [by |-> "startup", screen |-> Script[step]] /\ Tail(lock) = <<>>
    BY <2>1
  <2>3. Head(lock).by = "startup" /\ Head(lock).screen = Script[step]
    BY <2>2
  <2>4. seen' = Append(seen, Script[step]) /\ lock' = <<>>
    BY <1>4, <1>16, <2>2, <2>3 DEF Send
  <2>5. seen' = SubSeq(Script, 1, step)
    BY <1>5, <1>7, <2>1, <2>4, OneMoreSeen
  <2>6. /\ startup' = "pause" /\ reader' = "read" /\ restore' = "none" /\ overlay' = "none"
        /\ caller' = "idle"
    BY <1>4, <1>16, <2>3, Zenon DEF Send, Sent
  <2>7. link' = "up" /\ step' = step /\ Script' = Script
    BY <1>6, <1>16, <2>1 DEF Send, runVars
  <2>8. QED
    BY <2>4, <2>5, <2>6, <2>7 DEF SentSoFar
<1>17. ~RestoreWakes /\ ~OverlayKey /\ ~OverlayWakes /\ ~CallRuns
  BY <1>3, <1>4 DEF RestoreWakes, OverlayKey, OverlayWakes, CallRuns
<1>18. /\ ~\E button \in Buttons : Reply(button)
       /\ ~\E screen \in Screens : SendDisplay(screen)
       /\ ~\E display \in {ModeScreen, None} : SetParrot(display)
  BY <1>3 DEF Reply, SendDisplay, SetParrot, MayCall
<1>19. QED
  BY <1>9, <1>10, <1>11, <1>12, <1>13, <1>14, <1>15, <1>16, <1>17, <1>18 DEF Next, StartupSteps

-----------------------------------------------------------------------------
(* The mic at the end of a scan *)

\* A radio that starts has completed nothing.
LEMMA RestInit == Init => RestInv
BY DEF Init, RestInv

\* Every step keeps the mic behind the script, and what was complete at rest: the session of
\* a complete scan closes, and the turn of run() that sees it end returns.
LEMMA RestStep == ~SendsFail /\ WaitInv /\ ScanInv /\ RestInv /\ [Next]_vars => RestInv'
<1> SUFFICES ASSUME ~SendsFail, WaitInv, ScanInv, RestInv, [Next]_vars PROVE RestInv'
  OBVIOUS
<1> DEFINE Ends == ended => complete /\ link = "down"
           AtRest ==
               complete =>
                   /\ Scanning /\ shown = Home /\ led = 0
                   /\ link = "up" => startup = "closing"
                   /\ link = "down" => ended
           Light == Scanning /\ mode # LedMode => led = 0
           Follows ==
               Scanning /\ link = "up" /\ SentSoFar > 0 =>
                   /\ mode # LedMode => shown = Script[SentSoFar]
                   /\ mode = LedMode =>
                          /\ SentSoFar > 1 => shown = Home
                          /\ SentSoFar = Len(Script) => led = 0
<1>1. Ends /\ AtRest /\ Light /\ Follows
  BY Zenon DEF RestInv
<1>2. SUFFICES Ends' /\ AtRest' /\ Light' /\ Follows'
  BY Zenon DEF RestInv
<1>3. mode' = mode
  BY DEF Next, vars, Connect, LinkLost, SessionEnds, StartupSteps, StartupSends, StartupWakes,
         StartupCloses, RestoreWakes, OverlayKey, OverlayWakes, CallRuns, Send, Reply,
         SendDisplay, SetParrot, runVars
<1>4. Scanning' = Scanning
  BY <1>3 DEF Scanning
<1>5. CASE ~Scanning
  <2>1. ~complete /\ ~ended
    BY <1>1, <1>5, Zenon
  <2>2. /\ complete' = complete \/ complete' = (complete \/ Scanning)
        /\ ended' = ended \/ \E raised \in {FALSE, SendsFail} : ended' = RunReturns(raised)
    BY DEF Next, vars, Connect, LinkLost, SessionEnds, StartupSteps, StartupSends,
           StartupWakes, StartupCloses, RestoreWakes, OverlayKey, OverlayWakes, CallRuns, Send,
           Reply, SendDisplay, SetParrot, startupVars, runVars
  <2>3. ~complete'
    BY <1>5, <2>1, <2>2, Zenon
  <2>4. ~ended'
    <3>1. ASSUME NEW raised PROVE RunReturns(raised) = FALSE
      BY <1>5, Zenon DEF RunReturns
    <3>2. ended' = ended \/ ended' = FALSE
      BY <2>2, <3>1, Zenon
    <3>3. QED
      BY <2>1, <3>2, Zenon
  <2>5. QED
    BY <1>4, <1>5, <2>3, <2>4, Zenon
<1>6. CASE Scanning
  <2> USE <1>6
  <2>1. /\ reader = "read" /\ restore = "none" /\ overlay = "none" /\ caller = "idle"
        /\ link = "up" =>
               lock = IF startup = "queued"
                      THEN <<[by |-> "startup", screen |-> Script[step]]>> ELSE <<>>
    BY Zenon DEF ScanInv
  <2>2. link = "up" => step \in 1 .. Len(Script)
    BY Zenon DEF WaitInv
  <2>3. ~RestoreWakes /\ ~OverlayKey /\ ~OverlayWakes /\ ~CallRuns
    BY <2>1 DEF RestoreWakes, OverlayKey, OverlayWakes, CallRuns, Scanning
  <2>4. /\ ~\E button \in Buttons : Reply(button)
        /\ ~\E screen \in Screens : SendDisplay(screen)
        /\ ~\E display \in {ModeScreen, None} : SetParrot(display)
    BY DEF Reply, SendDisplay, SetParrot, MayCall, Scanning
  <2>5. zone' = zone /\ channel' = channel
    BY <2>3, <2>4 DEF Next, vars, Connect, LinkLost, SessionEnds, StartupSteps, StartupSends,
           StartupWakes, StartupCloses, Send, replyVars
  <2>6. Home' = Home /\ Script' = Script
    BY <1>3, <2>5, HomeStays, ScriptStays
  <2>7. CASE UNCHANGED vars
    <3>1. UNCHANGED <<ended, complete, link, shown, led, startup, step>>
      BY <2>7 DEF vars, startupVars, micVars, runVars
    <3>2. SentSoFar' = SentSoFar
      BY <3>1 DEF SentSoFar
    <3>3. Ends' /\ AtRest'
      BY <1>1, <1>4, <2>6, <3>1, Zenon
    <3>4. Light' /\ Follows'
      BY <1>1, <1>3, <1>4, <2>6, <3>1, <3>2
    <3>5. QED
      BY <3>3, <3>4
  <2>8. CASE Connect
    <3>1. link = "down" /\ ~ended /\ ended' = ended /\ complete' = complete
      BY <2>8, Zenon DEF Connect, runVars
    <3>2. ~complete' /\ ~ended'
      BY <1>1, <3>1, Zenon
    <3>3. led' = 0 /\ SentSoFar' = 0
      BY <2>8 DEF Connect, SentSoFar
    <3>4. Light' /\ Follows'
      BY <3>3
    <3>5. QED
      BY <3>2, <3>4, Zenon
  <2>9. CASE LinkLost
    <3>1. /\ UNCHANGED <<ended, complete, shown, led>>
          /\ link = "up" /\ link' = "lost"
      BY <2>9 DEF LinkLost, startupVars, micVars
    <3>2. Light' /\ Follows'
      BY <1>1, <1>3, <1>4, <3>1
    <3>3. ~ended
      BY <1>1, <3>1
    <3>4. Ends' /\ AtRest'
      BY <1>1, <1>4, <2>6, <3>1, <3>3
    <3>5. QED
      BY <3>2, <3>4
  <2>10. CASE SessionEnds
    <3>1. UNCHANGED <<complete, shown, led>> /\ link = "lost" /\ link' = "down"
      BY <2>10 DEF SessionEnds, micVars
    <3>2. \E raised \in {FALSE, SendsFail} : ended' = RunReturns(raised)
      BY <2>10, Zenon DEF SessionEnds
    <3>3. ended' <=> complete
      <4>1. PICK raised \in {FALSE, SendsFail} : ended' = RunReturns(raised)
        BY <3>2, Zenon
      <4>2. ~raised
        BY Zenon
      <4>3. QED
        BY <4>1, <4>2, Zenon DEF RunReturns
    <3>4. Light' /\ Follows'
      BY <1>1, <1>3, <1>4, <3>1
    <3>5. Ends' /\ AtRest'
      BY <1>1, <1>4, <2>6, <3>1, <3>3
    <3>6. QED
      BY <3>4, <3>5
  <2>11. CASE StartupSends
    <3>1. /\ UNCHANGED <<ended, complete, shown, led>> /\ link = "up" /\ link' = link
          /\ startup = "send" /\ startup' = "queued" /\ step' = step
      BY <2>11 DEF StartupSends, micVars, runVars
    <3>2. SentSoFar' = SentSoFar
      BY <3>1 DEF SentSoFar
    <3>3. ~complete' /\ ~ended'
      BY <1>1, <3>1
    <3>4. Light' /\ Follows'
      BY <1>1, <1>3, <1>4, <2>6, <3>1, <3>2
    <3>5. QED
      BY <3>3, <3>4, Zenon
  <2>12. CASE StartupWakes
    <3>1. /\ UNCHANGED <<ended, shown, led, link>> /\ link = "up" /\ startup = "pause"
          /\ step \in 1 .. Len(Script)
      BY <2>2, <2>12 DEF StartupWakes, micVars, runVars
    <3>2. ~complete /\ ~ended /\ ~ended'
      BY <1>1, <3>1
    <3>3. SentSoFar = step /\ SentSoFar' = step
      BY <2>12, <3>1, ScriptFacts DEF StartupWakes, SentSoFar
    <3>4. Light' /\ Follows'
      BY <1>1, <1>3, <1>4, <2>6, <3>1, <3>3
    <3>5. CASE step < Len(Script)
      <4>1. ~complete'
        BY <2>12, <3>2, <3>5 DEF StartupWakes
      <4>2. QED
        BY <3>2, <3>4, <4>1, Zenon
    <3>6. CASE ~(step < Len(Script))
      <4>1. startup' = "closing" /\ link' = "up" /\ step = Len(Script)
        BY <2>12, <3>1, <3>6, ScriptFacts DEF StartupWakes
      <4>2. shown = Home /\ led = 0
        BY <1>1, <3>1, <3>3, <4>1, ScriptFacts
      <4>3. shown' = Home' /\ led' = 0 /\ Scanning'
        BY <1>4, <2>6, <3>1, <4>2
      <4>4. AtRest'
        BY <4>1, <4>3
      <4>5. QED
        BY <3>2, <3>4, <4>4, Zenon
    <3>7. QED
      BY <3>5, <3>6
  <2>13. CASE StartupCloses
    <3>1. /\ UNCHANGED <<ended, complete, shown, led>>
          /\ link = "up" /\ link' = "lost"
      BY <2>13 DEF StartupCloses, micVars, runVars
    <3>2. ~ended
      BY <1>1, <3>1
    <3>3. Light' /\ Follows'
      BY <1>1, <1>3, <1>4, <3>1
    <3>4. Ends' /\ AtRest'
      BY <1>1, <1>4, <2>6, <3>1, <3>2
    <3>5. QED
      BY <3>3, <3>4
  <2>14. CASE Send
    <3> DEFINE screen == Script[step]
    <3>1. /\ UNCHANGED <<ended, complete, step, link>> /\ link = "up" /\ startup = "queued"
          /\ step \in 1 .. Len(Script)
      BY <2>1, <2>2, <2>14 DEF Send, runVars
    <3>2. ~complete' /\ ~ended'
      BY <1>1, <3>1
    <3>3. lock = <<[by |-> "startup", screen |-> screen]>>
      BY <2>1, <3>1
    <3>4. Head(lock).by = "startup" /\ Head(lock).screen = screen
      BY <3>3
    <3>5. /\ screen.text = "led" => led' = screen.tail.value /\ shown' = shown
          /\ screen.text # "led" => shown' = screen /\ led' = led
      BY <2>14, <3>4, Zenon DEF Send
    <3>6. startup' = "pause"
      BY <2>14, <3>4, Zenon DEF Send, Sent
    <3>7. SentSoFar = step - 1 /\ SentSoFar' = step
      BY <3>1, <3>6 DEF SentSoFar
    <3>8. CASE mode # LedMode
      <4>1. screen.text # "led"
        BY <3>1, <3>8, ScriptFacts DEF Drawn
      <4>2. Light' /\ Follows'
        BY <1>1, <1>3, <2>6, <3>5, <3>7, <3>8, <4>1
      <4>3. QED
        BY <3>2, <4>2, Zenon
    <3>9. CASE mode = LedMode
      <4> HIDE DEF screen
      <4>1. Follows'
        <5>1. CASE step = 1
          <6>1. Len(Script) > 2 /\ Len(Script) \in Nat
            BY <3>9, ScriptFacts
          <6>2. SentSoFar' = 1 /\ Script' = Script
            BY <2>6, <3>7, <5>1
          <6>3. mode' = LedMode
            BY <1>3, <3>9
          <6>4. ASSUME NEW n \in Nat, n > 2 PROVE ~(1 > 1) /\ 1 # n
            BY <6>4
          <6>5. ~(SentSoFar' > 1) /\ SentSoFar' # Len(Script')
            BY <6>1, <6>2, <6>4, Zenon
          <6>6. QED
            BY <6>3, <6>5
        <5>2. CASE step = 2
          <6>1. Len(Script) > 2 /\ screen = Home /\ screen.text # "led"
            BY <3>9, <5>2, ScriptFacts, HomeDrawn DEF Drawn, screen
          <6>2. QED
            BY <1>3, <2>6, <3>5, <3>7, <3>9, <5>2, <6>1
        <5>3. CASE step > 2
          <6>1. screen.text = "led" /\ (step = Len(Script) => screen.tail.value = 0)
            BY <3>1, <3>9, <5>3, ScriptFacts DEF screen
          <6>2. shown = Home
            BY <1>1, <3>1, <3>7, <3>9, <5>3
          <6>3. QED
            BY <1>3, <2>6, <3>5, <3>7, <3>9, <5>3, <6>1, <6>2
        <5>4. QED
          BY <3>1, <5>1, <5>2, <5>3, ScriptFacts
      <4>2. Light'
        BY <1>3, <3>9
      <4>3. QED
        BY <3>2, <4>1, <4>2, Zenon
    <3>10. QED
      BY <3>8, <3>9
  <2>15. QED
    BY <2>3, <2>4, <2>7, <2>8, <2>9, <2>10, <2>11, <2>12, <2>13, <2>14 DEF Next, StartupSteps
<1>7. QED
  BY <1>5, <1>6

-----------------------------------------------------------------------------
(* Theorems *)

\* Every variable keeps its type, whatever the modes, the keys, the calls and the losses.
THEOREM TypeCorrect == Spec => []TypeOK
<1>1. WaitInv => TypeOK
  BY DEF WaitInv
<1>2. QED
  BY <1>1, WaitInit, WaitStep, PTL DEF Spec

\* The types and the places hold in every state,
LEMMA WaitAlways == Spec => []WaitInv
BY WaitInit, WaitStep, PTL DEF Spec

\* and so does the order of a scan.
LEMMA ScanAlways == Spec => []ScanInv
BY WaitAlways, ScanInit, ScanStep, PTL DEF Spec

\* A scan is complete in the step only that ends its last pause, and what the mic was shown
\* in the session is then the script, from its start to the screen that ends it.
LEMMA CompleteStep ==
  ASSUME WaitInv, ScanInv, [Next]_vars, ~complete, complete'
  PROVE  seen = Script
<1>1. StartupWakes
  BY DEF Next, vars, Connect, LinkLost, SessionEnds, StartupSteps, StartupSends, StartupCloses,
         RestoreWakes, OverlayKey, OverlayWakes, CallRuns, Send, Reply, SendDisplay, SetParrot,
         startupVars
<1>2. link = "up" /\ startup = "pause" /\ ~(step < Len(Script)) /\ (complete \/ Scanning)
  BY <1>1, Zenon DEF StartupWakes
<1>3. Scanning
  BY <1>2, Zenon
<1>4. step \in 1 .. Len(Script) /\ seen = SubSeq(Script, 1, SentSoFar)
  BY <1>2, <1>3, Zenon DEF WaitInv, ScanInv
<1>5. step = Len(Script) /\ SentSoFar = step
  BY <1>2, <1>4, ScriptFacts DEF SentSoFar
<1>6. seen = SubSeq(Script, 1, Len(Script))
  BY <1>4, <1>5
<1>7. QED
  <2>1. Script \in Seq(Displays)
    BY ScriptFacts
  <2> DEFINE script == Script
             whole == SubSeq(script, 1, Len(script))
  <2>2. script \in Seq(Displays)
    BY <2>1
  <2> HIDE DEF script
  <2>3. /\ whole \in Seq(Displays) /\ Len(whole) = Len(script)
        /\ \A i \in 1 .. Len(script) : whole[i] = script[i]
    BY <2>2
  <2> HIDE DEF whole
  <2>4. whole = script
    BY <2>2, <2>3, SeqEqual
  <2>5. QED
    BY <1>6, <2>4 DEF whole, script

\* A scan that counts as complete was shown whole, in one session, however often sessions
\* were lost before and whichever of their tasks failed.  (_display_test_complete)
THEOREM CompleteScanShownWhole == Spec => ScanShownWhole
<1>1. WaitInv /\ ScanInv /\ [Next]_vars => [~complete /\ complete' => seen = Script]_vars
  BY CompleteStep
<1>2. QED
  BY <1>1, WaitAlways, ScanAlways, PTL DEF Spec, ScanShownWhole

\* A radio that ends after its scan has left the mic at its home screen with the light off,
\* whatever scan it was, unless a task of the session fails while it closes: run() is then in
\* another session when it ends.
THEOREM NeverLeftExperimental == ~SendsFail /\ Spec => []NothingExperimentalLeft
<1> SUFFICES ASSUME ~SendsFail PROVE Spec => []NothingExperimentalLeft
  OBVIOUS
<1>1. WaitInv /\ RestInv => NothingExperimentalLeft
  BY Zenon DEF WaitInv, RestInv, NothingExperimentalLeft
<1>2. WaitInv /\ ScanInv /\ RestInv /\ [Next]_vars => RestInv'
  BY RestStep
<1>3. QED
  BY <1>1, <1>2, WaitAlways, ScanAlways, RestInit, PTL DEF Spec
=============================================================================
