---------------------------- MODULE LocalUI_proofs ----------------------------
(***************************************************************************)
(* Theorems about LocalUI, for any lengths of the texts, any step, limit    *)
(* and width of the target, and any number of presses.                      *)
(***************************************************************************)
EXTENDS LocalUI, TLAPS

-----------------------------------------------------------------------------
\* The inductive invariant.

\* The keys that lie behind the field being typed are complete.
Behind == /\ pc \in {"talkbackKey", "talkbackId"} => text.apiKey = KeyLength
          /\ pc = "talkbackId" => text.talkbackKey = KeyLength

\* A view that is left shows nothing more; an edit lasts no longer than its view,
\* and until it ends the number that is edited is the one on the display, but for
\* the press that is being handled.
Edited == /\ view.exit => pc \notin {"peek", "input"}
          /\ view.set => pc \in {"peek", "input", "frame"} /\ ~view.exit
          /\ view.set /\ pc \in {"peek", "input"} => shown = view.target

\* A number above the limit has a cause.
Caused == /\ view.target > Limit => high
          /\ target # None /\ target > Limit => high

IInv == /\ TypeOK /\ text \in [Fields -> Nat]
        /\ SettingsAreOfOneDialogue /\ Behind /\ Edited /\ Caused

-----------------------------------------------------------------------------
\* The operators.

\* The constants are numbers.
LEMMA Numeric ==
  /\ Step \in Nat /\ Step > 0 /\ Limit \in Nat /\ Word \in Nat /\ Word > 0
  /\ Limit + Step < Word /\ CharCount \in Nat /\ CharCount > 0
  /\ SsidMax \in Nat /\ PasswordMin \in Nat /\ PasswordMax \in Nat
  /\ PasswordMin <= PasswordMax /\ KeyLength \in Nat /\ IdLength \in Nat
  /\ IdLength > 0 /\ MaxPresses \in Nat
<1>1. \A n \in Nat \ {0} : n \in Nat /\ n > 0
  OBVIOUS
<1>2. {Step, Limit, Word, CharCount, SsidMax, PasswordMin, PasswordMax, KeyLength,
       IdLength, MaxPresses} \subseteq Nat \ {0}
  BY UiAssumption
<1> QED
  BY <1>1, <1>2, UiAssumption

\* A turn of the knob leaves an index in its list.
LEMMA TurnedInside ==
  ASSUME NEW size \in Nat, size > 0, NEW index \in 0 .. size - 1
  PROVE  Turned(index, size) \in 0 .. size - 1
<1>1. \A i \in Int : i % size \in 0 .. size - 1
  OBVIOUS
<1> QED
  BY <1>1 DEF Turned

\* One step up goes to the limit at most, and one step down comes to a larger
\* number only below 0.
LEMMA Stepped ==
  ASSUME NEW t \in Numbers
  PROVE  /\ (t + Step) % Word \in Numbers /\ (t - Step) % Word \in Numbers
         /\ ~(t < Step) => (t - Step) % Word = t - Step
<1>1. \A i \in Int : i % Word \in 0 .. Word - 1
  BY Numeric
<1>2. \A i \in 0 .. Word - 1 : i % Word = i
  BY Numeric
<1>3. t \in Int /\ t <= Word - 1 /\ Step \in Int /\ Step > 0
  BY Numeric DEF Numbers
<1> QED
  BY <1>1, <1>2, <1>3, Numeric DEF Numbers

\* The longest texts.
LEMMA Lengths ==
  /\ Fields = {"ssid", "password", "apiKey", "talkbackKey", "talkbackId"}
  /\ MaxLength.ssid = SsidMax /\ MaxLength.password = PasswordMax
  /\ MaxLength.apiKey = KeyLength /\ MaxLength.talkbackKey = KeyLength
  /\ MaxLength.talkbackId = IdLength
  /\ \A f \in Fields : MaxLength[f] \in Nat
BY Numeric DEF Fields, MaxLength

\* A press that is taken leaves the queue as it should be.
LEMMA Taken ==
  ASSUME TypeOK, NEW pins, Receive(pins)
  PROVE  /\ inputs' \in Seq(Pins) /\ Len(inputs') <= InputLength
         /\ settled' \in BOOLEAN /\ data' \in BOOLEAN
         /\ presses' \in 0 .. MaxPresses
<1>1. inputs \in Seq(Pins) /\ inputs # <<>> /\ Len(inputs) <= InputLength
  BY DEF TypeOK, Receive
<1>2. Tail(inputs) \in Seq(Pins) /\ Len(Tail(inputs)) = Len(inputs) - 1
  BY <1>1
<1> QED
  BY <1>1, <1>2 DEF TypeOK, Receive, InputLength

\* A dialogue begins and ends with empty texts.
LEMMA ClearedTexts ==
  ASSUME text \in [Fields -> Nat], NEW fields,
         \A f \in Fields : text[f] \in 0 .. MaxLength[f],
         text' = Cleared(fields)
  PROVE  /\ text' \in [Fields -> Nat]
         /\ \A f \in Fields : text'[f] \in 0 .. MaxLength[f]
         /\ \A f \in fields \cap Fields : text'[f] = 0
BY Lengths DEF Cleared

-----------------------------------------------------------------------------
\* The invariant holds at first.

LEMMA InitIInv == Init => IInv
<1> SUFFICES ASSUME Init PROVE IInv
  OBVIOUS
<1>1. /\ text \in [Fields -> Nat]
      /\ \A f \in Fields : text[f] = 0 /\ text[f] \in 0 .. MaxLength[f]
  BY Lengths DEF Init
<1>2. TypeOK
  <2>1. view \in [exit : BOOLEAN, set : BOOLEAN, target : Numbers]
    BY Numeric DEF Init, Numbers
  <2>2. m_CharIndex \in Chars /\ presses \in 0 .. MaxPresses
    BY Numeric DEF Init, Chars
  <2>3. inputs \in Seq(Pins) /\ Len(inputs) <= InputLength
    BY DEF Init, InputLength
  <2>4. m_MenuIndex \in 0 .. 2 /\ typed \in Nat
    BY DEF Init
  <2>5. /\ settled \in BOOLEAN /\ data \in BOOLEAN /\ high \in BOOLEAN
        /\ {shown, target} \subseteq Numbers \cup {None}
        /\ pc = "menu" /\ settings = <<>>
    BY Zenon DEF Init
  <2> QED
    BY <1>1, <2>1, <2>2, <2>3, <2>4, <2>5 DEF TypeOK
<1>3. SettingsAreOfOneDialogue
  BY <1>1 DEF Init, SettingsAreOfOneDialogue, WifiSetup, TsSetup, Fields, MaxLength
<1>4. Behind /\ Edited /\ Caused
  BY Numeric DEF Init, Behind, Edited, Caused
<1> QED
  BY <1>1, <1>2, <1>3, <1>4 DEF IInv

-----------------------------------------------------------------------------
\* The menu.

LEMMA MenuTurnStep ==
  ASSUME IInv, MenuTurn
  PROVE  IInv'
<1>1. m_MenuIndex' \in 0 .. 2
  <2>1. m_MenuIndex \in 0 .. 3 - 1
    BY DEF IInv, TypeOK
  <2>2. Turned(m_MenuIndex, 3) \in 0 .. 3 - 1
    BY <2>1, TurnedInside
  <2> QED
    BY <2>2 DEF MenuTurn
<1>2. TypeOK' /\ text' \in [Fields -> Nat]
  BY <1>1, Taken DEF IInv, TypeOK, MenuTurn, dialogue, sensor
<1>3. SettingsAreOfOneDialogue'
  BY DEF IInv, SettingsAreOfOneDialogue, MenuTurn, dialogue
<1>4. Behind' /\ Edited' /\ Caused'
  BY DEF IInv, Behind, Edited, Caused, MenuTurn, dialogue, sensor
<1> QED
  BY <1>2, <1>3, <1>4 DEF IInv

LEMMA MenuIgnoreStep ==
  ASSUME IInv, MenuIgnore
  PROVE  IInv'
<1>1. TypeOK' /\ text' \in [Fields -> Nat]
  BY Taken DEF IInv, TypeOK, MenuIgnore, dialogue, sensor
<1>2. SettingsAreOfOneDialogue'
  BY DEF IInv, SettingsAreOfOneDialogue, MenuIgnore, dialogue
<1>3. Behind' /\ Edited' /\ Caused'
  BY DEF IInv, Behind, Edited, Caused, MenuIgnore, dialogue, sensor
<1> QED
  BY <1>1, <1>2, <1>3 DEF IInv

LEMMA MenuSelectStep ==
  ASSUME IInv, MenuSelect
  PROVE  IInv'
<1>1. pc = "menu" /\ pc' \in {"peek", "ssid", "apiKey"}
  BY DEF IInv, TypeOK, MenuSelect
<1>2. ~view.set
  BY <1>1 DEF IInv, Edited
<1>3. UNCHANGED <<m_MenuIndex, shown, target, high, settings>>
  BY DEF MenuSelect, dialogue
<1>4. CASE pc' = "peek"
  <2>1. /\ view' = [view EXCEPT !.exit = FALSE]
        /\ UNCHANGED <<m_CharIndex, text, typed>>
    BY <1>4 DEF MenuSelect, dialogue, Fields, MaxLength
  <2>2. view' \in [exit : BOOLEAN, set : BOOLEAN, target : Numbers]
        /\ view'.set = view.set /\ ~view'.exit /\ view'.target = view.target
    BY <2>1 DEF IInv, TypeOK
  <2>3. TypeOK' /\ text' \in [Fields -> Nat]
    BY <1>3, <1>4, <2>1, <2>2, Taken DEF IInv, TypeOK, MenuSelect
  <2>4. SettingsAreOfOneDialogue'
    BY <1>3, <1>4, <2>1
       DEF IInv, SettingsAreOfOneDialogue, WifiSetup, TsSetup, Fields, MaxLength
  <2>5. Behind' /\ Edited' /\ Caused'
    BY <1>2, <1>3, <1>4, <2>2 DEF IInv, Behind, Edited, Caused
  <2> QED
    BY <2>3, <2>4, <2>5 DEF IInv
<1>5. CASE pc' \in {"ssid", "apiKey"}
  <2>1. /\ text' = Cleared(IF pc' = "ssid" THEN WifiSetup ELSE TsSetup)
        /\ m_CharIndex' = 0 /\ typed' = 0 /\ view' = view
    BY <1>5 DEF MenuSelect, Fields, MaxLength
  <2>2. /\ text' \in [Fields -> Nat]
        /\ \A f \in Fields : text'[f] \in 0 .. MaxLength[f]
        /\ pc' = "ssid" => \A f \in WifiSetup : text'[f] = 0
        /\ pc' = "apiKey" => \A f \in TsSetup : text'[f] = 0
    <3>1. text \in [Fields -> Nat] /\ \A f \in Fields : text[f] \in 0 .. MaxLength[f]
      BY DEF IInv, TypeOK
    <3>2. WifiSetup \subseteq Fields /\ TsSetup \subseteq Fields
      BY Lengths DEF WifiSetup, TsSetup
    <3> QED
      BY <1>5, <2>1, <3>1, <3>2, ClearedTexts
  <2>3. TypeOK'
    <3>1. pc' \in Fields /\ m_CharIndex' \in Chars
      BY <1>5, <2>1, Lengths, Numeric DEF Chars
    <3> QED
      BY <1>3, <2>1, <2>2, <3>1, Taken DEF IInv, TypeOK, MenuSelect
  <2>4. SettingsAreOfOneDialogue'
    BY <1>3, <1>5, <2>1, <2>2, Lengths
       DEF IInv, SettingsAreOfOneDialogue, WifiSetup, TsSetup
  <2>5. Behind' /\ Edited' /\ Caused'
    BY <1>2, <1>3, <1>5, <2>1 DEF IInv, Behind, Edited, Caused
  <2> QED
    BY <2>2, <2>3, <2>4, <2>5 DEF IInv
<1> QED
  BY <1>1, <1>4, <1>5

-----------------------------------------------------------------------------
\* The view of the sensors.

LEMMA PeekDataStep ==
  ASSUME IInv, PeekData
  PROVE  IInv'
<1>1. TypeOK' /\ text' \in [Fields -> Nat]
  BY DEF IInv, TypeOK, PeekData, dialogue, sensor
<1>2. SettingsAreOfOneDialogue'
  BY DEF IInv, SettingsAreOfOneDialogue, PeekData, dialogue, WifiSetup, TsSetup,
         Fields, MaxLength
<1>3. Behind' /\ Edited' /\ Caused'
  BY DEF IInv, Behind, Edited, Caused, PeekData, dialogue, sensor
<1> QED
  BY <1>1, <1>2, <1>3 DEF IInv

LEMMA NoPressStep ==
  ASSUME IInv, NoPress
  PROVE  IInv'
<1>1. TypeOK' /\ text' \in [Fields -> Nat]
  BY DEF IInv, TypeOK, NoPress, dialogue, sensor
<1>2. SettingsAreOfOneDialogue'
  BY DEF IInv, SettingsAreOfOneDialogue, NoPress, dialogue, WifiSetup, TsSetup,
         Fields, MaxLength
<1>3. Behind' /\ Edited' /\ Caused'
  BY DEF IInv, Behind, Edited, Caused, NoPress, dialogue, sensor
<1> QED
  BY <1>1, <1>2, <1>3 DEF IInv

\* A press in the view can only change the number, the target and the cause.
LEMMA HandleStep ==
  ASSUME IInv, NEW pins, Handle(pins),
         view' \in [exit : BOOLEAN, set : BOOLEAN, target : Numbers],
         view'.set => ~view'.exit,
         target' \in Numbers \cup {None}, high' \in BOOLEAN, Caused'
  PROVE  IInv'
<1>1. TypeOK' /\ text' \in [Fields -> Nat]
  BY Taken DEF IInv, TypeOK, Handle, dialogue
<1>2. SettingsAreOfOneDialogue'
  BY DEF IInv, SettingsAreOfOneDialogue, Handle, dialogue, WifiSetup, TsSetup,
         Fields, MaxLength
<1>3. Behind' /\ Edited'
  BY DEF IInv, Behind, Edited, Handle
<1> QED
  BY <1>1, <1>2, <1>3 DEF IInv

LEMMA ViewTypes ==
  ASSUME IInv
  PROVE  /\ view \in [exit : BOOLEAN, set : BOOLEAN, target : Numbers]
         /\ target \in Numbers \cup {None} /\ high \in BOOLEAN
         /\ view.target \in Numbers
BY DEF IInv, TypeOK

LEMMA TurnUpStep ==
  ASSUME IInv, TurnUp
  PROVE  IInv'
<1> DEFINE up == (view.target + Step) % Word
           t  == IF up <= Limit THEN up ELSE Limit
<1>1. /\ view' = [view EXCEPT !.target = t] /\ view.set /\ Handle({"ROT_A"})
      /\ UNCHANGED <<target, high>>
  BY DEF TurnUp
<1>2. t \in Numbers /\ ~(t > Limit)
  BY ViewTypes, Stepped, Numeric DEF Numbers
<1> HIDE DEF t
<1>3. /\ view' \in [exit : BOOLEAN, set : BOOLEAN, target : Numbers]
      /\ view'.set => ~view'.exit
      /\ view'.target = t
  BY <1>1, <1>2, ViewTypes DEF IInv, Edited
<1>4. Caused'
  BY <1>1, <1>2, <1>3, Zenon DEF IInv, Caused
<1> QED
  BY <1>1, <1>3, <1>4, ViewTypes, HandleStep

LEMMA TurnDownStep ==
  ASSUME IInv, TurnDown
  PROVE  IInv'
<1> DEFINE t == (view.target - Step) % Word
<1>1. /\ view' = [view EXCEPT !.target = t] /\ view.set /\ Handle({"ROT_B"})
      /\ high' = (high \/ view.target < Step) /\ UNCHANGED target
  BY DEF TurnDown
<1>2. t \in Numbers /\ (~(view.target < Step) => t = view.target - Step)
  BY ViewTypes, Stepped
<1> HIDE DEF t
<1>3. /\ view' \in [exit : BOOLEAN, set : BOOLEAN, target : Numbers]
      /\ view'.set => ~view'.exit
      /\ view'.target = t
  BY <1>1, <1>2, ViewTypes DEF IInv, Edited
<1>4. t > Limit => high \/ view.target < Step
  <2>1. view.target \in Nat
    BY ViewTypes, Numeric DEF Numbers
  <2>2. view.target > Limit => high
    BY DEF IInv, Caused
  <2> QED
    BY <1>2, <2>1, <2>2, Numeric
<1>5. high' \in BOOLEAN /\ Caused'
  BY <1>1, <1>3, <1>4, ViewTypes DEF IInv, Caused, None
<1> QED
  BY <1>1, <1>3, <1>5, ViewTypes, HandleStep

LEMMA ConfirmStep ==
  ASSUME IInv, Confirm
  PROVE  IInv'
<1>1. /\ view' = [view EXCEPT !.set = FALSE] /\ Handle({"ROT_SW"})
      /\ target' = view.target /\ high' = high
  BY DEF Confirm
<1>2. /\ view' \in [exit : BOOLEAN, set : BOOLEAN, target : Numbers]
      /\ ~view'.set /\ view'.target = view.target
  BY <1>1, ViewTypes
<1>3. Caused'
  BY <1>1, <1>2 DEF IInv, Caused
<1> QED
  BY <1>1, <1>2, <1>3, ViewTypes, HandleStep

LEMMA EditStep ==
  ASSUME IInv, Edit
  PROVE  IInv'
<1>1. /\ view' = [view EXCEPT !.set = TRUE] /\ Handle({"ROT_SW"})
      /\ UNCHANGED <<target, high>>
  BY DEF Edit
<1>2. ~view.exit
  BY DEF IInv, Edited, Edit, Handle
<1>3. /\ view' \in [exit : BOOLEAN, set : BOOLEAN, target : Numbers]
      /\ ~view'.exit /\ view'.target = view.target
  BY <1>1, <1>2, ViewTypes
<1>4. Caused'
  BY <1>1, <1>3 DEF IInv, Caused, None
<1> QED
  BY <1>1, <1>3, <1>4, ViewTypes, HandleStep

LEMMA LeaveStep ==
  ASSUME IInv, Leave
  PROVE  IInv'
<1>1. /\ view' = [view EXCEPT !.set = FALSE, !.exit = TRUE] /\ Handle({"SW0"})
      /\ UNCHANGED <<target, high>>
  BY DEF Leave
<1>2. /\ view' \in [exit : BOOLEAN, set : BOOLEAN, target : Numbers]
      /\ ~view'.set /\ view'.target = view.target
  BY <1>1, ViewTypes
<1>3. Caused'
  BY <1>1, <1>2 DEF IInv, Caused, None
<1> QED
  BY <1>1, <1>2, <1>3, ViewTypes, HandleStep

LEMMA IgnoreStep ==
  ASSUME IInv, Ignore
  PROVE  IInv'
<1>1. /\ Handle(IF view.set THEN {"SW1", "SW2"} ELSE {"ROT_A", "ROT_B", "SW1", "SW2"})
      /\ UNCHANGED <<view, target, high>>
  BY DEF Ignore
<1>2. Caused' /\ (view'.set => ~view'.exit)
  BY <1>1 DEF IInv, Caused, Edited, None
<1> QED
  BY <1>1, <1>2, ViewTypes, HandleStep

LEMMA FrameStep ==
  ASSUME IInv, Frame
  PROVE  IInv'
<1> DEFINE t == IF view.set \/ target = None THEN view.target ELSE target
<1>1. /\ pc = "frame" /\ pc' = IF view.exit THEN "menu" ELSE "peek"
      /\ view' = [view EXCEPT !.target = t]
      /\ shown' = IF view.exit THEN None ELSE view.target
      /\ UNCHANGED <<inputs, settled, m_MenuIndex, m_CharIndex, text, typed, settings,
                     target, high, data, presses>>
  BY DEF Frame, dialogue
<1>2. t \in Numbers /\ (t > Limit => high) /\ (view.set => t = view.target)
  BY ViewTypes DEF IInv, Caused, None
<1> HIDE DEF t
<1>3. /\ view' \in [exit : BOOLEAN, set : BOOLEAN, target : Numbers]
      /\ view'.set = view.set /\ view'.exit = view.exit /\ view'.target = t
  BY <1>1, <1>2, ViewTypes
<1>4. TypeOK' /\ text' \in [Fields -> Nat]
  BY <1>1, <1>3, ViewTypes DEF IInv, TypeOK
<1>5. SettingsAreOfOneDialogue'
  BY <1>1
     DEF IInv, SettingsAreOfOneDialogue, WifiSetup, TsSetup, Fields, MaxLength
<1>6. Behind' /\ Edited' /\ Caused'
  BY <1>1, <1>2, <1>3 DEF IInv, Behind, Edited, Caused, None
<1> QED
  BY <1>4, <1>5, <1>6 DEF IInv

-----------------------------------------------------------------------------
\* The dialogues.

\* The texts, and the dialogue that is shown.
LEMMA TextTypes ==
  ASSUME IInv, NEW pins, Dialogue(pins)
  PROVE  /\ text \in [Fields -> Nat] /\ typed \in Nat
         /\ \A f \in Fields : text[f] \in 0 .. MaxLength[f]
         /\ pc \in Fields /\ ~view.set
BY Lengths DEF IInv, TypeOK, Edited, Dialogue

\* What a press in a dialogue leaves alone.
LEMMA DialogueStep ==
  ASSUME IInv, NEW pins, Dialogue(pins),
         pc' \in Fields \cup {"menu"}, m_CharIndex' \in Chars,
         text' \in [Fields -> Nat], \A f \in Fields : text'[f] \in 0 .. MaxLength[f],
         typed' \in Nat, SettingsAreOfOneDialogue', Behind',
         settings' = <<>> \/ settings' \in Seq([str1 : Nat, str2 : Nat, id : Nat])
  PROVE  IInv'
<1>1. TypeOK'
  BY Taken DEF IInv, TypeOK, Dialogue, sensor
<1>2. Edited' /\ Caused'
  BY TextTypes DEF IInv, Edited, Caused, Dialogue, sensor, Fields, MaxLength
<1> QED
  BY <1>1, <1>2 DEF IInv

LEMMA ChooseStep ==
  ASSUME IInv, Choose
  PROVE  IInv'
<1>1. /\ Dialogue({"ROT_A", "ROT_B"})
      /\ m_CharIndex' = Turned(m_CharIndex, CharCount)
      /\ UNCHANGED <<pc, text, typed, settings>>
  BY DEF Choose
<1>2. m_CharIndex' \in Chars
  <2>1. m_CharIndex \in 0 .. CharCount - 1
    BY DEF IInv, TypeOK, Chars
  <2> QED
    BY <1>1, <2>1, TurnedInside, Numeric DEF Chars
<1>3. SettingsAreOfOneDialogue' /\ Behind'
  BY <1>1 DEF IInv, SettingsAreOfOneDialogue, Behind
<1>4. settings' = <<>> \/ settings' \in Seq([str1 : Nat, str2 : Nat, id : Nat])
  BY <1>1 DEF IInv, TypeOK
<1> QED
  BY <1>1, <1>2, <1>3, <1>4, TextTypes, DialogueStep

LEMMA TypeStep ==
  ASSUME IInv, Type
  PROVE  IInv'
<1> DEFINE n == IF text[pc] < MaxLength[pc] THEN text[pc] + 1 ELSE text[pc]
<1>1. /\ Dialogue({"ROT_SW"}) /\ text' = [text EXCEPT ![pc] = n]
      /\ typed' = typed + 1 /\ UNCHANGED <<pc, m_CharIndex, settings>>
  BY DEF Type
<1>2. /\ pc \in Fields /\ text \in [Fields -> Nat] /\ typed \in Nat
      /\ \A f \in Fields : text[f] \in Nat /\ text[f] <= MaxLength[f]
      /\ MaxLength[pc] \in Nat
  BY <1>1, TextTypes, Lengths
<1>3. n \in 0 .. MaxLength[pc] /\ text[pc] <= n /\ n <= text[pc] + 1
      /\ (text[pc] = MaxLength[pc] => n = text[pc])
  BY <1>2
<1> HIDE DEF n
<1>4. /\ text' \in [Fields -> Nat] /\ typed' \in Nat
      /\ \A f \in Fields : text'[f] \in 0 .. MaxLength[f]
  BY <1>1, <1>2, <1>3, Lengths
<1>5. SettingsAreOfOneDialogue'
  <2>1. PICK s \in Nat, p \in Nat, a \in Nat, k \in Nat, i \in Nat :
           /\ text.ssid = s /\ text.password = p /\ text.apiKey = a
           /\ text.talkbackKey = k /\ text.talkbackId = i
    BY <1>2, Lengths
  <2>2. /\ pc \in WifiSetup => s + p <= typed
        /\ pc \in TsSetup => a + k + i <= typed
    BY <2>1 DEF IInv, SettingsAreOfOneDialogue
  <2>3. /\ text'.ssid = IF pc = "ssid" THEN n ELSE s
        /\ text'.password = IF pc = "password" THEN n ELSE p
        /\ text'.apiKey = IF pc = "apiKey" THEN n ELSE a
        /\ text'.talkbackKey = IF pc = "talkbackKey" THEN n ELSE k
        /\ text'.talkbackId = IF pc = "talkbackId" THEN n ELSE i
    BY <1>1, <1>2, <2>1, Lengths
  <2>4. PICK m \in Nat : m = n /\ m <= text[pc] + 1
    BY <1>2, <1>3
  <2>5. /\ pc' \in WifiSetup => text'.ssid + text'.password <= typed'
        /\ pc' \in TsSetup
           => text'.apiKey + text'.talkbackKey + text'.talkbackId <= typed'
    BY <1>1, <1>2, <2>1, <2>2, <2>3, <2>4, Lengths DEF WifiSetup, TsSetup
  <2> QED
    BY <1>1, <2>5 DEF IInv, SettingsAreOfOneDialogue
<1>6. Behind'
  BY <1>1, <1>2, Lengths DEF IInv, Behind
<1>7. /\ m_CharIndex' \in Chars
      /\ settings' = <<>> \/ settings' \in Seq([str1 : Nat, str2 : Nat, id : Nat])
  BY <1>1 DEF IInv, TypeOK
<1> QED
  BY <1>1, <1>2, <1>4, <1>5, <1>6, <1>7, DialogueStep

LEMMA DeleteStep ==
  ASSUME IInv, Delete
  PROVE  IInv'
<1> DEFINE n == IF text[pc] > 0 THEN text[pc] - 1 ELSE text[pc]
<1>1. /\ Dialogue({"SW1"}) /\ text' = [text EXCEPT ![pc] = n]
      /\ UNCHANGED <<pc, m_CharIndex, typed, settings>>
  BY DEF Delete
<1>2. /\ pc \in Fields /\ text \in [Fields -> Nat] /\ typed \in Nat
      /\ \A f \in Fields : text[f] \in Nat /\ text[f] <= MaxLength[f]
      /\ MaxLength[pc] \in Nat
  BY <1>1, TextTypes, Lengths
<1>3. n \in 0 .. MaxLength[pc] /\ n <= text[pc]
  BY <1>2
<1> HIDE DEF n
<1>4. /\ text' \in [Fields -> Nat] /\ typed' \in Nat
      /\ \A f \in Fields : text'[f] \in 0 .. MaxLength[f]
  BY <1>1, <1>2, <1>3, Lengths
<1>5. SettingsAreOfOneDialogue'
  BY <1>1, <1>2, <1>3, Lengths, SMTT(30)
     DEF IInv, SettingsAreOfOneDialogue, WifiSetup, TsSetup
<1>6. Behind'
  BY <1>1, <1>2, Lengths DEF IInv, Behind
<1>7. /\ m_CharIndex' \in Chars
      /\ settings' = <<>> \/ settings' \in Seq([str1 : Nat, str2 : Nat, id : Nat])
  BY <1>1 DEF IInv, TypeOK
<1> QED
  BY <1>1, <1>2, <1>4, <1>5, <1>6, <1>7, DialogueStep

LEMMA AbandonStep ==
  ASSUME IInv, Abandon
  PROVE  IInv'
<1> DEFINE fields == IF pc \in WifiSetup THEN WifiSetup ELSE TsSetup
<1>1. /\ Dialogue({"SW0"}) /\ text' = Cleared(fields) /\ pc' = "menu"
      /\ UNCHANGED <<m_CharIndex, typed, settings>>
  BY DEF Abandon
<1> HIDE DEF fields
<1>2. /\ text' \in [Fields -> Nat]
      /\ \A f \in Fields : text'[f] \in 0 .. MaxLength[f]
  BY <1>1, TextTypes, ClearedTexts
<1>3. SettingsAreOfOneDialogue' /\ Behind'
  BY <1>1, Lengths
     DEF IInv, SettingsAreOfOneDialogue, Behind, WifiSetup, TsSetup
<1>4. /\ m_CharIndex' \in Chars /\ typed' \in Nat
      /\ settings' = <<>> \/ settings' \in Seq([str1 : Nat, str2 : Nat, id : Nat])
  BY <1>1 DEF IInv, TypeOK
<1> QED
  BY <1>1, <1>2, <1>3, <1>4, DialogueStep

\* The settings that a dialogue sends when it is complete are those of a network or
\* of a talkback.
LEMMA ProceedStep ==
  ASSUME IInv, Proceed
  PROVE  IInv'
<1> DEFINE wifi == [str1 |-> text.ssid, str2 |-> text.password, id |-> 0]
           keys == [str1 |-> text.apiKey, str2 |-> text.talkbackKey,
                    id |-> text.talkbackId]
           Right(s) == \/ s.id = 0 /\ s.str1 <= SsidMax
                          /\ s.str2 \in PasswordMin .. PasswordMax
                       \/ s.id = IdLength /\ s.str1 = KeyLength /\ s.str2 = KeyLength
           Setting == [str1 : Nat, str2 : Nat, id : Nat]
<1>1. Dialogue({"SW2"}) /\ UNCHANGED <<m_CharIndex, text, typed>>
  BY DEF Proceed
<1>2. /\ pc \in Fields /\ text \in [Fields -> Nat] /\ typed \in Nat
      /\ \A f \in Fields : text[f] \in 0 .. MaxLength[f]
  BY <1>1, TextTypes
<1>3. /\ settings = <<>> \/ settings \in Seq(Setting)
      /\ \A i \in 1 .. Len(settings) : Right(settings[i])
  BY DEF IInv, TypeOK, SettingsAreOfOneDialogue
<1>4. /\ pc' \in Fields \cup {"menu"}
      /\ pc' \in WifiSetup => pc \in WifiSetup
      /\ pc' \in TsSetup => pc \in TsSetup
      /\ Behind'
  <2>1. /\ OnTo.ssid = "password" /\ OnTo.password = "menu"
        /\ OnTo.apiKey = "talkbackKey" /\ OnTo.talkbackKey = "talkbackId"
        /\ OnTo.talkbackId = "menu"
    BY DEF OnTo
  <2>2. pc' = pc \/ (Complete(pc) /\ pc' = OnTo[pc])
    BY Zenon DEF Proceed
  <2>3. pc \in {"apiKey", "talkbackKey"} /\ Complete(pc) => text[pc] = KeyLength
    BY Lengths DEF Complete
  <2> QED
    BY <1>1, <1>2, <2>1, <2>2, <2>3, Lengths DEF IInv, Behind, WifiSetup, TsSetup
<1>5. \/ settings' = settings
      \/ pc = "password" /\ Complete(pc) /\ settings' = <<wifi>>
      \/ pc = "talkbackId" /\ Complete(pc) /\ settings' = <<keys>>
  BY <1>2, Lengths DEF Proceed, Send
<1>6. wifi \in Setting /\ keys \in Setting
  BY <1>2, Lengths
<1>7. pc = "password" /\ Complete(pc) => Right(wifi)
  BY <1>2, Lengths, Numeric DEF Complete
<1>8. pc = "talkbackId" /\ Complete(pc) => Right(keys)
  BY <1>2, Lengths DEF Complete, IInv, Behind
<1> HIDE DEF wifi, keys, Right
<1>9. /\ settings' = <<>> \/ settings' \in Seq(Setting)
      /\ \A i \in 1 .. Len(settings') : Right(settings'[i])
  <2>1. CASE settings' = settings
    BY <1>3, <2>1
  <2>2. ASSUME NEW s \in Setting, Right(s), settings' = <<s>>
        PROVE  /\ settings' \in Seq(Setting)
               /\ \A i \in 1 .. Len(settings') : Right(settings'[i])
    BY <2>2
  <2> QED
    BY <1>5, <1>6, <1>7, <1>8, <2>1, <2>2
<1>10. SettingsAreOfOneDialogue'
  <2>1. /\ pc' \in WifiSetup => text'.ssid + text'.password <= typed'
        /\ pc' \in TsSetup
           => text'.apiKey + text'.talkbackKey + text'.talkbackId <= typed'
    BY <1>1, <1>4 DEF IInv, SettingsAreOfOneDialogue
  <2> QED
    BY <1>9, <2>1 DEF SettingsAreOfOneDialogue, Right
<1>11. m_CharIndex' \in Chars /\ typed' \in Nat
  BY <1>1 DEF IInv, TypeOK
<1> HIDE DEF Setting
<1>12. settings' = <<>> \/ settings' \in Seq([str1 : Nat, str2 : Nat, id : Nat])
  BY <1>9 DEF Setting
<1> QED
  BY <1>1, <1>2, <1>4, <1>10, <1>11, <1>12, DialogueStep

-----------------------------------------------------------------------------
\* The interrupts and the other tasks.

LEMMA CallbackStep ==
  ASSUME IInv, NEW pin \in Pins, Callback(pin)
  PROVE  IInv'
<1>1. inputs' \in Seq(Pins) /\ Len(inputs') <= InputLength
  <2>1. inputs \in Seq(Pins) /\ Len(inputs) <= InputLength /\ InputLength \in Nat
    BY DEF IInv, TypeOK, InputLength
  <2> QED
    BY <2>1 DEF Callback
<1>2. presses' \in 0 .. MaxPresses
  <2>1. presses \in 0 .. MaxPresses /\ MaxPresses \in Nat
    BY Numeric DEF IInv, TypeOK
  <2> QED
    BY <2>1 DEF Callback
<1>3. TypeOK' /\ text' \in [Fields -> Nat]
  BY <1>1, <1>2 DEF IInv, TypeOK, Callback, dialogue, sensor
<1>4. SettingsAreOfOneDialogue'
  BY DEF IInv, SettingsAreOfOneDialogue, Callback, dialogue
<1>5. Behind' /\ Edited' /\ Caused'
  BY DEF IInv, Behind, Edited, Caused, Callback, dialogue, sensor
<1> QED
  BY <1>3, <1>4, <1>5 DEF IInv

LEMMA SettleStep ==
  ASSUME IInv, Settle
  PROVE  IInv'
<1>1. TypeOK' /\ text' \in [Fields -> Nat]
  BY DEF IInv, TypeOK, Settle, dialogue, sensor
<1>2. SettingsAreOfOneDialogue'
  BY DEF IInv, SettingsAreOfOneDialogue, Settle, dialogue
<1>3. Behind' /\ Edited' /\ Caused'
  BY DEF IInv, Behind, Edited, Caused, Settle, dialogue, sensor
<1> QED
  BY <1>1, <1>2, <1>3 DEF IInv

LEMMA PublishStep ==
  ASSUME IInv, Publish
  PROVE  IInv'
<1>1. TypeOK' /\ text' \in [Fields -> Nat]
  BY DEF IInv, TypeOK, Publish, dialogue, sensor
<1>2. SettingsAreOfOneDialogue'
  BY DEF IInv, SettingsAreOfOneDialogue, Publish, dialogue
<1>3. Behind' /\ Edited' /\ Caused'
  BY DEF IInv, Behind, Edited, Caused, Publish, dialogue, sensor
<1> QED
  BY <1>1, <1>2, <1>3 DEF IInv

LEMMA SetTargetStep ==
  ASSUME IInv, SetTarget
  PROVE  IInv'
<1>1. PICK t \in Remote :
         /\ target' = t /\ high' = (high \/ t > Limit)
         /\ UNCHANGED <<inputs, settled, pc, m_MenuIndex, m_CharIndex, text, typed,
                        settings, view, shown, data, presses>>
  BY DEF SetTarget, dialogue
<1>2. t \in Numbers
  BY UiAssumption DEF Numbers
<1>3. high' \in BOOLEAN
  BY <1>1, Zenon
<1>4. TypeOK' /\ text' \in [Fields -> Nat]
  BY <1>1, <1>2, <1>3 DEF IInv, TypeOK
<1>5. SettingsAreOfOneDialogue'
  BY <1>1 DEF IInv, SettingsAreOfOneDialogue
<1>6. Behind' /\ Edited'
  BY <1>1 DEF IInv, Behind, Edited
<1>7. Caused'
  <2>1. view.target > Limit => high
    BY DEF IInv, Caused
  <2> QED
    BY <1>1, <2>1, Zenon DEF Caused
<1> QED
  BY <1>4, <1>5, <1>6, <1>7 DEF IInv

LEMMA TakeSettingsStep ==
  ASSUME IInv, TakeSettings
  PROVE  IInv'
<1>1. TypeOK' /\ text' \in [Fields -> Nat]
  BY DEF IInv, TypeOK, TakeSettings, sensor
<1>2. SettingsAreOfOneDialogue'
  BY DEF IInv, SettingsAreOfOneDialogue, TakeSettings
<1>3. Behind' /\ Edited' /\ Caused'
  BY DEF IInv, Behind, Edited, Caused, TakeSettings, sensor
<1> QED
  BY <1>1, <1>2, <1>3 DEF IInv

-----------------------------------------------------------------------------
\* Every step keeps the invariant.

LEMMA NextIInv == IInv /\ [Next]_vars => IInv'
<1> SUFFICES ASSUME IInv, [Next]_vars PROVE IInv'
  OBVIOUS
<1>1. CASE SensorView
  BY <1>1, PeekDataStep, NoPressStep, TurnUpStep, TurnDownStep, ConfirmStep,
     EditStep, LeaveStep, IgnoreStep, FrameStep, Zenon DEF SensorView
<1>2. CASE UI
  BY <1>1, <1>2, MenuTurnStep, MenuSelectStep, MenuIgnoreStep, ChooseStep, TypeStep,
     DeleteStep, AbandonStep, ProceedStep, Zenon DEF UI
<1>3. CASE Settle \/ Publish \/ SetTarget \/ TakeSettings
  BY <1>3, SettleStep, PublishStep, SetTargetStep, TakeSettingsStep
<1>4. CASE \E pin \in Pins : Callback(pin)
  BY <1>4, CallbackStep
<1>5. CASE UNCHANGED vars
  <2>1. TypeOK' /\ text' \in [Fields -> Nat]
    BY <1>5 DEF IInv, TypeOK, vars, dialogue, sensor
  <2>2. SettingsAreOfOneDialogue'
    BY <1>5 DEF IInv, SettingsAreOfOneDialogue, vars, dialogue
  <2>3. Behind' /\ Edited' /\ Caused'
    BY <1>5 DEF IInv, Behind, Edited, Caused, vars, dialogue, sensor
  <2> QED
    BY <2>1, <2>2, <2>3 DEF IInv
<1> QED
  BY <1>2, <1>3, <1>4, <1>5, Zenon DEF Next

LEMMA Inductive == Spec => []IInv
BY InitIInv, NextIInv, PTL DEF Spec

\* Every variable keeps its type: the indices stay in their lists and the texts in
\* their arrays (LocalUI.cpp, WifiSetup.cpp, TsSetup.cpp).
THEOREM TypeCorrect == Spec => []TypeOK
<1>1. IInv => TypeOK
  BY DEF IInv
<1> QED
  BY <1>1, Inductive, PTL

\* Settings that wait are complete and of one kind, and no dialogue holds what was
\* typed into an earlier one (WifiSetup.cpp and TsSetup.cpp, handleInput).
THEOREM SettingsAreWhole == Spec => []SettingsAreOfOneDialogue
<1>1. IInv => SettingsAreOfOneDialogue
  BY DEF IInv
<1> QED
  BY <1>1, Inductive, PTL

\* The target that is confirmed is the one on the display, and above the limit only
\* for a cause (SensorView.cpp, handleInput and display).
THEOREM ConfirmedWasShown == Spec => ConfirmedIsShown
<1>1. ASSUME IInv, [Next]_vars
      PROVE  [Confirm => target' = shown /\ (target' > Limit => high)]_vars
  <2> SUFFICES ASSUME Confirm
               PROVE  target' = shown /\ (target' > Limit => high)
    OBVIOUS
  <2>1. view.set /\ pc = "input" /\ target' = view.target
    BY DEF Confirm, Handle
  <2> QED
    BY <1>1, <2>1 DEF IInv, Edited, Caused
<1> QED
  BY <1>1, Inductive, PTL DEF Spec, ConfirmedIsShown

=============================================================================
