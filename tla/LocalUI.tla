------------------------------- MODULE LocalUI -------------------------------
(***************************************************************************)
(* The user interface: the interrupt handler of src/task/gpio/Input.cpp     *)
(* puts the presses of four buttons and a rotary knob into a queue of two,  *)
(* and the task of src/task/localUI/LocalUI.cpp takes them out, one in each *)
(* pass of the menu or of the view that it shows: the sensor values with    *)
(* the CO2 target (src/view/SensorView.cpp), or the dialogue for a network  *)
(* (WifiSetup.cpp) or for ThingSpeak (TsSetup.cpp).  A target goes to the   *)
(* queue that the CO2 controller and the network manager use as well,       *)
(* settings go to the network manager.  A text is its length here.          *)
(***************************************************************************)
EXTENDS Integers, Sequences

CONSTANTS
    Step,        \* of the target, 10 ppm
    Limit,       \* of the target, 1500 ppm
    Word,        \* a target is a number modulo Word, 2^32
    CharCount,   \* size of characterSet, 64
    SsidMax,     \* characters of a network name, at most: 31
    PasswordMin, PasswordMax,  \* characters of a password: 8, 63
    KeyLength, IdLength,       \* characters of a key and of a talkback's id: 16, 6
    Remote,      \* the targets that other tasks put into the queue
    MaxPresses   \* bound: presses

ASSUME UiAssumption ==
    /\ {Step, Limit, Word, CharCount, SsidMax, PasswordMin, PasswordMax, KeyLength,
        IdLength, MaxPresses} \subseteq Nat \ {0}
    /\ Limit + Step < Word /\ PasswordMin <= PasswordMax
    /\ Remote \subseteq 0 .. Word - 1

Pins        == {"ROT_A", "ROT_B", "ROT_SW", "SW0", "SW1", "SW2"}
InputLength == 2
Chars       == 0 .. CharCount - 1   \* characterSet, by its indices
None        == Word   \* no number: the queue is empty, or nothing is shown
Numbers     == 0 .. Word - 1

\* What is typed, and how long it may be.
MaxLength == [ssid |-> SsidMax, password |-> PasswordMax, apiKey |-> KeyLength,
              talkbackKey |-> KeyLength, talkbackId |-> IdLength]
Fields   == DOMAIN MaxLength
WifiSetup == {"ssid", "password"}
TsSetup   == Fields \ WifiSetup

VARIABLES
    inputs,         \* m_InputQueue
    settled,        \* 250 ms have passed since Input::s_LastInput
    pc,             \* the view that is shown, and where the task is in it
    m_MenuIndex,    \* UI::m_CharIndex
    m_CharIndex,    \* of the dialogue that is shown
    text,           \* the lengths of the texts of both dialogues
    view,           \* SensorView: exit, set: m_Co2SetEnabled, target: m_Co2Target
    shown,          \* the target on the display
    data,           \* m_DataQueue has been filled
    target,         \* m_TargetQueue
    settings,       \* m_SettingsQueue, of length 1
    typed,          \* history: presses of the knob in the dialogue, or since
    high,           \* history: a target above Limit came from another task, or
                    \* one was turned below 0
    presses

dialogue == <<m_CharIndex, text, typed, settings>>
sensor   == <<view, shown, target, high>>
vars == <<inputs, settled, pc, m_MenuIndex, dialogue, sensor, data, presses>>

Init == /\ inputs = <<>> /\ settled = FALSE /\ pc = "menu"
        /\ m_MenuIndex = 0 /\ m_CharIndex = 0
        /\ text = [f \in Fields |-> 0]
        /\ view = [exit |-> FALSE, set |-> FALSE, target |-> 0]
        /\ shown = None /\ data = FALSE /\ target = None /\ settings = <<>>
        /\ typed = 0 /\ high = FALSE /\ presses = 0

-----------------------------------------------------------------------------
\* Input::callback: any press counts as one for 250 ms, whether or not there
\* was room for it in the queue.
Callback(pin) ==
    /\ presses < MaxPresses /\ presses' = presses + 1
    /\ settled /\ settled' = FALSE
    /\ inputs' = IF Len(inputs) < InputLength THEN Append(inputs, pin) ELSE inputs
    /\ UNCHANGED <<pc, m_MenuIndex, dialogue, sensor, data>>

Settle == /\ ~settled /\ settled' = TRUE
          /\ UNCHANGED <<inputs, pc, m_MenuIndex, dialogue, sensor, data, presses>>

\* A press is taken from the queue.
Receive(pins) == /\ inputs # <<>> /\ Head(inputs) \in pins
                 /\ inputs' = Tail(inputs)
                 /\ UNCHANGED <<settled, data, presses>>

Turned(index, size) ==
    (IF Head(inputs) = "ROT_A" THEN index + 1 ELSE index - 1 + size) % size

-----------------------------------------------------------------------------
\* UI::handleInput, in the menu.
MenuTurn == /\ pc = "menu" /\ Receive({"ROT_A", "ROT_B"})
            /\ m_MenuIndex' = Turned(m_MenuIndex, 3)
            /\ UNCHANGED <<pc, dialogue, sensor>>

\* Mutant: a dialogue begins with what was typed the last time.
ClearedNot(fields) == text

\* WifiSetup::display and TsSetup::display begin.
Cleared(fields) == [f \in Fields |-> IF f \in fields THEN 0 ELSE text[f]]

MenuSelect ==
    /\ pc = "menu" /\ Receive({"ROT_SW"})
    /\ pc' = <<"peek", "ssid", "apiKey">>[m_MenuIndex + 1]
    /\ \/ /\ pc' = "peek"
          /\ view' = [view EXCEPT !.exit = FALSE]
          /\ UNCHANGED dialogue
       \/ /\ pc' \in Fields
          /\ m_CharIndex' = 0 /\ typed' = 0
          /\ text' = Cleared(IF pc' = "ssid" THEN WifiSetup ELSE TsSetup)
          /\ UNCHANGED <<view, settings>>
    /\ UNCHANGED <<m_MenuIndex, shown, target, high>>

MenuIgnore == /\ pc = "menu" /\ Receive({"SW0", "SW1", "SW2"})
              /\ UNCHANGED <<pc, m_MenuIndex, dialogue, sensor>>

-----------------------------------------------------------------------------
\* SensorView::display: a pass waits for data, ...
PeekData == /\ pc = "peek" /\ data /\ pc' = "input"
            /\ UNCHANGED <<inputs, settled, m_MenuIndex, dialogue, sensor, data,
                           presses>>

\* ... handles a press, if there is one, ...
NoPress == /\ pc = "input" /\ inputs = <<>> /\ pc' = "frame"
           /\ UNCHANGED <<inputs, settled, m_MenuIndex, dialogue, sensor, data,
                          presses>>

Handle(pins) == /\ pc = "input" /\ Receive(pins) /\ pc' = "frame"
                /\ UNCHANGED <<m_MenuIndex, dialogue, shown>>

TurnUp == /\ view.set /\ Handle({"ROT_A"})
          /\ LET up == (view.target + Step) % Word
             IN view' = [view EXCEPT !.target = IF up <= Limit THEN up ELSE Limit]
          /\ UNCHANGED <<target, high>>

\* The comparison with 0 is one of unsigned numbers, and always true.
TurnDown == /\ view.set /\ Handle({"ROT_B"})
            /\ view' = [view EXCEPT !.target = (@ - Step) % Word]
            /\ high' = (high \/ view.target < Step)
            /\ UNCHANGED target

Confirm == /\ view.set /\ Handle({"ROT_SW"})
           /\ target' = view.target
           /\ view' = [view EXCEPT !.set = FALSE]
           /\ UNCHANGED high

Edit == /\ ~view.set /\ Handle({"ROT_SW"})
        /\ view' = [view EXCEPT !.set = TRUE]
        /\ UNCHANGED <<target, high>>

\* Mutant: an edit is left without its view.
LeaveEdit == /\ Handle({"SW0"})
             /\ view' = [view EXCEPT !.set = FALSE, !.exit = ~view.set]
             /\ UNCHANGED <<target, high>>

Leave == /\ Handle({"SW0"})
         /\ view' = [view EXCEPT !.set = FALSE, !.exit = TRUE]
         /\ UNCHANGED <<target, high>>

Ignore == /\ Handle(IF view.set THEN {"SW1", "SW2"}
                    ELSE {"ROT_A", "ROT_B", "SW1", "SW2"})
          /\ UNCHANGED <<view, target, high>>

\* Mutant: the target is read while it is being edited.
FramePeeking == /\ pc = "frame"
                /\ view' = [view EXCEPT !.target = IF target = None THEN @ ELSE target]
                /\ pc' = IF view.exit THEN "menu" ELSE "peek"
                /\ shown' = IF view.exit THEN None ELSE view.target
                /\ UNCHANGED <<inputs, settled, m_MenuIndex, dialogue, target, high,
                               data, presses>>

\* ... and shows the target, then reads it unless it is being edited.
Frame == /\ pc = "frame"
         /\ view' = [view EXCEPT !.target = IF view.set \/ target = None THEN @
                                            ELSE target]
         /\ pc' = IF view.exit THEN "menu" ELSE "peek"
         /\ shown' = IF view.exit THEN None ELSE view.target
         /\ UNCHANGED <<inputs, settled, m_MenuIndex, dialogue, target, high, data,
                        presses>>

SensorView == \/ PeekData \/ NoPress \/ TurnUp \/ TurnDown \/ Confirm \/ Edit
              \/ Leave \/ Ignore \/ Frame

-----------------------------------------------------------------------------
\* handleInput of the dialogues.

Dialogue(pins) == /\ pc \in Fields /\ Receive(pins)
                  /\ UNCHANGED <<m_MenuIndex, sensor>>

\* Mutant: the index runs one past the last character.
ChooseBeyond == /\ Dialogue({"ROT_A", "ROT_B"})
                  /\ m_CharIndex' = Turned(m_CharIndex, CharCount + 1)
                  /\ UNCHANGED <<pc, text, typed, settings>>

Choose == /\ Dialogue({"ROT_A", "ROT_B"})
          /\ m_CharIndex' = Turned(m_CharIndex, CharCount)
          /\ UNCHANGED <<pc, text, typed, settings>>

Type == /\ Dialogue({"ROT_SW"})
        /\ text' = [text EXCEPT ![pc] = IF @ < MaxLength[pc] THEN @ + 1 ELSE @]
        /\ typed' = typed + 1
        /\ UNCHANGED <<pc, m_CharIndex, settings>>

Delete == /\ Dialogue({"SW1"})
          /\ text' = [text EXCEPT ![pc] = IF @ > 0 THEN @ - 1 ELSE @]
          /\ UNCHANGED <<pc, m_CharIndex, typed, settings>>

Abandon == /\ Dialogue({"SW0"})
           /\ text' = Cleared(IF pc \in WifiSetup THEN WifiSetup ELSE TsSetup)
           /\ pc' = "menu"
           /\ UNCHANGED <<m_CharIndex, typed, settings>>

\* What a field needs before SW2 leads on.
Complete(field) == CASE field = "ssid" -> TRUE
                     [] field = "password" -> text[field] >= PasswordMin
                     [] OTHER -> text[field] = MaxLength[field]

\* xQueueSend with a timeout of 0: settings are lost if others are waiting.
Send(s) == settings' = IF settings = <<>> THEN <<s>> ELSE settings

OnTo == [ssid |-> "password", password |-> "menu", apiKey |-> "talkbackKey",
         talkbackKey |-> "talkbackId", talkbackId |-> "menu"]

Proceed ==
    /\ Dialogue({"SW2"})
    /\ \/ ~Complete(pc) /\ UNCHANGED <<pc, settings>>
       \/ /\ Complete(pc) /\ pc' = OnTo[pc]
          /\ CASE pc = "password" ->
                  Send([str1 |-> text.ssid, str2 |-> text.password, id |-> 0])
               [] pc = "talkbackId" ->
                  Send([str1 |-> text.apiKey, str2 |-> text.talkbackKey,
                        id |-> text.talkbackId])
               [] OTHER -> UNCHANGED settings
    /\ UNCHANGED <<m_CharIndex, text, typed>>

-----------------------------------------------------------------------------
\* The other tasks.

\* The reader's first values.
Publish == /\ ~data /\ data' = TRUE
           /\ UNCHANGED <<inputs, settled, pc, m_MenuIndex, dialogue, sensor, presses>>

\* The CO2 controller seeds the queue, a command of the service overwrites it.
SetTarget == \E t \in Remote :
                 /\ target' = t /\ high' = (high \/ t > Limit)
                 /\ UNCHANGED <<inputs, settled, pc, m_MenuIndex, dialogue, view,
                                shown, data, presses>>

\* The network manager takes settings, which Settings::id tells apart.
TakeSettings == /\ settings # <<>> /\ settings' = <<>>
                /\ UNCHANGED <<inputs, settled, pc, m_MenuIndex, m_CharIndex, text,
                               typed, sensor, data, presses>>

UI == \/ MenuTurn \/ MenuSelect \/ MenuIgnore \/ SensorView
      \/ Choose \/ Type \/ Delete \/ Abandon \/ Proceed

Next == \/ UI \/ Settle \/ Publish \/ SetTarget \/ TakeSettings
        \/ \E pin \in Pins : Callback(pin)

Spec == Init /\ [][Next]_vars

\* The task runs, and the reader publishes.
LiveSpec == Spec /\ WF_vars(UI) /\ WF_vars(Publish)

-----------------------------------------------------------------------------
\* Properties.

\* Every variable has its type: the two kinds of index stay inside their lists
\* and the texts inside their arrays, from whatever view to whatever view the
\* task goes.
TypeOK ==
    /\ inputs \in Seq(Pins) /\ Len(inputs) <= InputLength /\ settled \in BOOLEAN
    /\ pc \in {"menu", "peek", "input", "frame"} \cup Fields
    /\ m_MenuIndex \in 0 .. 2 /\ m_CharIndex \in Chars
    /\ \A f \in Fields : text[f] \in 0 .. MaxLength[f]
    /\ view \in [exit : BOOLEAN, set : BOOLEAN, target : Numbers]
    /\ {shown, target} \subseteq Numbers \cup {None}
    /\ data \in BOOLEAN /\ high \in BOOLEAN
    /\ settings = <<>> \/ settings \in Seq([str1 : Nat, str2 : Nat, id : Nat])
    /\ typed \in Nat /\ presses \in 0 .. MaxPresses

\* Settings that wait for the network manager are complete, and an id tells a
\* talkback from a network; nothing is in a dialogue, and so nothing is sent by
\* it, that was typed into an earlier one.
SettingsAreOfOneDialogue ==
    /\ \A i \in 1 .. Len(settings) :
          LET s == settings[i]
          IN \/ s.id = 0 /\ s.str1 <= SsidMax /\ s.str2 \in PasswordMin .. PasswordMax
             \/ s.id = IdLength /\ s.str1 = KeyLength /\ s.str2 = KeyLength
    /\ pc \in WifiSetup => text.ssid + text.password <= typed
    /\ pc \in TsSetup => text.apiKey + text.talkbackKey + text.talkbackId <= typed

\* A target that the user confirms is the one that was on the display, though
\* other tasks overwrite the queue during the edit; it is above the limit only
\* if another task put such a target there, or if it was turned below 0.
ConfirmedIsShown ==
    [][Confirm => target' = shown /\ (target' > Limit => high)]_vars

\* SW0, once in the queue, leads to the menu from every view, even if the
\* sensor view is waiting for the first data when it is pressed.
BackLeadsToMenu ==
    (\E i \in 1 .. Len(inputs) : inputs[i] = "SW0") ~> pc = "menu"

=============================================================================
