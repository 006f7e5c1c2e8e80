\* All views and dialogues; targets of other tasks inside and above the limit.
SPECIFICATION LiveSpec
CONSTANTS
    Step = 2
    Limit = 4
    Word = 8
    CharCount = 2
    SsidMax = 1
    PasswordMin = 1
    PasswordMax = 2
    KeyLength = 1
    IdLength = 1
    Remote = {3, 5}
    MaxPresses = 8
INVARIANTS TypeOK SettingsAreOfOneDialogue
PROPERTIES ConfirmedIsShown BackLeadsToMenu
