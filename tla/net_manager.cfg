\* Two networks, good and bad settings, failures and power cycles.
SPECIFICATION LiveSpec
CONSTANTS
    BuiltIn = BuiltIn
    NoText = NoText
    Joined = Joined
    Good = Good
    Bad = Bad
    Networks <- NetworksMC
    ApiKeys <- ApiKeysMC
    Talkbacks <- TalkbacksMC
    Entries <- EntriesMC
    ReportTicks = 2
    MaxEntries = 2
    MaxFaults = 1
    MaxRestarts = 1
\* The task can be lost.
CHECK_DEADLOCK FALSE
INVARIANTS TypeOK StoredWorked LostOnlyOffline
PROPERTIES SettingsAreTaken ReportsGoOn
