------------------------------ MODULE NetManager ------------------------------
(***************************************************************************)
(* Task::Network::Manager (src/task/network/Manager.cpp): the network task  *)
(* joins the stored network, or the one built in, tests the settings that   *)
(* the dialogues send it, stores in the EEPROM those that worked, and then  *)
(* takes commands and reports in turn.  A send of the client is taken as    *)
(* what TlsClient shows of it: it returns the status of its own request     *)
(* until that client has once returned -1, or it never returns.  A record   *)
(* of the EEPROM is NoText when it is empty or cannot be read.              *)
(***************************************************************************)
EXTENDS Naturals, Sequences, FiniteSets

CONSTANTS
    Networks,     \* the names with passwords under which a network is joined
    ApiKeys,      \* the keys the service accepts for reports
    Talkbacks,    \* the ids with keys it accepts for commands
    Entries,      \* what the dialogues send: [id, str1, str2]
    BuiltIn,      \* a text given at build time
    NoText,
    Joined,       \* a key with another text behind it
    ReportTicks,  \* m_ReportTimeout, in pauses of 5 s
    MaxEntries,   \* bound: settings entered
    MaxFaults,    \* bound: calls that fail
    MaxRestarts   \* bound: power cycles

Fields == {"ssid", "password", "apiKey", "tbId", "tbKey"}
Pairs  == {"network", "report", "talkback"}
Texts  == {BuiltIn} \cup UNION {{e.id, e.str1, e.str2} : e \in Entries}

ASSUME NetworkAssumption ==
    /\ NoText # BuiltIn /\ NoText # Joined /\ Joined \notin Texts
    /\ Entries \subseteq [id : Texts, str1 : Texts, str2 : Texts]
    /\ \A e \in Entries :
          e.str2 # NoText /\ (e.id # NoText => e.str1 # NoText)
    /\ Networks \subseteq (Texts \ {NoText}) \X Texts
    /\ ReportTicks \in Nat /\ MaxEntries \in Nat
    /\ MaxFaults \in Nat /\ MaxRestarts \in Nat

VARIABLES
    pc,             \* where the task is
    attempt,        \* whose settings it works on: "stored", "env" or "user"
    m_NetSettings,  \* the settings taken last
    m_Connected,
    m_TlsClient,    \* there is a client
    ram,            \* m_Ssid, m_Password, m_ApiKey, m_TalkbackId, m_TalkbackKey
    rom,            \* their records in the EEPROM
    age,            \* pauses since m_ReportTimeout was reset, up to AgeCap
    settingsQueue,
    cycle,          \* the record whose CRC the device may still be writing
    spoiled,        \* history: the Pairs whose last writing failed, was cut
                    \* short, or followed a status that may be another's
    disturbed,      \* a send of this client has returned -1
    entered, faults, restarts

link   == <<m_Connected, m_TlsClient>>
eeprom == <<rom, cycle, spoiled>>
counts == <<entered, restarts>>
vars   == <<pc, attempt, m_NetSettings, link, ram, eeprom, age, settingsQueue,
            disturbed, counts, faults>>

AgeCap   == ReportTicks + 1
Later(n) == IF age + n > AgeCap THEN AgeCap ELSE age + n

Fault   == faults < MaxFaults /\ faults' = faults + 1
NoFault == UNCHANGED faults

Empty == [f \in Fields |-> NoText]

\* What a record is tested and stored with.
Pair(f) == CASE f \in {"ssid", "password"} -> "network"
             [] f = "apiKey" -> "report"
             [] OTHER -> "talkback"

\* The task's own state after a reset.
Started == /\ pc' = "boot" /\ attempt' = "stored"
           /\ m_NetSettings' = [id |-> NoText, str1 |-> NoText, str2 |-> NoText]
           /\ m_Connected' = FALSE /\ m_TlsClient' = FALSE
           /\ ram' = Empty /\ age' = 0 /\ settingsQueue' = <<>>
           /\ cycle' = "none" /\ disturbed' = FALSE

Init == /\ pc = "boot" /\ attempt = "stored"
        /\ m_NetSettings = [id |-> NoText, str1 |-> NoText, str2 |-> NoText]
        /\ m_Connected = FALSE /\ m_TlsClient = FALSE
        /\ ram = Empty /\ rom = Empty /\ age = 0 /\ settingsQueue = <<>>
        /\ cycle = "none" /\ spoiled = {} /\ disturbed = FALSE
        /\ entered = 0 /\ faults = 0 /\ restarts = 0

-----------------------------------------------------------------------------
\* Mutant: no text is built in.
GetEepromOnly ==
    /\ pc = "boot"
    /\ ram' = rom
    /\ pc' = "connect"
    /\ UNCHANGED <<attempt, m_NetSettings, link, eeprom, age, settingsQueue,
                   disturbed, counts, faults>>

\* Start: the records, with the built-in texts for those that cannot be read.
\* The text for an id goes to the key (Manager.cpp:173), in front of which the
\* stored key is then inserted.
GetEeprom ==
    /\ pc = "boot"
    /\ \E lost \in SUBSET Fields :
          LET unread(f) == f \in lost \/ rom[f] = NoText
              Or(f)     == IF unread(f) THEN BuiltIn ELSE rom[f]
          IN /\ faults' = faults + Cardinality(lost) /\ faults' <= MaxFaults
             /\ ram' = [ssid |-> Or("ssid"), password |-> Or("password"),
                        apiKey |-> Or("apiKey"),
                        tbId |-> IF unread("tbId") THEN NoText ELSE rom.tbId,
                        tbKey |-> IF unread("tbId") /\ ~unread("tbKey")
                                  THEN Joined ELSE Or("tbKey")]
    /\ pc' = "connect"
    /\ UNCHANGED <<attempt, m_NetSettings, link, eeprom, age, settingsQueue,
                   disturbed, counts>>

Candidate == CASE attempt = "stored" -> <<ram.ssid, ram.password>>
               [] attempt = "env"    -> <<BuiltIn, BuiltIn>>
               [] attempt = "user"   -> <<m_NetSettings.str1, m_NetSettings.str2>>

\* connect up to the writes; it may take as long as its timeout of 30 s.
Join ==
    /\ pc = "connect" /\ Candidate \in Networks
    /\ ram' = [ram EXCEPT !.ssid = Candidate[1], !.password = Candidate[2]]
    /\ pc' = "storeSsid"
    /\ age' \in {age, AgeCap} /\ cycle' = "none"
    /\ UNCHANGED <<attempt, m_NetSettings, link, rom, settingsQueue, spoiled,
                   disturbed, counts, faults>>

\* After the stored network the built-in one is tried, once.
FailToJoin ==
    /\ pc = "connect"
    /\ IF Candidate \in Networks THEN Fault ELSE NoFault
    /\ IF attempt = "stored" THEN pc' = "connect" /\ attempt' = "env"
       ELSE /\ pc' = IF attempt = "env" THEN "loop" ELSE "rest"
            /\ UNCHANGED attempt
    /\ age' \in {age, AgeCap} /\ cycle' = "none"
    /\ UNCHANGED <<m_NetSettings, link, ram, rom, settingsQueue, spoiled,
                   disturbed, counts>>

\* Eeprom::write, whose result is ignored: a write that fails leaves the old
\* record or one that cannot be read.  When it returns, the device still writes
\* the CRC of the record, which takes it some milliseconds.
Store(f) ==
    LET p     == Pair(f)
        whole == \A g \in Fields : Pair(g) = p => rom'[g] = ram[g]
    IN /\ \/ /\ rom' = [rom EXCEPT ![f] = ram[f]]
             /\ spoiled' = IF p # "network" /\ disturbed THEN spoiled \cup {p}
                           ELSE IF whole THEN spoiled \ {p} ELSE spoiled
             /\ NoFault
          \/ /\ Fault /\ spoiled' = spoiled \cup {p}
             /\ rom' \in {rom, [rom EXCEPT ![f] = NoText]}
       /\ cycle' = f

StoreSsid ==
    /\ pc = "storeSsid" /\ Store("ssid")
    /\ pc' = "storePassword"
    /\ UNCHANGED <<attempt, m_NetSettings, link, ram, age, settingsQueue,
                   disturbed, counts>>

\* ... and the new client, of which nothing has been sent yet.
StorePassword ==
    /\ pc = "storePassword" /\ Store("password")
    /\ m_Connected' = TRUE /\ m_TlsClient' = TRUE /\ disturbed' = FALSE
    /\ pc' = "testReport"
    /\ UNCHANGED <<attempt, m_NetSettings, ram, age, settingsQueue, counts>>

-----------------------------------------------------------------------------
\* The requests.

\* Client::send returns a status for a request that is valid or not, after a
\* time in which the device ends its write.
Sent(valid, status) ==
    /\ m_TlsClient
    /\ \/ disturbed /\ NoFault
       \/ status = (IF valid THEN "ok" ELSE "refused") /\ NoFault
       \/ status \in {"refused", "unparsed"} /\ Fault
    /\ disturbed' = (disturbed \/ status = "unparsed")
    /\ cycle' = "none"

Statuses == {"ok", "refused", "unparsed"}

\* It may also never return (TlsClient.cpp:35), whatever fails or not.  Without
\* a client its result is undefined: the task is lost.
Stuck == /\ pc' = IF m_TlsClient THEN "waits" ELSE "lost"
         /\ UNCHANGED <<age, cycle, disturbed, faults>>

Due        == age > ReportTicks
ReportOk   == ram.apiKey \in ApiKeys
TalkbackOk == <<ram.tbId, ram.tbKey>> \in Talkbacks

\* Back to run: at the start to its loop, else behind the receive.
AfterTest == IF attempt = "user" THEN "rest" ELSE "loop"

\* Mutant: a key that was not tried counts as accepted.
TestReportUntried ==
    /\ pc = "testReport" /\ ~Due
    /\ pc' = "storeApiKey"
    /\ UNCHANGED <<attempt, m_NetSettings, link, ram, eeprom, age, settingsQueue,
                   disturbed, counts, faults>>

\* testTls, the report: sent only when one is due, else its result is 0.
TestReport ==
    /\ pc = "testReport"
    /\ \/ ~Due /\ pc' = "testTalkback"
          /\ UNCHANGED <<age, cycle, disturbed, faults>>
       \/ \E s \in Statuses :
             /\ Due /\ Sent(ReportOk, s) /\ age' = 0
             /\ pc' = IF s = "ok" THEN "storeApiKey" ELSE "testTalkback"
       \/ Due /\ Stuck
    /\ UNCHANGED <<attempt, m_NetSettings, link, ram, rom, settingsQueue, spoiled,
                   counts>>

StoreApiKey ==
    /\ pc = "storeApiKey" /\ Store("apiKey")
    /\ pc' = "testTalkback"
    /\ UNCHANGED <<attempt, m_NetSettings, link, ram, age, settingsQueue,
                   disturbed, counts>>

\* testTls, the command.
TestTalkback ==
    /\ pc = "testTalkback"
    /\ \/ \E s \in Statuses :
             /\ Sent(TalkbackOk, s) /\ age' \in {age, Later(1)}
             /\ pc' = IF s = "ok" THEN "storeTbId" ELSE AfterTest
       \/ Stuck
    /\ UNCHANGED <<attempt, m_NetSettings, link, ram, rom, settingsQueue, spoiled,
                   counts>>

StoreTbId ==
    /\ pc = "storeTbId" /\ Store("tbId")
    /\ pc' = "storeTbKey"
    /\ UNCHANGED <<attempt, m_NetSettings, link, ram, age, settingsQueue,
                   disturbed, counts>>

StoreTbKey ==
    /\ pc = "storeTbKey" /\ Store("tbKey")
    /\ pc' = AfterTest
    /\ UNCHANGED <<attempt, m_NetSettings, link, ram, age, settingsQueue,
                   disturbed, counts>>

-----------------------------------------------------------------------------
\* The loop of run.

\* Mutant: the client goes, the connection is believed to stay.
TakeWifiConnected ==
    /\ pc = "loop" /\ settingsQueue # <<>> /\ Head(settingsQueue).id = NoText
    /\ m_NetSettings' = Head(settingsQueue) /\ settingsQueue' = <<>>
    /\ attempt' = "user" /\ pc' = "connect"
    /\ m_TlsClient' = FALSE
    /\ UNCHANGED <<m_Connected, ram, eeprom, age, disturbed, counts, faults>>

\* A name and a password: reconnect, up to connect.
TakeWifi ==
    /\ pc = "loop" /\ settingsQueue # <<>> /\ Head(settingsQueue).id = NoText
    /\ m_NetSettings' = Head(settingsQueue) /\ settingsQueue' = <<>>
    /\ attempt' = "user" /\ pc' = "connect"
    /\ m_Connected' = FALSE
    /\ m_TlsClient' = (m_TlsClient /\ ~m_Connected)
    /\ UNCHANGED <<ram, eeprom, age, disturbed, counts, faults>>

\* Keys: they are used from now on, whatever the test says of them.
TakeKeys ==
    /\ pc = "loop" /\ settingsQueue # <<>> /\ Head(settingsQueue).id # NoText
    /\ LET s == Head(settingsQueue)
       IN /\ m_NetSettings' = s
          /\ ram' = [ram EXCEPT !.apiKey = s.str1, !.tbKey = s.str2, !.tbId = s.id]
    /\ settingsQueue' = <<>>
    /\ attempt' = "user" /\ pc' = "testReport"
    /\ UNCHANGED <<link, eeprom, age, disturbed, counts, faults>>

\* Mutant: the queue is looked at only while there is a connection.
NothingToTakeOffline ==
    /\ pc = "loop" /\ (settingsQueue = <<>> \/ ~m_Connected)
    /\ pc' = "rest"
    /\ UNCHANGED <<attempt, m_NetSettings, link, ram, eeprom, age, settingsQueue,
                   disturbed, counts, faults>>

NothingToTake ==
    /\ pc = "loop" /\ settingsQueue = <<>>
    /\ pc' = "rest"
    /\ UNCHANGED <<attempt, m_NetSettings, link, ram, eeprom, age, settingsQueue,
                   disturbed, counts, faults>>

\* Offline the task only waits for settings.
Offline ==
    /\ pc = "rest" /\ ~m_Connected
    /\ pc' = "loop" /\ age' \in {age, Later(1)} /\ cycle' = "none"
    /\ UNCHANGED <<attempt, m_NetSettings, link, ram, rom, settingsQueue, spoiled,
                   disturbed, counts, faults>>

\* Mutant: every request resets the timer of the reports.
TalkbackResetting ==
    /\ pc = "rest" /\ m_Connected
    /\ \E s \in Statuses : Sent(TalkbackOk, s) /\ pc' = "report" /\ age' = 1
    /\ UNCHANGED <<attempt, m_NetSettings, link, ram, rom, settingsQueue, spoiled,
                   counts>>

\* Online: a command, and a pause of 5 s; the request may take longer still.
Talkback ==
    /\ pc = "rest" /\ m_Connected
    /\ \/ \E s \in Statuses : /\ Sent(TalkbackOk, s) /\ pc' = "report"
                              /\ age' \in {Later(1), Later(2)}
       \/ Stuck
    /\ UNCHANGED <<attempt, m_NetSettings, link, ram, rom, settingsQueue, spoiled,
                   counts>>

\* ... a report when one is due ...
Report ==
    /\ pc = "report"
    /\ \/ ~Due /\ pc' = "pause" /\ UNCHANGED <<age, cycle, disturbed, faults>>
       \/ /\ Due /\ (\E s \in Statuses : Sent(ReportOk, s)) /\ age' = 0
          /\ pc' = "pause"
       \/ Due /\ Stuck
    /\ UNCHANGED <<attempt, m_NetSettings, link, ram, rom, settingsQueue, spoiled,
                   counts>>

\* ... and another pause.
Pause ==
    /\ pc = "pause" /\ pc' = "loop" /\ age' = Later(1)
    /\ UNCHANGED <<attempt, m_NetSettings, link, ram, eeprom, settingsQueue,
                   disturbed, counts, faults>>

-----------------------------------------------------------------------------
\* A dialogue sends settings; those that find the queue full are dropped.
Enter == /\ entered < MaxEntries /\ settingsQueue = <<>>
         /\ \E e \in Entries : settingsQueue' = <<e>>
         /\ entered' = entered + 1
         /\ UNCHANGED <<pc, attempt, m_NetSettings, link, ram, eeprom, age,
                        disturbed, faults, restarts>>

\* The record that a step of the task writes.
Writing == CASE pc = "storeSsid" -> "ssid" [] pc = "storePassword" -> "password"
             [] pc = "storeApiKey" -> "apiKey" [] pc = "storeTbId" -> "tbId"
             [] pc = "storeTbKey" -> "tbKey" [] OTHER -> "none"

\* The power fails, at times while a record is written or the device ends the
\* write of the last one, or between the two records of a pair, and comes back.
PowerCycle ==
    /\ restarts < MaxRestarts /\ restarts' = restarts + 1
    /\ \E cut \in {"none", Writing, cycle} :
          /\ rom' = [f \in Fields |-> IF f = cut THEN NoText ELSE rom[f]]
          /\ spoiled' = spoiled \cup
                {Pair(f) : f \in {cut} \cap Fields}
                \cup {Pair(f) : f \in {Writing} \cap {"password", "tbKey"}}
    /\ Started
    /\ UNCHANGED <<entered, faults>>

Task == \/ GetEeprom \/ Join \/ FailToJoin \/ StoreSsid \/ StorePassword
        \/ TestReport \/ StoreApiKey \/ TestTalkback \/ StoreTbId \/ StoreTbKey
        \/ TakeWifi \/ TakeKeys \/ NothingToTake
        \/ Offline \/ Talkback \/ Report \/ Pause

Next == Task \/ Enter \/ PowerCycle

Spec == Init /\ [][Next]_vars

\* The task goes on, but for a send that never returns: every other call does.
LiveSpec == Spec /\ WF_vars(Task)

-----------------------------------------------------------------------------
\* Properties.

Values == Texts \cup {NoText, Joined}

\* Every variable has its type; once the records are read, only the id of the
\* talkback may be empty.
TypeOK ==
    /\ pc \in {"boot", "connect", "storeSsid", "storePassword", "testReport",
               "storeApiKey", "testTalkback", "storeTbId", "storeTbKey",
               "loop", "rest", "report", "pause", "lost", "waits"}
    /\ attempt \in {"stored", "env", "user"}
    /\ m_NetSettings \in [id : Values, str1 : Values, str2 : Values]
    /\ m_Connected \in BOOLEAN /\ m_TlsClient \in BOOLEAN
    /\ pc # "boot" => \A f \in Fields \ {"tbId"} : ram[f] # NoText
    /\ ram \in [Fields -> Values] /\ rom \in [Fields -> Values]
    /\ age \in 0 .. AgeCap
    /\ settingsQueue \in {<<>>} \cup {<<e>> : e \in Entries}
    /\ cycle \in Fields \cup {"none"} /\ spoiled \subseteq Pairs
    /\ disturbed \in BOOLEAN
    /\ entered \in 0 .. MaxEntries
    /\ faults \in 0 .. MaxFaults /\ restarts \in 0 .. MaxRestarts

\* Each pair in the EEPROM is empty or one with which a network is joined or
\* which the service accepts, and the two records belong together: a mistyped
\* password, a refused key, a key that was not tried or a power cycle during the
\* test never replaces what the next start needs.  While the task is online, the
\* network it is on is the one the next start will try first.  Excepted is a
\* pair whose last writing failed or was cut short, and one of keys stored on
\* the word of a client that has once returned -1: its later sends may return
\* the status of another request, so that a refused key can be stored.  The next
\* writing that goes well ends the exception.
StoredWorked ==
    /\ "network" \in spoiled
       \/ /\ m_Connected => rom.ssid = ram.ssid /\ rom.password = ram.password
          /\ pc # "storePassword"
             => <<rom.ssid, rom.password>> \in Networks \cup {<<NoText, NoText>>}
    /\ "report" \in spoiled \/ rom.apiKey \in ApiKeys \cup {NoText}
    /\ "talkback" \in spoiled \/ pc = "storeTbKey"
       \/ <<rom.tbId, rom.tbKey>> \in Talkbacks \cup {<<NoText, NoText>>}

\* Online there is always a client, through every reconnection that succeeds or
\* fails.  The client that does not exist is used only when keys are entered
\* while there is no network.
LostOnlyOffline ==
    /\ m_Connected => m_TlsClient
    /\ pc = "lost" => ~m_Connected /\ m_NetSettings.id # NoText

\* Settings in the queue are taken, online and offline, whatever fails, unless
\* the task is lost or waits for ever in a send (see SendReturns of TlsClient).
SettingsAreTaken ==
    settingsQueue # <<>> ~> settingsQueue = <<>> \/ pc \in {"lost", "waits"}

\* As long as the task stays online and its sends return, it reports again and
\* again, whatever the service answers: neither its commands nor settings that
\* are entered put the report off for ever.
ReportsGoOn ==
    <>[](m_Connected /\ pc # "waits") => []<>(pc = "pause" /\ age = 0)

=============================================================================
