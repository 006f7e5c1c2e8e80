--------------------------- MODULE NetManager_proofs ---------------------------
(***************************************************************************)
(* Theorems about NetManager, for any networks, keys and entries, and any   *)
(* number of failures and power cycles.                                     *)
(***************************************************************************)
EXTENDS NetManager, FiniteSetTheorems, TLAPS

-----------------------------------------------------------------------------
\* The inductive invariant.

\* What the task works on after settings were taken was entered by the user.
Entered == attempt = "user" => m_NetSettings \in Entries

\* The settings in use are stored only after they have worked, or on the word of a
\* client that has returned -1, one record after the other.
Storing ==
    /\ pc \in {"storeSsid", "storePassword"} => <<ram.ssid, ram.password>> \in Networks
    /\ pc = "storeApiKey" => disturbed \/ ram.apiKey \in ApiKeys
    /\ pc \in {"storeTbId", "storeTbKey"}
       => disturbed \/ <<ram.tbId, ram.tbKey>> \in Talkbacks
    /\ pc = "storePassword" => "network" \in spoiled \/ rom.ssid = ram.ssid
    /\ pc = "storeTbKey" => "talkback" \in spoiled \/ rom.tbId = ram.tbId

\* Until the new network is stored the task is offline, and keys are tested with
\* a client unless they were entered without one.
Linked ==
    /\ pc \in {"boot", "connect", "storeSsid", "storePassword"} => ~m_Connected
    /\ pc = "report" => m_Connected
    /\ pc \in {"testReport", "storeApiKey", "testTalkback"}
       => m_TlsClient \/ m_NetSettings.id # NoText

IInv == /\ TypeOK /\ Entered /\ Storing /\ Linked
        /\ StoredWorked /\ LostOnlyOffline

-----------------------------------------------------------------------------
\* What the actions are made of.

\* The values of the fields, and the settings the dialogues can send.
LEMMA Vocabulary ==
  /\ NoText \in Values /\ Joined \in Values /\ BuiltIn \in Values
  /\ BuiltIn # NoText /\ Joined # NoText
  /\ \A e \in Entries :
        /\ e \in [id : Values, str1 : Values, str2 : Values]
        /\ e.str2 # NoText /\ (e.id # NoText => e.str1 # NoText)
  /\ \A c \in Networks :
        /\ c = <<c[1], c[2]>> /\ c[1] \in Values /\ c[2] \in Values
        /\ c[1] # NoText
<1>1. Texts \subseteq Values
  BY DEF Values
<1>2. Entries \subseteq [id : Texts, str1 : Texts, str2 : Texts]
  BY NetworkAssumption
<1>3. \A e \in Entries : e \in [id : Values, str1 : Values, str2 : Values]
  BY <1>1, <1>2
<1>4. Networks \subseteq (Texts \ {NoText}) \X Texts
  BY NetworkAssumption
<1>5. \A c \in Networks : /\ c = <<c[1], c[2]>> /\ c[1] \in Values
                          /\ c[2] \in Values /\ c[1] # NoText
  BY <1>1, <1>4
<1>6. BuiltIn \in Values /\ NoText \in Values /\ Joined \in Values
  BY DEF Values, Texts
<1>7. NoText # BuiltIn /\ NoText # Joined
  BY NetworkAssumption
<1>8. \A e \in Entries : e.str2 # NoText /\ (e.id # NoText => e.str1 # NoText)
  BY Zenon, NetworkAssumption
<1> QED
  BY <1>3, <1>5, <1>6, <1>7, <1>8

\* The age of the last report stays below its cap.
LEMMA Ages ==
  ASSUME TypeOK
  PROVE  /\ 0 \in 0 .. AgeCap /\ AgeCap \in 0 .. AgeCap
         /\ Later(1) \in 0 .. AgeCap /\ Later(2) \in 0 .. AgeCap
<1>1. age \in 0 .. AgeCap /\ ReportTicks \in Nat
  BY NetworkAssumption DEF TypeOK
<1> QED
  BY <1>1 DEF AgeCap, Later

\* A call that fails is counted.
LEMMA Faults ==
  ASSUME TypeOK, Fault \/ NoFault
  PROVE  faults' \in 0 .. MaxFaults
<1>1. faults \in 0 .. MaxFaults /\ MaxFaults \in Nat
  BY NetworkAssumption DEF TypeOK
<1> QED
  BY <1>1 DEF Fault, NoFault

\* Every record belongs to a pair.
LEMMA PairsOfFields ==
  /\ \A f \in Fields : Pair(f) \in Pairs
  /\ Pair("ssid") = "network" /\ Pair("password") = "network"
  /\ Pair("apiKey") = "report"
  /\ Pair("tbId") = "talkback" /\ Pair("tbKey") = "talkback"
  /\ {"ssid", "password", "apiKey", "tbId", "tbKey"} = Fields
BY DEF Pair, Pairs, Fields

\* A write changes its own record only, and leaves its pair unexcepted only if it
\* has stored the setting in use, on good grounds, and mended what was broken.
LEMMA Stored ==
  ASSUME TypeOK, NEW f \in Fields, Store(f)
  PROVE  /\ rom' \in [Fields -> Values] /\ cycle' \in Fields \cup {"none"}
         /\ spoiled' \subseteq Pairs /\ faults' \in 0 .. MaxFaults
         /\ \A g \in Fields : g # f => rom'[g] = rom[g]
         /\ \A p \in Pairs : p # Pair(f) => (p \in spoiled' <=> p \in spoiled)
         /\ Pair(f) \notin spoiled'
            => /\ rom'[f] = ram[f]
               /\ Pair(f) # "network" => ~disturbed
               /\ Pair(f) \in spoiled
                  => \A g \in Fields : Pair(g) = Pair(f) => rom'[g] = ram[g]
<1> DEFINE p == Pair(f)
           whole == \A g \in Fields : Pair(g) = p => rom'[g] = ram[g]
<1>1. rom \in [Fields -> Values] /\ ram[f] \in Values /\ spoiled \subseteq Pairs
  BY DEF TypeOK
<1>2. faults' \in 0 .. MaxFaults
  BY Faults DEF Store
<1>3. \A v \in Values : /\ [rom EXCEPT ![f] = v] \in [Fields -> Values]
                        /\ [rom EXCEPT ![f] = v][f] = v
                        /\ \A g \in Fields : g # f => [rom EXCEPT ![f] = v][g] = rom[g]
  BY <1>1
<1>4. p \in Pairs /\ NoText \in Values
  BY PairsOfFields, Vocabulary
<1>5. cycle' \in Fields \cup {"none"}
  BY DEF Store
<1>6. CASE /\ rom' = [rom EXCEPT ![f] = ram[f]]
           /\ spoiled' = IF p # "network" /\ disturbed THEN spoiled \cup {p}
                         ELSE IF whole THEN spoiled \ {p} ELSE spoiled
  BY <1>1, <1>2, <1>3, <1>4, <1>5, <1>6
<1>7. CASE /\ spoiled' = spoiled \cup {p}
           /\ rom' \in {rom, [rom EXCEPT ![f] = NoText]}
  BY <1>1, <1>2, <1>3, <1>4, <1>5, <1>7
<1> QED
  BY <1>6, <1>7 DEF Store

\* A request is sent by a client, and every call that fails is counted.
LEMMA Requests ==
  ASSUME TypeOK, NEW valid, NEW status, Sent(valid, status)
  PROVE  /\ m_TlsClient /\ disturbed' \in BOOLEAN /\ faults' \in 0 .. MaxFaults
         /\ cycle' = "none"
         /\ status = "ok" => valid \/ disturbed'
<1>1. disturbed' \in BOOLEAN
  BY Zenon DEF Sent
<1>2. faults' \in 0 .. MaxFaults
  BY Faults DEF Sent
<1>3. status = "ok" => valid \/ disturbed'
  BY DEF Sent
<1> QED
  BY <1>1, <1>2, <1>3 DEF Sent

\* A send that does not return changes nothing but where the task is.
LEMMA NotReturning ==
  ASSUME TypeOK, Stuck
  PROVE  /\ pc' \in {"waits", "lost"} /\ (pc' = "lost" => ~m_TlsClient)
         /\ UNCHANGED <<age, cycle, disturbed, faults>>
BY DEF Stuck, TypeOK

-----------------------------------------------------------------------------
\* The invariant holds at first.

LEMMA InitIInv == Init => IInv
<1> SUFFICES ASSUME Init PROVE IInv
  OBVIOUS
<1>1. TypeOK
  <2>1. Empty \in [Fields -> Values]
    BY Vocabulary DEF Empty
  <2>2. age \in 0 .. AgeCap /\ entered \in 0 .. MaxEntries
        /\ faults \in 0 .. MaxFaults /\ restarts \in 0 .. MaxRestarts
    BY NetworkAssumption DEF Init, AgeCap
  <2> QED
    BY <2>1, <2>2, Vocabulary DEF Init, TypeOK
<1>2. Entered /\ Storing /\ Linked /\ LostOnlyOffline
  BY DEF Init, Entered, Storing, Linked, LostOnlyOffline
<1>3. StoredWorked
  <2>1. \A f \in Fields : rom[f] = NoText
    BY DEF Init, Empty
  <2> QED
    BY <2>1, PairsOfFields DEF Init, StoredWorked
<1> QED
  BY <1>1, <1>2, <1>3 DEF IInv

-----------------------------------------------------------------------------
\* The start and the connection.

LEMMA GetEepromStep ==
  ASSUME IInv, GetEeprom
  PROVE  IInv'
<1>1. PICK lost \in SUBSET Fields :
         LET unread(f) == f \in lost \/ rom[f] = NoText
             Or(f)     == IF unread(f) THEN BuiltIn ELSE rom[f]
         IN /\ faults' = faults + Cardinality(lost) /\ faults' <= MaxFaults
            /\ ram' = [ssid |-> Or("ssid"), password |-> Or("password"),
                       apiKey |-> Or("apiKey"),
                       tbId |-> IF unread("tbId") THEN NoText ELSE rom.tbId,
                       tbKey |-> IF unread("tbId") /\ ~unread("tbKey")
                                 THEN Joined ELSE Or("tbKey")]
  BY DEF GetEeprom
<1>2. faults' \in 0 .. MaxFaults
  <2>1. IsFiniteSet(Fields)
    <3>1. Fields = {"ssid"} \cup {"password"} \cup {"apiKey"} \cup {"tbId"}
                   \cup {"tbKey"}
      BY DEF Fields
    <3> QED
      BY <3>1, FS_Singleton, FS_Union
  <2>2. Cardinality(lost) \in Nat
    BY <2>1, FS_Subset, FS_CardinalityType
  <2>3. faults \in 0 .. MaxFaults /\ MaxFaults \in Nat
    BY NetworkAssumption DEF IInv, TypeOK
  <2> QED
    BY <1>1, <2>2, <2>3
<1>3. /\ ram' \in [Fields -> Values]
      /\ \A f \in Fields \ {"tbId"} : ram'[f] # NoText
  <2>1. rom \in [Fields -> Values]
    BY DEF IInv, TypeOK
  <2> QED
    BY <1>1, <2>1, Vocabulary DEF Fields
<1>4. TypeOK'
  BY <1>2, <1>3 DEF IInv, TypeOK, GetEeprom, link, eeprom, counts, AgeCap
<1>5. Entered' /\ Storing' /\ Linked' /\ LostOnlyOffline'
  BY DEF IInv, Entered, Storing, Linked, LostOnlyOffline, GetEeprom, link
<1>6. StoredWorked'
  BY DEF IInv, Linked, StoredWorked, GetEeprom, link, eeprom
<1> QED
  BY <1>4, <1>5, <1>6 DEF IInv

LEMMA JoinStep ==
  ASSUME IInv, Join
  PROVE  IInv'
<1> DEFINE c == Candidate
<1>1. c \in Networks
  BY DEF Join
<1>2. ram' = [ram EXCEPT !.ssid = c[1], !.password = c[2]]
  BY DEF Join
<1>3. c = <<c[1], c[2]>> /\ c[1] \in Values /\ c[2] \in Values /\ c[1] # NoText
  BY <1>1, Vocabulary
<1>4. c[2] # NoText
  <2>1. CASE attempt = "stored"
    <3>1. ram.password # NoText
      BY DEF Join, IInv, TypeOK, Fields
    <3> QED
      BY <2>1, <3>1 DEF Candidate
  <2>2. CASE attempt = "env"
    BY <2>2, Vocabulary DEF Candidate
  <2>3. CASE attempt = "user"
    <3>1. m_NetSettings \in Entries
      BY <2>3 DEF IInv, Entered
    <3> QED
      BY <2>3, <3>1, Vocabulary DEF Candidate
  <2> QED
    BY <2>1, <2>2, <2>3 DEF IInv, TypeOK
<1> HIDE DEF c
<1>5. ram \in [Fields -> Values] /\ \A f \in Fields \ {"tbId"} : ram[f] # NoText
  BY DEF Join, IInv, TypeOK
<1>6. /\ ram' \in [Fields -> Values] /\ ram'.ssid = c[1] /\ ram'.password = c[2]
      /\ \A f \in Fields \ {"tbId"} : ram'[f] # NoText
  BY <1>2, <1>3, <1>4, <1>5 DEF Fields
<1>7. TypeOK'
  <2>1. age' \in 0 .. AgeCap
    BY Ages DEF IInv, TypeOK, Join
  <2> QED
    BY <1>6, <2>1 DEF IInv, TypeOK, Join, link, counts, AgeCap
<1>8. Entered' /\ Linked' /\ LostOnlyOffline'
  BY DEF IInv, Entered, Linked, LostOnlyOffline, Join, link
<1>9. Storing'
  BY <1>1, <1>3, <1>6 DEF Storing, Join
<1>10. StoredWorked'
  BY DEF IInv, Linked, StoredWorked, Join, link
<1> QED
  BY <1>7, <1>8, <1>9, <1>10 DEF IInv

LEMMA FailToJoinStep ==
  ASSUME IInv, FailToJoin
  PROVE  IInv'
<1>1. faults' \in 0 .. MaxFaults
  BY Faults DEF IInv, FailToJoin
<1>2. age' \in 0 .. AgeCap
  BY Ages DEF IInv, TypeOK, FailToJoin
<1>3. pc = "connect" /\ pc' \in {"connect", "loop", "rest"}
      /\ attempt' \in {"stored", "env", "user"}
      /\ (attempt' = "user" => attempt = "user")
  BY DEF FailToJoin, IInv, TypeOK
<1>4. UNCHANGED <<m_NetSettings, m_Connected, m_TlsClient, ram, rom, settingsQueue,
                  spoiled, disturbed, entered, restarts>> /\ cycle' = "none"
  BY DEF FailToJoin, link, counts
<1>5. TypeOK'
  BY <1>1, <1>2, <1>3, <1>4 DEF IInv, TypeOK, AgeCap
<1>6. Entered' /\ Storing' /\ Linked' /\ LostOnlyOffline'
  BY <1>3, <1>4 DEF IInv, Entered, Storing, Linked, LostOnlyOffline
<1>7. StoredWorked'
  BY <1>3, <1>4 DEF IInv, StoredWorked
<1> QED
  BY <1>5, <1>6, <1>7 DEF IInv

-----------------------------------------------------------------------------
\* The writes.

LEMMA StoreSsidStep ==
  ASSUME IInv, StoreSsid
  PROVE  IInv'
<1>1. /\ rom' \in [Fields -> Values] /\ cycle' \in Fields \cup {"none"}
      /\ spoiled' \subseteq Pairs /\ faults' \in 0 .. MaxFaults
      /\ \A g \in Fields : g # "ssid" => rom'[g] = rom[g]
      /\ \A p \in Pairs : p # "network" => (p \in spoiled' <=> p \in spoiled)
      /\ "network" \notin spoiled'
         => /\ rom'["ssid"] = ram["ssid"]
            /\ "network" # "network" => ~disturbed
            /\ "network" \in spoiled
               => \A g \in Fields : Pair(g) = "network" => rom'[g] = ram[g]
  BY Stored, PairsOfFields DEF IInv, StoreSsid
<1>2. TypeOK'
  BY <1>1 DEF IInv, TypeOK, StoreSsid, link, counts, AgeCap
<1>3. Entered' /\ Linked' /\ LostOnlyOffline'
  BY DEF IInv, Entered, Linked, LostOnlyOffline, StoreSsid, link
<1>4. Storing' /\ StoredWorked'
  BY <1>1, PairsOfFields
     DEF IInv, Storing, Linked, StoredWorked, Pairs, StoreSsid, link
<1> QED
  BY <1>2, <1>3, <1>4 DEF IInv

LEMMA StorePasswordStep ==
  ASSUME IInv, StorePassword
  PROVE  IInv'
<1>1. /\ rom' \in [Fields -> Values] /\ cycle' \in Fields \cup {"none"}
      /\ spoiled' \subseteq Pairs /\ faults' \in 0 .. MaxFaults
      /\ \A g \in Fields : g # "password" => rom'[g] = rom[g]
      /\ \A p \in Pairs : p # "network" => (p \in spoiled' <=> p \in spoiled)
      /\ "network" \notin spoiled'
         => /\ rom'["password"] = ram["password"]
            /\ "network" # "network" => ~disturbed
            /\ "network" \in spoiled
               => \A g \in Fields : Pair(g) = "network" => rom'[g] = ram[g]
  BY Stored, PairsOfFields DEF IInv, StorePassword
<1>2. TypeOK'
  BY <1>1 DEF IInv, TypeOK, StorePassword, counts, AgeCap
<1>3. Entered' /\ Linked' /\ LostOnlyOffline'
  BY DEF IInv, Entered, Linked, LostOnlyOffline, StorePassword
<1>4. Storing' /\ StoredWorked'
  BY <1>1, PairsOfFields
     DEF IInv, Storing, Linked, StoredWorked, Pairs, StorePassword
<1> QED
  BY <1>2, <1>3, <1>4 DEF IInv

LEMMA StoreApiKeyStep ==
  ASSUME IInv, StoreApiKey
  PROVE  IInv'
<1>1. /\ rom' \in [Fields -> Values] /\ cycle' \in Fields \cup {"none"}
      /\ spoiled' \subseteq Pairs /\ faults' \in 0 .. MaxFaults
      /\ \A g \in Fields : g # "apiKey" => rom'[g] = rom[g]
      /\ \A p \in Pairs : p # "report" => (p \in spoiled' <=> p \in spoiled)
      /\ "report" \notin spoiled'
         => /\ rom'["apiKey"] = ram["apiKey"]
            /\ "report" # "network" => ~disturbed
            /\ "report" \in spoiled
               => \A g \in Fields : Pair(g) = "report" => rom'[g] = ram[g]
  BY Stored, PairsOfFields DEF IInv, StoreApiKey
<1>2. TypeOK'
  BY <1>1 DEF IInv, TypeOK, StoreApiKey, link, counts, AgeCap
<1>3. Entered' /\ Linked' /\ LostOnlyOffline'
  BY DEF IInv, Entered, Linked, LostOnlyOffline, StoreApiKey, link
<1>4. Storing' /\ StoredWorked'
  BY <1>1, PairsOfFields
     DEF IInv, Storing, Linked, StoredWorked, Pairs, StoreApiKey, link
<1> QED
  BY <1>2, <1>3, <1>4 DEF IInv

LEMMA StoreTbIdStep ==
  ASSUME IInv, StoreTbId
  PROVE  IInv'
<1>1. /\ rom' \in [Fields -> Values] /\ cycle' \in Fields \cup {"none"}
      /\ spoiled' \subseteq Pairs /\ faults' \in 0 .. MaxFaults
      /\ \A g \in Fields : g # "tbId" => rom'[g] = rom[g]
      /\ \A p \in Pairs : p # "talkback" => (p \in spoiled' <=> p \in spoiled)
      /\ "talkback" \notin spoiled'
         => /\ rom'["tbId"] = ram["tbId"]
            /\ "talkback" # "network" => ~disturbed
            /\ "talkback" \in spoiled
               => \A g \in Fields : Pair(g) = "talkback" => rom'[g] = ram[g]
  BY Stored, PairsOfFields DEF IInv, StoreTbId
<1>2. TypeOK'
  BY <1>1 DEF IInv, TypeOK, StoreTbId, link, counts, AgeCap
<1>3. Entered' /\ Linked' /\ LostOnlyOffline'
  BY DEF IInv, Entered, Linked, LostOnlyOffline, StoreTbId, link
<1>4. Storing' /\ StoredWorked'
  BY <1>1, PairsOfFields
     DEF IInv, Storing, Linked, StoredWorked, Pairs, StoreTbId, link
<1> QED
  BY <1>2, <1>3, <1>4 DEF IInv

LEMMA StoreTbKeyStep ==
  ASSUME IInv, StoreTbKey
  PROVE  IInv'
<1>1. /\ rom' \in [Fields -> Values] /\ cycle' \in Fields \cup {"none"}
      /\ spoiled' \subseteq Pairs /\ faults' \in 0 .. MaxFaults
      /\ \A g \in Fields : g # "tbKey" => rom'[g] = rom[g]
      /\ \A p \in Pairs : p # "talkback" => (p \in spoiled' <=> p \in spoiled)
      /\ "talkback" \notin spoiled'
         => /\ rom'["tbKey"] = ram["tbKey"]
            /\ "talkback" # "network" => ~disturbed
            /\ "talkback" \in spoiled
               => \A g \in Fields : Pair(g) = "talkback" => rom'[g] = ram[g]
  BY Stored, PairsOfFields DEF IInv, StoreTbKey
<1>2. TypeOK'
  BY <1>1 DEF IInv, TypeOK, StoreTbKey, AfterTest, link, counts, AgeCap
<1>3. Entered' /\ Linked' /\ LostOnlyOffline'
  BY DEF IInv, Entered, Linked, LostOnlyOffline, StoreTbKey, AfterTest, link
<1>4. Storing' /\ StoredWorked'
  BY <1>1, PairsOfFields
     DEF IInv, Storing, Linked, StoredWorked, Pairs, StoreTbKey, AfterTest, link
<1> QED
  BY <1>2, <1>3, <1>4 DEF IInv

-----------------------------------------------------------------------------
\* The tests.

LEMMA TestReportStep ==
  ASSUME IInv, TestReport
  PROVE  IInv'
<1> USE DEF TestReport
<1>1. /\ disturbed' \in BOOLEAN /\ faults' \in 0 .. MaxFaults
      /\ age' \in 0 .. AgeCap /\ cycle' \in Fields \cup {"none"}
  <2>1. /\ disturbed \in BOOLEAN /\ faults \in 0 .. MaxFaults /\ age \in 0 .. AgeCap
        /\ cycle \in Fields \cup {"none"}
    BY DEF IInv, TypeOK
  <2> QED
    BY <2>1, Requests, NotReturning, Ages DEF IInv
<1>2. /\ pc' \in {"storeApiKey", "testTalkback", "waits", "lost"}
      /\ pc' = "storeApiKey" => disturbed' \/ ram.apiKey \in ApiKeys
      /\ pc' = "lost" => ~m_TlsClient
  BY Requests, NotReturning DEF IInv, ReportOk
<1>3. UNCHANGED <<attempt, m_NetSettings, m_Connected, m_TlsClient, ram, rom, spoiled,
                  settingsQueue, entered, restarts>> /\ pc = "testReport"
  BY DEF link, counts
<1> USE DEF IInv
<1> HIDE DEF TestReport
<1>4. TypeOK'
  BY <1>1, <1>2, <1>3 DEF TypeOK, AgeCap
<1>5. Entered' /\ Linked' /\ LostOnlyOffline'
  BY <1>2, <1>3 DEF Entered, Linked, LostOnlyOffline
<1>6. Storing'
  BY <1>2, <1>3 DEF Storing
<1>7. StoredWorked'
  BY <1>2, <1>3 DEF StoredWorked
<1> QED
  BY <1>4, <1>5, <1>6, <1>7

LEMMA TestTalkbackStep ==
  ASSUME IInv, TestTalkback
  PROVE  IInv'
<1> USE DEF TestTalkback
<1>1. /\ disturbed' \in BOOLEAN /\ faults' \in 0 .. MaxFaults
      /\ age' \in 0 .. AgeCap /\ cycle' \in Fields \cup {"none"}
  <2>1. /\ disturbed \in BOOLEAN /\ faults \in 0 .. MaxFaults /\ age \in 0 .. AgeCap
        /\ cycle \in Fields \cup {"none"}
    BY DEF IInv, TypeOK
  <2> QED
    BY <2>1, Requests, NotReturning, Ages DEF IInv
<1>2. /\ pc' \in {"storeTbId", "loop", "rest", "waits", "lost"}
      /\ pc' = "storeTbId" => disturbed' \/ <<ram.tbId, ram.tbKey>> \in Talkbacks
      /\ pc' = "lost" => ~m_TlsClient
  BY Requests, NotReturning DEF IInv, TalkbackOk, AfterTest
<1>3. UNCHANGED <<attempt, m_NetSettings, m_Connected, m_TlsClient, ram, rom, spoiled,
                  settingsQueue, entered, restarts>> /\ pc = "testTalkback"
  BY DEF link, counts
<1> USE DEF IInv
<1> HIDE DEF TestTalkback
<1>4. TypeOK'
  BY <1>1, <1>2, <1>3 DEF TypeOK, AgeCap
<1>5. Entered' /\ Linked' /\ LostOnlyOffline'
  BY <1>2, <1>3 DEF Entered, Linked, LostOnlyOffline
<1>6. Storing'
  BY <1>2, <1>3 DEF Storing
<1>7. StoredWorked'
  BY <1>2, <1>3 DEF StoredWorked
<1> QED
  BY <1>4, <1>5, <1>6, <1>7

-----------------------------------------------------------------------------
\* The loop.

LEMMA TakeWifiStep ==
  ASSUME IInv, TakeWifi
  PROVE  IInv'
<1>1. m_NetSettings' \in Entries
  <2>1. PICK e \in Entries : settingsQueue = <<e>>
    BY DEF IInv, TypeOK, TakeWifi
  <2> QED
    BY <2>1 DEF TakeWifi
<1>2. m_NetSettings' \in [id : Values, str1 : Values, str2 : Values]
  BY <1>1, Vocabulary
<1>3. m_TlsClient' \in BOOLEAN
  BY Zenon DEF TakeWifi
<1>4. TypeOK'
  BY <1>2, <1>3 DEF IInv, TypeOK, TakeWifi, eeprom, counts, AgeCap
<1>5. Entered' /\ Linked' /\ LostOnlyOffline' /\ Storing'
  BY <1>1
     DEF IInv, Entered, Linked, LostOnlyOffline, Storing, TakeWifi, eeprom
<1>6. StoredWorked'
  BY DEF IInv, StoredWorked, TakeWifi, eeprom
<1> QED
  BY <1>4, <1>5, <1>6 DEF IInv

LEMMA TakeKeysStep ==
  ASSUME IInv, TakeKeys
  PROVE  IInv'
<1> DEFINE s == Head(settingsQueue)
<1>1. /\ m_NetSettings' = s /\ s.id # NoText
      /\ ram' = [ram EXCEPT !.apiKey = s.str1, !.tbKey = s.str2, !.tbId = s.id]
  BY DEF TakeKeys
<1>2. s \in Entries
  <2>1. PICK e \in Entries : settingsQueue = <<e>>
    BY DEF IInv, TypeOK, TakeKeys
  <2> QED
    BY <2>1
<1> HIDE DEF s
<1>3. /\ s \in [id : Values, str1 : Values, str2 : Values]
      /\ s.str1 # NoText /\ s.str2 # NoText
  BY <1>1, <1>2, Vocabulary
<1>4. ram \in [Fields -> Values] /\ \A f \in Fields \ {"tbId"} : ram[f] # NoText
  BY DEF IInv, TypeOK, TakeKeys
<1>5. /\ ram' \in [Fields -> Values]
      /\ ram'.ssid = ram.ssid /\ ram'.password = ram.password
      /\ \A f \in Fields \ {"tbId"} : ram'[f] # NoText
  BY <1>1, <1>3, <1>4 DEF Fields
<1>6. TypeOK'
  BY <1>1, <1>3, <1>5 DEF IInv, TypeOK, TakeKeys, link, eeprom, counts, AgeCap
<1>7. Entered' /\ Linked' /\ LostOnlyOffline' /\ Storing'
  BY <1>1, <1>2
     DEF IInv, Entered, Linked, LostOnlyOffline, Storing, TakeKeys, link, eeprom
<1>8. StoredWorked'
  BY <1>5 DEF IInv, StoredWorked, TakeKeys, link, eeprom
<1> QED
  BY <1>6, <1>7, <1>8 DEF IInv

LEMMA NothingToTakeStep ==
  ASSUME IInv, NothingToTake
  PROVE  IInv'
<1>1. TypeOK'
  BY DEF IInv, TypeOK, NothingToTake, link, eeprom, counts, AgeCap
<1>2. Entered' /\ Linked' /\ LostOnlyOffline' /\ Storing'
  BY DEF IInv, Entered, Linked, LostOnlyOffline, Storing, NothingToTake, link, eeprom
<1>3. StoredWorked'
  BY DEF IInv, StoredWorked, NothingToTake, link, eeprom
<1> QED
  BY <1>1, <1>2, <1>3 DEF IInv

\* What the other steps of the loop have in common: they only wait and send.
LEMMA WaitingStep ==
  ASSUME IInv, pc \in {"rest", "report", "pause"},
         pc' \in {"loop", "report", "pause", "waits"}, pc' = "report" => m_Connected,
         age' \in 0 .. AgeCap, disturbed' \in BOOLEAN, faults' \in 0 .. MaxFaults,
         cycle' \in Fields \cup {"none"},
         UNCHANGED <<attempt, m_NetSettings, m_Connected, m_TlsClient, ram, rom,
                     spoiled, settingsQueue, entered, restarts>>
  PROVE  IInv'
<1>1. TypeOK'
  BY DEF IInv, TypeOK, AgeCap
<1>2. Entered' /\ Linked' /\ LostOnlyOffline' /\ Storing'
  BY DEF IInv, Entered, Linked, LostOnlyOffline, Storing
<1>3. StoredWorked'
  BY DEF IInv, StoredWorked
<1> QED
  BY <1>1, <1>2, <1>3 DEF IInv

LEMMA OfflineStep ==
  ASSUME IInv, Offline
  PROVE  IInv'
<1>1. age' \in 0 .. AgeCap
  BY Ages DEF IInv, TypeOK, Offline
<1>2. disturbed' \in BOOLEAN /\ faults' \in 0 .. MaxFaults
  BY DEF IInv, TypeOK, Offline
<1> QED
  BY <1>1, <1>2, WaitingStep DEF Offline, link, counts

LEMMA TalkbackStep ==
  ASSUME IInv, Talkback
  PROVE  IInv'
<1>1. CASE \E s \in Statuses : /\ Sent(TalkbackOk, s) /\ pc' = "report"
                               /\ age' \in {Later(1), Later(2)}
  <2>1. age' \in 0 .. AgeCap
    BY <1>1, Ages DEF IInv
  <2>2. disturbed' \in BOOLEAN /\ faults' \in 0 .. MaxFaults /\ cycle' = "none"
    BY <1>1, Requests DEF IInv
  <2> QED
    BY <1>1, <2>1, <2>2, WaitingStep DEF Talkback, link, counts
<1>2. CASE Stuck
  <2>1. m_TlsClient
    BY DEF Talkback, IInv, LostOnlyOffline
  <2>2. pc' = "waits" /\ UNCHANGED <<age, cycle, disturbed, faults>>
    BY <1>2, <2>1, NotReturning DEF IInv
  <2>3. /\ age' \in 0 .. AgeCap /\ disturbed' \in BOOLEAN
        /\ faults' \in 0 .. MaxFaults /\ cycle' \in Fields \cup {"none"}
    BY <2>2 DEF IInv, TypeOK, AgeCap
  <2> QED
    BY <2>2, <2>3, WaitingStep DEF Talkback, link, counts
<1> QED
  BY <1>1, <1>2 DEF Talkback

LEMMA ReportStep ==
  ASSUME IInv, Report
  PROVE  IInv'
<1>1. /\ age \in 0 .. AgeCap /\ disturbed \in BOOLEAN
      /\ faults \in 0 .. MaxFaults /\ cycle \in Fields \cup {"none"}
  BY DEF IInv, TypeOK, AgeCap
<1>2. m_TlsClient
  BY DEF Report, IInv, Linked, LostOnlyOffline
<1>3. /\ age' \in 0 .. AgeCap /\ disturbed' \in BOOLEAN
      /\ faults' \in 0 .. MaxFaults /\ cycle' \in Fields \cup {"none"}
  BY <1>1, Ages, Requests, NotReturning DEF IInv, Report
<1>4. pc' \in {"pause", "waits"}
  BY <1>2, NotReturning DEF IInv, Report
<1> QED
  BY <1>3, <1>4, WaitingStep DEF Report, link, counts

LEMMA PauseStep ==
  ASSUME IInv, Pause
  PROVE  IInv'
<1>1. age' \in 0 .. AgeCap
  BY Ages DEF IInv, Pause
<1>2. /\ disturbed' \in BOOLEAN /\ faults' \in 0 .. MaxFaults
      /\ cycle' \in Fields \cup {"none"}
  BY DEF IInv, TypeOK, Pause, eeprom
<1> QED
  BY <1>1, <1>2, WaitingStep DEF Pause, link, eeprom, counts

-----------------------------------------------------------------------------
\* The user and the power.

LEMMA EnterStep ==
  ASSUME IInv, Enter
  PROVE  IInv'
<1>1. entered' \in 0 .. MaxEntries
  <2>1. entered \in 0 .. MaxEntries /\ MaxEntries \in Nat
    BY NetworkAssumption DEF IInv, TypeOK
  <2> QED
    BY <2>1 DEF Enter
<1>2. TypeOK'
  BY <1>1 DEF IInv, TypeOK, Enter, link, eeprom, AgeCap
<1>3. Entered' /\ Linked' /\ LostOnlyOffline' /\ Storing'
  BY DEF IInv, Entered, Linked, LostOnlyOffline, Storing, Enter, link, eeprom
<1>4. StoredWorked'
  BY DEF IInv, StoredWorked, Enter, link, eeprom
<1> QED
  BY <1>2, <1>3, <1>4 DEF IInv

LEMMA PowerCycleStep ==
  ASSUME IInv, PowerCycle
  PROVE  IInv'
<1>1. /\ pc' = "boot" /\ attempt' = "stored"
      /\ m_NetSettings' = [id |-> NoText, str1 |-> NoText, str2 |-> NoText]
      /\ m_Connected' = FALSE /\ m_TlsClient' = FALSE
      /\ ram' = Empty /\ age' = 0 /\ settingsQueue' = <<>>
      /\ cycle' = "none" /\ disturbed' = FALSE
  BY DEF PowerCycle, Started
<1>2. UNCHANGED <<entered, faults>>
  BY DEF PowerCycle
<1>3. PICK cut \in {"none", Writing, cycle} :
         /\ rom' = [f \in Fields |-> IF f = cut THEN NoText ELSE rom[f]]
         /\ spoiled' = spoiled \cup
               {Pair(f) : f \in {cut} \cap Fields}
               \cup {Pair(f) : f \in {Writing} \cap {"password", "tbKey"}}
  BY DEF PowerCycle
<1>4. rom \in [Fields -> Values] /\ spoiled \subseteq Pairs
  BY DEF IInv, TypeOK
<1>5. rom' \in [Fields -> Values]
  BY <1>3, <1>4, Vocabulary
<1>6. spoiled' \subseteq Pairs
  BY <1>3, <1>4, PairsOfFields
<1>7. /\ \A p \in Pairs : p \notin spoiled' => p \notin spoiled
      /\ \A f \in Fields : Pair(f) \notin spoiled' => rom'[f] = rom[f]
      /\ pc = "storePassword" => "network" \in spoiled'
      /\ pc = "storeTbKey" => "talkback" \in spoiled'
  <2>1. \A f \in Fields : f = cut => Pair(f) \in spoiled'
    BY <1>3
  <2>2. \A f \in {"password", "tbKey"} : f = Writing => Pair(f) \in spoiled'
    BY <1>3
  <2>3. /\ pc = "storePassword" => Writing = "password"
        /\ pc = "storeTbKey" => Writing = "tbKey"
    BY DEF Writing
  <2> QED
    BY <1>3, <2>1, <2>2, <2>3, PairsOfFields
<1>8. restarts' \in 0 .. MaxRestarts
  <2>1. restarts \in 0 .. MaxRestarts /\ MaxRestarts \in Nat
    BY NetworkAssumption DEF IInv, TypeOK
  <2> QED
    BY <2>1 DEF PowerCycle
<1>9. TypeOK'
  <2>1. Empty \in [Fields -> Values] /\ 0 \in 0 .. AgeCap
    BY Vocabulary, Ages DEF Empty, IInv
  <2> QED
    BY <1>1, <1>2, <1>5, <1>6, <1>8, <2>1, Vocabulary DEF IInv, TypeOK, AgeCap
<1>10. Entered' /\ Linked' /\ LostOnlyOffline' /\ Storing'
  BY <1>1 DEF Entered, Linked, LostOnlyOffline, Storing
<1>11. StoredWorked'
  BY <1>1, <1>7, PairsOfFields DEF IInv, StoredWorked, Pairs
<1> QED
  BY <1>9, <1>10, <1>11 DEF IInv

-----------------------------------------------------------------------------
\* Every step keeps the invariant.

LEMMA NextIInv == IInv /\ [Next]_vars => IInv'
<1> SUFFICES ASSUME IInv, [Next]_vars PROVE IInv'
  OBVIOUS
<1>1. CASE Task
  BY <1>1, GetEepromStep, JoinStep, FailToJoinStep, StoreSsidStep, StorePasswordStep,
     TestReportStep, StoreApiKeyStep, TestTalkbackStep, StoreTbIdStep, StoreTbKeyStep,
     TakeWifiStep, TakeKeysStep, NothingToTakeStep, OfflineStep, TalkbackStep,
     ReportStep, PauseStep, Zenon DEF Task
<1>2. CASE Enter
  BY <1>2, EnterStep
<1>3. CASE PowerCycle
  BY <1>3, PowerCycleStep
<1>4. CASE UNCHANGED vars
  <2>1. TypeOK'
    <3>1. UNCHANGED <<pc, attempt, m_NetSettings, m_Connected, m_TlsClient, ram, rom,
                      age, settingsQueue, cycle, spoiled, disturbed, entered, restarts,
                      faults>>
      BY <1>4 DEF vars, link, eeprom, counts
    <3>2. TypeOK
      BY DEF IInv
    <3> QED
      BY <3>1, <3>2, ZenonT(30) DEF TypeOK, AgeCap
  <2>2. Entered' /\ Linked' /\ LostOnlyOffline' /\ Storing'
    BY <1>4 DEF IInv, Entered, Linked, LostOnlyOffline, Storing, vars, link, eeprom
  <2>3. StoredWorked'
    BY <1>4 DEF IInv, StoredWorked, vars, link, eeprom
  <2> QED
    BY <2>1, <2>2, <2>3 DEF IInv
<1> QED
  BY <1>1, <1>2, <1>3, <1>4 DEF Next

LEMMA Inductive == Spec => []IInv
BY InitIInv, NextIInv, PTL DEF Spec

\* Every variable keeps its type, and after the start only the id of the talkback
\* may be empty in the settings in use (Manager.cpp:156, getEeprom).
THEOREM TypeCorrect == Spec => []TypeOK
<1>1. IInv => TypeOK
  BY DEF IInv
<1> QED
  BY <1>1, Inductive, PTL

\* Each pair of records in the EEPROM is empty or one that a network or the service
\* accepts, and online the network is the one the task is on.  Excepted is a pair
\* whose last writing failed or was cut short, the write cycle of the device
\* included, and a pair of keys stored on the word of a client that has once
\* returned -1 (Manager.cpp:93 and 139, connect and testTls).
THEOREM StoredHasWorked == Spec => []StoredWorked
<1>1. IInv => StoredWorked
  BY DEF IInv
<1> QED
  BY <1>1, Inductive, PTL

\* Online there is a client, and only keys entered without a network use one that
\* does not exist (Manager.cpp:74-77, testTls).
THEOREM ClientWhileOnline == Spec => []LostOnlyOffline
<1>1. IInv => LostOnlyOffline
  BY DEF IInv
<1> QED
  BY <1>1, Inductive, PTL

=============================================================================
