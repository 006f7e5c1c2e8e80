---------------------------- MODULE Eeprom_proofs ----------------------------
(***************************************************************************)
(* Proofs about Eeprom, for any number of tasks, records and values: type  *)
(* correctness, that a failed read has a cause of its own, and that the    *)
(* records are those of SettingsStore.                                     *)
(***************************************************************************)
EXTENDS Eeprom, TLAPS

-----------------------------------------------------------------------------
\* Contents and CRCs.

\* What the cut leaves is a value that was written, no byte, or a fragment.
LEMMA Cuts ==
  ASSUME NEW d \in Datas
  PROVE  /\ Content(d) \in Values \cup {Fragment}
         /\ d \in Whole => Content(d) = d
BY ValuesAssumption DEF Content, Datas

\* Half written data are those of the value begun, or no data at all.
LEMMA TornData ==
  ASSUME NEW d \in Datas
  PROVE  /\ Torn(d) \in Datas
         /\ Content(Torn(d)) \in {Content(d), Fragment}
BY ValuesAssumption DEF Content, Datas, Torn

\* CRCs are never 0, and a whole value has its own.
LEMMA CrcValues ==
  ASSUME NEW v \in Values
  PROVE  /\ CrcOf(v) \in Crcs
         /\ v \in Whole => Matches(Content(v), CrcOf(v))
BY ValuesAssumption DEF CrcOf, Crcs, Matches, Content

\* A read that succeeds returns the content of the record.
LEMMA AnswersAreContents ==
  ASSUME NEW t \in Tasks, NEW c \in Values \cup {Fragment}
  PROVE  /\ AnswerOf(t, c) \in Values \cup {Miss}
         /\ AnswerOf(t, c) # Miss
              => /\ counted[t] /\ AnswerOf(t, c) = c /\ c # Fragment
                 /\ Matches(c, crc[t]) /\ crc[t] # Zero
BY ValuesAssumption DEF AnswerOf, Matches, CrcOf

\* What is at the address pointer can be read as a value or not at all.
LEMMA AtPointerType ==
  ASSUME TypeOK
  PROVE  AtPointer \in Values \cup {Fragment}
<1>1. CASE pointer = Elsewhere
  BY <1>1 DEF AtPointer
<1>2. CASE pointer \in Addresses
  <2>1. cell[pointer].data \in Datas
    BY <1>2 DEF TypeOK, Cells
  <2> QED
    BY <1>2, <2>1, Cuts, TasksAssumption DEF AtPointer
<1> QED
  BY <1>1, <1>2 DEF TypeOK

\* A cell stays a cell when its data or its CRC are replaced.
LEMMA CellUpdates ==
  ASSUME NEW f \in [Addresses -> Cells], NEW a,
         NEW d \in Datas, NEW k \in Crcs
  PROVE  /\ [f EXCEPT ![a].data = d] \in [Addresses -> Cells]
         /\ [f EXCEPT ![a].crc = k] \in [Addresses -> Cells]
<1>1. \A b \in Addresses : /\ [f[b] EXCEPT !.data = d] \in Cells
                           /\ [f[b] EXCEPT !.crc = k] \in Cells
  BY DEF Cells
<1> QED
  BY <1>1

-----------------------------------------------------------------------------
\* Type correctness.

\* The initial states are of the right types.
LEMMA TypeInit == Init => TypeOK
<1> SUFFICES ASSUME Init PROVE TypeOK
  OBVIOUS
<1>1. cell \in [Addresses -> Cells]
  <2>1. ASSUME NEW a \in Addresses, stored[a] # Unknown
        PROVE  CrcOf(stored[a]) \in Crcs /\ stored[a] \in Datas
    BY <2>1, CrcValues DEF Init, Datas
  <2>2. Scrambled \in Datas /\ Erased \in Crcs
    BY DEF Datas, Crcs
  <2> QED
    BY <2>1, <2>2 DEF Init, Cells
<1>2. asked \in [Addresses -> SUBSET Values]
  BY DEF Init
<1> QED
  BY <1>1, <1>2, ValuesAssumption, TasksAssumption DEF Init, TypeOK

\* Every step keeps the types.
LEMMA TypeStep == TypeOK /\ [Next]_vars => TypeOK'
<1> SUFFICES ASSUME TypeOK, [Next]_vars PROVE TypeOK'
  OBVIOUS
<1> USE DEF TypeOK
<1>1. ASSUME NEW t \in Tasks, NEW a \in Addresses, NEW v \in Asks[a],
             Write(t, a, v)
      PROVE  TypeOK'
  <2>1. v \in Values
    BY TasksAssumption
  <2> QED
    BY <1>1, <2>1 DEF Write, StartCall, Goto, device, mishaps
<1>2. ASSUME NEW t \in Tasks, NEW a \in Addresses, Read(t, a)
      PROVE  TypeOK'
  BY <1>2 DEF Read, StartCall, Goto, device, mishaps
<1>3. ASSUME NEW t \in Tasks, Lock(t)
      PROVE  TypeOK'
  BY <1>3 DEF Lock, Goto, device, history, mishaps
<1>4. ASSUME NEW t \in Tasks, WriteData(t)
      PROVE  TypeOK'
  <2>1. /\ cell[addr[t]].data \in Datas /\ val[t] \in Datas
        /\ Torn(val[t]) \in Datas
    BY TornData DEF Cells, Datas
  <2>2. cell' \in [Addresses -> Cells]
    <3>1. PICK d \in Datas : cell' = [cell EXCEPT ![addr[t]].data = d]
      BY <1>4, <2>1 DEF WriteData
    <3> QED
      BY <2>1, <3>1, CellUpdates, CrcValues
  <2>3. done' \in [Tasks -> BOOLEAN]
    BY <1>4, Zenon DEF WriteData
  <2>4. stored' \in [Addresses -> Values \cup {Unknown}]
    BY <1>4 DEF WriteData, Spoil
  <2>5. faults' \in 0 .. MaxFaults /\ restarts' = restarts
    BY <1>4, TasksAssumption DEF WriteData, Fault, mishaps
  <2>6. cycle' \in {"none", "data", "crc"} /\ cycleAt' \in Addresses \cup {Elsewhere}
    BY <1>4 DEF WriteData
  <2> QED
    BY <1>4, <2>2, <2>3, <2>4, <2>5, <2>6 DEF WriteData, Goto
<1>5. ASSUME NEW t \in Tasks, WriteCrc(t)
      PROVE  TypeOK'
  <2>1. CrcOf(val[t]) \in Crcs /\ Garbled \in Crcs
    BY CrcValues DEF Crcs
  <2>2. cell' \in [Addresses -> Cells]
    <3>1. cell[addr[t]].crc \in Crcs
      BY DEF Cells
    <3>2. PICK k \in Crcs : cell' = [cell EXCEPT ![addr[t]].crc = k]
      BY <1>5, <2>1, <3>1 DEF WriteCrc
    <3>3. Scrambled \in Datas
      BY DEF Datas
    <3> QED
      BY <3>2, <3>3, CellUpdates
  <2>3. val' \in [Tasks -> Values]
    BY <1>5, ValuesAssumption DEF WriteCrc
  <2>4. done' \in [Tasks -> BOOLEAN]
    BY <1>5, Zenon DEF WriteCrc
  <2>5. /\ stored' \in [Addresses -> Values \cup {Unknown}]
        /\ asked' \in [Addresses -> SUBSET Values]
    BY <1>5 DEF WriteCrc, Spoil
  <2>6. faults' \in 0 .. MaxFaults /\ restarts' = restarts
    BY <1>5, TasksAssumption DEF WriteCrc, Fault, mishaps
  <2>7. cycle' \in {"none", "data", "crc"} /\ cycleAt' \in Addresses \cup {Elsewhere}
    BY <1>5 DEF WriteCrc
  <2> QED
    BY <1>5, <2>2, <2>3, <2>4, <2>5, <2>6, <2>7 DEF WriteCrc, Goto
<1>6. ASSUME NEW t \in Tasks, ReadCrc(t)
      PROVE  TypeOK'
  <2>1. cell[addr[t]].crc \in Crcs
    BY DEF Cells
  <2>2. done' \in [Tasks -> BOOLEAN]
    BY <1>6, Zenon DEF ReadCrc
  <2>3. crc' \in [Tasks -> Crcs \cup {Zero}]
    BY <1>6, <2>1 DEF ReadCrc
  <2>4. faults' \in 0 .. MaxFaults /\ restarts' = restarts
    BY <1>6, TasksAssumption DEF ReadCrc, Fault, mishaps
  <2> QED
    BY <1>6, <2>2, <2>3, <2>4 DEF ReadCrc, Goto
<1>7. ASSUME NEW t \in Tasks, ReadAddress(t)
      PROVE  TypeOK'
  <2>1. counted' \in [Tasks -> BOOLEAN] /\ done' \in [Tasks -> BOOLEAN]
    BY <1>7, Zenon DEF ReadAddress
  <2>2. faults' \in 0 .. MaxFaults /\ restarts' = restarts
    BY <1>7, TasksAssumption DEF ReadAddress, Fault, mishaps
  <2> QED
    BY <1>7, <2>1, <2>2 DEF ReadAddress, Goto
<1>8. ASSUME NEW t \in Tasks, ReadData(t)
      PROVE  TypeOK'
  <2>1. AnswerOf(t, AtPointer) \in Values \cup {Miss}
    BY AtPointerType, AnswersAreContents
  <2>2. done' \in [Tasks -> BOOLEAN]
    BY <1>8, Zenon DEF ReadData
  <2>3. answer' \in [Tasks -> Values \cup {NoAnswer, Miss}]
    BY <1>8, <2>1 DEF ReadData
  <2>4. faults' \in 0 .. MaxFaults /\ restarts' = restarts
    BY <1>8, TasksAssumption DEF ReadData, Fault, mishaps
  <2> QED
    BY <1>8, <2>2, <2>3, <2>4 DEF ReadData, Goto
<1>9. CASE DeviceReady
  BY <1>9 DEF DeviceReady, calls, history, mishaps
<1>10. CASE Restart
  <2>1. ASSUME NEW a \in Addresses
        PROVE  Torn(cell[a].data) \in Datas /\ Garbled \in Crcs
    BY TornData DEF Cells, Crcs
  <2>2. cell' \in [Addresses -> Cells]
    <3>1. CASE UNCHANGED cell
      BY <3>1
    <3>2. CASE cell' = [cell EXCEPT ![cycleAt].data = Torn(@)]
      <4>1. \A a \in Addresses : [cell[a] EXCEPT !.data = Torn(cell[a].data)] \in Cells
        BY <2>1 DEF Cells
      <4> QED
        BY <3>2, <4>1
    <3>3. CASE cell' = [cell EXCEPT ![cycleAt].crc = Garbled]
      <4>1. Garbled \in Crcs /\ Scrambled \in Datas
        BY DEF Crcs, Datas
      <4> QED
        BY <3>3, <4>1, CellUpdates
    <3> QED
      BY <1>10, <3>1, <3>2, <3>3 DEF Restart
  <2>3. Nothing \in Values
    BY ValuesAssumption
  <2>4. counted' \in [Tasks -> BOOLEAN] /\ done' \in [Tasks -> BOOLEAN]
    BY <1>10, Zenon DEF Restart
  <2>5. stored' \in [Addresses -> Values \cup {Unknown}]
    BY <1>10 DEF Restart, Spoil
  <2>6. faults' = faults /\ restarts' \in 0 .. MaxRestarts
    BY <1>10, TasksAssumption DEF Restart
  <2>7. /\ pc' \in [Tasks -> {"idle", "write", "write_data", "write_crc",
                               "read", "read_crc", "read_address",
                               "read_data"}]
        /\ val' \in [Tasks -> Values] /\ crc' \in [Tasks -> Crcs \cup {Zero}]
        /\ answer' \in [Tasks -> Values \cup {NoAnswer, Miss}]
    BY <1>10, <2>3 DEF Restart
  <2> QED
    BY <1>10, <2>2, <2>4, <2>5, <2>6, <2>7 DEF Restart
<1>11. CASE UNCHANGED vars
  BY <1>11 DEF vars, calls, device, history, mishaps
<1> QED
  BY <1>1, <1>2, <1>3, <1>4, <1>5, <1>6, <1>7, <1>8, <1>9, <1>10, <1>11
     DEF Next, Step

\* Every variable has its type in every reachable state.
THEOREM TypeCorrect == Spec => []TypeOK
<1>1. Init => TypeOK
  BY TypeInit
<1>2. TypeOK /\ [Next]_vars => TypeOK'
  BY TypeStep
<1> QED
  BY <1>1, <1>2, PTL DEF Spec

-----------------------------------------------------------------------------
\* The inductive invariant.

\* Two tasks never work on the same record.
LEMMA OwnRecords ==
  ASSUME Orderly, NEW t \in Tasks, NEW u \in Tasks, t # u
  PROVE  addr[t] # addr[u]
BY DEF Orderly

\* It holds initially.
LEMMA IInvInit == Init => IInv
<1> SUFFICES ASSUME Init PROVE IInv
  OBVIOUS
<1>1. TypeOK
  BY TypeInit
<1>2. Exclusive /\ Orderly /\ BeingWritten /\ BeingRead
  BY TasksAssumption
     DEF Init, Exclusive, Critical, Orderly, BeingWritten, Writing, BeingRead,
         Reading
<1>3. Intact
  BY DEF Init, Intact
<1>4. Sound
  <2>1. ASSUME NEW a \in Addresses, stored[a] = Unknown
        PROVE  Content(cell[a].data) = Fragment
    BY <2>1, ValuesAssumption DEF Init, Content
  <2>2. ASSUME NEW a \in Addresses, stored[a] # Unknown
        PROVE  stored[a] \in asked[a] /\ cell[a].data = stored[a]
    BY <2>2 DEF Init
  <2> QED
    BY <2>1, <2>2 DEF Sound
<1>5. FailedReadHasCause
  BY ValuesAssumption DEF Init, FailedReadHasCause
<1> QED
  BY <1>1, <1>2, <1>3, <1>4, <1>5 DEF IInv

\* The task in the middle of its transactions, and no other, has the mutex.
LEMMA ExclusiveStep == TypeOK /\ Exclusive /\ [Next]_vars => Exclusive'
<1> SUFFICES ASSUME TypeOK, Exclusive, [Next]_vars PROVE Exclusive'
  OBVIOUS
<1> USE TasksAssumption DEF TypeOK, Exclusive, Critical
<1>1. ASSUME NEW t \in Tasks, NEW a \in Addresses, NEW v \in Asks[a],
             Write(t, a, v)
      PROVE  Exclusive'
  BY <1>1 DEF Write, At, Goto
<1>2. ASSUME NEW t \in Tasks, NEW a \in Addresses, Read(t, a)
      PROVE  Exclusive'
  BY <1>2 DEF Read, At, Goto
<1>3. ASSUME NEW t \in Tasks, Lock(t)
      PROVE  Exclusive'
  BY <1>3 DEF Lock, At, Goto
<1>4. ASSUME NEW t \in Tasks, WriteData(t) \/ ReadCrc(t) \/ ReadAddress(t)
      PROVE  Exclusive'
  <2>1. /\ pc[t] \in {"write_data", "read_crc", "read_address"}
        /\ holder' = holder
        /\ \E p \in {"write_crc", "read_address", "read_data"} : Goto(t, p)
    BY <1>4 DEF WriteData, ReadCrc, ReadAddress, At
  <2> QED
    BY <2>1 DEF Goto
<1>5. ASSUME NEW t \in Tasks, WriteCrc(t) \/ ReadData(t)
      PROVE  Exclusive'
  <2>1. /\ pc[t] \in {"write_crc", "read_data"}
        /\ holder' = Free /\ Goto(t, "idle")
    BY <1>5 DEF WriteCrc, ReadData, At
  <2> QED
    BY <2>1 DEF Goto
<1>6. CASE DeviceReady
  BY <1>6 DEF DeviceReady, calls
<1>7. CASE Restart
  BY <1>7 DEF Restart
<1>8. CASE UNCHANGED vars
  BY <1>8 DEF vars, calls
<1> QED
  BY <1>1, <1>2, <1>3, <1>4, <1>5, <1>6, <1>7, <1>8 DEF Next, Step

\* A task calls with its own records only.
LEMMA OrderlyStep == TypeOK /\ Orderly /\ [Next]_vars => Orderly'
<1> SUFFICES ASSUME TypeOK, Orderly, [Next]_vars PROVE Orderly'
  OBVIOUS
<1> USE DEF TypeOK, Orderly
<1>1. ASSUME NEW t \in Tasks, NEW a \in Addresses, NEW v \in Asks[a],
             Write(t, a, v)
      PROVE  Orderly'
  BY <1>1 DEF Write, StartCall, Goto
<1>2. ASSUME NEW t \in Tasks, NEW a \in Addresses, Read(t, a)
      PROVE  Orderly'
  BY <1>2 DEF Read, StartCall, Goto
<1>3. ASSUME NEW t \in Tasks,
             \/ Lock(t) \/ WriteData(t) \/ WriteCrc(t)
             \/ ReadCrc(t) \/ ReadAddress(t)
      PROVE  Orderly'
  <2>1. /\ pc[t] # "idle" /\ addr' = addr /\ answer' = answer
        /\ \E p : pc' = [pc EXCEPT ![t] = p]
    BY <1>3 DEF Lock, WriteData, WriteCrc, ReadCrc, ReadAddress, At, Goto
  <2> QED
    BY <2>1
<1>4. ASSUME NEW t \in Tasks, ReadData(t)
      PROVE  Orderly'
  <2>1. /\ pc' = [pc EXCEPT ![t] = "idle"] /\ addr' = addr
        /\ \E x : answer' = [answer EXCEPT ![t] = x]
    BY <1>4 DEF ReadData, Goto
  <2> QED
    BY <2>1
<1>5. CASE DeviceReady
  BY <1>5 DEF DeviceReady, calls
<1>6. CASE Restart
  BY <1>6 DEF Restart
<1>7. CASE UNCHANGED vars
  BY <1>7 DEF vars, calls
<1> QED
  BY <1>1, <1>2, <1>3, <1>4, <1>5, <1>6, <1>7 DEF Next, Step


\* The calls and the records of task u are left alone.
Untouched(u) ==
    /\ pc'[u] = pc[u] /\ addr'[u] = addr[u] /\ val'[u] = val[u]
    /\ crc'[u] = crc[u] /\ counted'[u] = counted[u] /\ done'[u] = done[u]
    /\ answer'[u] = answer[u]
    /\ cell'[addr[u]] = cell[addr[u]] /\ stored'[addr[u]] = stored[addr[u]]
    /\ asked'[addr[u]] = asked[addr[u]]

\* A step of one task leaves the others' calls and records alone.
LEMMA OwnWork ==
  ASSUME TypeOK, Orderly, NEW t \in Tasks, NEW u \in Tasks, u # t,
         \/ Step(t)
         \/ \E a \in Addresses : Read(t, a) \/ \E v \in Asks[a] : Write(t, a, v)
  PROVE  Untouched(u)
<1> USE OwnRecords DEF TypeOK, Untouched, Goto
<1>1. ASSUME NEW a \in Addresses, NEW v \in Asks[a], Write(t, a, v)
      PROVE  Untouched(u)
  <2>1. addr[u] # a
    BY <1>1 DEF Write, Orderly
  <2> QED
    BY <1>1, <2>1 DEF Write, StartCall, device
<1>2. ASSUME NEW a \in Addresses, Read(t, a)
      PROVE  Untouched(u)
  BY <1>2 DEF Read, StartCall, device
<1>3. CASE Lock(t)
  BY <1>3 DEF Lock, device, history
<1>4. CASE WriteData(t)
  BY <1>4 DEF WriteData, Spoil
<1>5. CASE WriteCrc(t)
  BY <1>5 DEF WriteCrc, Spoil
<1>6. CASE ReadCrc(t)
  BY <1>6 DEF ReadCrc
<1>7. CASE ReadAddress(t)
  BY <1>7 DEF ReadAddress
<1>8. CASE ReadData(t)
  BY <1>8 DEF ReadData
<1> QED
  BY <1>1, <1>2, <1>3, <1>4, <1>5, <1>6, <1>7, <1>8 DEF Step

\* A write that is under way leaves nothing but what was asked for.
LEMMA BeingWrittenStep ==
  TypeOK /\ Orderly /\ BeingWritten /\ [Next]_vars => BeingWritten'
<1> SUFFICES ASSUME TypeOK, Orderly, BeingWritten, [Next]_vars,
                    NEW u \in Tasks
             PROVE  Writing(u)'
  BY DEF BeingWritten
<1>0. Writing(u)
  BY DEF BeingWritten
<1>1. ASSUME Untouched(u)
      PROVE  Writing(u)'
  BY <1>0, <1>1 DEF Writing, Untouched
<1>2. ASSUME NEW a \in Addresses, NEW v \in Asks[a], Write(u, a, v)
      PROVE  Writing(u)'
  <2>1. v \in Values
    BY TasksAssumption
  <2> QED
    BY <1>2, <2>1 DEF Write, StartCall, Goto, Writing, TypeOK
<1>3. ASSUME NEW a \in Addresses, Read(u, a)
      PROVE  Writing(u)'
  BY <1>3 DEF Read, Goto, Writing, TypeOK
<1>4. CASE Lock(u)
  BY <1>0, <1>4 DEF Lock, Goto, At, Writing, TypeOK, device, history
<1>5. CASE WriteData(u)
  <2>1. /\ pc[u] = "write_data" /\ pc'[u] = "write_crc" /\ addr' = addr
        /\ val' = val /\ asked' = asked
    BY <1>5 DEF WriteData, At, Goto, TypeOK
  <2>2. stored'[addr[u]] \in {stored[addr[u]], Unknown}
    BY <1>5 DEF WriteData, Spoil, TypeOK
  <2>3. done'[u] => cell'[addr[u]].data = val[u]
    <3>1. CASE /\ cell' = [cell EXCEPT ![addr[u]].data = val[u]]
      BY <3>1 DEF TypeOK, Cells
    <3>2. CASE done' = done
      BY <1>0, <2>1, <3>2 DEF Writing
    <3> QED
      BY <1>5, <3>1, <3>2 DEF WriteData
  <2> QED
    BY <1>0, <2>1, <2>2, <2>3 DEF Writing
<1>6. ASSUME WriteCrc(u) \/ ReadData(u) \/ Restart
      PROVE  Writing(u)'
  <2>1. pc'[u] = "idle"
    BY <1>6 DEF WriteCrc, ReadData, Restart, Goto, TypeOK
  <2> QED
    BY <2>1 DEF Writing
<1>7. ASSUME ReadCrc(u) \/ ReadAddress(u)
      PROVE  Writing(u)'
  <2>1. pc'[u] \in {"read_address", "read_data"}
    BY <1>7 DEF ReadCrc, ReadAddress, Goto, TypeOK
  <2> QED
    BY <2>1 DEF Writing
<1>8. CASE DeviceReady \/ UNCHANGED vars
  BY <1>1, <1>8 DEF DeviceReady, vars, calls, device, history, Untouched
<1> QED
  BY <1>1, <1>2, <1>3, <1>4, <1>5, <1>6, <1>7, <1>8, OwnWork DEF Next, Step

\* While a task reads, nobody moves the address pointer or writes its CRC.
LEMMA BeingReadStep ==
  TypeOK /\ Exclusive /\ Orderly /\ BeingRead /\ [Next]_vars => BeingRead'
<1> SUFFICES ASSUME TypeOK, Exclusive, Orderly, BeingRead, [Next]_vars,
                    NEW u \in Tasks
             PROVE  Reading(u)'
  BY DEF BeingRead
<1>0. Reading(u)
  BY DEF BeingRead
<1>1. ASSUME NEW t \in Tasks, t # u, Step(t)
      PROVE  Reading(u)'
  <2>1. Untouched(u)
    BY <1>1, OwnWork
  <2>2. CASE Lock(t)
    BY <1>0, <2>1, <2>2 DEF Lock, device, Reading, Untouched
  <2>3. CASE ~Lock(t)
    <3>1. pc[t] \in {"write_data", "write_crc", "read_crc", "read_address",
                     "read_data"}
      BY <1>1, <2>3
         DEF Step, WriteData, WriteCrc, ReadCrc, ReadAddress, ReadData, At
    <3>2. pc[u] \notin {"read_address", "read_data"}
      BY <1>1, <3>1 DEF Exclusive, Critical
    <3> QED
      BY <2>1, <3>2 DEF Reading, Untouched
  <2> QED
    BY <2>2, <2>3
<1>2. ASSUME NEW t \in Tasks, NEW a \in Addresses,
             Read(t, a) \/ \E v \in Asks[a] : Write(t, a, v)
      PROVE  Reading(u)'
  <2>1. CASE t = u
    <3>1. pc'[u] \in {"read", "write"}
      BY <1>2, <2>1 DEF Read, Write, Goto, TypeOK
    <3> QED
      BY <3>1 DEF Reading
  <2>2. CASE t # u
    <3>1. Untouched(u)
      BY <1>2, <2>2, OwnWork
    <3>2. pointer' = pointer /\ cycle' = cycle
      BY <1>2 DEF Read, Write, device
    <3> QED
      BY <1>0, <3>1, <3>2 DEF Reading, Untouched
  <2> QED
    BY <2>1, <2>2
<1>3. CASE Lock(u) \/ WriteData(u) \/ WriteCrc(u) \/ ReadData(u) \/ Restart
  <2>1. pc'[u] \in {"write_data", "read_crc", "write_crc", "idle"}
    BY <1>3 DEF Lock, WriteData, WriteCrc, ReadData, Restart, Goto, TypeOK
  <2> QED
    BY <2>1 DEF Reading
<1>4. CASE ReadCrc(u)
  <2>1. cell[addr[u]].crc \in Crcs
    BY DEF TypeOK, Cells
  <2>2. \/ crc'[u] = cell[addr[u]].crc
        \/ crc'[u] = Zero /\ ~done'[u]
    <3>1. CASE crc' = [crc EXCEPT ![u] = cell[addr[u]].crc]
      BY <3>1 DEF TypeOK
    <3>2. CASE /\ crc' = [crc EXCEPT ![u] = Zero]
               /\ done' = [done EXCEPT ![u] = FALSE]
      BY <3>2 DEF TypeOK
    <3> QED
      BY <1>4, <3>1, <3>2 DEF ReadCrc
  <2>3. pc'[u] = "read_address" /\ addr' = addr /\ cell' = cell
    BY <1>4 DEF ReadCrc, Goto, TypeOK
  <2>4. cell[addr[u]].crc # Zero
    BY <2>1, ValuesAssumption DEF Crcs
  <2> QED
    BY <2>2, <2>3, <2>4 DEF Reading
<1>5. CASE ReadAddress(u)
  <2>1. \/ pointer' = addr[u] /\ counted'[u]
        \/ pointer' = Elsewhere /\ ~done'[u]
    BY <1>5 DEF ReadAddress, TypeOK
  <2>2. /\ pc[u] = "read_address" /\ pc'[u] = "read_data" /\ addr' = addr
        /\ crc' = crc /\ cell' = cell /\ cycle' = cycle /\ cycle = "none"
    BY <1>5 DEF ReadAddress, At, Goto, Answers, TypeOK
  <2>3. done'[u] => done[u]
    BY <1>5 DEF ReadAddress, TypeOK
  <2> QED
    BY <1>0, <2>1, <2>2, <2>3 DEF Reading
<1>6. CASE DeviceReady
  BY <1>0, <1>6 DEF DeviceReady, calls, history, Reading
<1>7. CASE UNCHANGED vars
  BY <1>0, <1>7 DEF vars, calls, device, history, Reading
<1> QED
  BY <1>1, <1>2, <1>3, <1>4, <1>5, <1>6, <1>7 DEF Next, Step

\* The data of a record are what was asked for, or cannot be read.
LEMMA SoundStep ==
  TypeOK /\ BeingWritten /\ Sound /\ [Next]_vars => Sound'
<1> SUFFICES ASSUME TypeOK, BeingWritten, Sound, [Next]_vars,
                    NEW a \in Addresses
             PROVE  \/ Content(cell'[a].data) = Fragment
                    \/ \E v \in asked'[a] : Content(cell'[a].data) = Content(v)
  BY DEF Sound
<1> DEFINE Readable(d, A) == \/ Content(d) = Fragment
                             \/ \E v \in A : Content(d) = Content(v)
<1>0. Readable(cell[a].data, asked[a])
  BY DEF Sound
<1> HIDE DEF Readable
<1>1. CASE cell'[a].data = cell[a].data /\ asked[a] \subseteq asked'[a]
  BY <1>0, <1>1 DEF Readable
<1>2. ASSUME NEW t \in Tasks, NEW b \in Addresses, NEW v \in Asks[b],
             Write(t, b, v)
      PROVE  Readable(cell'[a].data, asked'[a])
  <2>1. cell' = cell /\ asked[a] \subseteq asked'[a]
    BY <1>2 DEF Write, device, TypeOK
  <2> QED
    BY <1>0, <2>1 DEF Readable
<1>3. ASSUME NEW t \in Tasks, WriteData(t)
      PROVE  Readable(cell'[a].data, asked'[a])
  <2>1. asked' = asked /\ val[t] \in asked[addr[t]] /\ val[t] \in Datas
    BY <1>3 DEF WriteData, At, BeingWritten, Writing, TypeOK, Datas
  <2>2. CASE a # addr[t]
    <3>1. cell'[a] = cell[a]
      BY <1>3, <2>2 DEF WriteData, TypeOK
    <3> QED
      BY <1>0, <2>1, <3>1 DEF Readable
  <2>3. CASE a = addr[t]
    <3>1. cell'[a].data \in {val[t], cell[a].data, Torn(val[t])}
      BY <1>3, <2>3 DEF WriteData, TypeOK, Cells
    <3>2. Content(Torn(val[t])) \in {Content(val[t]), Fragment}
      BY <2>1, TornData
    <3> QED
      BY <1>0, <2>1, <2>3, <3>1, <3>2 DEF Readable
  <2> QED
    BY <2>2, <2>3
<1>4. ASSUME NEW t \in Tasks, WriteCrc(t)
      PROVE  Readable(cell'[a].data, asked'[a])
  <2>1. cell'[a].data = cell[a].data
    <3>1. PICK k : cell' = [cell EXCEPT ![addr[t]].crc = k]
      BY <1>4 DEF WriteCrc
    <3>2. cell[a] \in Cells
      BY DEF TypeOK
    <3> QED
      BY <3>1, <3>2 DEF TypeOK, Cells
  <2>2. \/ asked'[a] = asked[a]
        \/ a = addr[t] /\ done[t] /\ asked'[a] = {val[t]}
    BY <1>4 DEF WriteCrc, TypeOK
  <2>3. pc[t] = "write_crc" /\ (done[t] => cell[addr[t]].data = val[t])
    BY <1>4 DEF WriteCrc, At, BeingWritten, Writing
  <2> QED
    BY <1>0, <2>1, <2>2, <2>3 DEF Readable
<1>5. CASE Restart
  <2>1. asked' = asked
    BY <1>5 DEF Restart
  <2>2. \/ cell'[a].data = cell[a].data
        \/ cell'[a].data = Torn(cell[a].data)
    <3>1. \/ cell' = cell
          \/ cell' = [cell EXCEPT ![cycleAt].data = Torn(@)]
          \/ cell' = [cell EXCEPT ![cycleAt].crc = Garbled]
      BY <1>5 DEF Restart
    <3> QED
      BY <3>1 DEF TypeOK, Cells
  <2>3. Content(Torn(cell[a].data)) \in {Content(cell[a].data), Fragment}
    BY TornData DEF TypeOK, Cells
  <2> QED
    BY <1>0, <2>1, <2>2, <2>3 DEF Readable
<1>6. ASSUME \/ \E t \in Tasks, b \in Addresses : Read(t, b)
             \/ \E t \in Tasks :
                   Lock(t) \/ ReadCrc(t) \/ ReadAddress(t) \/ ReadData(t)
             \/ DeviceReady \/ UNCHANGED vars
      PROVE  cell' = cell /\ asked' = asked
  BY <1>6 DEF Read, Lock, ReadCrc, ReadAddress, ReadData, DeviceReady, vars,
              device, history
<1> QED
  BY <1>0, <1>1, <1>2, <1>3, <1>4, <1>5, <1>6 DEF Next, Step, Readable

\* A record whose last write was finished is intact.
LEMMA IntactStep ==
  TypeOK /\ BeingWritten /\ Intact /\ [Next]_vars => Intact'
<1> SUFFICES ASSUME TypeOK, BeingWritten, Intact, [Next]_vars,
                    NEW a \in Addresses, stored'[a] # Unknown
             PROVE  cell'[a] = [data |-> stored'[a], crc |-> CrcOf(stored'[a])]
  BY DEF Intact
<1>0. stored[a] # Unknown
      => cell[a] = [data |-> stored[a], crc |-> CrcOf(stored[a])]
  BY DEF Intact
<1>1. ASSUME cell'[a] = cell[a], stored'[a] \in {stored[a], Unknown}
      PROVE  cell'[a] = [data |-> stored'[a], crc |-> CrcOf(stored'[a])]
  BY <1>0, <1>1
<1>2. ASSUME NEW t \in Tasks, NEW b \in Addresses, NEW v \in Asks[b],
             Write(t, b, v)
      PROVE  cell'[a] = cell[a] /\ stored'[a] \in {stored[a], Unknown}
  BY <1>2 DEF Write, device, TypeOK
<1>3. ASSUME NEW t \in Tasks, WriteData(t)
      PROVE  cell'[a] = [data |-> stored'[a], crc |-> CrcOf(stored'[a])]
  <2>1. CASE a # addr[t]
    BY <1>1, <1>3, <2>1 DEF WriteData, Spoil, TypeOK
  <2>2. CASE a = addr[t]
    <3>1. stored'[a] = stored[a] /\ cell'[a] = [cell[a] EXCEPT !.data = val[t]]
      BY <1>3, <2>2 DEF WriteData, Spoil, TypeOK
    <3>2. stored[a] = val[t]
      BY <1>3, <2>2, <3>1 DEF WriteData, At, BeingWritten, Writing
    <3> QED
      BY <1>0, <3>1, <3>2
  <2> QED
    BY <2>1, <2>2
<1>4. ASSUME NEW t \in Tasks, WriteCrc(t)
      PROVE  cell'[a] = [data |-> stored'[a], crc |-> CrcOf(stored'[a])]
  <2>1. CASE a # addr[t]
    BY <1>1, <1>4, <2>1 DEF WriteCrc, Spoil, TypeOK
  <2>2. CASE a = addr[t]
    <3>1. cell'[a] = [cell[a] EXCEPT !.crc = CrcOf(val[t])]
      BY <1>4, <2>2 DEF WriteCrc, Spoil, TypeOK
    <3>2. /\ stored'[a] = IF done[t] THEN val[t] ELSE stored[a]
          /\ done[t] => cell[a].data = val[t]
          /\ stored[a] \in {val[t], Unknown}
      BY <1>4, <2>2
         DEF WriteCrc, Spoil, TypeOK, At, BeingWritten, Writing
    <3>3. cell[a] \in Cells
      BY DEF TypeOK
    <3> QED
      BY <1>0, <3>1, <3>2, <3>3 DEF Cells
  <2> QED
    BY <2>1, <2>2
<1>5. CASE Restart
  BY <1>1, <1>5 DEF Restart, Spoil, TypeOK
<1>6. ASSUME \/ \E t \in Tasks, b \in Addresses : Read(t, b)
             \/ \E t \in Tasks :
                   Lock(t) \/ ReadCrc(t) \/ ReadAddress(t) \/ ReadData(t)
             \/ DeviceReady \/ UNCHANGED vars
      PROVE  cell' = cell /\ stored' = stored
  BY <1>6 DEF Read, Lock, ReadCrc, ReadAddress, ReadData, DeviceReady, vars,
              device, history
<1> QED
  BY <1>1, <1>2, <1>3, <1>4, <1>5, <1>6 DEF Next, Step

\* A read that fails has a failed transaction of its own, or a record whose
\* last write was not finished.
LEMMA FailedReadStep ==
  IInv /\ [Next]_vars => FailedReadHasCause'
<1> SUFFICES ASSUME IInv, [Next]_vars, NEW u \in Tasks,
                    answer'[u] = Miss, stored'[addr'[u]] \in Whole
             PROVE  ~done'[u]
  BY DEF FailedReadHasCause
<1> USE DEF IInv
<1>0. answer[u] = Miss /\ stored[addr[u]] \in Whole => ~done[u]
  BY DEF FailedReadHasCause
<1>1. ASSUME Untouched(u)
      PROVE  ~done'[u]
  BY <1>0, <1>1 DEF Untouched
<1>2. ASSUME NEW a \in Addresses, Read(u, a) \/ \E v \in Asks[a] : Write(u, a, v)
      PROVE  FALSE
  <2>1. answer'[u] = NoAnswer
    BY <1>2 DEF Read, Write, StartCall, TypeOK
  <2> QED
    BY <2>1, ValuesAssumption
<1>3. ASSUME Lock(u) \/ WriteData(u) \/ WriteCrc(u) \/ ReadCrc(u) \/ ReadAddress(u)
      PROVE  FALSE
  <2>1. answer'[u] = NoAnswer
    BY <1>3 DEF Lock, WriteData, WriteCrc, ReadCrc, ReadAddress, At, Orderly
  <2> QED
    BY <2>1, ValuesAssumption
<1>4. CASE ReadData(u)
  <2>1. CASE done' = [done EXCEPT ![u] = FALSE]
    BY <2>1 DEF TypeOK
  <2>2. CASE done' = done /\ answer' = [answer EXCEPT ![u] = AnswerOf(u, AtPointer)]
    <3> SUFFICES ASSUME done[u] PROVE FALSE
      BY <2>2
    <3> DEFINE v == stored[addr[u]]
    <3>1. v \in Whole
      BY <1>4 DEF ReadData
    <3>2. cell[addr[u]] = [data |-> v, crc |-> CrcOf(v)]
      BY <3>1, ValuesAssumption DEF Intact, TypeOK
    <3>3. pointer = addr[u] /\ counted[u] /\ crc[u] = CrcOf(v)
      BY <1>4, <3>2 DEF BeingRead, Reading, ReadData, At
    <3>4. AtPointer = Content(v) /\ Content(v) = v
      BY <3>1, <3>2, <3>3, TasksAssumption DEF AtPointer, Content, TypeOK
    <3>5. Matches(v, CrcOf(v))
      BY <3>1, <3>4, CrcValues, ValuesAssumption
    <3>6. answer'[u] = v
      BY <2>2, <3>3, <3>4, <3>5 DEF AnswerOf, TypeOK
    <3> QED
      BY <3>1, <3>6, ValuesAssumption
  <2> QED
    BY <1>4, <2>1, <2>2 DEF ReadData
<1>5. CASE Restart
  <2>1. answer'[u] = NoAnswer
    BY <1>5 DEF Restart
  <2> QED
    BY <2>1, ValuesAssumption
<1>6. CASE DeviceReady \/ UNCHANGED vars
  BY <1>1, <1>6 DEF DeviceReady, vars, calls, device, history, Untouched
<1> QED
  BY <1>1, <1>2, <1>3, <1>4, <1>5, <1>6, OwnWork DEF Next, Step

\* The inductive invariant holds in every reachable state.
THEOREM Inductive == Spec => []IInv
<1>1. Init => IInv
  BY IInvInit
<1>2. IInv /\ [Next]_vars => IInv'
  BY TypeStep, ExclusiveStep, OrderlyStep, BeingWrittenStep, BeingReadStep,
     SoundStep, IntactStep, FailedReadStep DEF IInv
<1> QED
  BY <1>1, <1>2, PTL DEF Spec

\* A read of a record whose last write was finished fails only for a failed
\* transaction of its own (Eeprom.cpp:47-74).
THEOREM FailedReadsHaveCauses == Spec => []FailedReadHasCause
<1>1. IInv => FailedReadHasCause
  BY DEF IInv
<1> QED
  BY <1>1, Inductive, PTL

-----------------------------------------------------------------------------
\* The records are a SettingsStore.

\* A record has a content that was asked for, or none that can be read.
StoreType == /\ RecordContent \in [Addresses -> Contents \cup {Unknown}]
             /\ RecordAsked \in [Addresses -> SUBSET Contents]
             /\ \A a \in Addresses :
                   RecordContent[a] \in RecordAsked[a] \cup {Unknown}

LEMMA Recorded == IInv => StoreType
<1> SUFFICES ASSUME IInv PROVE StoreType
  OBVIOUS
<1>1. RecordAsked \in [Addresses -> SUBSET Contents]
  BY DEF IInv, TypeOK, RecordAsked, Contents
<1>2. ASSUME NEW a \in Addresses
      PROVE  RecordContent[a] \in RecordAsked[a] \cup {Unknown}
  BY DEF IInv, Sound, Matches, RecordContent, RecordAsked
<1>3. ASSUME NEW a \in Addresses
      PROVE  RecordContent[a] \in Contents \cup {Unknown}
  BY <1>1, <1>2
<1>4. RecordContent = [a \in Addresses |-> RecordContent[a]]
  BY DEF RecordContent
<1> QED
  BY <1>1, <1>2, <1>3, <1>4 DEF StoreType

\* What can be read depends on the cells alone.
LEMMA SameCells == /\ cell' = cell => RecordContent' = RecordContent
                   /\ asked' = asked => RecordAsked' = RecordAsked
BY DEF RecordContent, RecordAsked

\* A step that writes one record is a change of it.
LEMMA ChangeOfOne ==
  ASSUME NEW a \in Addresses, StoreType', asked' = asked, answer' = answer,
         \A b \in Addresses : b # a => cell'[b] = cell[b]
  PROVE  Store!Change(a)
<1>1. RecordAsked' = RecordAsked /\ answer' = answer
  BY SameCells
<1>2. RecordContent'[a] \in RecordAsked[a] \cup {Unknown}
  BY <1>1 DEF StoreType
<1>3. RecordContent' = [RecordContent EXCEPT ![a] = RecordContent'[a]]
  BY DEF RecordContent
<1> QED
  BY <1>1, <1>2, <1>3 DEF Store!Change

\* write begins.
LEMMA WriteAsks ==
  ASSUME TypeOK, NEW t \in Tasks, NEW a \in Addresses, NEW v \in Asks[a],
         Write(t, a, v)
  PROVE  Store!Ask(t, a, Content(v)) /\ Content(v) \in Contents
<1>1. v \in Values /\ Content(v) \in Contents
  BY TasksAssumption DEF Contents
<1>2. RecordContent' = RecordContent
  BY SameCells DEF Write, device
<1>3. answer' = [answer EXCEPT ![t] = NoAnswer]
  BY DEF Write, StartCall
<1>4. asked' = [asked EXCEPT ![a] = @ \cup {v}]
  BY DEF Write
<1>5. \A b \in Addresses : RecordAsked'[b] = IF b = a
         THEN RecordAsked[a] \cup {Content(v)} ELSE RecordAsked[b]
  BY <1>4 DEF RecordAsked, TypeOK
<1>6. RecordAsked' = [RecordAsked EXCEPT ![a] = @ \cup {Content(v)}]
  BY <1>5 DEF RecordAsked
<1> QED
  BY <1>1, <1>2, <1>3, <1>6 DEF Store!Ask

\* The transactions of a write change its record, and the last one finishes
\* it when both succeeded.
LEMMA WriteDataChanges ==
  ASSUME TypeOK, StoreType', NEW t \in Tasks, WriteData(t)
  PROVE  Store!Change(addr[t])
<1>1. \A b \in Addresses : b # addr[t] => cell'[b] = cell[b]
  BY DEF WriteData, TypeOK
<1>2. asked' = asked /\ answer' = answer /\ addr[t] \in Addresses
  BY DEF WriteData, TypeOK
<1> QED
  BY <1>1, <1>2, ChangeOfOne

LEMMA WriteCrcFinishes ==
  ASSUME IInv, StoreType', NEW t \in Tasks, WriteCrc(t)
  PROVE  Store!Change(addr[t]) \/ Store!Finish(addr[t])
<1> DEFINE a == addr[t]
<1> DEFINE v == val[t]
<1>1. /\ a \in Addresses /\ v \in Values /\ answer' = answer
      /\ v \in asked[a] /\ (done[t] => cell[a].data = v)
  BY DEF WriteCrc, IInv, TypeOK, At, BeingWritten, Writing
<1>2. \A b \in Addresses : b # a => cell'[b] = cell[b]
  BY DEF WriteCrc, IInv, TypeOK
<1>3. CASE asked' = asked
  BY <1>1, <1>2, <1>3, ChangeOfOne
<1>4. CASE /\ done[t] /\ cell' = [cell EXCEPT ![a].crc = CrcOf(v)]
           /\ asked' = [asked EXCEPT ![a] = {v}]
  <2> DEFINE d == RecordContent'[a]
  <2>1. RecordAsked' = [RecordAsked EXCEPT ![a] = {Content(v)}]
    <3>1. \A b \in Addresses : RecordAsked'[b] =
             IF b = a THEN {Content(v)} ELSE RecordAsked[b]
      BY <1>1, <1>4 DEF RecordAsked, IInv, TypeOK
    <3> QED
      BY <3>1 DEF RecordAsked
  <2>2. Content(v) \in RecordAsked[a]
    BY <1>1 DEF RecordAsked
  <2>3. d \in {Content(v), Unknown}
    <3>1. RecordAsked'[a] = {Content(v)}
      BY <1>1, <2>1 DEF RecordAsked
    <3> QED
      BY <1>1, <3>1 DEF StoreType
  <2>4. RecordContent' = [RecordContent EXCEPT ![a] = d]
    BY <1>2 DEF RecordContent
  <2>5. ASSUME Content(v) \in Whole
        PROVE  d = Content(v)
    <3>1. v \in Whole
      BY <1>1, <2>5, ValuesAssumption DEF Content
    <3>2. cell'[a].data = v /\ cell'[a].crc = CrcOf(v)
      BY <1>1, <1>4 DEF IInv, TypeOK, Cells
    <3> QED
      BY <1>1, <3>1, <3>2, CrcValues DEF RecordContent
  <2> QED
    BY <1>1, <2>1, <2>2, <2>3, <2>4, <2>5 DEF Store!Finish
<1> QED
  BY <1>3, <1>4 DEF WriteCrc

\* A read returns the content of its record, or fails.
LEMMA ReadAnswers ==
  ASSUME IInv, NEW t \in Tasks, ReadData(t)
  PROVE  Store!Answer(t, addr[t]) \/ Store!Fail(t)
<1>1. RecordContent' = RecordContent /\ RecordAsked' = RecordAsked
  BY SameCells DEF ReadData
<1>2. CASE answer' = [answer EXCEPT ![t] = Miss]
  BY <1>1, <1>2 DEF Store!Fail
<1>3. CASE /\ answer' = [answer EXCEPT ![t] = AnswerOf(t, AtPointer)]
           /\ AnswerOf(t, AtPointer) # Miss
  <2> DEFINE c == AtPointer
  <2>1. /\ AnswerOf(t, c) = c /\ c # Fragment
        /\ Matches(c, crc[t]) /\ crc[t] # Zero /\ c \in Values
    BY <1>3, AtPointerType, AnswersAreContents DEF IInv
  <2>2. crc[t] = cell[addr[t]].crc /\ pointer = addr[t]
    BY <2>1 DEF ReadData, At, IInv, BeingRead, Reading, AtPointer
  <2>3. c = Content(cell[addr[t]].data)
    BY <2>2, TasksAssumption DEF AtPointer, IInv, TypeOK
  <2>4. RecordContent[addr[t]] = c /\ c # Unknown
    BY <2>1, <2>2, <2>3, ValuesAssumption DEF RecordContent, IInv, TypeOK
  <2> QED
    BY <1>1, <1>3, <2>1, <2>4 DEF Store!Answer
<1> QED
  BY <1>2, <1>3 DEF ReadData

\* The initial states of the EEPROM are initial states of the store.
LEMMA StoreInit == Init => Store!Init
<1> SUFFICES ASSUME Init PROVE Store!Init
  OBVIOUS
<1>1. StoreType
  BY IInvInit, Recorded
<1>2. answer = [t \in Tasks |-> NoAnswer]
  BY DEF Init
<1> QED
  BY <1>1, <1>2 DEF StoreType, Store!Init

\* Every step of the EEPROM is a step of the store, or none.
LEMMA StoreStep == IInv /\ IInv' /\ [Next]_vars => [Store!Next]_(Store!store)
<1> SUFFICES ASSUME IInv, IInv', [Next]_vars
             PROVE  [Store!Next]_(Store!store)
  OBVIOUS
<1>0. StoreType /\ StoreType' /\ TypeOK
  <2>1. IInv' => StoreType'
    BY Recorded, PTL
  <2> QED
    BY <2>1, Recorded DEF IInv
<1>1. ASSUME NEW t \in Tasks, NEW a \in Addresses, NEW v \in Asks[a],
             Write(t, a, v)
      PROVE  Store!Next
  BY <1>0, <1>1, WriteAsks DEF Store!Next
<1>2. ASSUME NEW t \in Tasks, NEW a \in Addresses, Read(t, a)
      PROVE  Store!Next
  <2>1. Store!Call(t)
    BY <1>2, SameCells DEF Read, StartCall, device, Store!Call
  <2> QED
    BY <2>1 DEF Store!Next
<1>3. ASSUME NEW t \in Tasks, Lock(t) \/ ReadCrc(t) \/ ReadAddress(t)
      PROVE  UNCHANGED Store!store
  BY <1>3, SameCells
     DEF Lock, ReadCrc, ReadAddress, device, history, Store!store
<1>4. ASSUME NEW t \in Tasks, WriteData(t) \/ WriteCrc(t)
      PROVE  Store!Next
  <2>1. addr[t] \in Addresses
    BY <1>0 DEF TypeOK
  <2>2. Store!Change(addr[t]) \/ Store!Finish(addr[t])
    BY <1>0, <1>4, WriteDataChanges, WriteCrcFinishes
  <2> QED
    BY <2>1, <2>2 DEF Store!Next
<1>5. ASSUME NEW t \in Tasks, ReadData(t)
      PROVE  Store!Next
  <2>1. addr[t] \in Addresses
    BY <1>0 DEF TypeOK
  <2>2. Store!Answer(t, addr[t]) \/ Store!Fail(t)
    BY <1>5, ReadAnswers
  <2> QED
    BY <2>1, <2>2 DEF Store!Next
<1>6. CASE DeviceReady
  BY <1>6, SameCells DEF DeviceReady, calls, history, Store!store
<1>7. CASE Restart
  <2>1. RecordAsked' = RecordAsked /\ answer' = [t \in Tasks |-> NoAnswer]
    BY <1>7, SameCells DEF Restart
  <2> QED
    BY <1>0, <2>1 DEF StoreType, Store!Restart, Store!Next
<1>8. CASE UNCHANGED vars
  BY <1>8, SameCells DEF vars, calls, device, history, Store!store
<1> QED
  BY <1>1, <1>2, <1>3, <1>4, <1>5, <1>6, <1>7, <1>8 DEF Next, Step

\* The EEPROM keeps the promises of SettingsStore, whatever fails
\* (Eeprom.cpp:17-84).
THEOREM Implementation == Spec => ImplementsStore
<1>1. Init => Store!Init
  BY StoreInit
<1>2. IInv /\ IInv' /\ [Next]_vars => [Store!Next]_(Store!store)
  BY StoreStep
<1> QED
  BY <1>1, <1>2, Inductive, PTL DEF Spec, ImplementsStore, Store!Spec

=============================================================================
