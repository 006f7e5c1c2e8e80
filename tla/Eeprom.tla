-------------------------------- MODULE Eeprom --------------------------------
(***************************************************************************)
(* Storage::Eeprom (src/storage/Eeprom.cpp): records of an I2C EEPROM, each *)
(* with a CRC elsewhere in the device, written and read by several tasks    *)
(* under one mutex.  A write is two transactions, each followed by the      *)
(* device's write cycle, during which it does not answer; a read is three:  *)
(* the CRC, the address of the data, the data.  Modelled are failed         *)
(* transactions, power cycles and the device's address pointer.             *)
(***************************************************************************)
EXTENDS Naturals

CONSTANTS
    Tasks,       \* tasks that use the EEPROM
    Addresses,   \* eepromAddress
    Owner,       \* the task that uses each address
    Values,      \* what is written
    Asks,        \* the values written at each address
    Whole,       \* values with no zero byte that fit into READ_COUNT bytes
    Blank,       \* values that begin with a zero byte, or have no byte
    Nothing,     \* the value of no bytes
    Scrambled,   \* data that are no value: never written, or half written
    Fragment,    \* what the cut leaves of any other record
    Erased,      \* 0xFFFF, the value of a CRC cell never written, and the
                 \* CRC of no bytes
    Garbled,     \* the value of a CRC cell half written
    Zero,        \* 0, the result of readCrc when the transaction failed
    Free,        \* nobody holds the mutex
    Elsewhere,   \* the address pointer is not at the start of a record
    Unknown,     \* no finished write, or nothing that can be read
    NoAnswer,    \* no read has returned since the last call
    Miss,        \* read returned false
    MaxFaults,   \* bound: transactions that fail
    MaxRestarts  \* bound: power cycles

ASSUME ValuesAssumption ==
    /\ Whole \subseteq Values /\ Blank \subseteq Values
    /\ Whole \cap Blank = {} /\ Nothing \in Blank
    /\ Scrambled \notin Values /\ Fragment \notin Values
    /\ Erased \notin Values /\ Garbled \notin Values /\ Zero \notin Values
    /\ Erased \notin {Garbled, Zero} /\ Garbled # Zero
    /\ Unknown \notin Values \cup {Fragment}
    /\ {NoAnswer, Miss} \cap (Values \cup {Unknown, Fragment}) = {}
    /\ NoAnswer # Miss

ASSUME TasksAssumption ==
    /\ Owner \in [Addresses -> Tasks]
    /\ Asks \in [Addresses -> SUBSET Values]
    /\ Free \notin Tasks /\ Elsewhere \notin Addresses
    /\ MaxFaults \in Nat /\ MaxRestarts \in Nat

Datas == Values \cup {Scrambled}
Crcs  == Values \cup {Erased, Garbled}
Cells == [data : Datas, crc : Crcs]

VARIABLES
    holder,    \* of the mutex "access"
    pc,        \* where each task is
    addr,      \* the address it was called with
    val,       \* the value it writes
    crc,       \* the CRC it has read
    counted,   \* read: the bytes it counts are all there so far
    answer,    \* what its last read returned
    cell,      \* the device's contents
    pointer,   \* the device's address pointer
    cycle,     \* what the device is writing, "none" when it answers
    cycleAt,   \* and at which address
    stored,    \* history: the value of the last write if it was finished
    asked,     \* history: the last finished value and those begun since
    done,      \* history: the transactions of the call were done so far
    faults,    \* transactions that failed
    restarts   \* power cycles

calls   == <<pc, addr, val, crc, counted, answer>>
history == <<stored, asked, done>>
mishaps == <<faults, restarts>>
device  == <<cell, pointer, cycle, cycleAt>>
vars    == <<holder, calls, device, history, mishaps>>

-----------------------------------------------------------------------------
\* calcCrc: values are told apart by their CRCs, and no bytes have the CRC of
\* an erased cell.
CrcOf(v) == IF v = Nothing THEN Erased ELSE v

\* read: the data up to the first zero byte.
Content(d) == IF d \in Whole THEN d
              ELSE IF d \in Blank THEN Nothing ELSE Fragment

\* checkCrc.
Matches(c, k) == c # Fragment /\ CrcOf(c) = k

\* The first bytes of v over something else.
Torn(v) == IF v \in Blank THEN Nothing ELSE Scrambled

Init ==
    /\ holder = Free
    /\ pc = [t \in Tasks |-> "idle"]
    /\ addr \in [Tasks -> Addresses]
    /\ \A t \in Tasks : Owner[addr[t]] = t
    /\ val = [t \in Tasks |-> Nothing]
    /\ crc = [t \in Tasks |-> Zero]
    /\ counted = [t \in Tasks |-> FALSE]
    /\ done = [t \in Tasks |-> FALSE]
    /\ answer = [t \in Tasks |-> NoAnswer]
    /\ stored \in [Addresses -> Values \cup {Unknown}]
    /\ \A a \in Addresses : stored[a] \in Asks[a] \cup {Unknown}
    /\ cell = [a \in Addresses |->
                  IF stored[a] = Unknown
                  THEN [data |-> Scrambled, crc |-> Erased]
                  ELSE [data |-> stored[a], crc |-> CrcOf(stored[a])]]
    /\ asked = [a \in Addresses |-> {stored[a]} \ {Unknown}]
    /\ pointer = Elsewhere
    /\ cycle = "none" /\ cycleAt = Elsewhere
    /\ faults = 0 /\ restarts = 0

At(t, p)   == pc[t] = p
Goto(t, p) == pc' = [pc EXCEPT ![t] = p]

Fault == /\ faults < MaxFaults
         /\ faults' = faults + 1
         /\ UNCHANGED restarts

\* The record is intact no more.
Spoil(a) == stored' = [stored EXCEPT ![a] = Unknown]

-----------------------------------------------------------------------------
\* The locals of a call.
StartCall(t) == /\ crc' = [crc EXCEPT ![t] = Zero]
                /\ counted' = [counted EXCEPT ![t] = FALSE]
                /\ done' = [done EXCEPT ![t] = FALSE]
                /\ answer' = [answer EXCEPT ![t] = NoAnswer]

\* A task calls write.
Write(t, a, v) ==
    /\ At(t, "idle") /\ Owner[a] = t
    /\ Goto(t, "write")
    /\ addr' = [addr EXCEPT ![t] = a]
    /\ val' = [val EXCEPT ![t] = v]
    /\ asked' = [asked EXCEPT ![a] = @ \cup {v}]
    /\ stored' = [stored EXCEPT ![a] = IF @ = v THEN v ELSE Unknown]
    /\ StartCall(t)
    /\ UNCHANGED <<holder, device, mishaps>>

\* A task calls read.
Read(t, a) ==
    /\ At(t, "idle") /\ Owner[a] = t
    /\ Goto(t, "read")
    /\ addr' = [addr EXCEPT ![t] = a]
    /\ StartCall(t)
    /\ UNCHANGED <<holder, val, device, stored, asked, mishaps>>

\* Mutant: read does not take the mutex.
LockUnlessReading(t) ==
    /\ pc[t] \in {"write", "read"}
    /\ \/ holder = Free /\ holder' = t
       \/ At(t, "read") /\ UNCHANGED holder
    /\ Goto(t, IF At(t, "write") THEN "write_data" ELSE "read_crc")
    /\ UNCHANGED <<addr, val, crc, counted, answer, device, history, mishaps>>

\* The lock_guard of write and of read.
Lock(t) ==
    /\ pc[t] \in {"write", "read"}
    /\ holder = Free
    /\ holder' = t
    /\ Goto(t, IF At(t, "write") THEN "write_data" ELSE "read_crc")
    /\ UNCHANGED <<addr, val, crc, counted, answer, device, history, mishaps>>

\* eepromWait: the device is polled until it answers.
Answers == cycle = "none"

\* write: eepromWait and the transaction with the data and the end mark.  Its
\* result, which no caller looks at, is left out.
WriteData(t) ==
    /\ At(t, "write_data") /\ Answers
    /\ \/ /\ cell' = [cell EXCEPT ![addr[t]].data = val[t]]
          /\ done' = [done EXCEPT ![t] = TRUE]
          /\ cycle' = "data" /\ cycleAt' = addr[t]
          /\ UNCHANGED <<stored, mishaps>>
       \/ /\ Fault
          /\ \E d \in {cell[addr[t]].data, Torn(val[t])} :
                cell' = [cell EXCEPT ![addr[t]].data = d]
          /\ Spoil(addr[t])
          /\ UNCHANGED <<done, cycle, cycleAt>>
    /\ pointer' = Elsewhere
    /\ Goto(t, "write_crc")
    /\ UNCHANGED <<holder, addr, val, crc, counted, answer, asked>>

\* writeCrc: eepromWait and its transaction, whatever became of the data;
\* then write returns and gives the mutex back.
WriteCrc(t) ==
    /\ At(t, "write_crc") /\ Answers
    /\ \/ /\ cell' = [cell EXCEPT ![addr[t]].crc = CrcOf(val[t])]
          /\ cycle' = "crc" /\ cycleAt' = addr[t]
          /\ IF done[t] THEN /\ stored' = [stored EXCEPT ![addr[t]] = val[t]]
                             /\ asked' = [asked EXCEPT ![addr[t]] = {val[t]}]
                        ELSE UNCHANGED <<stored, asked>>
          /\ UNCHANGED mishaps
       \/ /\ Fault
          /\ \E k \in {cell[addr[t]].crc, Garbled} :
                cell' = [cell EXCEPT ![addr[t]].crc = k]
          /\ Spoil(addr[t])
          /\ UNCHANGED <<asked, cycle, cycleAt>>
    /\ pointer' = Elsewhere
    /\ holder' = Free
    /\ Goto(t, "idle")
    /\ val' = [val EXCEPT ![t] = Nothing]
    /\ done' = [done EXCEPT ![t] = FALSE]
    /\ UNCHANGED <<addr, crc, counted, answer>>

\* readCrc: there is no eepromWait before its transaction.
ReadCrc(t) ==
    /\ At(t, "read_crc")
    /\ \/ /\ Answers
          /\ crc' = [crc EXCEPT ![t] = cell[addr[t]].crc]
          /\ done' = [done EXCEPT ![t] = TRUE]
          /\ UNCHANGED mishaps
       \/ /\ IF Answers THEN Fault ELSE UNCHANGED mishaps
          /\ crc' = [crc EXCEPT ![t] = Zero]
          /\ done' = [done EXCEPT ![t] = FALSE]
    /\ pointer' = Elsewhere
    /\ Goto(t, "read_address")
    /\ UNCHANGED <<holder, addr, val, counted, answer, cell, cycle, cycleAt,
                   stored, asked>>

\* read: eepromWait and the transaction that sets the address pointer.  When
\* it is not acknowledged, PicoI2C counts its bytes all the same: they are in
\* the transmit FIFO.  When it times out, it counts none.
ReadAddress(t) ==
    /\ At(t, "read_address") /\ Answers
    /\ \/ /\ pointer' = addr[t]
          /\ counted' = [counted EXCEPT ![t] = TRUE]
          /\ UNCHANGED <<done, mishaps>>
       \/ /\ Fault
          /\ pointer' = Elsewhere
          /\ \E b \in BOOLEAN : counted' = [counted EXCEPT ![t] = b]
          /\ done' = [done EXCEPT ![t] = FALSE]
    /\ Goto(t, "read_data")
    /\ UNCHANGED <<holder, addr, val, crc, answer, cell, cycle, cycleAt,
                   stored, asked>>

\* Mutant: the number of bytes moved is not looked at, nor is the CRC.
AnswerUnchecked(t, c) == c

\* The result of read.
AnswerOf(t, c) == IF counted[t] /\ Matches(c, crc[t]) THEN c ELSE Miss

\* What is at the address pointer.
AtPointer == IF pointer = Elsewhere THEN Fragment
             ELSE Content(cell[pointer].data)

\* Mutant: a record that does not match its CRC is read again.
ReadDataRetrying(t) ==
    /\ At(t, "read_data") /\ Answers
    /\ IF AnswerOf(t, AtPointer) = Miss
       THEN Goto(t, "read_crc") /\ UNCHANGED <<holder, answer>>
       ELSE /\ Goto(t, "idle") /\ holder' = Free
            /\ answer' = [answer EXCEPT ![t] = AnswerOf(t, AtPointer)]
    /\ pointer' = Elsewhere
    /\ UNCHANGED <<counted, mishaps, addr, val, crc, cell, cycle, cycleAt,
                   history>>

\* read: the data at the address pointer, cut and compared.
ReadData(t) ==
    /\ At(t, "read_data")
    /\ \/ /\ Answers
          /\ answer' = [answer EXCEPT ![t] = AnswerOf(t, AtPointer)]
          /\ UNCHANGED <<done, mishaps>>
       \/ /\ IF Answers THEN Fault ELSE UNCHANGED mishaps
          /\ answer' = [answer EXCEPT ![t] = Miss]
          /\ done' = [done EXCEPT ![t] = FALSE]
    /\ pointer' = Elsewhere
    /\ holder' = Free
    /\ Goto(t, "idle")
    /\ UNCHANGED <<addr, val, crc, counted, cell, cycle, cycleAt, stored,
                   asked>>

-----------------------------------------------------------------------------
\* The device finishes its write cycle.
DeviceReady ==
    /\ cycle # "none"
    /\ cycle' = "none" /\ cycleAt' = Elsewhere
    /\ UNCHANGED <<holder, calls, cell, pointer, history, mishaps>>

\* The power fails and comes back, perhaps in the middle of a write cycle.
Restart ==
    /\ restarts < MaxRestarts
    /\ restarts' = restarts + 1
    /\ \/ UNCHANGED <<cell, stored>>
       \/ /\ cycle = "data"
          /\ cell' = [cell EXCEPT ![cycleAt].data = Torn(@)]
          /\ Spoil(cycleAt)
       \/ /\ cycle = "crc"
          /\ cell' = [cell EXCEPT ![cycleAt].crc = Garbled]
          /\ Spoil(cycleAt)
    /\ holder' = Free
    /\ pc' = [t \in Tasks |-> "idle"]
    /\ answer' = [t \in Tasks |-> NoAnswer]
    /\ pointer' = Elsewhere
    /\ cycle' = "none" /\ cycleAt' = Elsewhere
    /\ val' = [t \in Tasks |-> Nothing]
    /\ crc' = [t \in Tasks |-> Zero]
    /\ counted' = [t \in Tasks |-> FALSE]
    /\ done' = [t \in Tasks |-> FALSE]
    /\ UNCHANGED <<addr, asked, faults>>

-----------------------------------------------------------------------------
\* What a task does once it has called.
Step(t) == \/ Lock(t)
           \/ WriteData(t) \/ WriteCrc(t)
           \/ ReadCrc(t) \/ ReadAddress(t) \/ ReadData(t)

Next == \/ \E t \in Tasks, a \in Addresses : \E v \in Asks[a] : Write(t, a, v)
        \/ \E t \in Tasks, a \in Addresses : Read(t, a)
        \/ \E t \in Tasks : Step(t)
        \/ DeviceReady
        \/ Restart

Spec == Init /\ [][Next]_vars

\* A task that holds the mutex goes on, and the device finishes its cycle.  A
\* task that waits for the mutex gets it when it is free again and again: the
\* others release it between any two calls, and the CO2 controller then
\* sleeps for 250 ms.
Fairness == /\ \A t \in Tasks : WF_vars(Step(t)) /\ SF_vars(Lock(t))
            /\ WF_vars(DeviceReady)

LiveSpec == Spec /\ Fairness

-----------------------------------------------------------------------------
\* Properties.

\* Every variable has its type.
TypeOK ==
    /\ holder \in Tasks \cup {Free}
    /\ pc \in [Tasks -> {"idle", "write", "write_data", "write_crc", "read",
                         "read_crc", "read_address", "read_data"}]
    /\ addr \in [Tasks -> Addresses] /\ val \in [Tasks -> Values]
    /\ crc \in [Tasks -> Crcs \cup {Zero}]
    /\ counted \in [Tasks -> BOOLEAN] /\ done \in [Tasks -> BOOLEAN]
    /\ answer \in [Tasks -> Values \cup {NoAnswer, Miss}]
    /\ cell \in [Addresses -> Cells]
    /\ pointer \in Addresses \cup {Elsewhere}
    /\ cycle \in {"none", "data", "crc"}
    /\ cycleAt \in Addresses \cup {Elsewhere}
    /\ stored \in [Addresses -> Values \cup {Unknown}]
    /\ asked \in [Addresses -> SUBSET Values]
    /\ faults \in 0 .. MaxFaults /\ restarts \in 0 .. MaxRestarts

\* A read of a record whose last write was finished fails only for a failed
\* transaction of its own, the CRC's included: never because of what other
\* tasks, earlier failures or power cycles did to the bus, the address
\* pointer or the record.
FailedReadHasCause ==
    \A t \in Tasks : answer[t] = Miss /\ stored[addr[t]] \in Whole => ~done[t]

\* What can be read from each record, and what was asked for.
Contents == {Content(v) : v \in Values}
RecordContent ==
    [a \in Addresses |-> IF Matches(Content(cell[a].data), cell[a].crc)
                         THEN Content(cell[a].data) ELSE Unknown]
RecordAsked == [a \in Addresses |-> {Content(v) : v \in asked[a]}]

\* A record reads as one of the values asked for since the last write that
\* was finished, or not at all, and a read returns what the record holds:
\* across failed transactions, power cycles and the other tasks' calls.
Store == INSTANCE SettingsStore WITH
            Callers <- Tasks, Storable <- Whole,
            content <- RecordContent, asked <- RecordAsked
ImplementsStore == Store!Spec

\* Every call returns, unless the power fails.
EveryCallReturns ==
    \A t \in Tasks : pc[t] # "idle" ~> pc[t] = "idle"

-----------------------------------------------------------------------------
\* The invariants that make the above inductive.

\* The mutex is held by the task whose transactions are under way.
Critical(t) == pc[t] \in {"write_data", "write_crc", "read_crc",
                          "read_address", "read_data"}
Exclusive == \A t \in Tasks : Critical(t) <=> holder = t

\* A task keeps to its own records, and has no answer before it returns.
Orderly == \A t \in Tasks : /\ Owner[addr[t]] = t
                            /\ pc[t] # "idle" => answer[t] = NoAnswer

\* What is being written is asked for, and nothing else is stored meanwhile.
Writing(t) ==
    /\ pc[t] \in {"write", "write_data", "write_crc"}
       => /\ val[t] \in asked[addr[t]]
          /\ stored[addr[t]] \in {val[t], Unknown}
    /\ pc[t] = "write_crc" /\ done[t] => cell[addr[t]].data = val[t]
    /\ pc[t] \in {"write", "write_data"} => ~done[t]
BeingWritten == \A t \in Tasks : Writing(t)

\* The CRC and the pointer are still those of the record being read.
Reading(t) ==
    /\ pc[t] \in {"read_address", "read_data"}
       => IF crc[t] = Zero THEN ~done[t] ELSE crc[t] = cell[addr[t]].crc
    /\ pc[t] = "read_data"
       => /\ cycle = "none"
          /\ \/ pointer = addr[t] /\ (done[t] => counted[t])
             \/ pointer = Elsewhere /\ ~done[t]
BeingRead == \A t \in Tasks : Reading(t)

\* The data can be read as something that was asked for, or not at all.
Sound == \A a \in Addresses :
            \/ Content(cell[a].data) = Fragment
            \/ \E v \in asked[a] : Content(cell[a].data) = Content(v)

\* The last write, if it was finished, is in the cell.
Intact == \A a \in Addresses :
             stored[a] # Unknown
             => cell[a] = [data |-> stored[a], crc |-> CrcOf(stored[a])]

IInv == /\ TypeOK /\ Exclusive /\ Orderly /\ BeingWritten /\ BeingRead
        /\ Sound /\ Intact /\ FailedReadHasCause

-----------------------------------------------------------------------------
\* What a comment says and the code does not do.

\* eepromWait: waits until the EEPROM is readable.  Without a failed
\* transaction a record whose last write was finished can be read.
StoredCanBeRead ==
    \A t \in Tasks :
        faults = 0 /\ stored[addr[t]] \in Whole => answer[t] # Miss

=============================================================================
