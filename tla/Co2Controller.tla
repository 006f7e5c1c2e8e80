---------------------------- MODULE Co2Controller ----------------------------
(***************************************************************************)
(* Task::Co2::Controller (src/task/co2/Co2Controller.cpp), the task that   *)
(* doses CO2 with the injection valve: it reads the stored target at boot, *)
(* then in a loop peeks the sensor data and the target, stores the target  *)
(* in the EEPROM and opens or closes the valve.  Modelled with it are the  *)
(* two queues of length one it peeks, the tick counter, the EEPROM record  *)
(* of the target as Storage::Eeprom writes and reads it (data first, then  *)
(* its CRC in a second transaction), failed EEPROM transactions, power     *)
(* cycles, and the tasks that publish readings and targets.                *)
(*                                                                         *)
(* Statements take no time; a call that blocks sets "rem", the time until  *)
(* the task goes on, and Tick lets it pass.                                *)
(***************************************************************************)
EXTENDS Integers, CounterTimeout

CONSTANTS
    ValveTimeout,    \* longest time the valve is to stay open, 1500 ms
    RetryTimeout,    \* shortest wait before it opens again, 45000 ms
    LoopDelay,       \* vTaskDelay at the end of the loop, 250 ms
    MaxIo,           \* longest time one EEPROM transaction blocks the task
    WriteCycle,      \* longest time the device writes a cell, 5 ms
    Co2Min,          \* m_Co2Min, 200 ppm
    Co2Max,          \* m_Co2Max, 1500 ppm
    DefaultTarget,   \* m_Co2Target before anything is read, 900 ppm
    Hysteresis,      \* how far below the target dosing starts, 50 ppm
    Readings,        \* CO2 values the sensor task may publish
    Commands,        \* targets the user or the network may ask for
    InitialRecords,  \* contents of the EEPROM record at the first boot
    NoData,          \* m_DataQueue is empty
    NoTarget,        \* m_TargetQueue is empty
    Erased,          \* a CRC cell never written, 0xFFFF
    Garbled,         \* a CRC cell half written: the CRC of no record
    TornWords,       \* what data bytes half written may look like
    AgeCap,          \* bound: the history ages saturate here
    MaxFaults,       \* bound: EEPROM transactions that fail
    MaxRestarts      \* bound: power cycles

ASSUME PeriodsAssumption ==
    /\ ValveTimeout \in Nat /\ RetryTimeout \in Nat
    /\ LoopDelay \in Nat \ {0} /\ MaxIo \in Nat
    /\ WriteCycle \in 0 .. LoopDelay
    /\ MaxFaults \in Nat /\ MaxRestarts \in Nat
    /\ AgeCap \in Nat
    /\ AgeCap > RetryTimeout
    /\ AgeCap > ValveTimeout + LoopDelay + 2 * MaxIo
    /\ TickMod > ValveTimeout + LoopDelay + 2 * MaxIo
    /\ TickMod > RetryTimeout + LoopDelay + 2 * MaxIo

ASSUME LevelsAssumption ==
    /\ Co2Min \in Nat /\ Co2Max \in Nat /\ Hysteresis \in Nat
    /\ Hysteresis <= Co2Min /\ Co2Min <= Co2Max /\ Co2Max < 65536
    /\ DefaultTarget \in Co2Min .. Co2Max
    /\ Readings \subseteq Int /\ NoData \notin Int
    /\ Commands \subseteq Nat /\ NoTarget \notin Int
    /\ Erased \notin Int /\ Garbled \notin Int

\* The two bytes of a stored target.
Words == {n \in Nat : n < 65536}

\* A 16 bit record, whether its end mark is stored, and the record its CRC
\* cell was computed of.
Records == [data : Words, end : BOOLEAN, crc : Int \cup {Erased, Garbled}]

ASSUME RecordsAssumption ==
    InitialRecords \subseteq Records /\ TornWords \subseteq Words

VARIABLES
    pc,            \* where the task is
    rem,           \* time until it goes on
    tick,          \* xTaskGetTickCount()
    state,         \* NORMAL or VALVE_OPEN
    valve,         \* level of the valve's GPIO pin
    target,        \* m_Co2Target
    sample,        \* m_SensorData.co2
    valveStamp,    \* time stamp of valveTimeout
    retryStamp,    \* time stamp of retryTimeout
    dataQueue,     \* m_DataQueue, length 1: readings overwrite one another
    targetQueue,   \* m_TargetQueue, length 1: targets overwrite one another
    rom,           \* the record at CO2_TARGET_ADDR and its CRC cell
    wrote,         \* history: the data transaction under way succeeded
    openFor,       \* history: how long the valve has been open
    closedFor,     \* history: how long it has been closed
    enoughFor,     \* history: how long CO2 has been at or above the target
    acked,         \* history: target stored, with no later attempt to change
                   \* it and no later write of it cut off
    asked,         \* history: the last target stored and those begun since
    faults,        \* EEPROM transactions that failed
    restarts       \* power cycles

task     == <<state, target, sample, valveStamp, retryStamp>>
ages     == <<openFor, closedFor, enoughFor>>
memory   == <<rom, wrote, acked, asked>>
mishaps  == <<faults, restarts>>
vars     == <<pc, rem, tick, task, valve, dataQueue, targetQueue, memory,
              ages, mishaps>>

-----------------------------------------------------------------------------
\* The record in the EEPROM.

\* Mutant: the high byte is shifted the wrong way.
WordShifted(t) == t * 256

\* setTarget keeps the two low bytes of the target.
Word(t) == t % 65536

\* The transaction stopped after the first data byte.
Mixed(new, old) == ((new \div 256) * 256) + (old % 256)

\* Eeprom::read cuts the record at its first zero byte, so a record with a
\* zero byte is not the one the CRC was computed of.
HasNoZeroByte(d) == d % 256 # 0 /\ d \div 256 # 0

\* Eeprom::read returns true: the bytes up to the end mark have the stored
\* CRC.  The CRC of no bytes at all is 0xFFFF, the value of an erased cell:
\* a record whose first byte is zero passes with a CRC never written, and
\* buffer[0] and buffer[1] still are the bytes that were erased from it.
ReadOk(r) == \/ r.end /\ HasNoZeroByte(r.data) /\ r.crc = r.data
             \/ r.data < 256 /\ r.crc = Erased

\* Mutant: only the upper limit is enforced.
ClampAbove(t) == IF t > Co2Max THEN Co2Max ELSE t

\* setTarget, the limits of the target.
Clamp(t) == IF t > Co2Max THEN Co2Max ELSE IF t < Co2Min THEN Co2Min ELSE t

\* CO2 as last published is at or above the target last asked for.
Enough == /\ dataQueue # NoData
          /\ targetQueue # NoTarget
          /\ dataQueue >= Clamp(targetQueue)

\* A new reading or target starts the history age over unless it still holds.
Reassess == enoughFor' = IF Enough' THEN enoughFor ELSE 0

Older(age) == IF age < AgeCap THEN age + 1 ELSE AgeCap

-----------------------------------------------------------------------------
Init ==
    /\ pc = "read"
    /\ rem \in 0 .. MaxIo
    /\ tick = 0 /\ valveStamp = 0 /\ retryStamp = 0
    /\ state = "NORMAL" /\ valve = 0
    /\ target = DefaultTarget
    /\ sample = NoData /\ dataQueue = NoData /\ targetQueue = NoTarget
    /\ rom \in InitialRecords
    /\ wrote = FALSE
    /\ acked = (IF ReadOk(rom) THEN rom.data ELSE NoTarget)
    /\ asked = {rom.crc} \ {Erased, Garbled}
    /\ openFor = 0 /\ closedFor = 0 /\ enoughFor = 0
    /\ faults = 0 /\ restarts = 0

\* A fault is counted; the code carries on as if nothing had happened.
Fault == /\ faults < MaxFaults
         /\ faults' = faults + 1
         /\ UNCHANGED restarts

\* Mutant: the record is used whatever Eeprom::read has returned, unless it
\* has no end mark.
ReadTargetUnchecked ==
    /\ pc = "read" /\ rem = 0
    /\ target' = IF rom.end THEN rom.data ELSE target
    /\ targetQueue' = target'
    /\ pc' = "loop"
    /\ UNCHANGED <<rem, tick, state, valve, sample, valveStamp, retryStamp,
                   dataQueue, memory, openFor, closedFor, mishaps>>
    /\ Reassess

\* run, before the loop: the stored target if it reads back, and the target
\* queue seeded with m_Co2Target whatever it held.
ReadTarget ==
    /\ pc = "read" /\ rem = 0
    /\ \/ /\ target' = IF ReadOk(rom) THEN rom.data ELSE target
          /\ UNCHANGED mishaps
       \/ Fault /\ UNCHANGED target
    /\ targetQueue' = target'
    /\ pc' = "loop"
    /\ UNCHANGED <<rem, tick, state, valve, sample, valveStamp, retryStamp,
                   dataQueue, memory, openFor, closedFor>>
    /\ Reassess

\* Mutant: the target is stored only when it changes.
PeekQueuesOnChange ==
    /\ pc = "loop" /\ rem = 0
    /\ dataQueue # NoData
    /\ sample' = dataQueue
    /\ IF targetQueue # NoTarget /\ Clamp(targetQueue) # target
       THEN /\ target' = Clamp(targetQueue)
            /\ acked' = IF acked = target' THEN acked ELSE NoTarget
            /\ asked' = asked \cup {target'}
            /\ rem' \in 0 .. MaxIo
            /\ pc' = "write_data"
       ELSE /\ pc' = "control"
            /\ UNCHANGED <<target, acked, asked, rem>>
    /\ UNCHANGED <<tick, state, valve, valveStamp, retryStamp, dataQueue,
                   targetQueue, rom, wrote, ages, mishaps>>

\* run and setTarget up to the EEPROM: wait for a reading, take it and the
\* target asked for, clamp the target and start to store it.
PeekQueues ==
    /\ pc = "loop" /\ rem = 0
    /\ dataQueue # NoData
    /\ sample' = dataQueue
    /\ IF targetQueue # NoTarget
       THEN /\ target' = Clamp(targetQueue)
            /\ acked' = IF acked = target' THEN acked ELSE NoTarget
            /\ asked' = asked \cup {target'}
            /\ rem' \in 0 .. MaxIo
            /\ pc' = "write_data"
       ELSE /\ pc' = "control"
            /\ UNCHANGED <<target, acked, asked, rem>>
    /\ UNCHANGED <<tick, state, valve, valveStamp, retryStamp, dataQueue,
                   targetQueue, rom, wrote, ages, mishaps>>

\* Eeprom::write, the data transaction.  One that fails left the old record
\* or its first byte changed, and its result changes nothing.
WriteData ==
    /\ pc = "write_data" /\ rem = 0
    /\ \/ /\ rom' = [rom EXCEPT !.data = Word(target), !.end = TRUE]
          /\ wrote' = TRUE
          /\ UNCHANGED <<acked, mishaps>>
       \/ /\ Fault
          /\ \E d \in {rom.data, Mixed(Word(target), rom.data)} :
                rom' = [rom EXCEPT !.data = d]
          /\ wrote' = FALSE
          /\ acked' = NoTarget
    /\ rem' \in 0 .. MaxIo
    /\ pc' = "write_crc"
    /\ UNCHANGED <<tick, task, valve, dataQueue, targetQueue, asked, ages>>

\* Eeprom::writeCrc, done whether or not the data were written.
WriteCrc ==
    /\ pc = "write_crc" /\ rem = 0
    /\ \/ /\ rom' = [rom EXCEPT !.crc = Word(target)]
          /\ IF wrote THEN acked' = target /\ asked' = {target}
                      ELSE UNCHANGED <<acked, asked>>
          /\ UNCHANGED mishaps
       \/ /\ Fault
          /\ \E c \in {rom.crc, Garbled} : rom' = [rom EXCEPT !.crc = c]
          /\ acked' = NoTarget
          /\ UNCHANGED asked
    /\ wrote' = FALSE
    /\ pc' = "control"
    /\ UNCHANGED <<rem, tick, task, valve, dataQueue, targetQueue, ages>>

\* vTaskDelay and back to the top of the loop.
Delay == pc' = "loop" /\ rem' = LoopDelay

\* Mutant: the pause between two doses is not waited for.
MayOpenAtOnce == sample < target - Hysteresis

\* The condition of case NORMAL.
MayOpen == sample < target - Hysteresis
           /\ Expired(tick, retryStamp, RetryTimeout)

\* Mutants: the target must be reached as well, or does not matter.
MayCloseBoth == sample >= target /\ Expired(tick, valveStamp, ValveTimeout)
MayCloseLate == Expired(tick, valveStamp, ValveTimeout)

\* The condition of case VALVE_OPEN.
MayClose == sample >= target \/ Expired(tick, valveStamp, ValveTimeout)

OpenValve ==
    /\ pc = "control" /\ rem = 0
    /\ state = "NORMAL" /\ MayOpen
    /\ valve' = 1 /\ state' = "VALVE_OPEN" /\ valveStamp' = tick
    /\ openFor' = 0 /\ closedFor' = 0
    /\ Delay
    /\ UNCHANGED <<tick, target, sample, retryStamp, dataQueue, targetQueue,
                   memory, enoughFor, mishaps>>

CloseValve ==
    /\ pc = "control" /\ rem = 0
    /\ state = "VALVE_OPEN" /\ MayClose
    /\ valve' = 0 /\ state' = "NORMAL" /\ retryStamp' = tick
    /\ openFor' = 0 /\ closedFor' = 0
    /\ Delay
    /\ UNCHANGED <<tick, target, sample, valveStamp, dataQueue, targetQueue,
                   memory, enoughFor, mishaps>>

\* Mutant: retryTimeout is reset on every turn of the loop.
LeaveValveResetting ==
    /\ pc = "control" /\ rem = 0
    /\ IF state = "NORMAL" THEN ~MayOpen ELSE ~MayClose
    /\ retryStamp' = tick
    /\ Delay
    /\ UNCHANGED <<tick, state, target, sample, valveStamp, valve, dataQueue,
                   targetQueue, memory, ages, mishaps>>

\* Neither condition holds.
LeaveValve ==
    /\ pc = "control" /\ rem = 0
    /\ IF state = "NORMAL" THEN ~MayOpen ELSE ~MayClose
    /\ Delay
    /\ UNCHANGED <<tick, task, valve, dataQueue, targetQueue, memory, ages,
                   mishaps>>

-----------------------------------------------------------------------------
\* The world around the task.

\* Time passes only while the task is blocked.
Tick ==
    /\ rem > 0 \/ (pc = "loop" /\ dataQueue = NoData)
    /\ tick' = NextTick(tick)
    /\ rem' = IF rem > 0 THEN rem - 1 ELSE 0
    /\ openFor' = IF valve = 1 THEN Older(openFor) ELSE 0
    /\ closedFor' = IF valve = 0 THEN Older(closedFor) ELSE 0
    /\ enoughFor' = IF Enough THEN Older(enoughFor) ELSE 0
    /\ UNCHANGED <<pc, task, valve, dataQueue, targetQueue, memory, mishaps>>

\* Sensor::Reader overwrites the reading.
Publish(c) ==
    /\ dataQueue' = c
    /\ UNCHANGED <<pc, rem, tick, task, valve, targetQueue, memory, openFor,
                   closedFor, mishaps>>
    /\ Reassess

\* The local user interface or the network manager overwrites the target.
Command(t) ==
    /\ targetQueue' = t
    /\ UNCHANGED <<pc, rem, tick, task, valve, dataQueue, memory, openFor,
                   closedFor, mishaps>>
    /\ Reassess

\* The data transaction or the write cycle that follows it is under way.  The
\* next transaction waits for the end of the cycle.
DataUnderWay == pc \in {"write_data", "write_crc"}

\* The transaction of the CRC or its write cycle, which goes on when
\* Eeprom::write has returned, is under way.
CrcUnderWay == \/ pc \in {"write_crc", "control"}
               \/ pc = "loop" /\ rem > LoopDelay - WriteCycle

\* What a power cut makes of the cells that are being written.
Torn == \/ /\ DataUnderWay
           /\ \E d \in {rom.data, Mixed(Word(target), rom.data)} \cup TornWords :
              \E e \in {FALSE, rom.end} : rom' = [rom EXCEPT !.data = d, !.end = e]
        \/ /\ CrcUnderWay
           /\ rom' = [rom EXCEPT !.crc = Garbled]

\* The power fails and comes back: the pin is low again, the queues are
\* empty, the tick counter and the timers start over.  The EEPROM keeps what
\* it holds, but for what it was writing.
Restart ==
    /\ restarts < MaxRestarts
    /\ restarts' = restarts + 1
    /\ pc' = "read"
    /\ rem' \in 0 .. MaxIo
    /\ tick' = 0 /\ valveStamp' = 0 /\ retryStamp' = 0
    /\ state' = "NORMAL" /\ valve' = 0
    /\ target' = DefaultTarget
    /\ sample' = NoData /\ dataQueue' = NoData /\ targetQueue' = NoTarget
    /\ openFor' = 0 /\ enoughFor' = 0
    /\ closedFor' = IF valve = 1 THEN 0 ELSE closedFor
    /\ wrote' = FALSE
    /\ \/ UNCHANGED <<rom, acked>>
       \/ Torn /\ acked' = NoTarget
    /\ UNCHANGED <<asked, faults>>

-----------------------------------------------------------------------------
Control == OpenValve \/ CloseValve \/ LeaveValve

\* The task, step by step.
Run == ReadTarget \/ PeekQueues \/ WriteData \/ WriteCrc \/ Control

Next == \/ Run
        \/ Tick
        \/ \E c \in Readings : Publish(c)
        \/ \E t \in Commands : Command(t)
        \/ Restart

Spec == Init /\ [][Next]_vars

\* The scheduler runs the ready task of the highest priority, and this one
\* has it; the tick interrupt always comes.
Fairness == WF_vars(Run) /\ WF_vars(Tick)

LiveSpec == Spec /\ Fairness

-----------------------------------------------------------------------------
\* Properties.

\* Every variable has its type.
TaskTypes ==
    /\ pc \in {"read", "loop", "write_data", "write_crc", "control"}
    /\ rem \in Nat
    /\ tick \in Ticks /\ valveStamp \in Ticks /\ retryStamp \in Ticks
    /\ state \in {"NORMAL", "VALVE_OPEN"} /\ valve \in {0, 1}
    /\ target \in Nat
    /\ sample \in Readings \cup {NoData}
QueueTypes ==
    /\ dataQueue \in Readings \cup {NoData}
    /\ targetQueue \in Nat \cup {NoTarget}
MemoryTypes ==
    /\ rom \in Records
    /\ wrote \in BOOLEAN
    /\ acked \in Int \cup {NoTarget}
    /\ asked \subseteq Int
AgeTypes ==
    /\ openFor \in 0 .. AgeCap /\ closedFor \in 0 .. AgeCap
    /\ enoughFor \in 0 .. AgeCap
BoundTypes == faults \in 0 .. MaxFaults /\ restarts \in 0 .. MaxRestarts
TypeOK == TaskTypes /\ QueueTypes /\ MemoryTypes /\ AgeTypes /\ BoundTypes

\* A dose is never longer than the valve's timeout, one turn of the loop and
\* the two EEPROM transactions that setTarget makes while the valve is open.
MaxDose   == ValveTimeout + LoopDelay + 2 * MaxIo
DoseLength == valve = 1 => openFor <= MaxDose

\* CO2 that has reached the target shuts the valve within one turn of the
\* loop and the transactions of the turn before and of the next: the
\* readings and targets that change while setTarget is in the EEPROM are
\* seen one turn later, and never lost.
PromptClose == valve = 1 => enoughFor <= LoopDelay + 4 * MaxIo

\* The valve is operated with a target in the permitted range, although the
\* stored target is not clamped when it is read and the subtraction in
\* case NORMAL is unsigned.
ControlTargetInRange == pc = "control" => target \in Co2Min .. Co2Max

\* The valve's doses and the pauses between them are those of ValveDosing,
\* also when the tick counter wraps and when a power cycle resets the
\* timers in the middle of a dose or of a pause.
Dosing == INSTANCE ValveDosing WITH MaxOpen <- MaxDose, MinGap <- RetryTimeout
ImplementsDosing == Dosing!Spec

Boots == pc = "read" /\ pc' = "loop"

\* What a boot without a failed transaction makes of the record.  A target
\* both of whose transactions succeeded is the target again, unless the power
\* failed while a later turn of the loop was writing it once more.  Wherever
\* the power failed, the target is the last one stored, one that setTarget
\* had begun to store since, or the default: never a mixture of two, never
\* bytes half written, never one that was replaced long ago.  Targets with a
\* zero byte are excepted: TargetPersists shows what becomes of them.
RestoredAfterRestart ==
    [][Boots /\ faults' = faults =>
          /\ acked # NoTarget /\ HasNoZeroByte(acked) => target' = acked
          /\ HasNoZeroByte(target') => target' \in asked \cup {DefaultTarget}]_vars

\* An open valve is closed in the end, whatever is published and asked for.
ValveCloses == (valve = 1) ~> (valve = 0)

\* When CO2 stays low with respect to a target that stays, doses never stop.
Low == /\ dataQueue # NoData /\ targetQueue # NoTarget
       /\ dataQueue < Clamp(targetQueue) - Hysteresis
LowCo2IsDosed == <>[]Low => []<>(valve = 1)

\* A target that is not replaced ends up in the EEPROM, whatever
\* transactions failed on the way, because every turn writes it again.
Stored(t) == rom.data = t /\ rom.end /\ rom.crc = t
CommandPersisted ==
    \A t \in Commands :
        <>[](targetQueue = t /\ dataQueue # NoData) => <>[]Stored(Clamp(t))

-----------------------------------------------------------------------------
\* The invariants that make the above inductive.  They bound the time a dose,
\* or enough CO2, has lasted by where the task is in its loop: the time left
\* until its next step counts as if it had already passed.

\* How long each step of the task may be blocked.
BlockedTimes ==
    /\ pc = "loop" => rem <= LoopDelay
    /\ pc \in {"write_data", "write_crc"} => rem <= MaxIo
    /\ pc = "control" => rem = 0

\* Past the peeks there are data and a target, and the target is in range.
Peeked ==
    /\ pc # "read" => targetQueue # NoTarget
    /\ pc \in {"write_data", "write_crc", "control"} =>
          /\ dataQueue # NoData /\ sample # NoData
          /\ target \in Co2Min .. Co2Max

\* While the valve is open its time stamp tells how long it has been, and
\* the next check of the time stamp comes in time.
DoseBudget ==
    /\ valve = 1 <=> state = "VALVE_OPEN"
    /\ valve = 0 => openFor = 0
    /\ valve = 1 =>
          /\ pc # "read" /\ dataQueue # NoData
          /\ openFor = Since(tick, valveStamp)
          /\ openFor + rem <= MaxDose
          /\ pc = "write_data" => openFor + rem + MaxIo <= MaxDose
          /\ pc = "loop" => openFor + rem + 2 * MaxIo <= MaxDose

\* While the valve is closed the other time stamp is never older than the
\* pause, whatever the tick counter and the power did meanwhile.
PauseAge ==
    /\ valve = 1 => closedFor = 0
    /\ valve = 0 => closedFor = AgeCap \/ Since(tick, retryStamp) <= closedFor

\* How long CO2 has been enough, for a task that knows and one that does not.
EnoughBudget ==
    /\ ~Enough => enoughFor = 0
    /\ pc = "write_data" /\ sample < target => enoughFor + rem <= MaxIo
    /\ pc = "write_crc" /\ sample < target => enoughFor + rem <= 2 * MaxIo
    /\ pc = "control" /\ sample < target => enoughFor <= 2 * MaxIo
    /\ valve = 1 =>
          /\ enoughFor + rem <= LoopDelay + 4 * MaxIo
          /\ pc = "write_data" => enoughFor + rem <= LoopDelay + 3 * MaxIo
          /\ pc = "loop" => enoughFor + rem <= LoopDelay + 2 * MaxIo

IInv == /\ TypeOK /\ BlockedTimes /\ Peeked
        /\ DoseBudget /\ PauseAge /\ EnoughBudget

-----------------------------------------------------------------------------
\* What the documentation says and the code does not do.

\* README: settings are stored in EEPROM for persistence.  A target stored
\* without a fault, and not being written when the power failed, is the target
\* after a power cycle.
TargetPersists ==
    [][Boots /\ acked # NoTarget /\ faults' = faults => target' = acked]_vars

=============================================================================
