---------------------------- MODULE FanController ----------------------------
(***************************************************************************)
(* Task::Fan::Controller (src/task/fan/FanController.cpp), the task that   *)
(* ventilates when CO2 is critical: it peeks the reading, sets the fan's   *)
(* speed through a Modbus holding register, reads the register back and    *)
(* publishes what it read.  The device keeps its register while the        *)
(* controller's power is cycled.  Modbus::Register ignores the errors of   *)
(* the client: a request that is lost changes nothing; a read that fails   *)
(* returns 0, or whatever a garbled reply holds, because nanomodbus stores *)
(* the register before it checks the CRC of the reply.                     *)
(*                                                                         *)
(* Statements take no time; a call that blocks sets "rem", the time until  *)
(* the task goes on, and Tick lets it pass.                                *)
(***************************************************************************)
EXTENDS Integers, CounterTimeout

CONSTANTS
    AdjustInterval,  \* shortest time between two adjustments, 1000 ms
    LoopDelay,       \* vTaskDelay at the end of the loop, 250 ticks
    MaxIo,           \* longest time one Modbus request blocks the task
    FanMin,          \* FAN_MIN, 150 = 15 %
    FanMax,          \* FAN_MAX, 1000 = 100 %
    Critical,        \* CO2_CRITICAL, 2000 ppm
    CriticalDiff,    \* CO2_CRITICAL_DIFF, 1000 ppm
    Readings,        \* CO2 values the sensor task may publish
    InitialSpeeds,   \* speeds the device may have at the first boot
    Misreads,        \* what a garbled reply may put into m_Speed
    NoData,          \* m_DataQueue is empty
    NoSpeed,         \* m_FanQueue is empty
    AgeCap,          \* bound: the history age saturates here
    MaxFaults,       \* bound: Modbus requests that fail
    MaxRestarts      \* bound: power cycles of the controller

ASSUME FanPeriodsAssumption ==
    /\ AdjustInterval \in Nat /\ LoopDelay \in Nat \ {0} /\ MaxIo \in Nat
    /\ AgeCap \in Nat /\ MaxFaults \in Nat /\ MaxRestarts \in Nat
    /\ TickMod > AdjustInterval + LoopDelay + 2 * MaxIo

ASSUME FanLevelsAssumption ==
    /\ FanMin \in Nat \ {0} /\ FanMax \in Nat /\ FanMin <= FanMax
    /\ FanMax < 65536
    /\ Critical \in Nat /\ CriticalDiff \in Nat \ {0}
    /\ Readings \subseteq Int /\ NoData \notin Int /\ NoSpeed \notin Int

\* What the register may hold: off, or a speed the fan can turn at.
Speeds == {0} \cup (FanMin .. FanMax)

\* The values of a uint16_t, which is what a read that fails may return.
Words == {n \in Nat : n < 65536}

ASSUME InitialSpeedsAssumption ==
    InitialSpeeds \subseteq Speeds /\ Misreads \subseteq Words

VARIABLES
    pc,           \* where the task is
    rem,          \* time until it goes on
    tick,         \* xTaskGetTickCount()
    adjustStamp,  \* time stamp of adjustInterval
    order,        \* the clamped argument of setSpeed
    adjusting,    \* setSpeed was called because CO2 is critical
    m_Speed,      \* the speed last read back
    dataQueue,    \* m_DataQueue, length 1: readings overwrite one another
    fanQueue,     \* m_FanQueue, length 1: what the views and reports show
    device,       \* the speed register of the device
    criticalFor,  \* history: how long CO2 has been critical
    doubtful,     \* history: the last read back failed
    faults,       \* Modbus requests that failed
    restarts      \* power cycles

task    == <<adjustStamp, order, adjusting, m_Speed>>
history == <<criticalFor, doubtful>>
vars    == <<pc, rem, tick, task, dataQueue, fanQueue, device, history,
             faults, restarts>>

-----------------------------------------------------------------------------
\* Mutants: no upper limit; a speed above it taken for an illegal one.
ClampSpeedBelow(s) == IF s < FanMin THEN 0 ELSE s
ClampSpeedOff(s) == IF s < FanMin \/ s > FanMax THEN 0 ELSE s

\* setSpeed, the adjustment of its argument.
ClampSpeed(s) == IF s < FanMin THEN 0 ELSE IF s > FanMax THEN FanMax ELSE s

\* 15 % at the critical level, 100 % CriticalDiff above it.
CriticalSpeed(co2) ==
    (((FanMax - FanMin) * (co2 - Critical)) \div CriticalDiff) + FanMin

IsCritical == dataQueue # NoData /\ dataQueue >= Critical
IsSafe     == dataQueue # NoData /\ dataQueue < Critical

Older(age) == IF age < AgeCap THEN age + 1 ELSE AgeCap

\* A new reading starts the history age over unless it still is critical.
Reassess == criticalFor' = IF IsCritical' THEN criticalFor ELSE 0

-----------------------------------------------------------------------------
Init ==
    /\ pc = "start" /\ rem = 0
    /\ tick = 0 /\ adjustStamp = 0
    /\ order = 0 /\ adjusting = FALSE /\ m_Speed = 0
    /\ dataQueue = NoData /\ fanQueue = NoSpeed
    /\ device \in InitialSpeeds
    /\ criticalFor = 0 /\ doubtful = FALSE
    /\ faults = 0 /\ restarts = 0

\* The call of setSpeed up to the first Modbus request.
SetSpeed(s, critical) ==
    /\ order' = ClampSpeed(s)
    /\ adjusting' = critical
    /\ pc' = "write"
    /\ rem' \in 0 .. MaxIo

\* vTaskDelay and back to the top of the loop.
Delay == pc' = "loop" /\ rem' = LoopDelay

Fault == faults < MaxFaults /\ faults' = faults + 1

\* run, before the loop.
Start ==
    /\ pc = "start"
    /\ SetSpeed(0, FALSE)
    /\ UNCHANGED <<tick, adjustStamp, m_Speed, dataQueue, fanQueue, device,
                   history, faults, restarts>>

\* CO2 is critical and the last adjustment was long enough ago.
Adjust ==
    /\ pc = "loop" /\ rem = 0
    /\ IsCritical
    /\ Expired(tick, adjustStamp, AdjustInterval)
    /\ SetSpeed(CriticalSpeed(dataQueue), TRUE)
    /\ UNCHANGED <<tick, adjustStamp, m_Speed, dataQueue, fanQueue, device,
                   history, faults, restarts>>

\* CO2 is below the critical level and the fan is believed to turn.
SwitchOff ==
    /\ pc = "loop" /\ rem = 0
    /\ IsSafe
    /\ m_Speed # 0
    /\ SetSpeed(0, FALSE)
    /\ UNCHANGED <<tick, adjustStamp, m_Speed, dataQueue, fanQueue, device,
                   history, faults, restarts>>

\* Mutant: adjustInterval is reset on every turn of the loop.
LeaveFanResetting ==
    /\ pc = "loop" /\ rem = 0
    /\ dataQueue # NoData
    /\ ~(IsCritical /\ Expired(tick, adjustStamp, AdjustInterval))
    /\ ~(IsSafe /\ m_Speed # 0)
    /\ adjustStamp' = tick
    /\ Delay
    /\ UNCHANGED <<tick, order, adjusting, m_Speed, dataQueue, fanQueue,
                   device, history, faults, restarts>>

\* Neither branch is taken.
LeaveFan ==
    /\ pc = "loop" /\ rem = 0
    /\ dataQueue # NoData
    /\ ~(IsCritical /\ Expired(tick, adjustStamp, AdjustInterval))
    /\ ~(IsSafe /\ m_Speed # 0)
    /\ Delay
    /\ UNCHANGED <<tick, task, dataQueue, fanQueue, device, history,
                   faults, restarts>>

\* setSpeed: m_SpeedRegister.write.  A request that is lost is not noticed;
\* a reply that is lost neither, but then the register has changed.
WriteSpeed ==
    /\ pc = "write" /\ rem = 0
    /\ \/ device' = order /\ UNCHANGED faults
       \/ Fault /\ UNCHANGED device
    /\ pc' = "read"
    /\ rem' \in 0 .. MaxIo
    /\ UNCHANGED <<tick, task, dataQueue, fanQueue, history, restarts>>

\* Mutant: the speed ordered is published, not the one read back.
ReadBackTrusting ==
    /\ pc = "read" /\ rem = 0
    /\ m_Speed' = order
    /\ fanQueue' = m_Speed'
    /\ adjustStamp' = IF adjusting THEN tick ELSE adjustStamp
    /\ adjusting' = FALSE
    /\ Delay
    /\ UNCHANGED <<tick, order, dataQueue, device, history, faults, restarts>>

\* setSpeed: m_SpeedRegister.read and the publication of what it returned;
\* then adjustInterval.reset() if run adjusted the speed.
ReadBack ==
    /\ pc = "read" /\ rem = 0
    /\ \/ /\ m_Speed' = device
          /\ doubtful' = FALSE
          /\ UNCHANGED faults
       \/ /\ Fault
          /\ m_Speed' \in {0} \cup Misreads
          /\ doubtful' = TRUE
    /\ fanQueue' = m_Speed'
    /\ adjustStamp' = IF adjusting THEN tick ELSE adjustStamp
    /\ adjusting' = FALSE
    /\ Delay
    /\ UNCHANGED <<tick, order, dataQueue, device, criticalFor, restarts>>

-----------------------------------------------------------------------------
\* The world around the task.

\* Time passes only while the task is blocked.
Tick ==
    /\ rem > 0 \/ (pc = "loop" /\ dataQueue = NoData)
    /\ tick' = NextTick(tick)
    /\ rem' = IF rem > 0 THEN rem - 1 ELSE 0
    /\ criticalFor' = IF IsCritical THEN Older(criticalFor) ELSE 0
    /\ UNCHANGED <<pc, task, dataQueue, fanQueue, device, doubtful, faults,
                   restarts>>

\* Sensor::Reader overwrites the reading.
Publish(c) ==
    /\ dataQueue' = c
    /\ UNCHANGED <<pc, rem, tick, task, fanQueue, device, doubtful, faults,
                   restarts>>
    /\ Reassess

\* The controller's power fails and comes back; the device keeps turning.
Restart ==
    /\ restarts < MaxRestarts
    /\ restarts' = restarts + 1
    /\ pc' = "start" /\ rem' = 0
    /\ tick' = 0 /\ adjustStamp' = 0
    /\ order' = 0 /\ adjusting' = FALSE /\ m_Speed' = 0
    /\ dataQueue' = NoData /\ fanQueue' = NoSpeed
    /\ criticalFor' = 0 /\ doubtful' = FALSE
    /\ UNCHANGED <<device, faults>>

-----------------------------------------------------------------------------
Run == Start \/ Adjust \/ SwitchOff \/ LeaveFan \/ WriteSpeed \/ ReadBack

Next == Run \/ Tick \/ (\E c \in Readings : Publish(c)) \/ Restart

Spec == Init /\ [][Next]_vars

\* The scheduler runs the ready task of the highest priority, and this one
\* has it; the tick interrupt always comes.
Fairness == WF_vars(Run) /\ WF_vars(Tick)

LiveSpec == Spec /\ Fairness

-----------------------------------------------------------------------------
\* Properties.

\* Every variable has its type; the device only ever holds a speed the fan
\* can turn at, although the controller may believe any other.
TypeOK ==
    /\ pc \in {"start", "loop", "write", "read"}
    /\ rem \in Nat
    /\ tick \in Ticks /\ adjustStamp \in Ticks
    /\ order \in Speeds /\ adjusting \in BOOLEAN
    /\ m_Speed \in Words /\ device \in Speeds
    /\ dataQueue \in Readings \cup {NoData}
    /\ fanQueue \in Words \/ fanQueue = NoSpeed
    /\ criticalFor \in 0 .. AgeCap
    /\ doubtful \in BOOLEAN
    /\ faults \in 0 .. MaxFaults /\ restarts \in 0 .. MaxRestarts

\* Whatever writes were lost, the speed that the views and the reports show is
\* the one the device has, except between a write and the read that follows
\* it, and unless that read itself failed.
ReportedSpeedIsTrue ==
    pc # "read" /\ fanQueue # NoSpeed /\ ~doubtful => fanQueue = device

\* The fan turns when CO2 has been critical for longer than one adjustment
\* interval, the turns of the loop around it and the requests in them, as
\* long as no request failed: over restarts, over a tick counter that wraps,
\* and when the reading became critical while the fan was being stopped.
VentilationDelay == AdjustInterval + 2 * LoopDelay + 3 * MaxIo
CriticalTurnsTheFan ==
    faults = 0 /\ criticalFor > VentilationDelay => device # 0

\* CO2 that stays critical keeps the fan turning in the end although requests
\* may have failed, because every adjustment sends the speed again.
CriticalIsVentilated ==
    <>[]IsCritical => <>[](device # 0)

\* CO2 that stays below the critical level stops the fan in the end, and 0 is
\* shown, although writes may have been lost and a garbled reply may have put
\* any speed into m_Speed.  The exception is a last read back that failed and
\* returned 0: the fan is then believed to be off, no branch of run calls
\* setSpeed, and it turns until CO2 is critical again.
BelievedOff == doubtful /\ m_Speed = 0
SafeStopsTheFan ==
    <>[]IsSafe => \/ <>[](device = 0 /\ (pc = "loop" => fanQueue = 0))
                  \/ <>[]BelievedOff

=============================================================================
