------------------------- MODULE FanController_proofs -------------------------
(***************************************************************************)
(* Theorems about FanController, for any tick counter, periods, levels and  *)
(* readings, and any number of failures and power cycles.                   *)
(***************************************************************************)
EXTENDS FanController, TLAPS

-----------------------------------------------------------------------------
\* The inductive invariant.

\* A call blocks the task no longer than it says.
Blocked == /\ pc = "start" => rem = 0
           /\ pc = "loop" => rem <= LoopDelay
           /\ pc \in {"write", "read"} => rem <= MaxIo

\* Time is counted only while the reading is critical, and not before run.
Counted == /\ ~IsCritical => criticalFor = 0
           /\ pc = "start" => criticalFor = 0

Age == Since(tick, adjustStamp)

\* The time for which a critical reading may find the fan stopped: at most two
\* requests while it is being stopped and one turn of the loop; from then on the
\* age of the last adjustment grows along, which ends with the turn that sees it
\* expired; then the write of the new speed.
FirstTurn  == MaxIo + MaxIo + LoopDelay
AgeCounts  == /\ criticalFor <= FirstTurn + Age
              /\ Age + rem <= AdjustInterval + LoopDelay
StoppedFor ==
    /\ pc = "write" /\ order = 0 => criticalFor + rem <= MaxIo
    /\ pc = "write" /\ device = 0 => criticalFor + rem <= VentilationDelay
    /\ pc = "read" => device = order
    /\ pc = "read" /\ device = 0 => criticalFor + rem <= MaxIo + MaxIo
    /\ pc = "loop" /\ device = 0 => criticalFor + rem <= FirstTurn \/ AgeCounts

IInv == /\ TypeOK /\ ReportedSpeedIsTrue
        /\ Blocked /\ Counted /\ (faults = 0 => StoppedFor)

-----------------------------------------------------------------------------
\* Lemmas about operators.

\* A fan may be off, a counter starts at 0, and a speed is a register's value.
LEMMA Zeros == 0 \in Speeds /\ 0 \in Ticks /\ 0 \in Words /\ Speeds \subseteq Words
<1>1. 0 \in Speeds /\ 0 \in Ticks /\ 0 \in Words
  BY TickModAssumption DEF Speeds, Ticks, Words
<1>2. ASSUME NEW v \in FanMin .. FanMax PROVE v \in Words
  <2>1. /\ FanMin \in Nat /\ FanMax \in Nat /\ FanMax < 65536
    BY FanLevelsAssumption
  <2> QED
    BY <2>1 DEF Words
<1> QED
  BY <1>1, <1>2 DEF Speeds

\* The age of a time stamp is a number, and grows with the tick counter unless
\* the counter comes round to the stamp.
LEMMA SinceGrows ==
  ASSUME NEW t \in Ticks, NEW s \in Ticks
  PROVE  /\ Since(t, s) \in Nat /\ NextTick(t) \in Ticks
         /\ Since(t, s) + 1 < TickMod => Since(NextTick(t), s) = Since(t, s) + 1
BY TickModAssumption DEF Since, NextTick, Ticks

\* setSpeed orders only speeds that the fan can turn at.
LEMMA ClampedSpeed ==
  ASSUME NEW s \in Int
  PROVE  ClampSpeed(s) \in Speeds
BY FanLevelsAssumption DEF ClampSpeed, Speeds

\* A critical reading orders a speed at which the fan turns.
LEMMA CriticalTurns ==
  ASSUME NEW co2 \in Int, co2 >= Critical
  PROVE  /\ CriticalSpeed(co2) \in Int
         /\ ClampSpeed(CriticalSpeed(co2)) \in Speeds \ {0}
<1> DEFINE p == (FanMax - FanMin) * (co2 - Critical)
<1>1. /\ FanMax - FanMin \in Nat /\ co2 - Critical \in Nat
      /\ CriticalDiff \in Nat /\ CriticalDiff > 0
  BY FanLevelsAssumption
<1>2. \A i, j \in Nat : i * j \in Nat
  OBVIOUS
<1>3. p \in Nat
  BY <1>1, <1>2
<1> HIDE DEF p
<1>4. p \div CriticalDiff \in Nat
  BY <1>1, <1>3
<1>5. CriticalSpeed(co2) = (p \div CriticalDiff) + FanMin
  BY DEF CriticalSpeed, p
<1>6. CriticalSpeed(co2) \in Int /\ CriticalSpeed(co2) >= FanMin
  BY <1>4, <1>5, FanLevelsAssumption
<1> QED
  BY <1>6, FanLevelsAssumption DEF ClampSpeed, Speeds

-----------------------------------------------------------------------------
\* Types, reports and times that are bounded step by step.

LEMMA InitIInv == Init => IInv
<1> SUFFICES ASSUME Init PROVE IInv
  OBVIOUS
<1> USE FanPeriodsAssumption, TickModAssumption DEF Init
<1>1. TypeOK
  <2>1. device \in Speeds /\ order \in Speeds /\ m_Speed \in Words
        /\ tick \in Ticks /\ adjustStamp \in Ticks
    BY InitialSpeedsAssumption, Zeros
  <2>2. criticalFor \in 0 .. AgeCap /\ faults \in 0 .. MaxFaults
        /\ restarts \in 0 .. MaxRestarts /\ rem \in Nat
    OBVIOUS
  <2>3. adjusting \in BOOLEAN /\ doubtful \in BOOLEAN
    OBVIOUS
  <2> QED
    BY <2>1, <2>2, <2>3 DEF TypeOK
<1>2. ReportedSpeedIsTrue
  BY DEF ReportedSpeedIsTrue
<1>3. Blocked /\ Counted /\ StoppedFor
  BY DEF Blocked, Counted, StoppedFor
<1> QED
  BY <1>1, <1>2, <1>3 DEF IInv

\* What a call of setSpeed leaves behind.
LEMMA SetSpeedType ==
  ASSUME NEW s \in Int, NEW b \in BOOLEAN, SetSpeed(s, b)
  PROVE  /\ order' = ClampSpeed(s) /\ order' \in Speeds /\ adjusting' = b
         /\ pc' = "write" /\ rem' \in Nat /\ rem' <= MaxIo
BY ClampedSpeed, FanPeriodsAssumption DEF SetSpeed

\* The three steps that set the speed.
LEMMA SetSpeedCalls ==
  ASSUME TypeOK, Start \/ Adjust \/ SwitchOff
  PROVE  /\ order' \in Speeds /\ adjusting' \in BOOLEAN
         /\ pc' = "write" /\ rem' \in Nat /\ rem' <= MaxIo
         /\ Adjust => order' # 0
         /\ UNCHANGED <<tick, adjustStamp, m_Speed, dataQueue, fanQueue, device,
                        history, faults, restarts>>
<1>1. CASE Start
  <2>1. SetSpeed(0, FALSE)
    BY <1>1 DEF Start
  <2>2. ~Adjust
    BY <1>1 DEF Start, Adjust
  <2>3. order' \in Speeds /\ adjusting' = FALSE
        /\ pc' = "write" /\ rem' \in Nat /\ rem' <= MaxIo
    BY <2>1, SetSpeedType, 0 \in Int
  <2> QED
    BY <1>1, <2>2, <2>3 DEF Start
<1>2. CASE SwitchOff
  <2>1. SetSpeed(0, FALSE)
    BY <1>2 DEF SwitchOff
  <2>2. ~Adjust
    <3>1. dataQueue \in Int /\ dataQueue < Critical
      BY <1>2, FanLevelsAssumption DEF SwitchOff, IsSafe, TypeOK
    <3>2. ~(dataQueue >= Critical)
      BY <3>1, FanLevelsAssumption
    <3> QED
      BY <3>2 DEF Adjust, IsCritical
  <2>3. order' \in Speeds /\ adjusting' = FALSE
        /\ pc' = "write" /\ rem' \in Nat /\ rem' <= MaxIo
    BY <2>1, SetSpeedType, 0 \in Int
  <2> QED
    BY <1>2, <2>2, <2>3 DEF SwitchOff
<1>3. CASE Adjust
  <2>1. SetSpeed(CriticalSpeed(dataQueue), TRUE)
    BY <1>3 DEF Adjust
  <2>2. dataQueue \in Int /\ dataQueue >= Critical
    BY <1>3, FanLevelsAssumption DEF Adjust, IsCritical, TypeOK
  <2>3. /\ CriticalSpeed(dataQueue) \in Int
        /\ ClampSpeed(CriticalSpeed(dataQueue)) # 0
    BY <2>2, CriticalTurns
  <2> QED
    BY <1>3, <2>1, <2>3, SetSpeedType DEF Adjust
<1> QED
  BY <1>1, <1>2, <1>3

LEMMA FaultType ==
  ASSUME TypeOK, Fault
  PROVE  faults' \in 0 .. MaxFaults /\ faults' # 0
BY FanPeriodsAssumption DEF TypeOK, Fault

LEMMA TypeStep == TypeOK /\ [Next]_vars => TypeOK'
<1> SUFFICES ASSUME TypeOK, [Next]_vars PROVE TypeOK'
  OBVIOUS
<1> USE FanPeriodsAssumption DEF TypeOK, task, history
<1>1. CASE Start \/ Adjust \/ SwitchOff
  BY <1>1, SetSpeedCalls
<1>2. CASE LeaveFan
  BY <1>2 DEF LeaveFan, Delay
<1>3. CASE WriteSpeed
  <2>1. faults' \in 0 .. MaxFaults
    BY <1>3, FaultType DEF WriteSpeed
  <2> QED
    BY <1>3, <2>1 DEF WriteSpeed
<1>4. CASE ReadBack
  <2>1. faults' \in 0 .. MaxFaults
    BY <1>4, FaultType DEF ReadBack
  <2>2. m_Speed' \in Words /\ fanQueue' = m_Speed'
    BY <1>4, Zeros, InitialSpeedsAssumption DEF ReadBack
  <2>3. doubtful' \in BOOLEAN
    BY <1>4 DEF ReadBack
  <2> QED
    BY <1>4, <2>1, <2>2, <2>3 DEF ReadBack, Delay
<1>5. CASE Tick
  <2>1. tick' \in Ticks
    BY <1>5, SinceGrows DEF Tick
  <2> QED
    BY <1>5, <2>1 DEF Tick, Older
<1>6. ASSUME NEW c \in Readings, Publish(c) PROVE TypeOK'
  BY <1>6 DEF Publish, Reassess
<1>7. CASE Restart
  <2>1. order' \in Speeds /\ m_Speed' \in Words /\ tick' \in Ticks
        /\ adjustStamp' \in Ticks
    BY <1>7, Zeros DEF Restart
  <2>2. restarts' \in 0 .. MaxRestarts /\ criticalFor' \in 0 .. AgeCap
        /\ faults' \in 0 .. MaxFaults /\ rem' \in Nat
    BY <1>7 DEF Restart
  <2> QED
    BY <1>7, <2>1, <2>2 DEF Restart
<1>8. CASE UNCHANGED vars
  BY <1>8 DEF vars
<1> QED
  BY <1>1, <1>2, <1>3, <1>4, <1>5, <1>6, <1>7, <1>8 DEF Next, Run

LEMMA ReportStep == TypeOK /\ ReportedSpeedIsTrue /\ [Next]_vars => ReportedSpeedIsTrue'
<1> SUFFICES ASSUME TypeOK, ReportedSpeedIsTrue, [Next]_vars
             PROVE  ReportedSpeedIsTrue'
  OBVIOUS
<1> USE DEF ReportedSpeedIsTrue, task, history
<1>1. CASE Start \/ Adjust \/ SwitchOff
  BY <1>1, SetSpeedCalls DEF Start, Adjust, SwitchOff
<1>2. CASE LeaveFan \/ WriteSpeed
  BY <1>2 DEF LeaveFan, WriteSpeed, Delay
<1>3. CASE ReadBack
  BY <1>3 DEF ReadBack
<1>4. CASE Tick \/ (\E c \in Readings : Publish(c)) \/ Restart \/ UNCHANGED vars
  BY <1>4 DEF Tick, Publish, Restart, vars
<1> QED
  BY <1>1, <1>2, <1>3, <1>4 DEF Next, Run

LEMMA BlockedStep == TypeOK /\ Blocked /\ [Next]_vars => Blocked'
<1> SUFFICES ASSUME TypeOK, Blocked, [Next]_vars
             PROVE  Blocked'
  OBVIOUS
<1> USE FanPeriodsAssumption DEF Blocked
<1>1. CASE Start \/ Adjust \/ SwitchOff
  BY <1>1, SetSpeedCalls
<1>2. CASE LeaveFan \/ WriteSpeed \/ ReadBack
  BY <1>2 DEF LeaveFan, WriteSpeed, ReadBack, Delay
<1>3. CASE Tick
  BY <1>3 DEF Tick, TypeOK
<1>4. CASE (\E c \in Readings : Publish(c)) \/ Restart \/ UNCHANGED vars
  BY <1>4 DEF Publish, Restart, vars
<1> QED
  BY <1>1, <1>2, <1>3, <1>4 DEF Next, Run

LEMMA CountedStep == TypeOK /\ Blocked /\ Counted /\ [Next]_vars => Counted'
<1> SUFFICES ASSUME TypeOK, Blocked, Counted, [Next]_vars
             PROVE  Counted'
  OBVIOUS
<1> USE DEF Counted, task, history
<1>1. CASE Start \/ Adjust \/ SwitchOff
  BY <1>1, SetSpeedCalls DEF IsCritical
<1>2. CASE LeaveFan \/ WriteSpeed \/ ReadBack
  BY <1>2 DEF LeaveFan, WriteSpeed, ReadBack, Delay, IsCritical
<1>3. CASE Tick
  BY <1>3 DEF Tick, Blocked, IsCritical
<1>4. ASSUME NEW c \in Readings, Publish(c) PROVE Counted'
  BY <1>4 DEF Publish, Reassess
<1>5. CASE Restart \/ UNCHANGED vars
  BY <1>5 DEF Restart, vars, IsCritical
<1> QED
  BY <1>1, <1>2, <1>3, <1>4, <1>5 DEF Next, Run

-----------------------------------------------------------------------------
\* The time for which a critical reading finds the fan stopped.

\* The periods as sums.
LEMMA Delays ==
  /\ MaxIo \in Nat /\ LoopDelay \in Nat /\ AdjustInterval \in Nat
  /\ TickMod \in Nat /\ TickMod > AdjustInterval + LoopDelay
  /\ VentilationDelay = FirstTurn + AdjustInterval + LoopDelay + MaxIo
  /\ FirstTurn = MaxIo + MaxIo + LoopDelay
<1>1. /\ MaxIo \in Nat /\ LoopDelay \in Nat /\ AdjustInterval \in Nat
      /\ TickMod \in Nat
  BY FanPeriodsAssumption, TickModAssumption
<1>2. 2 * MaxIo = MaxIo + MaxIo /\ 3 * MaxIo = MaxIo + MaxIo + MaxIo
      /\ 2 * LoopDelay = LoopDelay + LoopDelay
  BY <1>1
<1> QED
  BY <1>1, <1>2, FanPeriodsAssumption DEF VentilationDelay, FirstTurn

\* As long as no request has failed, none has failed before either.
LEMMA FaultsGrow == TypeOK /\ [Next]_vars /\ faults' = 0 => faults = 0
<1> SUFFICES ASSUME TypeOK, [Next]_vars, faults' = 0 PROVE faults = 0
  OBVIOUS
<1>1. CASE Start \/ Adjust \/ SwitchOff
  BY <1>1, SetSpeedCalls
<1>2. CASE WriteSpeed \/ ReadBack
  BY <1>2, FaultType DEF WriteSpeed, ReadBack
<1> QED
  BY <1>1, <1>2 DEF Next, Run, LeaveFan, Tick, Publish, Restart, vars

LEMMA StoppedForStep ==
  ASSUME IInv, [Next]_vars, faults' = 0
  PROVE  StoppedFor'
<1> USE Delays
<1>0. TypeOK /\ Blocked /\ Counted /\ StoppedFor /\ TypeOK'
  BY FaultsGrow, TypeStep DEF IInv
<1>1. /\ criticalFor \in Nat /\ rem \in Nat /\ Age \in Nat
      /\ criticalFor' \in Nat /\ rem' \in Nat
  <2>1. criticalFor \in Nat /\ rem \in Nat /\ criticalFor' \in Nat /\ rem' \in Nat
    BY <1>0, FanPeriodsAssumption DEF TypeOK
  <2> QED
    BY <1>0, <2>1, SinceGrows DEF TypeOK, Age
<1>next. PICK c1 \in Nat, r1 \in Nat : criticalFor' = c1 /\ rem' = r1
  BY <1>1
<1> USE <1>next
\* The fan is being stopped: CO2 is not critical, or run has just begun.
<1>2. CASE Start \/ SwitchOff
  <2>1. criticalFor = 0
    <3>1. CASE Start
      BY <1>0, <3>1 DEF Start, Counted
    <3>2. CASE SwitchOff
      <4>1. dataQueue \in Int /\ dataQueue < Critical
        BY <1>0, <3>2, FanLevelsAssumption DEF SwitchOff, IsSafe, TypeOK
      <4> QED
        BY <1>0, <4>1, FanLevelsAssumption DEF Counted, IsCritical
    <3> QED
      BY <1>2, <3>1, <3>2
  <2>2. pc' = "write" /\ rem' <= MaxIo /\ criticalFor' = criticalFor
    BY <1>0, <1>2, SetSpeedCalls DEF history
  <2> QED
    BY <1>1, <2>1, <2>2 DEF StoppedFor
\* The adjustment comes with the turn that sees the last one expired.
<1>3. CASE Adjust
  <2>1. /\ pc' = "write" /\ rem' <= MaxIo /\ order' # 0
        /\ criticalFor' = criticalFor /\ device' = device
    BY <1>0, <1>3, SetSpeedCalls DEF history
  <2>2. pc = "loop" /\ rem = 0
    BY <1>3 DEF Adjust
  <2>3. device = 0 => criticalFor <= FirstTurn + AdjustInterval + LoopDelay
    BY <1>0, <1>1, <2>2 DEF StoppedFor, AgeCounts
  <2> QED
    BY <1>1, <2>1, <2>3 DEF StoppedFor
\* A turn that changes nothing: CO2 is safe, or the last adjustment is young.
<1>4. CASE LeaveFan
  <2>1. /\ pc = "loop" /\ rem = 0 /\ pc' = "loop" /\ rem' = LoopDelay
        /\ UNCHANGED <<tick, task, dataQueue, device, history>>
    BY <1>4 DEF LeaveFan, Delay
  <2>2. Age' = Age /\ criticalFor' = criticalFor /\ device' = device
    BY <2>1 DEF Age, task, history
  <2>3. CASE ~IsCritical
    BY <1>0, <1>1, <2>1, <2>2, <2>3 DEF Counted, StoppedFor
  <2>4. CASE IsCritical
    <3>1. Age <= AdjustInterval
      BY <1>1, <1>4, <2>4 DEF LeaveFan, Expired, Age
    <3>2. device = 0 => criticalFor <= FirstTurn + Age
      BY <1>0, <1>1, <2>1 DEF StoppedFor, AgeCounts
    <3>3. device' = 0 => AgeCounts'
      BY <1>1, <2>1, <2>2, <3>1, <3>2 DEF AgeCounts
    <3> QED
      BY <2>1, <3>3 DEF StoppedFor
  <2> QED
    BY <2>3, <2>4
\* The write reaches the device.
<1>5. CASE WriteSpeed
  <2>1. /\ pc = "write" /\ rem = 0 /\ pc' = "read" /\ rem' <= MaxIo
        /\ order' = order /\ criticalFor' = criticalFor
    BY <1>1, <1>5 DEF WriteSpeed, task, history
  <2>2. device' = order
    BY <1>0, <1>5, FaultType DEF WriteSpeed
  <2> QED
    BY <1>0, <1>1, <2>1, <2>2 DEF StoppedFor
<1>6. CASE ReadBack
  <2>1. /\ pc = "read" /\ rem = 0 /\ pc' = "loop" /\ rem' = LoopDelay
        /\ device' = device /\ criticalFor' = criticalFor
    BY <1>6 DEF ReadBack, Delay
  <2> QED
    BY <1>0, <1>1, <2>1 DEF StoppedFor
\* Time passes for the age of the adjustment as well.
<1>7. CASE Tick
  <2>1. /\ pc' = pc /\ order' = order /\ device' = device
        /\ adjustStamp' = adjustStamp /\ tick' = NextTick(tick)
        /\ rem' = IF rem > 0 THEN rem - 1 ELSE 0
    BY <1>7 DEF Tick, task
  <2>2. criticalFor' <= criticalFor + 1 /\ (~IsCritical => criticalFor' = 0)
    BY <1>0, <1>1, <1>7, FanPeriodsAssumption DEF Tick, Older, TypeOK
  <2>3. rem > 0 \/ ~IsCritical
    BY <1>7 DEF Tick, IsCritical
  <2>4. CASE rem = 0
    BY <1>0, <1>1, <2>1, <2>2, <2>3, <2>4 DEF StoppedFor
  <2>5. CASE rem > 0
    <3>1. criticalFor' + rem' <= criticalFor + rem
      BY <1>1, <2>1, <2>2, <2>5
    <3>2. AgeCounts => AgeCounts'
      <4>1. AgeCounts => Age' = Age + 1
        BY <1>0, <1>1, <2>1, <2>5, SinceGrows DEF AgeCounts, Age, TypeOK
      <4> QED
        BY <1>1, <2>1, <2>2, <2>5, <4>1 DEF AgeCounts
    <3> QED
      BY <1>0, <1>1, <2>1, <3>1, <3>2 DEF StoppedFor
  <2> QED
    BY <1>1, <2>4, <2>5
<1>8. ASSUME NEW c \in Readings, Publish(c) PROVE StoppedFor'
  <2>1. /\ pc' = pc /\ rem' = rem /\ order' = order /\ device' = device
        /\ Age' = Age
    BY <1>8 DEF Publish, task, Age
  <2>2. criticalFor' <= criticalFor
    BY <1>1, <1>8 DEF Publish, Reassess
  <2> QED
    BY <1>0, <1>1, <2>1, <2>2 DEF StoppedFor, AgeCounts
<1>9. CASE Restart
  BY <1>9 DEF Restart, StoppedFor
<1>10. CASE UNCHANGED vars
  BY <1>0, <1>10 DEF vars, task, history, StoppedFor, AgeCounts, Age
<1> QED
  BY <1>2, <1>3, <1>4, <1>5, <1>6, <1>7, <1>8, <1>9, <1>10 DEF Next, Run

-----------------------------------------------------------------------------
\* The theorems.

THEOREM Inductive == Spec => []IInv
<1>1. Init => IInv
  BY InitIInv
<1>2. IInv /\ [Next]_vars => IInv'
  BY TypeStep, ReportStep, BlockedStep, CountedStep, StoppedForStep DEF IInv
<1> QED
  BY <1>1, <1>2, PTL DEF Spec

\* Every variable keeps its type, and the device is never ordered to turn at a
\* speed outside its limits (FanController.cpp:34-35).
THEOREM TypeCorrect == Spec => []TypeOK
<1>1. IInv => TypeOK
  BY DEF IInv
<1> QED
  BY <1>1, Inductive, PTL

\* The speed that is shown and reported is the one the device has, whatever
\* writes were lost, unless the read back itself failed (FanController.cpp:37-39):
\* then it may be any value (nanomodbus.c:502-515).
THEOREM ReportsAreTrue == Spec => []ReportedSpeedIsTrue
<1>1. IInv => ReportedSpeedIsTrue
  BY DEF IInv
<1> QED
  BY <1>1, Inductive, PTL

\* While no request fails, critical CO2 turns the fan within one adjustment
\* interval, two turns of the loop and three requests, also when the tick counter
\* wraps (FanController.cpp:57-64).
THEOREM CriticalIsAnswered == Spec => []CriticalTurnsTheFan
<1>1. IInv => CriticalTurnsTheFan
  <2> SUFFICES ASSUME IInv, faults = 0, device = 0
               PROVE  criticalFor <= VentilationDelay
    BY FanPeriodsAssumption, Delays DEF IInv, TypeOK, CriticalTurnsTheFan
  <2>1. criticalFor \in Nat /\ rem \in Nat
    BY FanPeriodsAssumption DEF IInv, TypeOK
  <2>2. Age \in Nat
    BY SinceGrows DEF IInv, TypeOK, Age
  <2>3. pc \in {"start", "loop", "write", "read"}
    BY DEF IInv, TypeOK
  <2> QED
    BY <2>1, <2>2, <2>3, Delays DEF IInv, Counted, StoppedFor, AgeCounts
<1> QED
  BY <1>1, Inductive, PTL

=============================================================================
