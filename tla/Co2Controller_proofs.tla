------------------------ MODULE Co2Controller_proofs ------------------------
(***************************************************************************)
(* Proofs about Co2Controller, for every value of its constants: type      *)
(* correctness, the length of a dose, how soon enough CO2 closes the       *)
(* valve, the range of the target, and that the doses and the pauses are   *)
(* those of ValveDosing.                                                   *)
(***************************************************************************)
EXTENDS Co2Controller, TLAPS

-----------------------------------------------------------------------------
\* Unsigned time stamps.

\* A time stamp taken now has age 0.
LEMMA SinceNow ==
  ASSUME NEW t \in Ticks
  PROVE  Since(t, t) = 0
BY DEF Since, Ticks

\* One tick later a stamp is one tick older, until its age wraps to 0.
LEMMA SinceNextTick ==
  ASSUME NEW t \in Ticks, NEW s \in Ticks
  PROVE  /\ NextTick(t) \in Ticks
         /\ Since(t, s) \in Ticks
         /\ Since(t, s) + 1 < TickMod
              => Since(NextTick(t), s) = Since(t, s) + 1
         /\ Since(t, s) + 1 = TickMod => Since(NextTick(t), s) = 0
BY TickModAssumption DEF Since, NextTick, Ticks

\* Clamp keeps a target in the permitted range.
LEMMA ClampInRange ==
  ASSUME NEW t \in Nat
  PROVE  Clamp(t) \in Co2Min .. Co2Max
BY LevelsAssumption DEF Clamp

\* What setTarget puts into the record is two bytes, also in part.
LEMMA WordsAreWords ==
  /\ Words \subseteq Nat
  /\ \A t \in Nat : Word(t) \in Words
  /\ \A w, old \in Words : Mixed(w, old) \in Words
<1>1. Words \subseteq Nat
  BY SMT DEF Words
<1>2. ASSUME NEW t \in Nat PROVE Word(t) \in Words
  BY SMT DEF Words, Word
<1>3. ASSUME NEW w \in Words, NEW old \in Words
      PROVE  Mixed(w, old) \in Words
  <2>1. w \in Nat /\ w < 65536 /\ old \in Nat
    BY DEF Words
  <2>2. /\ w \div 256 \in Nat /\ w \div 256 < 256
        /\ old % 256 \in Nat /\ old % 256 < 256
    BY <2>1, SMT
  <2>3. Mixed(w, old) \in Nat /\ Mixed(w, old) < 65536
    BY <2>2 DEF Mixed
  <2> QED
    BY <2>3 DEF Words
<1> QED
  BY <1>1, <1>2, <1>3

\* Saturating ages stay below the cap.
LEMMA OlderAge ==
  ASSUME NEW age \in 0 .. AgeCap
  PROVE  /\ Older(age) \in 0 .. AgeCap
         /\ Older(age) <= age + 1
         /\ Older(age) = age + 1 \/ (age = AgeCap /\ Older(age) = AgeCap)
BY PeriodsAssumption DEF Older

\* What is left of a budget when one more transaction is under way.
LEMMA OneTransaction ==
  ASSUME NEW age \in Nat, NEW left \in Nat, left <= MaxIo
  PROVE  /\ age = 0 => age + left <= MaxIo
         /\ age <= MaxIo => age + left <= 2 * MaxIo
         /\ age <= LoopDelay + 2 * MaxIo
              => /\ age + left <= LoopDelay + 3 * MaxIo
                 /\ age + left <= LoopDelay + 4 * MaxIo
         /\ age <= LoopDelay + 3 * MaxIo
              => age + left <= LoopDelay + 4 * MaxIo
BY PeriodsAssumption

\* A tick of the clock spends nothing, nor does a younger age.
LEMMA OneTick ==
  ASSUME NEW age \in Nat, NEW left \in Nat,
         NEW age1 \in Nat, NEW left1 \in Nat,
         \/ age1 <= age + 1 /\ left1 = left - 1
         \/ age1 <= age /\ left1 <= left
  PROVE  /\ age + left \in Nat /\ age1 + left1 \in Nat
         /\ age1 + left1 <= age + left
OBVIOUS

\* The sum of two numbers is a number.
LEMMA Sums == \A m, n \in Nat : m + n \in Nat
OBVIOUS

-----------------------------------------------------------------------------
\* Type correctness.

\* The initial states are of the right types.
LEMMA TypeInit == Init => TypeOK
<1> SUFFICES ASSUME Init PROVE TypeOK
  OBVIOUS
<1>1. TaskTypes
  BY TickModAssumption, PeriodsAssumption, LevelsAssumption
     DEF Init, Ticks, TaskTypes
<1>2. QueueTypes
  BY DEF Init, QueueTypes
<1>3. MemoryTypes
  <2>1. rom \in Records
    BY RecordsAssumption DEF Init
  <2>2. acked \in Int \cup {NoTarget}
    BY <2>1, WordsAreWords DEF Init, Records
  <2>3. asked \subseteq Int
    BY <2>1 DEF Init, Records
  <2> QED
    BY <2>1, <2>2, <2>3 DEF Init, MemoryTypes
<1>4. AgeTypes /\ BoundTypes
  BY PeriodsAssumption DEF Init, AgeTypes, BoundTypes
<1> QED
  BY <1>1, <1>2, <1>3, <1>4 DEF TypeOK

\* A step of the task, of the clock or of the world keeps the task's types.
LEMMA TaskTypesStep == TypeOK /\ [Next]_vars => TaskTypes'
<1> SUFFICES ASSUME TypeOK, [Next]_vars PROVE TaskTypes'
  OBVIOUS
<1> USE DEF TypeOK, TaskTypes
<1>1. CASE ReadTarget
  <2>1. target' \in Nat
    BY <1>1, WordsAreWords DEF ReadTarget, MemoryTypes, Records
  <2> QED
    BY <1>1, <2>1 DEF ReadTarget
<1>2. CASE PeekQueues
  <2>1. targetQueue # NoTarget => Clamp(targetQueue) \in Nat
    BY ClampInRange, LevelsAssumption DEF QueueTypes
  <2>2. rem' \in Nat
    BY <1>2, PeriodsAssumption DEF PeekQueues
  <2> QED
    BY <1>2, <2>1, <2>2 DEF PeekQueues, QueueTypes
<1>3. CASE WriteData
  BY <1>3, PeriodsAssumption DEF WriteData, task
<1>4. CASE WriteCrc
  BY <1>4 DEF WriteCrc, task
<1>5. CASE OpenValve
  BY <1>5, PeriodsAssumption DEF OpenValve, Delay
<1>6. CASE CloseValve
  BY <1>6, PeriodsAssumption DEF CloseValve, Delay
<1>7. CASE LeaveValve
  BY <1>7, PeriodsAssumption DEF LeaveValve, Delay, task
<1>8. CASE Tick
  <2>1. tick' \in Ticks
    BY <1>8, SinceNextTick DEF Tick
  <2>2. rem' \in Nat
    BY <1>8 DEF Tick
  <2> QED
    BY <1>8, <2>1, <2>2 DEF Tick, task
<1>9. CASE \E c \in Readings : Publish(c)
  BY <1>9 DEF Publish, task
<1>10. CASE \E t \in Commands : Command(t)
  BY <1>10 DEF Command, task
<1>11. CASE Restart
  <2>1. 0 \in Ticks
    BY TickModAssumption DEF Ticks
  <2>2. rem' \in Nat /\ target' \in Nat
    BY <1>11, PeriodsAssumption, LevelsAssumption DEF Restart
  <2> QED
    BY <1>11, <2>1, <2>2 DEF Restart
<1>12. CASE UNCHANGED vars
  BY <1>12 DEF vars, task
<1> QED
  BY <1>1, <1>2, <1>3, <1>4, <1>5, <1>6, <1>7, <1>8, <1>9, <1>10, <1>11,
     <1>12 DEF Next, Run, Control

\* Every step keeps the types of the queues.
LEMMA QueueTypesStep == TypeOK /\ [Next]_vars => QueueTypes'
<1> SUFFICES ASSUME TypeOK, [Next]_vars PROVE QueueTypes'
  OBVIOUS
<1> USE DEF TypeOK, QueueTypes
<1>1. CASE ReadTarget
  <2>1. target' \in Nat
    BY <1>1, WordsAreWords
       DEF ReadTarget, TaskTypes, MemoryTypes, Records
  <2> QED
    BY <1>1, <2>1 DEF ReadTarget
<1>2. CASE \E c \in Readings : Publish(c)
  BY <1>2 DEF Publish
<1>3. CASE \E t \in Commands : Command(t)
  BY <1>3, LevelsAssumption DEF Command
<1>4. CASE Restart
  BY <1>4 DEF Restart
<1>5. CASE UNCHANGED <<dataQueue, targetQueue>>
  BY <1>5
<1>6. PeekQueues \/ WriteData \/ WriteCrc => UNCHANGED <<dataQueue, targetQueue>>
  BY DEF PeekQueues, WriteData, WriteCrc
<1>7. Control \/ Tick => UNCHANGED <<dataQueue, targetQueue>>
  BY DEF Control, OpenValve, CloseValve, LeaveValve, Tick
<1>8. UNCHANGED vars => UNCHANGED <<dataQueue, targetQueue>>
  BY DEF vars
<1> QED
  BY <1>1, <1>2, <1>3, <1>4, <1>5, <1>6, <1>7, <1>8 DEF Next, Run

\* What a power cut makes of a record is a record.
LEMMA TornIsRecord == TypeOK /\ Torn => rom' \in Records
<1> SUFFICES ASSUME TypeOK, Torn PROVE rom' \in Records
  OBVIOUS
<1>1. rom \in Records /\ target \in Nat
  BY DEF TypeOK, MemoryTypes, TaskTypes
<1>2. Mixed(Word(target), rom.data) \in Words
  BY <1>1, WordsAreWords DEF Records
<1>3. CASE rom' = [rom EXCEPT !.crc = Garbled]
  BY <1>1, <1>3 DEF Records
<1>4. ASSUME NEW d \in {rom.data, Mixed(Word(target), rom.data)} \cup TornWords,
             NEW e \in {FALSE, rom.end},
             rom' = [rom EXCEPT !.data = d, !.end = e]
      PROVE  rom' \in Records
  <2>1. d \in Words /\ e \in BOOLEAN
    BY <1>1, <1>2, RecordsAssumption DEF Records
  <2> QED
    BY <1>1, <1>4, <2>1 DEF Records
<1> QED
  BY <1>3, <1>4 DEF Torn

\* Every step keeps the types of the record and of its history.
LEMMA MemoryTypesStep == TypeOK /\ [Next]_vars => MemoryTypes'
<1> SUFFICES ASSUME TypeOK, [Next]_vars PROVE MemoryTypes'
  OBVIOUS
<1> USE DEF TypeOK, MemoryTypes
<1>1. rom = [data |-> rom.data, end |-> rom.end, crc |-> rom.crc]
      /\ rom.data \in Words
      /\ rom.end \in BOOLEAN
      /\ rom.crc \in Int \cup {Erased, Garbled}
  BY DEF Records
<1>2. /\ target \in Nat
      /\ Word(target) \in Words /\ Word(target) \in Nat
      /\ Mixed(Word(target), rom.data) \in Words
  BY <1>1, WordsAreWords DEF TaskTypes
<1>3. CASE WriteData
  <2>1. CASE rom' = [rom EXCEPT !.data = Word(target), !.end = TRUE]
    <3>1. rom' = [data |-> Word(target), end |-> TRUE, crc |-> rom.crc]
      BY <1>1, <2>1
    <3> QED
      BY <1>1, <1>2, <1>3, <3>1 DEF WriteData, Records
  <2>2. CASE \E d \in {rom.data, Mixed(Word(target), rom.data)} :
                rom' = [rom EXCEPT !.data = d]
    <3>1. rom' \in Records
      BY <1>1, <1>2, <2>2 DEF Records
    <3> QED
      BY <1>3, <3>1 DEF WriteData
  <2> QED
    BY <1>3, <2>1, <2>2 DEF WriteData
<1>4. CASE WriteCrc
  <2>1. \E c \in Int \cup {Erased, Garbled} : rom' = [rom EXCEPT !.crc = c]
    BY <1>1, <1>2, <1>4 DEF WriteCrc
  <2>2. rom' \in Records
    BY <1>1, <2>1 DEF Records
  <2>3. acked' \in Int \cup {NoTarget} /\ asked' \subseteq Int
    BY <1>2, <1>4 DEF WriteCrc
  <2> QED
    BY <1>4, <2>2, <2>3 DEF WriteCrc
<1>5. CASE PeekQueues
  <2>1. targetQueue # NoTarget => Clamp(targetQueue) \in Int
    BY ClampInRange, LevelsAssumption DEF QueueTypes
  <2> QED
    BY <1>5, <2>1 DEF PeekQueues
<1>6. CASE Restart
  <2>1. CASE Torn
    BY <1>6, <2>1, TornIsRecord DEF Restart
  <2>2. CASE UNCHANGED rom
    BY <1>6, <2>2 DEF Restart
  <2> QED
    BY <1>6, <2>1, <2>2 DEF Restart
<1>7. CASE UNCHANGED memory
  BY <1>7 DEF memory
<1>8. /\ ReadTarget \/ Control \/ Tick => UNCHANGED memory
      /\ \A c : Publish(c) \/ Command(c) => UNCHANGED memory
      /\ UNCHANGED vars => UNCHANGED memory
  BY DEF ReadTarget, Control, OpenValve, CloseValve, LeaveValve, Tick,
         Publish, Command, vars
<1> QED
  BY <1>3, <1>4, <1>5, <1>6, <1>7, <1>8 DEF Next, Run

\* Every step keeps the types of the ages and of the bounds.
LEMMA HistoryTypesStep ==
  TypeOK /\ [Next]_vars => AgeTypes' /\ BoundTypes'
<1> SUFFICES ASSUME TypeOK, [Next]_vars PROVE AgeTypes' /\ BoundTypes'
  OBVIOUS
<1> USE DEF TypeOK, AgeTypes, BoundTypes
<1>1. 0 \in 0 .. AgeCap
  BY PeriodsAssumption
<1>2. Fault => BoundTypes'
  BY PeriodsAssumption DEF Fault
<1>3. UNCHANGED mishaps => BoundTypes'
  BY DEF mishaps
<1>4. UNCHANGED ages => AgeTypes'
  BY DEF ages
<1>5. CASE ReadTarget
  BY <1>1, <1>2, <1>3, <1>5 DEF ReadTarget, Reassess
<1>6. CASE PeekQueues
  BY <1>3, <1>4, <1>6 DEF PeekQueues
<1>7. CASE WriteData \/ WriteCrc
  BY <1>2, <1>3, <1>4, <1>7 DEF WriteData, WriteCrc
<1>8. CASE OpenValve \/ CloseValve
  BY <1>1, <1>3, <1>8 DEF OpenValve, CloseValve
<1>9. CASE LeaveValve
  BY <1>3, <1>4, <1>9 DEF LeaveValve
<1>10. CASE Tick
  <2>1. AgeTypes'
    BY <1>1, <1>10, OlderAge DEF Tick
  <2> QED
    BY <1>3, <1>10, <2>1 DEF Tick
<1>11. CASE \E c : Publish(c) \/ Command(c)
  BY <1>1, <1>3, <1>11 DEF Publish, Command, Reassess
<1>12. CASE Restart
  <2>1. BoundTypes'
    BY <1>12, PeriodsAssumption DEF Restart
  <2> QED
    BY <1>1, <1>12, <2>1 DEF Restart
<1>13. CASE UNCHANGED vars
  BY <1>3, <1>4, <1>13 DEF vars
<1> QED
  BY <1>5, <1>6, <1>7, <1>8, <1>9, <1>10, <1>11, <1>12, <1>13
     DEF Next, Run, Control

\* Every step keeps the types.
LEMMA TypeStep == TypeOK /\ [Next]_vars => TypeOK'
BY TaskTypesStep, QueueTypesStep, MemoryTypesStep, HistoryTypesStep
   DEF TypeOK

\* Every variable always has its type.
THEOREM TypeCorrect == Spec => []TypeOK
BY TypeInit, TypeStep, PTL DEF Spec

-----------------------------------------------------------------------------
\* The inductive invariant.

\* It holds at the first boot.
LEMMA IInvInit == Init => IInv
<1> SUFFICES ASSUME Init PROVE IInv
  OBVIOUS
<1>1. TypeOK
  BY TypeInit
<1>2. Since(tick, retryStamp) = 0
  BY <1>1, SinceNow DEF Init, TypeOK, TaskTypes
<1>3. BlockedTimes /\ Peeked
  BY DEF Init, BlockedTimes, Peeked
<1>4. DoseBudget /\ PauseAge /\ EnoughBudget
  BY <1>2 DEF Init, DoseBudget, PauseAge, EnoughBudget
<1> QED
  BY <1>1, <1>3, <1>4 DEF IInv

\* No step is blocked longer than its budget.
LEMMA BlockedTimesStep == IInv /\ [Next]_vars => BlockedTimes'
<1> SUFFICES ASSUME IInv, [Next]_vars PROVE BlockedTimes'
  OBVIOUS
<1> USE DEF IInv, BlockedTimes
<1>1. rem \in Nat /\ rem' \in Nat
  BY TaskTypesStep DEF TypeOK, TaskTypes
<1>2. CASE ReadTarget
  BY <1>2, PeriodsAssumption DEF ReadTarget
<1>3. CASE PeekQueues
  BY <1>3, PeriodsAssumption DEF PeekQueues
<1>4. CASE WriteData
  BY <1>4, PeriodsAssumption DEF WriteData
<1>5. CASE WriteCrc
  BY <1>5 DEF WriteCrc
<1>6. CASE Control
  BY <1>6, PeriodsAssumption
     DEF Control, OpenValve, CloseValve, LeaveValve, Delay
<1>7. CASE Tick
  BY <1>1, <1>7, PeriodsAssumption DEF Tick
<1>8. CASE \E c : Publish(c) \/ Command(c)
  BY <1>8 DEF Publish, Command
<1>9. CASE Restart
  BY <1>9 DEF Restart
<1>10. CASE UNCHANGED vars
  BY <1>10 DEF vars
<1> QED
  BY <1>2, <1>3, <1>4, <1>5, <1>6, <1>7, <1>8, <1>9, <1>10 DEF Next, Run

\* Past the peeks there are data and a clamped target.
LEMMA PeekedStep == IInv /\ [Next]_vars => Peeked'
<1> SUFFICES ASSUME IInv, [Next]_vars PROVE Peeked'
  OBVIOUS
<1> USE DEF IInv, Peeked
<1>1. \A n \in Nat : n # NoTarget
  BY LevelsAssumption
<1>2. \A c \in Readings : c # NoData
  BY LevelsAssumption
<1>3. CASE ReadTarget
  <2>1. target' \in Nat
    BY <1>3, TaskTypesStep DEF TaskTypes
  <2> QED
    BY <1>1, <1>3, <2>1 DEF ReadTarget
<1>4. CASE PeekQueues
  <2>1. targetQueue \in Nat
    BY <1>4 DEF PeekQueues, TypeOK, QueueTypes
  <2> QED
    BY <1>4, <2>1, ClampInRange DEF PeekQueues
<1>5. CASE WriteData \/ WriteCrc
  BY <1>5 DEF WriteData, WriteCrc, task
<1>6. CASE Control
  BY <1>6 DEF Control, OpenValve, CloseValve, LeaveValve, Delay
<1>7. CASE Tick
  BY <1>7 DEF Tick, task
<1>8. CASE \E c \in Readings : Publish(c)
  BY <1>2, <1>8 DEF Publish, task
<1>9. CASE \E t \in Commands : Command(t)
  BY <1>1, <1>9, LevelsAssumption DEF Command, task
<1>10. CASE Restart
  BY <1>10 DEF Restart
<1>11. CASE UNCHANGED vars
  BY <1>11 DEF vars, task
<1> QED
  BY <1>3, <1>4, <1>5, <1>6, <1>7, <1>8, <1>9, <1>10, <1>11 DEF Next, Run

\* The budget of a dose: each step of the task spends no more of it than the
\* next step is left with, and the check in case VALVE_OPEN refills it only
\* when the valve's timeout has not expired.
LEMMA DoseBudgetStep == IInv /\ [Next]_vars => DoseBudget'
<1> SUFFICES ASSUME IInv, [Next]_vars PROVE DoseBudget'
  OBVIOUS
<1> USE DEF IInv, DoseBudget
<1>1. /\ ValveTimeout \in Nat /\ LoopDelay \in Nat /\ MaxIo \in Nat
      /\ AgeCap \in Nat /\ MaxDose < AgeCap /\ MaxDose < TickMod
      /\ TickMod \in Nat /\ MaxDose \in Nat
      /\ MaxDose = ValveTimeout + LoopDelay + 2 * MaxIo
  BY PeriodsAssumption, TickModAssumption DEF MaxDose
<1>2. /\ rem \in Nat /\ tick \in Ticks /\ valveStamp \in Ticks
      /\ valve \in {0, 1} /\ openFor \in 0 .. AgeCap
  BY DEF TypeOK, TaskTypes, AgeTypes
<1>3. CASE ReadTarget
  BY <1>3 DEF ReadTarget
<1>4. CASE PeekQueues
  <2>1. /\ rem' \in 0 .. MaxIo /\ pc' = "write_data"
        /\ rem = 0 /\ pc = "loop"
    BY <1>4 DEF PeekQueues, Peeked
  <2>2. UNCHANGED <<tick, state, valveStamp, valve, dataQueue, openFor>>
    BY <1>4 DEF PeekQueues, ages
  <2>3. valve = 1 => openFor + rem' + MaxIo <= MaxDose
                     /\ openFor + rem' <= MaxDose
    BY <1>1, <1>2, <2>1
  <2> QED
    BY <1>1, <1>2, <2>1, <2>2, <2>3
<1>5. CASE WriteData
  <2>1. /\ rem' \in 0 .. MaxIo /\ pc' = "write_crc"
        /\ rem = 0 /\ pc = "write_data"
        /\ UNCHANGED <<tick, state, valveStamp, valve, dataQueue, openFor>>
    BY <1>5 DEF WriteData, task, ages
  <2>2. valve = 1 => openFor + rem' <= MaxDose
    BY <1>1, <1>2, <2>1
  <2> QED
    BY <1>1, <1>2, <2>1, <2>2
<1>6. CASE WriteCrc
  BY <1>1, <1>2, <1>6 DEF WriteCrc, task, ages
<1>7. CASE OpenValve
  <2>1. Since(tick, tick) = 0
    BY <1>2, SinceNow
  <2> QED
    BY <1>1, <1>2, <1>7, <2>1 DEF OpenValve, Delay, Peeked
<1>8. CASE CloseValve
  BY <1>8 DEF CloseValve
<1>9. CASE LeaveValve
  <2>1. valve = 1 => openFor <= ValveTimeout
    BY <1>1, <1>2, <1>9, SinceNextTick
       DEF LeaveValve, MayClose, Expired
  <2>2. UNCHANGED <<tick, state, valveStamp, valve, dataQueue, openFor>>
        /\ pc' = "loop" /\ rem' = LoopDelay
    BY <1>9 DEF LeaveValve, Delay, task, ages
  <2> QED
    BY <1>1, <1>2, <2>1, <2>2
<1>10. CASE Tick
  <2>1. CASE valve = 0
    BY <1>10, <2>1 DEF Tick, task
  <2>2. CASE valve = 1
    <3>1. rem > 0 /\ rem' = rem - 1
      BY <1>2, <1>10, <2>2 DEF Tick
    <3>2. openFor' = openFor + 1
      BY <1>1, <1>2, <1>10, <2>2, <3>1, OlderAge DEF Tick
    <3>3. Since(tick', valveStamp) = openFor + 1
      <4>1. Since(tick, valveStamp) = openFor /\ openFor + 1 <= MaxDose
        BY <1>1, <1>2, <2>2, <3>1
      <4>2. Since(tick, valveStamp) + 1 < TickMod
        BY <1>1, <1>2, <4>1
      <4>3. tick' = NextTick(tick)
        BY <1>10 DEF Tick
      <4> QED
        BY <1>2, <4>1, <4>2, <4>3, SinceNextTick
    <3>4. UNCHANGED <<pc, state, valveStamp, valve, dataQueue>>
      BY <1>10 DEF Tick, task
    <3> QED
      BY <1>1, <1>2, <2>2, <3>1, <3>2, <3>3, <3>4
  <2> QED
    BY <1>2, <2>1, <2>2
<1>11. CASE \E c \in Readings : Publish(c)
  <2>1. \A c \in Readings : c # NoData
    BY LevelsAssumption
  <2> QED
    BY <1>11, <2>1 DEF Publish, task
<1>12. CASE \E t \in Commands : Command(t)
  BY <1>12 DEF Command, task
<1>13. CASE Restart
  BY <1>13 DEF Restart
<1>14. CASE UNCHANGED vars
  BY <1>14 DEF vars, task, ages
<1> QED
  BY <1>3, <1>4, <1>5, <1>6, <1>7, <1>8, <1>9, <1>10, <1>11, <1>12, <1>13,
     <1>14 DEF Next, Run, Control

\* The pause: a wrapped tick counter or a power cycle only makes the time
\* stamp younger than the pause really is.
LEMMA PauseAgeStep == IInv /\ [Next]_vars => PauseAge'
<1> SUFFICES ASSUME IInv, [Next]_vars PROVE PauseAge'
  OBVIOUS
<1> USE DEF IInv, PauseAge
<1>1. /\ tick \in Ticks /\ retryStamp \in Ticks /\ 0 \in Ticks
      /\ valve \in {0, 1} /\ closedFor \in 0 .. AgeCap /\ AgeCap \in Nat
  BY TickModAssumption, PeriodsAssumption
     DEF TypeOK, TaskTypes, AgeTypes, Ticks
<1>2. Since(tick, tick) = 0 /\ Since(0, 0) = 0
  BY <1>1, SinceNow
<1>3. UNCHANGED <<valve, closedFor, tick, retryStamp>> => PauseAge'
  OBVIOUS
<1>4. CASE ReadTarget \/ PeekQueues \/ WriteData \/ WriteCrc
  BY <1>3, <1>4 DEF ReadTarget, PeekQueues, WriteData, WriteCrc, task, ages
<1>5. CASE OpenValve
  BY <1>5 DEF OpenValve
<1>6. CASE CloseValve
  BY <1>1, <1>2, <1>6 DEF CloseValve
<1>7. CASE LeaveValve
  BY <1>3, <1>7 DEF LeaveValve, task, ages
<1>8. CASE Tick
  <2>1. CASE valve = 1
    BY <1>8, <2>1 DEF Tick, task
  <2>2. CASE valve = 0
    <3>1. closedFor' = Older(closedFor) /\ valve' = 0
          /\ tick' = NextTick(tick) /\ retryStamp' = retryStamp
      BY <1>8, <2>2 DEF Tick, task
    <3>2. Since(tick, retryStamp) \in Ticks
          /\ \/ Since(tick', retryStamp) = Since(tick, retryStamp) + 1
             \/ Since(tick', retryStamp) = 0
      <4>1. Since(tick, retryStamp) \in Ticks
        BY <1>1, SinceNextTick
      <4>2. \/ Since(tick, retryStamp) + 1 < TickMod
            \/ Since(tick, retryStamp) + 1 = TickMod
        BY <4>1, TickModAssumption DEF Ticks
      <4> QED
        BY <1>1, <3>1, <4>1, <4>2, SinceNextTick
    <3>3. closedFor' \in 0 .. AgeCap
          /\ (closedFor' = closedFor + 1 \/ closedFor' = AgeCap)
      BY <1>1, <3>1, OlderAge
    <3>4. closedFor = AgeCap => closedFor' = AgeCap
      BY <1>1, <3>1 DEF Older
    <3> QED
      BY <1>1, <2>2, <3>1, <3>2, <3>3, <3>4 DEF Ticks
  <2> QED
    BY <1>1, <2>1, <2>2
<1>9. CASE \E c : Publish(c) \/ Command(c)
  BY <1>3, <1>9 DEF Publish, Command, task
<1>10. CASE Restart
  BY <1>1, <1>2, <1>10 DEF Restart
<1>11. CASE UNCHANGED vars
  BY <1>3, <1>11 DEF vars, task, ages
<1> QED
  BY <1>4, <1>5, <1>6, <1>7, <1>8, <1>9, <1>10, <1>11 DEF Next, Run, Control

\* Enough CO2: a task that peeked before there was enough has at most two
\* transactions to go before it peeks again, a task that knows closes the
\* valve at the end of this turn.
LEMMA EnoughBudgetStep == IInv /\ [Next]_vars => EnoughBudget'
<1> SUFFICES ASSUME IInv, [Next]_vars PROVE EnoughBudget'
  OBVIOUS
<1> DEFINE Shown == <<pc, valve, sample, target>>
<1>1. LoopDelay \in Nat /\ MaxIo \in Nat /\ AgeCap \in Nat
  BY PeriodsAssumption
<1>2. rem \in Nat /\ valve \in {0, 1} /\ enoughFor \in Nat
      /\ enoughFor \in 0 .. AgeCap
  BY <1>1 DEF IInv, TypeOK, TaskTypes, AgeTypes
<1>3. UNCHANGED <<dataQueue, targetQueue>> => Enough' = Enough
  BY DEF Enough
<1>4. ~Enough => enoughFor = 0
  BY DEF IInv, EnoughBudget
<1>5. CASE ReadTarget
  <2>1. valve' = 0
    BY <1>2, <1>5 DEF ReadTarget, IInv, DoseBudget
  <2> QED
    BY <1>5, <2>1 DEF ReadTarget, Reassess, EnoughBudget
<1>6. CASE PeekQueues
  <2>1. /\ rem' \in 0 .. MaxIo /\ pc' = "write_data"
        /\ UNCHANGED <<valve, enoughFor, dataQueue, targetQueue>>
    BY <1>6 DEF PeekQueues, ages, IInv, Peeked
  <2>2. sample' < target' => enoughFor = 0
    <3>1. /\ dataQueue # NoData /\ targetQueue # NoTarget
          /\ sample' = dataQueue /\ target' = Clamp(targetQueue)
      BY <1>6 DEF PeekQueues, IInv, Peeked
    <3>2. dataQueue \in Int /\ targetQueue \in Nat
      BY <3>1, LevelsAssumption DEF IInv, TypeOK, QueueTypes
    <3>3. Clamp(targetQueue) \in Int
      BY <3>2, ClampInRange, LevelsAssumption
    <3> QED
      BY <1>4, <3>1, <3>2, <3>3 DEF Enough
  <2>3. valve = 1 => enoughFor <= LoopDelay + 2 * MaxIo
    BY <1>1, <1>2, <1>6 DEF PeekQueues, IInv, EnoughBudget
  <2>6. rem' \in Nat /\ rem' <= MaxIo
    BY <1>1, <2>1
  <2>4. sample' < target' => enoughFor + rem' <= MaxIo
    BY <1>2, <2>2, <2>6, OneTransaction
  <2>5. valve = 1 => /\ enoughFor + rem' <= LoopDelay + 3 * MaxIo
                     /\ enoughFor + rem' <= LoopDelay + 4 * MaxIo
    BY <1>2, <2>3, <2>6, OneTransaction
  <2> QED
    BY <1>3, <1>4, <2>1, <2>4, <2>5 DEF EnoughBudget
<1>7. CASE WriteData
  <2>1. /\ rem' \in 0 .. MaxIo /\ pc' = "write_crc"
        /\ UNCHANGED <<valve, enoughFor, dataQueue, targetQueue,
                       sample, target>>
    BY <1>7 DEF WriteData, task, ages
  <2>2. /\ sample < target => enoughFor <= MaxIo
        /\ valve = 1 => enoughFor <= LoopDelay + 3 * MaxIo
    BY <1>1, <1>2, <1>7 DEF WriteData, IInv, EnoughBudget
  <2>5. rem' \in Nat /\ rem' <= MaxIo
    BY <1>1, <2>1
  <2>3. sample < target => enoughFor + rem' <= 2 * MaxIo
    BY <1>2, <2>2, <2>5, OneTransaction
  <2>4. valve = 1 => enoughFor + rem' <= LoopDelay + 4 * MaxIo
    BY <1>2, <2>2, <2>5, OneTransaction
  <2> QED
    BY <1>3, <1>4, <2>1, <2>3, <2>4 DEF EnoughBudget
<1>8. CASE WriteCrc
  <2>1. /\ rem = 0 /\ rem' = 0 /\ pc = "write_crc" /\ pc' = "control"
        /\ UNCHANGED <<valve, enoughFor, dataQueue, targetQueue,
                       sample, target>>
    BY <1>8 DEF WriteCrc, task, ages
  <2>2. /\ sample < target => enoughFor <= 2 * MaxIo
        /\ valve = 1 => enoughFor + rem <= LoopDelay + 4 * MaxIo
    BY <1>1, <1>2, <2>1 DEF IInv, EnoughBudget
  <2> QED
    BY <1>3, <1>4, <2>1, <2>2 DEF EnoughBudget
<1>9. CASE Control
  <2>1. /\ pc = "control" /\ pc' = "loop" /\ rem' = LoopDelay
        /\ UNCHANGED <<enoughFor, dataQueue, targetQueue>>
    BY <1>9
       DEF Control, OpenValve, CloseValve, LeaveValve, Delay, ages
  <2>2. valve' = 1 => sample < target
    <3>1. sample \in Int /\ target \in Nat
      BY <2>1, LevelsAssumption DEF IInv, Peeked, TypeOK, TaskTypes
    <3>2. CASE OpenValve
      BY <3>1, <3>2, LevelsAssumption DEF OpenValve, MayOpen
    <3>3. CASE CloseValve
      BY <3>3 DEF CloseValve
    <3>4. CASE LeaveValve
      <4>1. valve' = 1 => ~MayClose
        BY <3>4 DEF LeaveValve, IInv, DoseBudget
      <4> QED
        BY <3>1, <4>1 DEF MayClose
    <3> QED
      BY <1>9, <3>2, <3>3, <3>4 DEF Control
  <2>3. sample < target => enoughFor <= 2 * MaxIo
    BY <2>1 DEF IInv, EnoughBudget
  <2>4. valve' = 1 => /\ enoughFor + rem' <= LoopDelay + 2 * MaxIo
                      /\ enoughFor + rem' <= LoopDelay + 4 * MaxIo
    BY <1>1, <1>2, <2>1, <2>2, <2>3
  <2> QED
    BY <1>3, <1>4, <2>1, <2>4 DEF EnoughBudget
<1>10. ASSUME UNCHANGED Shown,
              rem' \in Nat, enoughFor' \in Nat,
              ~Enough' => enoughFor' = 0,
              \/ enoughFor' + rem' <= enoughFor + rem
                 /\ (pc = "control" => enoughFor' <= enoughFor)
              \/ enoughFor' = 0 /\ rem' <= rem
              \/ pc \in {"read", "loop"} /\ valve = 0
       PROVE  EnoughBudget'
  <2>1. UNCHANGED <<pc, valve, sample, target>>
    BY <1>10
  <2>2. CASE pc \in {"read", "loop"} /\ valve = 0
    BY <1>10, <2>1, <2>2 DEF EnoughBudget
  <2>3. CASE /\ enoughFor' + rem' <= enoughFor + rem
             /\ pc = "control" => enoughFor' <= enoughFor
    <3>1. /\ enoughFor + rem \in Nat /\ enoughFor' + rem' \in Nat
          /\ enoughFor' + rem' <= enoughFor + rem
      BY <1>2, <1>10, <2>3, Sums
    <3>2. \A n \in Nat :
             enoughFor + rem <= n => enoughFor' + rem' <= n
      BY <3>1
    <3>3. pc = "control" => \A n \in Nat : enoughFor <= n => enoughFor' <= n
      BY <1>2, <1>10, <2>3
    <3>4. /\ MaxIo \in Nat /\ 2 * MaxIo \in Nat
          /\ LoopDelay + 2 * MaxIo \in Nat
          /\ LoopDelay + 3 * MaxIo \in Nat
          /\ LoopDelay + 4 * MaxIo \in Nat
      BY <1>1
    <3> QED
      BY <1>10, <2>1, <3>2, <3>3, <3>4 DEF IInv, EnoughBudget
  <2>4. CASE enoughFor' = 0 /\ rem' <= rem
    <3>1. /\ rem' \in Nat /\ rem' <= rem
          /\ enoughFor' \in Nat /\ enoughFor' <= enoughFor
      BY <1>2, <1>10, <2>4
    <3>2. enoughFor' + rem' <= enoughFor + rem
      BY <1>2, <3>1, OneTick
    <3> QED
      BY <2>3, <3>1, <3>2
  <2> QED
    BY <1>10, <2>2, <2>3, <2>4
<1>11. CASE Tick
  <2>1. UNCHANGED Shown /\ rem' \in Nat /\ Enough' = Enough
    BY <1>2, <1>3, <1>11 DEF Tick, task
  <2>2. enoughFor' \in Nat /\ enoughFor' <= enoughFor + 1
        /\ (~Enough => enoughFor' = 0)
    BY <1>1, <1>2, <1>11, OlderAge DEF Tick
  <2>3. CASE rem > 0
    <3>1. rem' = rem - 1
      BY <1>11, <2>3 DEF Tick
    <3>2. enoughFor' + rem' <= enoughFor + rem
      BY <1>2, <2>1, <2>2, <3>1, OneTick
    <3>3. pc # "control"
      BY <2>3 DEF IInv, BlockedTimes
    <3> QED
      BY <1>10, <2>1, <2>2, <3>2, <3>3
  <2>4. CASE rem = 0
    <3>1. pc = "loop" /\ dataQueue = NoData
      BY <1>11, <2>4 DEF Tick
    <3>2. valve = 0
      BY <1>2, <3>1 DEF IInv, DoseBudget
    <3> QED
      BY <1>10, <2>1, <2>2, <3>1, <3>2
  <2> QED
    BY <1>2, <2>3, <2>4
<1>12. CASE \E c : Publish(c) \/ Command(c)
  <2>1. UNCHANGED Shown /\ rem' = rem /\ Reassess
    BY <1>12 DEF Publish, Command, task
  <2>2. enoughFor' \in {0, enoughFor} /\ (~Enough' => enoughFor' = 0)
    BY <2>1 DEF Reassess
  <2>3. /\ enoughFor' \in Nat /\ enoughFor' <= enoughFor
        /\ rem' \in Nat /\ rem' <= rem
    BY <1>2, <2>1, <2>2
  <2>4. enoughFor' + rem' <= enoughFor + rem
    BY <1>2, <2>3, OneTick
  <2> QED
    BY <1>2, <1>10, <2>1, <2>2, <2>3, <2>4
<1>13. CASE Restart
  BY <1>13 DEF Restart, EnoughBudget
<1>14. CASE UNCHANGED vars
  BY <1>3, <1>14 DEF vars, task, ages, IInv, EnoughBudget
<1> QED
  BY <1>5, <1>6, <1>7, <1>8, <1>9, <1>11, <1>12, <1>13, <1>14 DEF Next, Run

\* The inductive invariant holds in every reachable state.
THEOREM Inductive == Spec => []IInv
<1>1. IInv /\ [Next]_vars => IInv'
  BY TypeStep, BlockedTimesStep, PeekedStep, DoseBudgetStep, PauseAgeStep,
     EnoughBudgetStep DEF IInv
<1> QED
  BY <1>1, IInvInit, PTL DEF Spec

-----------------------------------------------------------------------------
\* What follows from it.

\* A dose never lasts longer than the valve's timeout, one turn of the loop
\* and the two EEPROM transactions of setTarget.
THEOREM DosesAreBounded == Spec => []DoseLength
<1>1. IInv => DoseLength
  <2> SUFFICES ASSUME IInv, valve = 1 PROVE openFor <= MaxDose
    BY DEF DoseLength
  <2>1. MaxDose \in Nat /\ AgeCap \in Nat
    BY PeriodsAssumption DEF MaxDose
  <2>2. openFor \in Nat /\ rem \in Nat
    BY <2>1 DEF IInv, TypeOK, TaskTypes, AgeTypes
  <2>3. openFor + rem <= MaxDose
    BY DEF IInv, DoseBudget
  <2> QED
    BY <2>1, <2>2, <2>3
<1> QED
  BY <1>1, Inductive, PTL

\* Once CO2 is at the target and stays there the valve is closed within one
\* turn of the loop and four EEPROM transactions.
THEOREM ValveClosesPromptly == Spec => []PromptClose
<1>1. IInv => PromptClose
  <2> SUFFICES ASSUME IInv, valve = 1
               PROVE  enoughFor <= LoopDelay + 4 * MaxIo
    BY DEF PromptClose
  <2>1. LoopDelay + 4 * MaxIo \in Nat /\ AgeCap \in Nat
    BY PeriodsAssumption
  <2>2. enoughFor \in Nat /\ rem \in Nat
    BY <2>1 DEF IInv, TypeOK, TaskTypes, AgeTypes
  <2>3. enoughFor + rem <= LoopDelay + 4 * MaxIo
    BY DEF IInv, EnoughBudget
  <2> QED
    BY <2>1, <2>2, <2>3
<1> QED
  BY <1>1, Inductive, PTL

\* The target the valve is operated with is in the permitted range, whatever
\* was stored and asked for: the unsigned subtraction cannot wrap.
THEOREM TargetInRange == Spec => []ControlTargetInRange
<1>1. IInv => ControlTargetInRange
  BY DEF IInv, Peeked, ControlTargetInRange
<1> QED
  BY <1>1, Inductive, PTL

-----------------------------------------------------------------------------
\* The controller implements ValveDosing.

\* Every step is a step of ValveDosing or leaves the doses alone.
LEMMA DosingStep ==
  IInv /\ IInv' /\ [Next]_vars => [Dosing!Next]_<<valve, openFor, closedFor>>
<1> SUFFICES ASSUME IInv, IInv', [Next]_vars
             PROVE  [Dosing!Next]_<<valve, openFor, closedFor>>
  OBVIOUS
<1>1. /\ valve \in {0, 1} /\ rem \in Nat
      /\ closedFor \in 0 .. AgeCap /\ openFor \in 0 .. AgeCap
      /\ AgeCap \in Nat /\ RetryTimeout \in Nat /\ AgeCap > RetryTimeout
  BY PeriodsAssumption DEF IInv, TypeOK, TaskTypes, AgeTypes
<1>2. valve = 1 <=> state = "VALVE_OPEN"
  BY DEF IInv, DoseBudget
<1>3. valve = 0 => openFor = 0
  BY DEF IInv, DoseBudget
<1>4. CASE OpenValve
  <2>1. valve = 0 /\ Since(tick, retryStamp) > RetryTimeout
    BY <1>1, <1>2, <1>4 DEF OpenValve, MayOpen, Expired
  <2>2. Since(tick, retryStamp) \in Nat
    BY SinceNextTick DEF IInv, TypeOK, TaskTypes, Ticks
  <2>3. closedFor > RetryTimeout
    BY <1>1, <2>1, <2>2 DEF IInv, PauseAge
  <2> QED
    BY <1>4, <2>1, <2>3 DEF OpenValve, Dosing!Next, Dosing!Open
<1>5. CASE CloseValve
  BY <1>2, <1>5 DEF CloseValve, Dosing!Next, Dosing!Close
<1>6. CASE Tick
  <2>1. UNCHANGED valve
    BY <1>6 DEF Tick
  <2>2. CASE valve = 0
    <3>1. openFor' = openFor /\ closedFor' = Older(closedFor)
      BY <1>3, <1>6, <2>2 DEF Tick
    <3> QED
      BY <2>1, <2>2, <3>1
         DEF Dosing!Next, Dosing!PassClosed, Dosing!Older, Older
  <2>3. CASE valve = 1
    <3>1. closedFor' = closedFor /\ openFor' = Older(openFor)
      BY <1>6, <2>3 DEF Tick, IInv, PauseAge
    <3>2. rem > 0
      BY <1>6, <2>3 DEF Tick, IInv, DoseBudget
    <3>3. openFor + rem <= MaxDose /\ MaxDose \in Nat
      BY <2>3, PeriodsAssumption DEF IInv, DoseBudget, MaxDose
    <3>4. openFor < MaxDose
      BY <1>1, <3>2, <3>3
    <3> QED
      BY <2>1, <2>3, <3>1, <3>4
         DEF Dosing!Next, Dosing!PassOpen, Dosing!Older, Older
  <2> QED
    BY <1>1, <2>2, <2>3
<1>7. CASE Restart
  <2>1. CASE valve = 0
    BY <1>3, <1>7, <2>1 DEF Restart
  <2>2. CASE valve = 1
    BY <1>7, <2>2 DEF Restart, Dosing!Next, Dosing!Close
  <2> QED
    BY <1>1, <2>1, <2>2
<1>8. CASE UNCHANGED <<valve, openFor, closedFor>>
  BY <1>8
<1>9. /\ ReadTarget \/ PeekQueues \/ WriteData \/ WriteCrc \/ LeaveValve
           => UNCHANGED <<valve, openFor, closedFor>>
      /\ \A c : Publish(c) \/ Command(c)
           => UNCHANGED <<valve, openFor, closedFor>>
      /\ UNCHANGED vars => UNCHANGED <<valve, openFor, closedFor>>
  BY DEF ReadTarget, PeekQueues, WriteData, WriteCrc, LeaveValve, Publish,
         Command, vars, ages
<1> QED
  BY <1>4, <1>5, <1>6, <1>7, <1>8, <1>9 DEF Next, Run, Control

\* The doses and the pauses of the controller are those ValveDosing allows,
\* for every value of the timeouts, of the time an EEPROM transaction takes
\* and of the width of the tick counter, and over power cycles.
THEOREM Implementation == Spec => ImplementsDosing
<1>1. Init => Dosing!Init
  BY DEF Init, Dosing!Init
<1>2. Spec => []IInv
  BY Inductive
<1> QED
  BY <1>1, <1>2, DosingStep, PTL
     DEF Spec, ImplementsDosing, Dosing!Spec, Dosing!dosing


-----------------------------------------------------------------------------
\* The stored target.

\* What both transactions have stored, "acked", is in the EEPROM: while a turn
\* of the loop writes it once more, target is the same, so that no step of the
\* two transactions takes it away.
Kept ==
    /\ acked # NoTarget /\ HasNoZeroByte(acked) => Stored(acked)
    /\ pc \in {"write_data", "write_crc"} /\ acked # NoTarget => acked = target
    /\ pc = "write_crc" /\ acked # NoTarget => wrote
    /\ pc = "write_crc" /\ wrote => rom.data = target /\ rom.end

\* The CRC cell has the CRC of a target that was asked for and that no write
\* finished later has replaced, or of no record at all.
CrcAsked ==
    /\ rom.crc \in asked \cup {Erased, Garbled}
    /\ pc \in {"write_data", "write_crc"} => target \in asked

\* setTarget writes a target in the permitted range as it is.
LEMMA WordInRange ==
  ASSUME NEW t \in Co2Min .. Co2Max
  PROVE  Word(t) = t
<1>1. t \in Nat /\ t < 65536
  BY LevelsAssumption
<1> QED
  BY <1>1, SMT DEF Word

\* A record that reads back and has no zero byte is stored with its CRC.
LEMMA ReadIsStored ==
  ASSUME NEW r \in Records, ReadOk(r), HasNoZeroByte(r.data)
  PROVE  r.end /\ r.crc = r.data
<1>1. r.data \in Nat
  BY WordsAreWords DEF Records
<1>2. r.data < 256 => r.data \div 256 = 0
  BY <1>1, SMT
<1> QED
  BY <1>2 DEF ReadOk, HasNoZeroByte

LEMMA KeptInit == Init => Kept /\ CrcAsked
<1> SUFFICES ASSUME Init PROVE Kept /\ CrcAsked
  OBVIOUS
<1>1. acked # NoTarget => ReadOk(rom) /\ acked = rom.data
  BY DEF Init
<1>2. rom \in Records /\ pc = "read"
  BY RecordsAssumption DEF Init
<1>3. CrcAsked
  BY <1>2 DEF Init, CrcAsked
<1> QED
  BY <1>1, <1>2, <1>3, ReadIsStored DEF Kept, Stored

LEMMA KeptStep == IInv /\ Kept /\ [Next]_vars => Kept'
<1> SUFFICES ASSUME IInv, Kept, [Next]_vars PROVE Kept'
  OBVIOUS
<1>0. rom \in Records /\ NoTarget \notin Int
  BY LevelsAssumption DEF IInv, TypeOK, MemoryTypes
<1>1. CASE PeekQueues
  BY <1>1 DEF PeekQueues, Kept, Stored
<1>2. CASE WriteData
  <2>1. Word(target) = target
    BY <1>2, WordInRange DEF WriteData, IInv, Peeked
  <2>2. /\ pc = "write_data" /\ pc' = "write_crc" /\ target' = target
    BY <1>2 DEF WriteData, task
  <2>3. CASE /\ rom' = [rom EXCEPT !.data = Word(target), !.end = TRUE]
             /\ wrote' = TRUE /\ acked' = acked
    <3>1. rom'.data = target /\ rom'.end = TRUE /\ rom'.crc = rom.crc
      BY <1>0, <2>1, <2>3 DEF Records
    <3> QED
      BY <2>2, <2>3, <3>1 DEF Kept, Stored
  <2>4. CASE wrote' = FALSE /\ acked' = NoTarget
    BY <2>4 DEF Kept
  <2> QED
    BY <1>2, <2>3, <2>4 DEF WriteData
<1>3. CASE WriteCrc
  <2>1. Word(target) = target
    BY <1>3, WordInRange DEF WriteCrc, IInv, Peeked
  <2>2. /\ pc = "write_crc" /\ pc' = "control" /\ target' = target
    BY <1>3 DEF WriteCrc, task
  <2>3. CASE /\ rom' = [rom EXCEPT !.crc = Word(target)]
             /\ acked' = IF wrote THEN target ELSE acked
    <3>1. rom'.data = rom.data /\ rom'.end = rom.end /\ rom'.crc = target
      BY <1>0, <2>1, <2>3 DEF Records
    <3> QED
      BY <2>2, <2>3, <3>1 DEF Kept, Stored
  <2>4. CASE acked' = NoTarget
    BY <2>2, <2>4 DEF Kept
  <2> QED
    BY <1>3, <2>3, <2>4 DEF WriteCrc
<1>4. CASE ReadTarget \/ Control
  BY <1>4 DEF ReadTarget, Control, OpenValve, CloseValve, LeaveValve, Delay,
     memory, Kept, Stored
<1>5. CASE Restart
  <2>1. pc' = "read" /\ (UNCHANGED <<rom, acked>> \/ acked' = NoTarget)
    BY <1>5 DEF Restart
  <2> QED
    BY <2>1 DEF Kept, Stored
<1>6. CASE UNCHANGED <<pc, target, rom, wrote, acked>>
  BY <1>6 DEF Kept, Stored
<1>7. /\ Tick => UNCHANGED <<pc, target, rom, wrote, acked>>
      /\ \A c : Publish(c) \/ Command(c)
           => UNCHANGED <<pc, target, rom, wrote, acked>>
      /\ UNCHANGED vars => UNCHANGED <<pc, target, rom, wrote, acked>>
  BY DEF Tick, Publish, Command, vars, task, memory
<1> QED
  BY <1>1, <1>2, <1>3, <1>4, <1>5, <1>6, <1>7 DEF Next, Run

LEMMA CrcAskedStep == IInv /\ CrcAsked /\ [Next]_vars => CrcAsked'
<1> SUFFICES ASSUME IInv, CrcAsked, [Next]_vars PROVE CrcAsked'
  OBVIOUS
<1>0. rom \in Records
  BY DEF IInv, TypeOK, MemoryTypes
<1>1. CASE PeekQueues
  BY <1>1 DEF PeekQueues, CrcAsked
<1>2. CASE WriteData
  <2>1. rom'.crc = rom.crc
    BY <1>0, <1>2 DEF WriteData, Records
  <2> QED
    BY <1>2, <2>1 DEF WriteData, task, CrcAsked
<1>3. CASE WriteCrc
  <2>1. Word(target) = target
    BY <1>3, WordInRange DEF WriteCrc, IInv, Peeked
  <2>2. target \in asked /\ pc' = "control"
    BY <1>3 DEF WriteCrc, CrcAsked
  <2>3. CASE rom' = [rom EXCEPT !.crc = Word(target)]
    <3>1. rom'.crc = target
      BY <1>0, <2>1, <2>3 DEF Records
    <3>2. target \in asked'
      BY <1>3, <2>2 DEF WriteCrc
    <3> QED
      BY <2>2, <3>1, <3>2 DEF CrcAsked
  <2>4. CASE /\ \E c \in {rom.crc, Garbled} : rom' = [rom EXCEPT !.crc = c]
             /\ asked' = asked
    <3>1. rom'.crc \in {rom.crc, Garbled}
      BY <1>0, <2>4 DEF Records
    <3> QED
      BY <2>2, <2>4, <3>1 DEF CrcAsked
  <2> QED
    BY <1>3, <2>3, <2>4 DEF WriteCrc
<1>4. CASE ReadTarget \/ Control
  BY <1>4 DEF ReadTarget, Control, OpenValve, CloseValve, LeaveValve, Delay,
     memory, CrcAsked
<1>5. CASE Restart
  <2>1. pc' = "read" /\ asked' = asked
    BY <1>5 DEF Restart
  <2>2. rom' = rom \/ rom'.crc \in {rom.crc, Garbled}
    BY <1>0, <1>5 DEF Restart, Torn, Records
  <2> QED
    BY <2>1, <2>2 DEF CrcAsked
<1>6. CASE UNCHANGED <<pc, target, rom, asked>>
  BY <1>6 DEF CrcAsked
<1>7. /\ Tick => UNCHANGED <<pc, target, rom, asked>>
      /\ \A c : Publish(c) \/ Command(c) => UNCHANGED <<pc, target, rom, asked>>
      /\ UNCHANGED vars => UNCHANGED <<pc, target, rom, asked>>
  BY DEF Tick, Publish, Command, vars, task, memory
<1> QED
  BY <1>1, <1>2, <1>3, <1>4, <1>5, <1>6, <1>7 DEF Next, Run

\* The first boot and every later one find m_Co2Target at its default.
Fresh == pc = "read" => target = DefaultTarget

LEMMA FreshStep == Fresh /\ [Next]_vars => Fresh'
BY DEF Fresh, Next, Run, ReadTarget, PeekQueues, WriteData, WriteCrc, Control,
   OpenValve, CloseValve, LeaveValve, Delay, Tick, Publish, Command, Restart,
   task, vars

\* What run makes of the record at a boot (Co2Controller.cpp:66) whose
\* transactions succeed.  A target that setTarget has stored with both of its
\* transactions (Co2Controller.cpp:49) is the target again, unless the power
\* failed during a transaction or a write cycle of a later turn.  And a cut at
\* any point, those included, leaves the last target stored, one begun since,
\* or the default, for the CRC refuses everything else (Eeprom.cpp:71).  Both
\* parts hold for targets without a zero byte.
THEOREM RestoresTheTarget == Spec => RestoredAfterRestart
<1>1. IInv /\ Kept /\ CrcAsked /\ Fresh /\ [Next]_vars =>
       [Boots /\ faults' = faults =>
          /\ acked # NoTarget /\ HasNoZeroByte(acked) => target' = acked
          /\ HasNoZeroByte(target') => target' \in asked \cup {DefaultTarget}]_vars
  <2> SUFFICES ASSUME IInv, Kept, CrcAsked, Fresh, Next, Boots, faults' = faults
      PROVE
          /\ acked # NoTarget /\ HasNoZeroByte(acked) => target' = acked
          /\ HasNoZeroByte(target') => target' \in asked \cup {DefaultTarget}
    BY Zenon
  <2>1. ReadTarget
    BY DEF Boots, Next, Run, ReadTarget, PeekQueues, WriteData, WriteCrc, Control,
           OpenValve, CloseValve, LeaveValve, Tick, Publish, Command, Restart
  <2>2. faults \in Nat
    BY PeriodsAssumption DEF IInv, TypeOK, BoundTypes
  <2>3. ~Fault
    BY <2>2 DEF Fault
  <2>4. target' = IF ReadOk(rom) THEN rom.data ELSE target
    BY <2>1, <2>3 DEF ReadTarget
  <2>5. ASSUME acked # NoTarget, HasNoZeroByte(acked)
        PROVE  target' = acked
    <3>1. rom.data = acked /\ ReadOk(rom)
      BY <2>5 DEF Kept, Stored, ReadOk
    <3> QED
      BY <2>4, <3>1
  <2>6. ASSUME HasNoZeroByte(target') PROVE target' \in asked \cup {DefaultTarget}
    <3>1. CASE ReadOk(rom)
      <4>1. rom \in Records /\ HasNoZeroByte(rom.data)
        BY <2>4, <2>6, <3>1 DEF IInv, TypeOK, MemoryTypes
      <4>2. rom.crc = rom.data /\ rom.data \in Int
        <5>1. rom.crc = rom.data
          BY <3>1, <4>1, ReadIsStored
        <5>2. rom.data \in Words /\ Words \subseteq Int
          BY <4>1, WordsAreWords DEF Records
        <5> QED
          BY <5>1, <5>2
      <4>3. rom.data \notin {Erased, Garbled}
        BY <4>2, LevelsAssumption
      <4> QED
        BY <2>4, <3>1, <4>2, <4>3 DEF CrcAsked
    <3>2. CASE ~ReadOk(rom)
      BY <2>1, <2>4, <3>2 DEF Fresh, ReadTarget
    <3> QED
      BY <3>1, <3>2
  <2> QED
    BY <2>5, <2>6
<1>2. Kept /\ IInv /\ [Next]_vars => Kept'
  BY KeptStep
<1>3. CrcAsked /\ IInv /\ [Next]_vars => CrcAsked'
  BY CrcAskedStep
<1>4. Init => Fresh
  BY DEF Init, Fresh
<1> QED
  BY <1>1, <1>2, <1>3, <1>4, KeptInit, FreshStep, Inductive, PTL
     DEF Spec, RestoredAfterRestart

=============================================================================
