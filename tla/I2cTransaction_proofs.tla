------------------------- MODULE I2cTransaction_proofs -------------------------
(***************************************************************************)
(* Theorems about I2cTransaction, for any tasks, transactions and depth of  *)
(* the FIFOs, and any number of calls that time out.                        *)
(***************************************************************************)
EXTENDS I2cTransaction, FiniteSetTheorems, SequenceTheorems, TLAPS

-----------------------------------------------------------------------------
\* The inductive invariant.

\* The k-th command of a transaction.
Command(q, k) ==
    [op |-> IF k <= q.w THEN "w" ELSE "r", byte |-> IF k <= q.w THEN k ELSE 0,
     restart |-> q.w > 0 /\ k = q.w + 1, stop |-> k = q.w + q.r]

\* The commands that have been made; the FIFO of a controller that has aborted
\* did not take all of them.
Made == (drv.req.w - drv.w) + (drv.req.r - drv.r)

\* The counters of the driver stay in the transaction, reads are made after all
\* writes, and the restart is due between the two.
Counters ==
    /\ drv.w <= drv.req.w /\ drv.r <= drv.req.r /\ drv.n <= drv.req.r
    /\ drv.r < drv.req.r => drv.w = 0
    /\ drv.restart <=> drv.req.w > 0 /\ drv.w = 0 /\ drv.r = drv.req.r /\ drv.r > 0
    /\ isr = "r" => drv.w = 0

\* The wire has seen the first commands, and the FIFO holds the next ones.
InTurn ==
    /\ IF hw.aborted THEN hw.fifo = <<>> /\ Len(log.wire) <= Made
       ELSE Len(log.wire) + Len(hw.fifo) = Made
    /\ \A k \in 1 .. Len(log.wire) : log.wire[k] = Command(drv.req, k)
    /\ \A k \in 1 .. Len(hw.fifo) :
          hw.fifo[k] = Command(drv.req, Len(log.wire) + k)

IInv == TypeOK /\ Counters /\ InTurn

-----------------------------------------------------------------------------
\* Types.

DrvType == [w : Nat, r : Nat, n : Nat, restart : BOOLEAN,
            req : Requests \cup {NoRequest}, owner : Tasks \cup {Free}]
HwType  == [fifo : Seq(Commands), rx : Seq(Nat), stopping : BOOLEAN,
            stopDet : BOOLEAN, aborted : BOOLEAN,
            mask : SUBSET {"tx", "rx", "stop"}, lag : 0 .. MaxLag]
LogType == [wire : Seq(Commands), got : Seq(Nat), overrun : BOOLEAN]

\* The parts of TypeOK.
LEMMA Types ==
  ASSUME TypeOK
  PROVE  /\ drv \in DrvType /\ hw \in HwType /\ log \in LogType
         /\ drv.req.w \in Nat /\ drv.req.r \in Nat /\ Depth \in Nat
         /\ drv.w \in Nat /\ drv.r \in Nat /\ drv.n \in Nat
<1>1. drv \in DrvType /\ hw \in HwType /\ log \in LogType
  BY DEF TypeOK, DrvType, HwType, LogType
<1>2. drv.req \in [w : Nat, r : Nat]
  BY <1>1, BusAssumption DEF DrvType, NoRequest
<1> QED
  BY <1>1, <1>2, BusAssumption DEF DrvType

\* The commands of a transaction are commands.
LEMMA CommandType ==
  ASSUME NEW q \in [w : Nat, r : Nat], NEW k \in Nat
  PROVE  Command(q, k) \in Commands
<1> DEFINE b == q.w > 0 /\ k = q.w + 1
           s == k = q.w + q.r
           o == IF k <= q.w THEN "w" ELSE "r"
           y == IF k <= q.w THEN k ELSE 0
<1>1. o \in {"w", "r"} /\ y \in Nat
  OBVIOUS
<1>2. b \in BOOLEAN /\ s \in BOOLEAN
  BY Zenon
<1>3. Command(q, k) = [op |-> o, byte |-> y, restart |-> b, stop |-> s]
  BY Zenon DEF Command
<1> HIDE DEF b, s, o, y
<1> QED
  BY <1>1, <1>2, <1>3 DEF Commands

\* Requested has these commands in turn.
LEMMA RequestedCommands ==
  ASSUME NEW q \in [w : Nat, r : Nat]
  PROVE  /\ Requested(q) \in Seq(Commands) /\ Len(Requested(q)) = q.w + q.r
         /\ \A k \in 1 .. q.w + q.r : Requested(q)[k] = Command(q, k)
<1>1. Requested(q) = [k \in 1 .. q.w + q.r |-> Command(q, k)]
  BY Zenon DEF Requested, Command
<1>2. q.w + q.r \in Nat
  OBVIOUS
<1>3. \A k \in 1 .. q.w + q.r : Command(q, k) \in Commands
  BY <1>2, CommandType
<1> HIDE DEF Command
<1>4. Requested(q) \in [1 .. q.w + q.r -> Commands]
  BY <1>1, <1>3
<1> QED
  BY <1>1, <1>2, <1>4

-----------------------------------------------------------------------------
\* One command more.

\* The command that goes into the FIFO is the next one of the transaction.
LEMMA PushedInTurn ==
  ASSUME TypeOK, InTurn, Made \in Nat, Len(hw.fifo) < Depth,
         NEW cmd, cmd = Command(drv.req, Made + 1), Push(cmd),
         Made' = Made + 1, drv'.req = drv.req, log' = log
  PROVE  /\ InTurn'
         /\ hw' \in HwType /\ Len(hw'.fifo) <= Depth /\ hw'.rx = hw.rx
<1> USE Types
<1>1. drv.req \in [w : Nat, r : Nat] /\ cmd \in Commands
  <2>1. drv.req \in [w : Nat, r : Nat]
    BY BusAssumption DEF DrvType, NoRequest
  <2> QED
    BY <2>1, CommandType
<1>2. /\ hw.fifo \in Seq(Commands) /\ log.wire \in Seq(Commands)
      /\ Len(hw.fifo) \in Nat /\ Len(log.wire) \in Nat
  BY DEF HwType, LogType
<1>3. CASE hw.aborted
  <2>1. hw' = hw
    BY <1>3 DEF Push
  <2> QED
    BY <1>2, <1>3, <2>1 DEF InTurn
<1>4. CASE ~hw.aborted
  <2>1. hw' = [hw EXCEPT !.fifo = Append(hw.fifo, cmd)]
    BY <1>4 DEF Push
  <2>2. /\ hw'.fifo = Append(hw.fifo, cmd) /\ hw'.rx = hw.rx
        /\ ~hw'.aborted
    BY <1>4, <2>1 DEF HwType
  <2>3. /\ Append(hw.fifo, cmd) \in Seq(Commands)
        /\ Len(Append(hw.fifo, cmd)) = Len(hw.fifo) + 1
        /\ Append(hw.fifo, cmd)[Len(hw.fifo) + 1] = cmd
        /\ \A k \in 1 .. Len(hw.fifo) : Append(hw.fifo, cmd)[k] = hw.fifo[k]
    BY <1>1, <1>2
  <2>4. hw' \in HwType
    BY <2>1, <2>3 DEF HwType
  <2>5. Len(log.wire) + Len(hw.fifo) = Made
    BY <1>4 DEF InTurn
  <2>6. PICK a \in Nat, b \in Nat : a = Len(log.wire) /\ b = Len(hw.fifo)
    BY <1>2
  <2>sum. a + b = Made /\ a + (b + 1) = Made + 1
    <3>1. a + b = Made
      BY <2>5, <2>6
    <3> QED
      BY <3>1
  <2>7. \A k \in 1 .. Len(hw'.fifo) :
           hw'.fifo[k] = Command(drv.req, Len(log.wire) + k)
    <3> SUFFICES ASSUME NEW k \in 1 .. Len(hw.fifo) + 1
                 PROVE  hw'.fifo[k] = Command(drv.req, Len(log.wire) + k)
      BY <2>2, <2>3
    <3>1. CASE k = Len(hw.fifo) + 1
      <4>1. Len(log.wire) + k = Made + 1
        BY <2>6, <2>sum, <3>1
      <4> QED
        BY <2>2, <2>3, <3>1, <4>1
    <3>2. CASE k # Len(hw.fifo) + 1
      <4>1. k \in 1 .. Len(hw.fifo)
        BY <1>2, <3>2
      <4> QED
        BY <2>2, <2>3, <4>1 DEF InTurn
    <3> QED
      BY <3>1, <3>2
  <2>9. InTurn'
    <3>1. Len(log.wire) + Len(hw'.fifo) = Made'
      <4>1. Len(hw'.fifo) = b + 1
        BY <2>2, <2>3, <2>6
      <4> QED
        BY <2>6, <2>sum, <4>1
    <3>2. \A k \in 1 .. Len(log.wire) : log.wire[k] = Command(drv.req, k)
      BY DEF InTurn
    <3> QED
      BY <2>2, <2>7, <3>1, <3>2 DEF InTurn
  <2> QED
    BY <1>2, <2>2, <2>3, <2>4, <2>9
<1> QED
  BY <1>3, <1>4

\* Writes are made while no read has been, and the restart is not due yet.
LEMMA FillWriteStep ==
  ASSUME IInv, FillWrite, isr # "r",
         UNCHANGED <<tasks, nvic, isr, log, timeouts>>
  PROVE  IInv'
<1> DEFINE cmd == [op |-> "w", byte |-> drv.req.w - drv.w + 1,
                   restart |-> drv.restart, stop |-> drv.w = 1 /\ drv.r = 0]
           due == drv.w = 1 /\ drv.r > 0
<1>1. TypeOK /\ Counters /\ InTurn
  BY DEF IInv
<1>2. PICK w \in Nat, r \in Nat, qw \in Nat, qr \in Nat :
         w = drv.w /\ r = drv.r /\ qw = drv.req.w /\ qr = drv.req.r
  BY <1>1, Types
<1>3. w > 0 /\ w <= qw /\ r = qr /\ ~drv.restart /\ drv.restart \in BOOLEAN
      /\ Len(hw.fifo) < Depth
  BY <1>1, <1>2, Types DEF FillWrite, Counters, DrvType
<1>4. Made = qw - w /\ Made \in Nat
  <2>1. Made = (qw - w) + (qr - r)
    BY <1>2 DEF Made
  <2>2. qr - r = 0 /\ qw - w \in Nat
    BY <1>3
  <2> QED
    BY <2>1, <2>2
<1>5. cmd = Command(drv.req, Made + 1)
  <2> DEFINE b == drv.req.w > 0 /\ Made + 1 = drv.req.w + 1
             s == Made + 1 = drv.req.w + drv.req.r
             t == drv.w = 1 /\ drv.r = 0
  <2>1. Made + 1 = qw - w + 1 /\ Made + 1 <= qw
    BY <1>2, <1>3, <1>4
  <2>2. ~b /\ (s <=> t)
    <3>1. /\ b <=> qw > 0 /\ qw - w + 1 = qw + 1
          /\ s <=> qw - w + 1 = qw + qr
          /\ t <=> w = 1 /\ r = 0
      BY <1>2, <2>1
    <3> QED
      BY <1>3, <3>1
  <2>3. b \in BOOLEAN /\ s \in BOOLEAN /\ t \in BOOLEAN
    BY Zenon
  <2>4. Command(drv.req, Made + 1) =
           [op |-> IF Made + 1 <= drv.req.w THEN "w" ELSE "r",
            byte |-> IF Made + 1 <= drv.req.w THEN Made + 1 ELSE 0,
            restart |-> b, stop |-> s]
    BY Zenon DEF Command
  <2>5. cmd = [op |-> "w", byte |-> drv.req.w - drv.w + 1,
               restart |-> drv.restart, stop |-> t]
    BY Zenon
  <2> HIDE DEF cmd, b, s, t
  <2>6. b = drv.restart /\ s = t
    BY <1>3, <2>2, <2>3
  <2> QED
    BY <1>2, <2>1, <2>4, <2>5, <2>6
<1>6. Push(cmd) /\ drv' = [drv EXCEPT !.w = drv.w - 1, !.restart = due]
  BY Zenon DEF FillWrite
<1>7. due \in BOOLEAN /\ (due <=> w = 1 /\ r > 0)
  BY <1>2, Zenon
<1> HIDE DEF cmd, due
<1>8. /\ drv'.w = w - 1 /\ drv'.r = r /\ drv'.n = drv.n /\ drv'.req = drv.req
      /\ drv'.restart = due /\ drv' \in DrvType
  <2>1. drv.w - 1 \in Nat
    BY <1>2, <1>3
  <2> QED
    BY <1>1, <1>2, <1>6, <1>7, <2>1, Types DEF DrvType
<1>9. Made' = Made + 1
  <2>1. Made' = (qw - (w - 1)) + (qr - r)
    BY <1>2, <1>8 DEF Made
  <2> QED
    BY <1>3, <1>4, <2>1
<1>10. /\ InTurn' /\ hw' \in HwType /\ Len(hw'.fifo) <= Depth
       /\ hw'.rx = hw.rx
  BY <1>1, <1>3, <1>4, <1>5, <1>6, <1>8, <1>9, PushedInTurn
<1>11. TypeOK'
  BY <1>1, <1>8, <1>10 DEF TypeOK, tasks, DrvType, HwType
<1>12. Counters'
  BY <1>1, <1>2, <1>3, <1>7, <1>8, Types DEF Counters
<1> QED
  BY <1>10, <1>11, <1>12 DEF IInv

\* Reads are made when all writes are, the first one with the restart.
LEMMA FillReadStep ==
  ASSUME IInv, FillRead, drv.w = 0,
         UNCHANGED <<tasks, nvic, isr, log, timeouts>>
  PROVE  IInv'
<1> DEFINE cmd == [op |-> "r", byte |-> 0, restart |-> drv.restart,
                   stop |-> drv.r = 1]
<1>1. TypeOK /\ Counters /\ InTurn
  BY DEF IInv
<1>2. PICK r \in Nat, qw \in Nat, qr \in Nat :
         r = drv.r /\ qw = drv.req.w /\ qr = drv.req.r
  BY <1>1, Types
<1>3. r > 0 /\ r <= qr /\ (drv.restart <=> qw > 0 /\ r = qr)
      /\ drv.restart \in BOOLEAN /\ Len(hw.fifo) < Depth
  BY <1>1, <1>2, Types DEF FillRead, Counters, DrvType
<1>4. Made = qw + (qr - r) /\ Made \in Nat
  <2>1. Made = (qw - 0) + (qr - r)
    BY <1>2 DEF Made
  <2> QED
    BY <1>3, <2>1
<1>5. cmd = Command(drv.req, Made + 1)
  <2> DEFINE b == drv.req.w > 0 /\ Made + 1 = drv.req.w + 1
             s == Made + 1 = drv.req.w + drv.req.r
             t == drv.r = 1
  <2>1. ~(Made + 1 <= qw)
    BY <1>3, <1>4
  <2>2. (b <=> drv.restart) /\ (s <=> t)
    <3>1. /\ b <=> qw > 0 /\ qw + (qr - r) + 1 = qw + 1
          /\ s <=> qw + (qr - r) + 1 = qw + qr
          /\ t <=> r = 1
      BY <1>2, <1>4
    <3> QED
      BY <1>3, <3>1
  <2>3. b \in BOOLEAN /\ s \in BOOLEAN /\ t \in BOOLEAN
    BY Zenon
  <2>4. Command(drv.req, Made + 1) =
           [op |-> IF Made + 1 <= drv.req.w THEN "w" ELSE "r",
            byte |-> IF Made + 1 <= drv.req.w THEN Made + 1 ELSE 0,
            restart |-> b, stop |-> s]
    BY Zenon DEF Command
  <2>5. cmd = [op |-> "r", byte |-> 0, restart |-> drv.restart, stop |-> t]
    BY Zenon
  <2> HIDE DEF cmd, b, s, t
  <2>6. b = drv.restart /\ s = t
    BY <1>3, <2>2, <2>3
  <2> QED
    BY <1>2, <2>1, <2>4, <2>5, <2>6
<1>6. Push(cmd) /\ drv' = [drv EXCEPT !.r = drv.r - 1, !.restart = FALSE]
  BY Zenon DEF FillRead
<1> HIDE DEF cmd
<1>7. /\ drv'.r = r - 1 /\ drv'.w = 0 /\ drv'.n = drv.n /\ drv'.req = drv.req
      /\ ~drv'.restart /\ drv' \in DrvType
  <2>1. drv.r - 1 \in Nat
    BY <1>2, <1>3
  <2> QED
    BY <1>1, <1>2, <1>6, <2>1, Types DEF DrvType
<1>8. Made' = Made + 1
  <2>1. Made' = (qw - 0) + (qr - (r - 1))
    BY <1>2, <1>7 DEF Made
  <2> QED
    BY <1>3, <1>4, <2>1
<1>9. /\ InTurn' /\ hw' \in HwType /\ Len(hw'.fifo) <= Depth
      /\ hw'.rx = hw.rx
  BY <1>1, <1>3, <1>4, <1>5, <1>6, <1>7, <1>8, PushedInTurn
<1>10. TypeOK'
  BY <1>1, <1>7, <1>9 DEF TypeOK, tasks, DrvType, HwType
<1>11. Counters'
  BY <1>1, <1>2, <1>3, <1>7, Types DEF Counters
<1> QED
  BY <1>9, <1>10, <1>11 DEF IInv

-----------------------------------------------------------------------------
\* The other steps.

LEMMA InitIInv == Init => IInv
<1> SUFFICES ASSUME Init PROVE IInv
  OBVIOUS
<1> USE BusAssumption DEF Init, NoRequest, Fresh
<1>1. TypeOK
  <2>1. drv \in DrvType
    BY DEF DrvType
  <2>2. hw \in HwType /\ log \in LogType
    BY DEF HwType, LogType
  <2>3. /\ Len(hw.fifo) <= Depth /\ Len(hw.rx) <= Depth
        /\ timeouts \in 0 .. MaxTimeouts
    OBVIOUS
  <2>4. /\ pc \in [Tasks -> {"idle", "fill", "wait", "done"}]
        /\ notified \in [Tasks -> BOOLEAN] /\ count \in [Tasks -> Nat]
        /\ nvic \in BOOLEAN
    OBVIOUS
  <2> QED
    BY <2>1, <2>2, <2>3, <2>4 DEF TypeOK, DrvType, HwType, LogType
<1>2. Counters /\ InTurn
  BY DEF Counters, InTurn, Made
<1> QED
  BY <1>1, <1>2 DEF IInv

\* What leaves the commands alone leaves them in turn.
LEMMA KeptInTurn ==
  ASSUME InTurn, drv'.w = drv.w, drv'.r = drv.r, drv'.req = drv.req,
         hw'.fifo = hw.fifo, hw'.aborted = hw.aborted, log'.wire = log.wire
  PROVE  InTurn'
<1>1. Made' = Made
  BY DEF Made
<1> QED
  BY <1>1 DEF InTurn

\* A transaction begins with nothing made.
LEMMA BeginStep ==
  ASSUME IInv, NEW t \in Tasks, NEW q \in Requests, Begin(t, q)
  PROVE  IInv'
<1>1. q.w \in Nat /\ q.r \in Nat
  BY BusAssumption
<1>2. drv' = [w |-> q.w, r |-> q.r, n |-> q.r, restart |-> FALSE,
              req |-> q, owner |-> t]
  BY DEF Begin
<1>3. PICK s \in BOOLEAN :
         hw' = [fifo |-> <<>>, rx |-> <<>>, stopping |-> FALSE,
                stopDet |-> s, aborted |-> FALSE,
                mask |-> {"tx", "rx", "stop"}, lag |-> 0]
  <2>1. (hw.stopDet \/ hw.stopping \/ hw.fifo # <<>>) \in BOOLEAN
    BY Zenon
  <2> QED
    BY <2>1, Zenon DEF Begin, Reset
<1>4. log' = [wire |-> <<>>, got |-> <<>>, overrun |-> FALSE]
  BY DEF Begin, Fresh
<1>5. drv' \in DrvType /\ hw' \in HwType /\ log' \in LogType
  BY <1>1, <1>2, <1>3, <1>4, BusAssumption DEF DrvType, HwType, LogType
<1>6. TypeOK'
  <2>1. Len(hw'.fifo) <= Depth /\ Len(hw'.rx) <= Depth
    BY <1>3, BusAssumption
  <2>2. /\ holder' \in Tasks \cup {Free}
        /\ pc' \in [Tasks -> {"idle", "fill", "wait", "done"}]
        /\ UNCHANGED <<notified, count, nvic, isr, timeouts>>
    BY DEF IInv, TypeOK, Begin
  <2> QED
    BY <1>5, <2>1, <2>2 DEF IInv, TypeOK, DrvType, HwType, LogType
<1>7. Counters'
  BY <1>1, <1>2 DEF Begin, Counters
<1>8. InTurn'
  <2>1. Made' = (q.w - q.w) + (q.r - q.r)
    BY <1>2 DEF Made
  <2>2. Made' = 0
    BY <1>1, <2>1
  <2> QED
    BY <1>3, <1>4, <2>2 DEF InTurn
<1> QED
  BY <1>6, <1>7, <1>8 DEF IInv

\* The steps of a task in its transaction.
LEMMA TaskStep ==
  ASSUME IInv, NEW t \in Tasks, Task(t) \/ TimeOut(t)
  PROVE  IInv'
<1>0. TypeOK /\ Counters /\ InTurn
  BY DEF IInv
<1>1. CASE Fill(t)
  <2>1. isr # "r" /\ UNCHANGED <<tasks, nvic, isr, log, timeouts>>
    BY <1>1 DEF Fill
  <2>2. CASE First = "w"
    BY <1>1, <2>1, <2>2, FillWriteStep DEF Fill
  <2>3. CASE First # "w"
    <3>1. drv.w = 0
      BY <1>0, <2>3, Types DEF First, Counters
    <3> QED
      BY <1>1, <2>1, <2>3, <3>1, FillReadStep DEF Fill
  <2> QED
    BY <2>2, <2>3
<1>2. CASE Wait(t) \/ End(t)
  <2>1. UNCHANGED <<notified, count, drv, isr, hw, log, timeouts>>
    BY <1>2 DEF Wait, End
  <2>2. /\ holder' \in Tasks \cup {Free} /\ nvic' \in BOOLEAN
        /\ pc' \in [Tasks -> {"idle", "fill", "wait", "done"}]
    BY <1>0, <1>2 DEF Wait, End, TypeOK
  <2>3. TypeOK'
    BY <1>0, <2>1, <2>2 DEF TypeOK
  <2>4. Counters' /\ InTurn'
    BY <1>0, <2>1 DEF Counters, InTurn, Made
  <2> QED
    BY <2>3, <2>4 DEF IInv
<1>3. CASE Take(t) \/ TimeOut(t)
  <2>1. UNCHANGED <<holder, drv, nvic, isr, hw, log>>
    BY <1>3 DEF Take, TimeOut
  <2>2. Counters' /\ InTurn'
    BY <1>0, <2>1 DEF Counters, InTurn, Made
  <2>3. drv.req.w + drv.req.r - (drv.n + drv.w) \in Nat
    <3>1. PICK w \in Nat, n \in Nat, qw \in Nat, qr \in Nat :
             w = drv.w /\ n = drv.n /\ qw = drv.req.w /\ qr = drv.req.r
      BY <1>0, Types
    <3>2. n <= qr /\ w <= qw
      BY <1>0, <3>1 DEF Counters
    <3>3. qw + qr - (n + w) \in Nat
      BY <3>2
    <3> QED
      BY <3>1, <3>3
  <2>4. /\ notified' \in [Tasks -> BOOLEAN] /\ count' \in [Tasks -> Nat]
        /\ pc' \in [Tasks -> {"idle", "fill", "wait", "done"}]
    <3>1. CASE Take(t)
      <4> DEFINE m == drv.req.w + drv.req.r - (drv.n + drv.w)
      <4>1. /\ notified' = [notified EXCEPT ![t] = FALSE]
            /\ count' = [count EXCEPT ![t] = m]
            /\ pc' = [pc EXCEPT ![t] = "done"]
        BY <3>1 DEF Take
      <4>2. m \in Nat
        BY <2>3
      <4> HIDE DEF m
      <4> QED
        BY <1>0, <4>1, <4>2 DEF TypeOK
    <3>2. CASE TimeOut(t)
      BY <1>0, <3>2 DEF TimeOut, TypeOK
    <3> QED
      BY <1>3, <3>1, <3>2
  <2>5. timeouts' \in 0 .. MaxTimeouts
    <3>1. timeouts' = timeouts \/ (timeouts < MaxTimeouts /\ timeouts' = timeouts + 1)
      BY <1>3 DEF Take, TimeOut
    <3>2. timeouts \in Nat /\ timeouts <= MaxTimeouts /\ MaxTimeouts \in Nat
      BY <1>0, BusAssumption DEF TypeOK
    <3> QED
      BY <3>1, <3>2
  <2>6. TypeOK'
    BY <1>0, <2>1, <2>4, <2>5, SMTT(30) DEF TypeOK
  <2> QED
    BY <2>2, <2>6 DEF IInv
<1> QED
  BY <1>1, <1>2, <1>3 DEF Task

\* The steps of the interrupt handler.
LEMMA IsrStep ==
  ASSUME IInv, Isr
  PROVE  IInv'
<1>0. TypeOK /\ Counters /\ InTurn
  BY DEF IInv
<1>1. CASE Enter
  BY <1>0, <1>1 DEF Enter, tasks, IInv, TypeOK, Counters, InTurn, Made
<1>2. CASE Drain
  <2>1. UNCHANGED <<tasks, nvic, isr, timeouts>>
    BY <1>2 DEF Drain
  <2>2. /\ drv' = [drv EXCEPT !.n = drv.n - 1] /\ drv.n > 0
        /\ hw' = [hw EXCEPT !.rx = Tail(hw.rx)] /\ hw.rx # <<>>
        /\ log' = [log EXCEPT !.got = Append(log.got, Head(hw.rx))]
    BY <1>2 DEF Drain
  <2>3. hw.rx \in Seq(Nat) /\ log.got \in Seq(Nat) /\ Len(hw.rx) \in Nat
    BY <1>0, Types DEF HwType, LogType
  <2>4. /\ Tail(hw.rx) \in Seq(Nat) /\ Len(Tail(hw.rx)) <= Len(hw.rx)
        /\ Append(log.got, Head(hw.rx)) \in Seq(Nat)
    BY <2>2, <2>3
  <2>5. drv.n - 1 \in Nat /\ drv.n - 1 <= drv.req.r
    BY <1>0, <2>2, Types DEF Counters
  <2>6. drv' \in DrvType /\ hw' \in HwType /\ log' \in LogType
    BY <1>0, <2>2, <2>4, <2>5, Types DEF DrvType, HwType, LogType
  <2>7. /\ drv'.w = drv.w /\ drv'.r = drv.r /\ drv'.req = drv.req
        /\ drv'.restart = drv.restart /\ drv'.n = drv.n - 1
        /\ hw'.fifo = hw.fifo /\ hw'.aborted = hw.aborted
        /\ hw'.rx = Tail(hw.rx) /\ log'.wire = log.wire
    BY <1>0, <2>2, Types DEF DrvType, HwType, LogType
  <2>8. Len(hw'.fifo) <= Depth /\ Len(hw'.rx) <= Depth
    <3>1. Len(hw.fifo) <= Depth /\ Len(hw.rx) <= Depth /\ Depth \in Nat
      BY <1>0, Types DEF TypeOK
    <3>2. Len(Tail(hw.rx)) \in Nat
      BY <2>4
    <3> QED
      BY <2>3, <2>4, <2>7, <3>1, <3>2
  <2>9. TypeOK'
    BY <1>0, <2>1, <2>6, <2>8 DEF TypeOK, tasks, DrvType, HwType, LogType
  <2>10. Counters'
    BY <1>0, <2>1, <2>5, <2>7 DEF Counters
  <2> QED
    BY <1>0, <2>7, <2>9, <2>10, KeptInTurn DEF IInv
<1>3. CASE Drained
  <2>1. UNCHANGED <<tasks, drv, nvic, hw, log, timeouts>>
    BY <1>3 DEF Drained
  <2>2. isr' \in {"stop", "w", "r"} /\ (isr' = "r" => drv.w = 0)
    BY <1>0, <1>3, Types DEF Drained
  <2> QED
    BY <1>0, <2>1, <2>2 DEF tasks, IInv, TypeOK, Counters, InTurn, Made
<1>4. CASE IsrFill
  <2>1. UNCHANGED <<tasks, nvic, isr, log, timeouts>> /\ isr \in {"w", "r"}
    BY <1>4 DEF IsrFill
  <2>2. CASE isr = "w"
    BY <1>4, <2>1, <2>2, FillWriteStep DEF IsrFill
  <2>3. CASE isr = "r"
    BY <1>0, <1>4, <2>1, <2>3, FillReadStep DEF IsrFill, Counters
  <2> QED
    BY <2>1, <2>2, <2>3
<1>5. CASE IsrFilled \/ Leave
  <2>1. /\ UNCHANGED <<holder, pc, count, drv, nvic, log, timeouts>>
        /\ isr' \in {"stop", "out"}
        /\ notified' \in [Tasks -> BOOLEAN]
    <3>1. CASE IsrFilled
      BY <1>0, <3>1 DEF IsrFilled, tasks, TypeOK
    <3>2. CASE Leave
      <4>1. \/ UNCHANGED notified
            \/ notified' = [notified EXCEPT ![drv.owner] = TRUE]
        BY <3>2 DEF Leave
      <4>2. notified' \in [Tasks -> BOOLEAN]
        BY <1>0, <4>1 DEF TypeOK
      <4> QED
        BY <3>2, <4>2 DEF Leave
    <3> QED
      BY <1>5, <3>1, <3>2
  <2>2. /\ hw' \in HwType /\ hw'.fifo = hw.fifo /\ hw'.rx = hw.rx
        /\ hw'.aborted = hw.aborted
    <3>1. hw \in HwType /\ 0 \in 0 .. MaxLag
      BY <1>0, Types, BusAssumption
    <3>2. \/ hw' = hw \/ hw' = [hw EXCEPT !.mask = {"rx", "stop"}]
          \/ hw' = [hw EXCEPT !.lag = 0]
          \/ hw' = [hw EXCEPT !.mask = {}, !.stopDet = FALSE, !.lag = 0]
      BY <1>5 DEF IsrFilled, Leave
    <3> QED
      BY <3>1, <3>2 DEF HwType
  <2>3. TypeOK'
    BY <1>0, <2>1, <2>2 DEF TypeOK, HwType
  <2>4. Counters'
    BY <1>0, <2>1 DEF Counters
  <2> QED
    BY <1>0, <2>1, <2>2, <2>3, <2>4, KeptInTurn DEF IInv
<1> QED
  BY <1>1, <1>2, <1>3, <1>4, <1>5 DEF Isr

\* A read that is counted.
LEMMA ReadsType ==
  ASSUME TypeOK
  PROVE  Reads \in Nat
<1> DEFINE n == Len(log.wire)
           S == {i \in DOMAIN log.wire : log.wire[i].op = "r"}
<1>1. n \in Nat /\ DOMAIN log.wire = 1 .. n
  BY Types DEF LogType
<1>2. IsFiniteSet(1 .. n)
  BY <1>1, FS_Interval
<1>3. S \in SUBSET (1 .. n)
  BY <1>1
<1>4. IsFiniteSet(S)
  BY <1>2, <1>3, FS_Subset
<1> QED
  BY <1>4, FS_CardinalityType DEF Reads

\* The controller is held up no longer than MaxLag steps.
LEMMA LagType ==
  ASSUME TypeOK, Prompt
  PROVE  NextLag \in 0 .. MaxLag
BY Types, BusAssumption DEF HwType, Prompt, NextLag

\* The steps of the controller.
LEMMA BusStep ==
  ASSUME IInv, Bus
  PROVE  IInv'
<1>0. /\ TypeOK /\ Counters /\ InTurn
      /\ hw \in HwType /\ log \in LogType /\ hw.fifo \in Seq(Commands)
      /\ log.wire \in Seq(Commands) /\ hw.rx \in Seq(Nat)
  BY Types DEF IInv, HwType, LogType
<1>1. CASE Execute
  <2> DEFINE cmd == Head(hw.fifo)
             full == Len(hw.rx) = Depth
             rx == IF cmd.op = "w" \/ full THEN hw.rx
                   ELSE Append(hw.rx, Reads + 1)
             over == log.overrun \/ (cmd.op = "r" /\ full)
  <2>1. /\ UNCHANGED <<tasks, drv, nvic, isr, timeouts>>
        /\ hw.fifo # <<>> /\ Prompt
    BY <1>1 DEF Execute
  <2>2. hw' = [hw EXCEPT !.fifo = Tail(hw.fifo), !.stopping = cmd.stop,
                         !.rx = rx, !.lag = NextLag]
    BY <1>1, Zenon DEF Execute
  <2>3. log' = [log EXCEPT !.wire = Append(log.wire, cmd), !.overrun = over]
    BY <1>1, Zenon DEF Execute
  <2>4. over \in BOOLEAN
    BY Zenon
  <2>5. cmd \in Commands /\ cmd.stop \in BOOLEAN
    <3>1. cmd \in Commands
      BY <1>0, <2>1
    <3> QED
      BY <3>1 DEF Commands
  <2>6. rx \in Seq(Nat) /\ Len(rx) <= Depth
    <3>1. Len(hw.rx) \in Nat /\ Len(hw.rx) <= Depth /\ Depth \in Nat
      BY <1>0, Types DEF TypeOK
    <3>2. Append(hw.rx, Reads + 1) \in Seq(Nat)
          /\ Len(Append(hw.rx, Reads + 1)) = Len(hw.rx) + 1
      BY <1>0, ReadsType
    <3> QED
      BY <1>0, <3>1, <3>2
  <2>7. NextLag \in 0 .. MaxLag
    BY <1>0, <2>1, LagType
  <2>8. PICK a \in Nat, b \in Nat : a = Len(log.wire) /\ b + 1 = Len(hw.fifo)
    <3>1. Len(hw.fifo) \in Nat \ {0} /\ Len(log.wire) \in Nat
      BY <1>0, <2>1
    <3>2. Len(hw.fifo) - 1 \in Nat /\ (Len(hw.fifo) - 1) + 1 = Len(hw.fifo)
      BY <3>1
    <3> QED
      BY <3>1, <3>2
  <2>9. /\ Tail(hw.fifo) \in Seq(Commands) /\ Len(Tail(hw.fifo)) = b
        /\ \A k \in 1 .. b : Tail(hw.fifo)[k] = hw.fifo[k + 1]
        /\ cmd = hw.fifo[1]
    <3>1. Len(hw.fifo) - 1 = b
      BY <2>8
    <3> QED
      BY <1>0, <2>1, <3>1
  <2>10. /\ Append(log.wire, cmd) \in Seq(Commands)
         /\ Len(Append(log.wire, cmd)) = a + 1
         /\ Append(log.wire, cmd)[a + 1] = cmd
         /\ \A k \in 1 .. a : Append(log.wire, cmd)[k] = log.wire[k]
    BY <1>0, <2>5, <2>8
  <2> HIDE DEF rx, over, cmd
  <2>11. hw' \in HwType /\ log' \in LogType
    BY <1>0, <2>2, <2>3, <2>4, <2>5, <2>6, <2>7, <2>9, <2>10
       DEF HwType, LogType
  <2>12. /\ hw'.fifo = Tail(hw.fifo) /\ hw'.rx = rx
         /\ hw'.aborted = hw.aborted
         /\ log'.wire = Append(log.wire, cmd)
    BY <1>0, <2>2, <2>3 DEF HwType, LogType
  <2>13. TypeOK'
    <3>1. b + 1 <= Depth /\ Depth \in Nat
      BY <1>0, <2>8, Types DEF TypeOK
    <3>2. Len(hw'.fifo) <= Depth /\ Len(hw'.rx) <= Depth
      BY <2>6, <2>9, <2>12, <3>1
    <3> QED
      BY <1>0, <2>1, <2>11, <3>2 DEF TypeOK, tasks, HwType, LogType
  <2>14. Counters'
    BY <1>0, <2>1 DEF Counters
  <2>15. InTurn'
    <3>1. ~hw.aborted /\ a + (b + 1) = Made
      BY <1>0, <2>1, <2>8 DEF InTurn
    <3>2. (a + 1) + b = Made /\ Made' = Made /\ drv' = drv
      <4>1. (a + 1) + b = a + (b + 1)
        OBVIOUS
      <4> QED
        BY <2>1, <3>1, <4>1 DEF Made
    <3>3. Len(log'.wire) + Len(hw'.fifo) = Made'
      BY <2>9, <2>10, <2>12, <3>2
    <3>4. cmd = Command(drv.req, a + 1)
      <4>1. 1 \in 1 .. Len(hw.fifo)
        BY <2>8
      <4> QED
        BY <1>0, <2>8, <2>9, <4>1 DEF InTurn
    <3>5. ASSUME NEW k \in 1 .. a + 1
          PROVE  log'.wire[k] = Command(drv.req, k)
      <4>1. CASE k = a + 1
        BY <2>10, <2>12, <3>4, <4>1
      <4>2. CASE k # a + 1
        <5>1. k \in 1 .. a
          BY <4>2
        <5> QED
          BY <1>0, <2>8, <2>10, <2>12, <5>1 DEF InTurn
      <4> QED
        BY <4>1, <4>2
    <3>6. ASSUME NEW k \in 1 .. b
          PROVE  hw'.fifo[k] = Command(drv.req, (a + 1) + k)
      <4>1. k + 1 \in 1 .. Len(hw.fifo) /\ a + (k + 1) = (a + 1) + k
        <5>1. k + 1 \in 1 .. (b + 1) /\ a + (k + 1) = (a + 1) + k
          OBVIOUS
        <5> QED
          BY <2>8, <5>1
      <4>2. hw.fifo[k + 1] = Command(drv.req, a + (k + 1))
        BY <1>0, <2>8, <4>1 DEF InTurn
      <4> QED
        BY <2>9, <2>12, <4>1, <4>2
    <3> QED
      BY <2>9, <2>10, <2>12, <3>1, <3>2, <3>3, <3>5, <3>6 DEF InTurn
  <2> QED
    BY <2>13, <2>14, <2>15 DEF IInv
<1>2. CASE Nack
  <2>1. /\ UNCHANGED <<tasks, drv, nvic, isr, log, timeouts>>
        /\ hw' = [hw EXCEPT !.fifo = <<>>, !.aborted = TRUE, !.stopping = TRUE,
                            !.lag = NextLag]
        /\ Prompt
    BY <1>2 DEF Nack
  <2>2. NextLag \in 0 .. MaxLag
    BY <1>0, <2>1, LagType
  <2>3. /\ hw' \in HwType /\ hw'.fifo = <<>> /\ hw'.rx = hw.rx /\ hw'.aborted
    <3>1. hw' \in HwType
      BY <1>0, <2>1, <2>2, <<>> \in Seq(Commands) DEF HwType
    <3>2. hw'.fifo = <<>> /\ hw'.rx = hw.rx /\ hw'.aborted = TRUE
      BY <1>0, <2>1 DEF HwType
    <3> QED
      BY <3>1, <3>2
  <2>4. TypeOK'
    <3>1. Len(hw'.fifo) <= Depth /\ Len(hw'.rx) <= Depth
      BY <1>0, <2>3, BusAssumption DEF TypeOK
    <3> QED
      BY <1>0, <2>1, <2>3, <3>1 DEF TypeOK, tasks, HwType
  <2>5. Counters'
    BY <1>0, <2>1 DEF Counters
  <2>6. InTurn'
    <3>1. Made' = Made /\ log' = log /\ drv' = drv
      BY <2>1 DEF Made
    <3>2. PICK a \in Nat, b \in Nat : a = Len(log.wire) /\ b = Len(hw.fifo)
      BY <1>0
    <3>3. a <= Made
      <4>1. a <= Made \/ a + b = Made
        BY <1>0, <3>2 DEF InTurn
      <4>2. a <= a + b
        OBVIOUS
      <4> QED
        BY <4>1, <4>2
    <3> QED
      BY <1>0, <2>3, <3>1, <3>2, <3>3 DEF InTurn
  <2> QED
    BY <2>4, <2>5, <2>6 DEF IInv
<1>3. CASE StopBit
  <2>1. /\ UNCHANGED <<tasks, drv, nvic, isr, log, timeouts>>
        /\ hw' = [hw EXCEPT !.stopping = FALSE, !.stopDet = TRUE,
                            !.lag = NextLag]
        /\ Prompt
    BY <1>3 DEF StopBit
  <2>2. NextLag \in 0 .. MaxLag
    BY <1>0, <2>1, LagType
  <2>3. /\ hw' \in HwType /\ hw'.fifo = hw.fifo /\ hw'.rx = hw.rx
        /\ hw'.aborted = hw.aborted
    BY <1>0, <2>1, <2>2 DEF HwType
  <2>4. TypeOK'
    BY <1>0, <2>1, <2>3 DEF TypeOK, tasks, HwType
  <2>5. Counters'
    BY <1>0, <2>1 DEF Counters
  <2> QED
    BY <1>0, <2>1, <2>3, <2>4, <2>5, KeptInTurn DEF IInv
<1> QED
  BY <1>1, <1>2, <1>3 DEF Bus

-----------------------------------------------------------------------------
\* The theorems.

\* A sequence is a prefix of one with the same elements.
LEMMA SamePrefix ==
  ASSUME NEW S, NEW s \in Seq(S), NEW t \in Seq(S), Len(s) <= Len(t),
         \A i \in 1 .. Len(s) : s[i] = t[i]
  PROVE  IsPrefix(s, t)
BY DEF IsPrefix

LEMMA Inductive == Spec => []IInv
<1>1. Init => IInv
  BY InitIInv
<1>2. IInv /\ [Next]_vars => IInv'
  <2>1. ASSUME IInv, UNCHANGED vars PROVE IInv'
    <3>1. UNCHANGED <<holder, pc, notified, count, drv, nvic, isr, hw, log, timeouts>>
      BY <2>1 DEF vars, tasks
    <3>2. TypeOK'
      BY <2>1, <3>1 DEF IInv, TypeOK
    <3>3. Counters' /\ InTurn'
      BY <2>1, <3>1 DEF IInv, Counters, InTurn, Made
    <3> QED
      BY <3>2, <3>3 DEF IInv
  <2> QED
    BY <2>1, IsrStep, BusStep, TaskStep, BeginStep DEF Next
<1> QED
  BY <1>1, <1>2, PTL DEF Spec

\* Every variable keeps its type, and neither FIFO ever holds more than it can:
\* the task and the interrupt handler look for room before every command.
THEOREM TypeCorrect == Spec => []TypeOK
<1>1. IInv => TypeOK
  BY DEF IInv
<1> QED
  BY <1>1, Inductive, PTL

\* The wire sees the commands of the transaction in turn, whoever of the task
\* (PicoI2C.cpp:175-176) and the interrupt handler (PicoI2C.cpp:227-228) queued
\* them, for every transaction and depth of the FIFO.
THEOREM WireSeesTheRequest == Spec => []WireIsRequested
<1>1. IInv => WireIsRequested
  <2> SUFFICES ASSUME IInv PROVE WireIsRequested
    OBVIOUS
  <2>1. TypeOK /\ Counters /\ InTurn
    BY DEF IInv
  <2>2. drv.req \in [w : Nat, r : Nat]
    BY <2>1, Types, BusAssumption DEF DrvType, NoRequest
  <2>3. log.wire \in Seq(Commands) /\ hw.fifo \in Seq(Commands)
    BY <2>1, Types DEF LogType, HwType
  <2>4. PICK a \in Nat, b \in Nat, m \in Nat, n \in Nat :
           /\ a = Len(log.wire) /\ b = Len(hw.fifo)
           /\ m = Made /\ n = drv.req.w + drv.req.r /\ m <= n
    <3>1. PICK w \in Nat, r \in Nat, qw \in Nat, qr \in Nat :
             w = drv.w /\ r = drv.r /\ qw = drv.req.w /\ qr = drv.req.r
      BY <2>1, Types
    <3>2. w <= qw /\ r <= qr
      BY <2>1, <3>1 DEF Counters
    <3>3. /\ (qw - w) + (qr - r) \in Nat /\ qw + qr \in Nat
          /\ (qw - w) + (qr - r) <= qw + qr
      BY <3>2
    <3>4. Made = (qw - w) + (qr - r)
      BY <3>1 DEF Made
    <3>5. Len(log.wire) \in Nat /\ Len(hw.fifo) \in Nat
      BY <2>3
    <3> QED
      BY <3>1, <3>3, <3>4, <3>5
  <2>5. a <= m
    <3>1. a <= m \/ a + b = m
      BY <2>1, <2>4 DEF InTurn
    <3> QED
      BY <3>1
  <2>6. a <= n
    BY <2>4, <2>5
  <2>7. \A k \in 1 .. a : log.wire[k] = Requested(drv.req)[k]
    <3> SUFFICES ASSUME NEW k \in 1 .. a
                 PROVE  log.wire[k] = Requested(drv.req)[k]
      OBVIOUS
    <3>1. k \in 1 .. drv.req.w + drv.req.r
      BY <2>4, <2>6
    <3> QED
      BY <2>1, <2>2, <2>4, <3>1, RequestedCommands DEF InTurn
  <2>8. /\ Requested(drv.req) \in Seq(Commands)
        /\ Len(log.wire) <= Len(Requested(drv.req))
    BY <2>2, <2>4, <2>6, RequestedCommands
  <2> QED
    BY <2>3, <2>4, <2>7, <2>8, SamePrefix DEF WireIsRequested
<1> QED
  BY <1>1, Inductive, PTL

-----------------------------------------------------------------------------
\* What a full count says of the bytes that were read.

Total == drv.req.w + drv.req.r
Full(t) == count[t] = Total

\* The bytes that the controller has put into the receive FIFO.
Arrived == log.got \o hw.rx

\* Increasing numbers from 1 to n, of which some may be missing.
Ordered(x, n) == \A i \in 1 .. Len(x) : i <= x[i] /\ x[i] + (Len(x) - i) <= n

\* They are in their order, and none is after the last that has been read on
\* the wire.
Received ==
    /\ drv.n + Len(log.got) = drv.req.r
    /\ Ordered(Arrived, Reads)

\* A task in a transaction has the mutex.
Owned == \A t \in Tasks : pc[t] # "idle" => holder = t

\* A count that is full was taken when nothing was left to read.
FullIsWhole ==
    \A t \in Tasks : pc[t] = "done" /\ drv.req.r > 0 /\ Full(t) => drv.n = 0

ReadInv == IInv /\ Received /\ Owned /\ FullIsWhole

\* The reads of the wire are its commands beyond those that write.
LEMMA ReadsOfCommands ==
  ASSUME NEW wire \in Seq(Commands), NEW q \in [w : Nat, r : Nat],
         \A k \in 1 .. Len(wire) : wire[k] = Command(q, k)
  PROVE  Cardinality({i \in DOMAIN wire : wire[i].op = "r"})
            = IF Len(wire) > q.w THEN Len(wire) - q.w ELSE 0
<1>1. PICK a \in Nat, w \in Nat : a = Len(wire) /\ w = q.w
  OBVIOUS
<1>2. DOMAIN wire = 1 .. a
  BY <1>1
<1>3. \A i \in 1 .. a : wire[i].op = "r" <=> i > w
  <2> SUFFICES ASSUME NEW i \in 1 .. a PROVE wire[i].op = "r" <=> i > w
    OBVIOUS
  <2>1. wire[i].op = IF i <= q.w THEN "w" ELSE "r"
    <3>1. wire[i] = Command(q, i)
      BY <1>1
    <3>2. Command(q, i).op = IF i <= q.w THEN "w" ELSE "r"
      BY Zenon DEF Command
    <3> QED
      BY <3>1, <3>2
  <2> QED
    BY <1>1, <2>1
<1>4. {i \in DOMAIN wire : wire[i].op = "r"} = (w + 1) .. a
  <2>1. ASSUME NEW i
        PROVE  i \in {j \in 1 .. a : wire[j].op = "r"} <=> i \in (w + 1) .. a
    BY <1>3
  <2> QED
    BY <1>2, <2>1
<1>5. Cardinality((w + 1) .. a) = IF a > w THEN a - w ELSE 0
  <2>1. w + 1 \in Int /\ a \in Int
    OBVIOUS
  <2>2. Cardinality((w + 1) .. a) = IF w + 1 > a THEN 0 ELSE a - (w + 1) + 1
    BY <2>1, FS_Interval
  <2> QED
    BY <2>2
<1> QED
  BY <1>1, <1>4, <1>5

\* How many commands the wire has seen, and how many of them read.
LEMMA WireLength ==
  ASSUME IInv
  PROVE  /\ log.wire \in Seq(Commands) /\ drv.req \in [w : Nat, r : Nat]
         /\ Len(log.wire) \in Nat /\ Len(log.wire) <= Total /\ Total \in Nat
         /\ Made \in Nat /\ Made <= Total /\ Len(log.wire) <= Made
         /\ Reads = IF Len(log.wire) > drv.req.w THEN Len(log.wire) - drv.req.w ELSE 0
         /\ Reads \in Nat /\ Reads <= drv.req.r
<1>1. TypeOK /\ Counters /\ InTurn
  BY DEF IInv
<1>2. drv.req \in [w : Nat, r : Nat]
  BY <1>1, Types, BusAssumption DEF DrvType, NoRequest
<1>3. log.wire \in Seq(Commands) /\ hw.fifo \in Seq(Commands)
  BY <1>1, Types DEF LogType, HwType
<1>4. PICK w \in Nat, r \in Nat, qw \in Nat, qr \in Nat, a \in Nat, b \in Nat :
         /\ w = drv.w /\ r = drv.r /\ qw = drv.req.w /\ qr = drv.req.r
         /\ a = Len(log.wire) /\ b = Len(hw.fifo)
  <2>1. Len(log.wire) \in Nat /\ Len(hw.fifo) \in Nat
    BY <1>3
  <2> QED
    BY <1>1, <2>1, Types
<1>5. w <= qw /\ r <= qr
  BY <1>1, <1>4 DEF Counters
<1>6. Made = (qw - w) + (qr - r) /\ Total = qw + qr
  BY <1>4 DEF Made, Total
<1>7. a <= Made \/ a + b = Made
  BY <1>1, <1>4 DEF InTurn
<1>8. Made \in Nat /\ Made <= qw + qr /\ a <= Made
  BY <1>5, <1>6, <1>7
<1>9. Reads = IF a > qw THEN a - qw ELSE 0
  BY <1>1, <1>2, <1>3, <1>4, ReadsOfCommands DEF InTurn, Reads
<1>10. Reads \in Nat /\ Reads <= qr /\ a <= qw + qr /\ qw + qr \in Nat
  BY <1>8, <1>9
<1>11. a <= Total /\ Made <= Total /\ Total \in Nat
  BY <1>6, <1>8, <1>10
<1>12. Reads = IF Len(log.wire) > drv.req.w THEN Len(log.wire) - drv.req.w ELSE 0
  BY <1>4, <1>9
<1> QED
  BY <1>2, <1>3, <1>4, <1>8, <1>10, <1>11, <1>12

ReadsIs == /\ Len(log.wire) \in Nat /\ Reads \in Nat
           /\ Reads = IF Len(log.wire) > drv.req.w THEN Len(log.wire) - drv.req.w
                      ELSE 0

LEMMA ReadsCounted == (IInv => ReadsIs) /\ (IInv' => ReadsIs')
<1>1. IInv => ReadsIs
  BY WireLength DEF ReadsIs
<1> QED
  BY <1>1, PTL

\* One read more, with its byte or without.
LEMMA OneMore ==
  ASSUME NEW x \in Seq(Nat), NEW n \in Nat, Ordered(x, n)
  PROVE  Ordered(x, n + 1) /\ Ordered(Append(x, n + 1), n + 1)
<1>1. PICK l \in Nat : l = Len(x)
  OBVIOUS
<1>2. \A i \in 1 .. l : x[i] \in Nat /\ i <= x[i] /\ x[i] + (l - i) <= n
  BY <1>1 DEF Ordered
<1>3. l <= n
  <2>1. CASE l = 0
    BY <2>1
  <2>2. CASE l > 0
    <3>1. l \in 1 .. l /\ x[l] \in Nat /\ l <= x[l] /\ x[l] + (l - l) <= n
      BY <1>2, <2>2
    <3> QED
      BY <3>1
  <2> QED
    BY <2>1, <2>2
<1>4. Ordered(x, n + 1)
  <2>1. ASSUME NEW i \in 1 .. l PROVE i <= x[i] /\ x[i] + (l - i) <= n + 1
    BY <1>2
  <2> QED
    BY <1>1, <2>1 DEF Ordered
<1> DEFINE y == Append(x, n + 1)
<1>5. /\ Len(y) = l + 1 /\ y[l + 1] = n + 1
      /\ \A i \in 1 .. l : y[i] = x[i]
  BY <1>1
<1> HIDE DEF y
<1>6. ASSUME NEW i \in 1 .. l + 1 PROVE i <= y[i] /\ y[i] + ((l + 1) - i) <= n + 1
  <2>1. CASE i = l + 1
    BY <1>3, <1>5, <2>1
  <2>2. CASE i # l + 1
    <3>1. i \in 1 .. l
      BY <2>2
    <3>2. PICK v \in Nat : v = x[i] /\ i <= v /\ v + (l - i) <= n
      BY <1>2, <3>1
    <3>3. v + ((l + 1) - i) <= n + 1
      BY <3>1, <3>2
    <3> QED
      BY <1>5, <3>1, <3>2, <3>3
  <2> QED
    BY <2>1, <2>2
<1>7. Ordered(y, n + 1)
  BY <1>5, <1>6 DEF Ordered
<1> QED
  BY <1>4, <1>7 DEF y

\* A sequence put together of two, and an element moved from the second to the
\* first.
LEMMA Joined ==
  ASSUME NEW S, NEW x \in Seq(S), NEW y \in Seq(S)
  PROVE  /\ x \o y \in Seq(S) /\ Len(x \o y) = Len(x) + Len(y)
         /\ \A i \in 1 .. Len(x) : (x \o y)[i] = x[i]
         /\ \A i \in 1 .. Len(y), k \in Nat : k = Len(x) + i => (x \o y)[k] = y[i]
OBVIOUS

LEMMA HeadMoved ==
  ASSUME NEW S, NEW x \in Seq(S), NEW y \in Seq(S), y # <<>>
  PROVE  Append(x, Head(y)) \o Tail(y) = x \o y
<1>1. /\ Append(x, Head(y)) \in Seq(S) /\ Len(Append(x, Head(y))) = Len(x) + 1
      /\ Tail(y) \in Seq(S) /\ Len(Tail(y)) = Len(y) - 1
      /\ Len(x) \in Nat /\ Len(y) \in Nat /\ Len(y) > 0
      /\ Head(y) = y[1] /\ \A i \in 1 .. Len(Tail(y)) : Tail(y)[i] = y[i + 1]
      /\ \A i \in 1 .. Len(x) : Append(x, Head(y))[i] = x[i]
      /\ Append(x, Head(y))[Len(x) + 1] = Head(y)
  OBVIOUS
<1>2. PICK m \in Nat, n \in Nat : m = Len(x) /\ n + 1 = Len(y) /\ n = Len(Tail(y))
  <2>1. Len(y) - 1 \in Nat /\ (Len(y) - 1) + 1 = Len(y)
    BY <1>1
  <2> QED
    BY <1>1, <2>1
<1> DEFINE u == Append(x, Head(y))
           v == Tail(y)
<1>3. u \in Seq(S) /\ v \in Seq(S) /\ Len(u) = m + 1 /\ Len(v) = n
  BY <1>1, <1>2
<1>4. \A i \in 1 .. m : u[i] = x[i]
  BY <1>1, <1>2
<1>5. u[m + 1] = y[1] /\ \A i \in 1 .. n : v[i] = y[i + 1]
  BY <1>1, <1>2
<1> HIDE DEF u, v
<1>6. /\ u \o v \in Seq(S) /\ Len(u \o v) = (m + 1) + n
      /\ \A i \in 1 .. m + 1 : (u \o v)[i] = u[i]
      /\ \A i \in 1 .. n, k \in Nat : k = (m + 1) + i => (u \o v)[k] = v[i]
  <2>1. u \in Seq(S) /\ v \in Seq(S)
    BY <1>3
  <2>4. u \o v \in Seq(S) /\ Len(u \o v) = Len(u) + Len(v)
    BY <2>1
  <2>2. \A i \in 1 .. Len(u) : (u \o v)[i] = u[i]
    BY <1>3, Joined
  <2>3. \A i \in 1 .. Len(v), k \in Nat : k = Len(u) + i => (u \o v)[k] = v[i]
    BY <1>3, Joined
  <2> QED
    BY <1>3, <2>2, <2>3, <2>4
<1>7. /\ x \o y \in Seq(S) /\ Len(x \o y) = m + (n + 1)
      /\ \A i \in 1 .. m : (x \o y)[i] = x[i]
      /\ \A i \in 1 .. n + 1, k \in Nat : k = m + i => (x \o y)[k] = y[i]
  BY <1>2, Joined
<1>8. ASSUME NEW i \in 1 .. m + (n + 1) PROVE (u \o v)[i] = (x \o y)[i]
  <2>1. CASE i <= m
    BY <1>4, <1>6, <1>7, <2>1
  <2>2. CASE i = m + 1
    <3>1. (x \o y)[m + 1] = y[1] /\ (u \o v)[m + 1] = u[m + 1]
      <4>1. m + 1 \in 1 .. m + 1 /\ 1 \in 1 .. n + 1 /\ m + 1 \in Nat
        OBVIOUS
      <4>2. (u \o v)[m + 1] = u[m + 1]
        BY <1>6, <4>1
      <4>3. (x \o y)[m + 1] = y[1]
        BY <1>7, <4>1
      <4> QED
        BY <4>2, <4>3
    <3> QED
      BY <1>5, <2>2, <3>1
  <2>3. CASE i > m + 1
    <3>1. PICK k \in 1 .. n : i = (m + 1) + k
      BY <2>3
    <3>2. (u \o v)[i] = y[k + 1]
      <4>1. i \in Nat
        OBVIOUS
      <4>2. (u \o v)[i] = v[k] /\ v[k] = y[k + 1]
        BY <1>5, <1>6, <3>1, <4>1
      <4> QED
        BY <4>2
    <3>3. (x \o y)[m + (k + 1)] = y[k + 1] /\ m + (k + 1) = i
      BY <1>7, <3>1
    <3> QED
      BY <3>2, <3>3
  <2>4. i <= m \/ i = m + 1 \/ i > m + 1
    OBVIOUS
  <2> QED
    BY <2>1, <2>2, <2>3, <2>4
<1>9. Len(u \o v) = m + (n + 1) /\ Len(x \o y) = m + (n + 1)
  BY <1>6, <1>7
<1>10. u \o v = x \o y
  BY <1>6, <1>7, <1>8, <1>9, SeqEqual
<1> QED
  BY <1>10 DEF u, v

LEMMA LastAdded ==
  ASSUME NEW S, NEW x \in Seq(S), NEW y \in Seq(S), NEW e \in S
  PROVE  x \o Append(y, e) = Append(x \o y, e)
OBVIOUS

\* What has been received, and is in the receive FIFO.
LEMMA ArrivedType ==
  ASSUME TypeOK
  PROVE  /\ log.got \in Seq(Nat) /\ hw.rx \in Seq(Nat) /\ Arrived \in Seq(Nat)
         /\ Len(log.got) \in Nat /\ Len(hw.rx) \in Nat
         /\ Len(Arrived) = Len(log.got) + Len(hw.rx)
         /\ \A i \in 1 .. Len(log.got) : Arrived[i] = log.got[i]
<1>1. log.got \in Seq(Nat) /\ hw.rx \in Seq(Nat)
  BY Types DEF LogType, HwType
<1>2. Len(log.got) \in Nat /\ Len(hw.rx) \in Nat
  BY <1>1
<1>3. Arrived \in Seq(Nat)
  BY <1>1, Joined DEF Arrived
<1>4. Len(Arrived) = Len(log.got) + Len(hw.rx)
  BY <1>1, Joined DEF Arrived
<1>5. \A i \in 1 .. Len(log.got) : Arrived[i] = log.got[i]
  <2>1. PICK x \in Seq(Nat), y \in Seq(Nat) : x = log.got /\ y = hw.rx
    BY <1>1
  <2>2. \A i \in 1 .. Len(x) : (x \o y)[i] = x[i]
    BY Joined
  <2> QED
    BY <2>1, <2>2 DEF Arrived
<1> QED
  BY <1>1, <1>2, <1>3, <1>4, <1>5

\* Who neither reads a byte nor takes a count.
LEMMA SameRead ==
  ASSUME ReadInv, IInv', UNCHANGED <<holder, pc, count, log>>,
         drv'.n = drv.n, drv'.req = drv.req, hw'.rx = hw.rx
  PROVE  ReadInv'
<1>1. Received'
  <2>1. Arrived' = Arrived /\ Reads' = Reads
    BY DEF Arrived, Reads
  <2> QED
    BY <2>1 DEF ReadInv, Received, Ordered
<1>2. Owned' /\ FullIsWhole'
  BY DEF ReadInv, Owned, FullIsWhole, Full, Total
<1> QED
  BY <1>1, <1>2 DEF ReadInv

LEMMA ReadTaskStep ==
  ASSUME ReadInv, IInv', NEW t \in Tasks, Task(t) \/ TimeOut(t)
  PROVE  ReadInv'
<1>0. TypeOK /\ Received /\ Owned /\ FullIsWhole
  BY DEF ReadInv, IInv
<1>1. CASE Fill(t)
  <2>1. UNCHANGED <<holder, pc, count, log>> /\ (FillWrite \/ FillRead)
    BY <1>1 DEF Fill, tasks
  <2>2. drv'.n = drv.n /\ drv'.req = drv.req /\ hw'.rx = hw.rx
    BY <1>0, <2>1, Types DEF FillWrite, FillRead, Push, DrvType, HwType
  <2> QED
    BY <2>1, <2>2, SameRead
<1>2. CASE Wait(t) \/ Take(t) \/ TimeOut(t) \/ End(t)
  <2>1. UNCHANGED <<drv, hw, log>>
    BY <1>2 DEF Wait, Take, TimeOut, End
  <2>2. Received'
    <3>1. Arrived' = Arrived /\ Reads' = Reads
      BY <2>1 DEF Arrived, Reads
    <3> QED
      BY <1>0, <2>1, <3>1 DEF Received, Ordered
  <2>3. holder = t /\ pc \in [Tasks -> {"idle", "fill", "wait", "done"}]
        /\ count \in [Tasks -> Nat]
    BY <1>0, <1>2 DEF Owned, TypeOK, Wait, Take, TimeOut, End
  <2>4. \A u \in Tasks : u # t => pc[u] = "idle" /\ pc'[u] = "idle"
    BY <1>0, <1>2, <2>3 DEF Owned, TypeOK, Wait, Take, TimeOut, End
  <2>5. Owned'
    <3>1. pc'[t] # "idle" => holder' = t
      BY <1>2, <2>3 DEF Wait, Take, TimeOut, End
    <3> QED
      BY <2>4, <3>1 DEF Owned
  <2>6. pc'[t] = "done" /\ drv.req.r > 0 /\ count'[t] = Total => drv.n = 0
    <3>1. PICK w \in Nat, r \in Nat, qw \in Nat, qr \in Nat, n \in Nat :
             /\ w = drv.w /\ r = drv.r /\ qw = drv.req.w /\ qr = drv.req.r
             /\ n = drv.n
      BY <1>0, Types
    <3>2. w <= qw /\ n <= qr /\ Total = qw + qr
      BY <3>1 DEF ReadInv, IInv, Counters, Total
    <3>3. CASE Take(t)
      <4>1. count'[t] = qw + qr - (n + w)
        BY <2>3, <3>1, <3>3 DEF Take
      <4> QED
        BY <3>1, <3>2, <4>1
    <3>4. CASE TimeOut(t)
      <4>1. count'[t] = 0
        BY <2>3, <3>4 DEF TimeOut
      <4> QED
        BY <3>1, <3>2, <4>1
    <3>5. CASE Wait(t) \/ End(t)
      BY <2>3, <3>5 DEF Wait, End
    <3> QED
      BY <1>2, <3>3, <3>4, <3>5
  <2>7. FullIsWhole'
    BY <2>1, <2>4, <2>6 DEF FullIsWhole, Full, Total
  <2> QED
    BY <2>2, <2>5, <2>7 DEF ReadInv
<1> QED
  BY <1>1, <1>2 DEF Task

LEMMA ReadBeginStep ==
  ASSUME ReadInv, IInv', NEW t \in Tasks, NEW q \in Requests, Begin(t, q)
  PROVE  ReadInv'
<1>1. /\ holder = Free /\ holder' = t /\ pc' = [pc EXCEPT ![t] = "fill"]
      /\ pc \in [Tasks -> {"idle", "fill", "wait", "done"}]
      /\ drv'.n = q.r /\ drv'.req = q /\ q.r \in Nat
      /\ log'.got = <<>> /\ hw'.rx = <<>>
  BY BusAssumption DEF ReadInv, IInv, TypeOK, Begin, Reset, Fresh
<1>2. \A u \in Tasks : pc[u] = "idle"
  BY <1>1, BusAssumption DEF ReadInv, Owned
<1>3. Received'
  <2>1. Arrived' = <<>>
    BY <1>1 DEF Arrived
  <2> QED
    BY <1>1, <2>1 DEF Received, Ordered
<1>4. Owned' /\ FullIsWhole'
  BY <1>1, <1>2 DEF Owned, FullIsWhole
<1> QED
  BY <1>3, <1>4 DEF ReadInv

\* A byte that is taken leaves those that have arrived as they are.
LEMMA DrainKeeps ==
  ASSUME TypeOK, Drain
  PROVE  /\ Arrived' = Arrived /\ drv'.n = drv.n - 1 /\ drv'.req = drv.req
         /\ drv'.owner = drv.owner /\ log'.wire = log.wire
         /\ log'.overrun = log.overrun
         /\ log'.got = Append(log.got, Head(hw.rx)) /\ hw'.rx = Tail(hw.rx)
<1>1. /\ drv' = [drv EXCEPT !.n = drv.n - 1] /\ hw.rx # <<>>
      /\ hw' = [hw EXCEPT !.rx = Tail(hw.rx)]
      /\ log' = [log EXCEPT !.got = Append(log.got, Head(hw.rx))]
  BY DEF Drain
<1>2. /\ drv'.n = drv.n - 1 /\ drv'.req = drv.req /\ hw'.rx = Tail(hw.rx)
      /\ log'.got = Append(log.got, Head(hw.rx)) /\ log'.wire = log.wire
      /\ log'.overrun = log.overrun /\ drv'.owner = drv.owner
  BY <1>1, Types DEF DrvType, HwType, LogType
<1>3. log.got \in Seq(Nat) /\ hw.rx \in Seq(Nat)
  BY ArrivedType
<1>4. Append(log.got, Head(hw.rx)) \o Tail(hw.rx) = log.got \o hw.rx
  BY <1>1, <1>3, HeadMoved
<1>5. Arrived' = Arrived
  BY <1>2, <1>4 DEF Arrived
<1> QED
  BY <1>2, <1>5

LEMMA ReadIsrStep ==
  ASSUME ReadInv, IInv', Isr
  PROVE  ReadInv'
<1>0. TypeOK /\ Received /\ Owned /\ FullIsWhole
  BY DEF ReadInv, IInv
<1>1. CASE Drain
  <2>1. drv.n > 0 /\ UNCHANGED <<holder, pc, count>>
    BY <1>1 DEF Drain, tasks
  <2>2. /\ drv'.n = drv.n - 1 /\ drv'.req = drv.req /\ Arrived' = Arrived
        /\ log'.got = Append(log.got, Head(hw.rx)) /\ log'.wire = log.wire
    BY <1>0, <1>1, DrainKeeps
  <2>3. hw.rx \in Seq(Nat) /\ hw.rx # <<>> /\ Head(hw.rx) \in Nat
    <3>1. hw.rx \in Seq(Nat) /\ hw.rx # <<>>
      BY <1>0, <1>1, ArrivedType DEF Drain
    <3> QED
      BY <3>1
  <2>4. Reads' = Reads
    BY <2>2 DEF Reads
  <2>5. drv'.n + Len(log'.got) = drv'.req.r
    <3>1. PICK n \in Nat, g \in Nat : n = drv.n /\ g = Len(log.got)
      BY <1>0, Types, ArrivedType
    <3>2. Len(log'.got) = g + 1
      BY <1>0, <2>2, <2>3, <3>1, ArrivedType
    <3>3. (n - 1) + (g + 1) = n + g /\ n + g = drv.req.r
      BY <1>0, <3>1 DEF Received
    <3> QED
      BY <2>2, <3>1, <3>2, <3>3
  <2>6. Received'
    BY <1>0, <2>2, <2>4, <2>5 DEF Received, Ordered
  <2>7. Owned' /\ FullIsWhole'
    <3>1. drv.n # 0
      BY <1>0, <2>1, Types
    <3> QED
      BY <1>0, <2>1, <2>2, <3>1 DEF Owned, FullIsWhole, Full, Total
  <2> QED
    BY <2>6, <2>7 DEF ReadInv
<1>2. CASE Enter \/ Drained \/ IsrFill \/ IsrFilled \/ Leave
  <2>1. UNCHANGED <<holder, pc, count, log>>
    BY <1>2 DEF Enter, Drained, IsrFill, IsrFilled, Leave, tasks
  <2>2. drv' = drv \/ FillWrite \/ FillRead
    BY <1>2 DEF Enter, Drained, IsrFill, IsrFilled, Leave
  <2>3. drv'.n = drv.n /\ drv'.req = drv.req
    BY <1>0, <2>2, Types DEF FillWrite, FillRead, DrvType
  <2>4. hw'.rx = hw.rx
    BY <1>0, <1>2, Types DEF Enter, Drained, IsrFill, IsrFilled, Leave, FillWrite,
       FillRead, Push, HwType
  <2> QED
    BY <2>1, <2>3, <2>4, SameRead
<1> QED
  BY <1>1, <1>2 DEF Isr

\* A command on the wire: a write, a read whose byte is lost, or a read.
LEMMA ExecuteReads ==
  ASSUME IInv, IInv', Execute
  PROVE  /\ log'.got = log.got
         /\ \/ Reads' = Reads /\ Arrived' = Arrived /\ log'.overrun = log.overrun
            \/ Reads' = Reads + 1 /\ Arrived' = Arrived /\ log'.overrun
            \/ /\ Reads' = Reads + 1 /\ Arrived' = Append(Arrived, Reads + 1)
               /\ log'.overrun = log.overrun
<1> DEFINE cmd == Head(hw.fifo)
           full == Len(hw.rx) = Depth
           lost == cmd.op = "r" /\ full
           rx == IF cmd.op = "w" \/ full THEN hw.rx
                 ELSE Append(hw.rx, Reads + 1)
           over == log.overrun \/ lost
<1>0. /\ TypeOK /\ hw.fifo \in Seq(Commands) /\ log.wire \in Seq(Commands)
      /\ hw \in HwType /\ log \in LogType /\ drv' = drv
  BY Types DEF IInv, HwType, LogType, Execute
<1>1. /\ hw.fifo # <<>>
      /\ hw' = [hw EXCEPT !.fifo = Tail(hw.fifo), !.stopping = cmd.stop,
                          !.rx = rx, !.lag = NextLag]
      /\ log' = [log EXCEPT !.wire = Append(log.wire, cmd), !.overrun = over]
  BY Zenon DEF Execute
<1>2. /\ hw'.rx = rx /\ log'.wire = Append(log.wire, cmd) /\ log'.got = log.got
      /\ log'.overrun = over
  <2> HIDE DEF rx, over, cmd
  <2> QED
    BY <1>0, <1>1 DEF HwType, LogType
<1>3. PICK a \in Nat, w \in Nat, n \in Nat :
         a = Len(log.wire) /\ w = drv.req.w /\ n = Reads
  BY <1>0, Types, ReadsCounted DEF ReadsIs
<1>4. n = IF a > w THEN a - w ELSE 0
  BY <1>0, <1>3, ReadsCounted DEF ReadsIs
<1>5. Reads' = IF a + 1 > w THEN a + 1 - w ELSE 0
  <2>1. Len(log'.wire) = a + 1
    BY <1>0, <1>2, <1>3
  <2>2. drv'.req.w = w
    BY <1>0, <1>3
  <2>3. Reads' = IF Len(log'.wire) > drv'.req.w THEN Len(log'.wire) - drv'.req.w
                 ELSE 0
    BY ReadsCounted DEF ReadsIs
  <2> QED
    BY <2>1, <2>2, <2>3
<1>6. cmd.op = IF a + 1 <= w THEN "w" ELSE "r"
  <2>1. hw.fifo[1] = Command(drv.req, a + 1)
    <3>1. ~hw.aborted
      BY <1>0, <1>1 DEF IInv, InTurn
    <3>2. Len(hw.fifo) \in Nat /\ Len(hw.fifo) # 0
      BY <1>0, <1>1
    <3>3. 1 \in 1 .. Len(hw.fifo)
      BY <3>2
    <3> QED
      BY <1>0, <1>3, <3>3 DEF IInv, InTurn
  <2>2. cmd = Command(drv.req, a + 1)
    BY <1>0, <1>1, <2>1
  <2>3. Command(drv.req, a + 1).op = IF a + 1 <= drv.req.w THEN "w" ELSE "r"
    BY Zenon DEF Command
  <2> QED
    BY <1>3, <2>2, <2>3
<1> HIDE DEF cmd, full
<1>7. CASE cmd.op = "w"
  <2>1. Reads' = Reads
    BY <1>3, <1>4, <1>5, <1>6, <1>7
  <2>2. Arrived' = Arrived
    BY <1>2, <1>7 DEF Arrived
  <2>3. log'.overrun = log.overrun
    <3>1. log.overrun \in BOOLEAN /\ (over <=> log.overrun) /\ over \in BOOLEAN
      BY <1>0, <1>7 DEF LogType
    <3> QED
      BY <1>2, <3>1
  <2> QED
    BY <1>2, <2>1, <2>2, <2>3
<1>8. CASE cmd.op = "r"
  <2>1. Reads' = Reads + 1
    <3>1. a + 1 > w
      BY <1>6, <1>8
    <3>2. Reads' = a + 1 - w
      BY <1>5, <3>1
    <3>3. n = a - w
      BY <1>4, <3>1
    <3>4. Reads' = n + 1
      BY <3>2, <3>3
    <3> QED
      BY <1>3, <3>4
  <2>2. CASE full
    <3>1. Arrived' = Arrived
      BY <1>2, <2>2 DEF Arrived
    <3>2. over
      BY <1>8, <2>2
    <3> QED
      BY <1>2, <2>1, <3>1, <3>2
  <2>3. CASE ~full
    <3>1. hw'.rx = Append(hw.rx, n + 1)
      BY <1>2, <1>3, <1>8, <2>3
    <3>2. Arrived' = Append(Arrived, n + 1)
      <4>1. PICK x \in Seq(Nat), y \in Seq(Nat) : x = log.got /\ y = hw.rx
        BY <1>0, ArrivedType
      <4>2. x \o Append(y, n + 1) = Append(x \o y, n + 1)
        BY LastAdded
      <4> QED
        BY <1>2, <3>1, <4>1, <4>2 DEF Arrived
    <3>3. log'.overrun = log.overrun
      <4>1. log.overrun \in BOOLEAN /\ (over <=> log.overrun) /\ over \in BOOLEAN
        BY <1>0, <2>3 DEF LogType
      <4> QED
        BY <1>2, <4>1
    <3> QED
      BY <1>2, <1>3, <2>1, <3>2, <3>3
  <2> QED
    BY <2>2, <2>3
<1> QED
  BY <1>6, <1>7, <1>8

LEMMA ReadBusStep ==
  ASSUME ReadInv, IInv', Bus
  PROVE  ReadInv'
<1>0. /\ IInv /\ TypeOK /\ Received /\ Owned /\ FullIsWhole /\ hw \in HwType
  BY Types DEF ReadInv, IInv
<1>1. UNCHANGED <<holder, pc, count, drv>>
  BY DEF Bus, Execute, Nack, StopBit, tasks
<1>2. CASE Execute
  <2>1. PICK n \in Nat : n = Reads /\ Ordered(Arrived, n) /\ Arrived \in Seq(Nat)
    BY <1>0, ReadsCounted, ArrivedType DEF Received, ReadsIs
  <2>2. Ordered(Arrived', Reads')
    BY <1>0, <1>2, <2>1, ExecuteReads, OneMore
  <2>3. Received'
    BY <1>0, <1>1, <1>2, <2>2, ExecuteReads DEF Received, Ordered
  <2>4. Owned' /\ FullIsWhole'
    BY <1>0, <1>1 DEF Owned, FullIsWhole, Full, Total
  <2> QED
    BY <2>3, <2>4 DEF ReadInv
<1>3. CASE Nack \/ StopBit
  <2>1. hw'.rx = hw.rx /\ log' = log
    BY <1>0, <1>3 DEF Nack, StopBit, HwType
  <2> QED
    BY <1>1, <2>1, SameRead
<1> QED
  BY <1>2, <1>3 DEF Bus

LEMMA ReadsInOrder == Spec => []ReadInv
<1>1. Init => ReadInv
  <2> SUFFICES ASSUME Init PROVE ReadInv
    OBVIOUS
  <2>1. Received
    <3>1. Arrived = <<>> /\ drv.n = 0 /\ drv.req.r = 0 /\ log.got = <<>>
      BY DEF Init, Arrived, NoRequest, Fresh
    <3> QED
      BY <3>1 DEF Received, Ordered
  <2> QED
    BY <2>1, InitIInv DEF Init, ReadInv, Owned, FullIsWhole
<1>2. ReadInv /\ IInv' /\ [Next]_vars => ReadInv'
  <2>1. ASSUME ReadInv, IInv', UNCHANGED vars PROVE ReadInv'
    BY <2>1, SameRead DEF vars, tasks
  <2> QED
    BY <2>1, ReadIsrStep, ReadBusStep, ReadTaskStep, ReadBeginStep DEF Next
<1> QED
  BY <1>1, <1>2, Inductive, PTL DEF Spec

\* All bytes to read have been received when nothing is left to read.
LEMMA WholeRead ==
  ASSUME ReadInv, drv.n = 0
  PROVE  log.got = [k \in 1 .. drv.req.r |-> k]
<1>1. TypeOK /\ Received /\ IInv
  BY DEF ReadInv, IInv
<1>2. PICK r \in Nat, l \in Nat, m \in Nat, n \in Nat :
         /\ r = drv.req.r /\ l = Len(log.got) /\ m = Len(hw.rx) /\ n = Reads
         /\ n <= r /\ l = r
  <2>1. Len(log.got) \in Nat /\ Len(hw.rx) \in Nat /\ drv.req.r \in Nat
    BY <1>1, Types, ArrivedType
  <2>2. 0 + Len(log.got) = drv.req.r
    BY <1>1 DEF Received
  <2>3. Len(log.got) = drv.req.r
    BY <2>1, <2>2
  <2> QED
    BY <1>1, <2>1, <2>3, WireLength
<1>3. Len(Arrived) = l + m
  BY <1>1, <1>2, ArrivedType
<1>4. ASSUME NEW i \in 1 .. r PROVE log.got[i] = i
  <2>1. log.got[i] \in Nat /\ log.got[i] = Arrived[i]
    <3>1. /\ log.got \in Seq(Nat)
          /\ \A j \in 1 .. Len(log.got) : Arrived[j] = log.got[j]
      BY <1>1, ArrivedType
    <3>2. i \in 1 .. Len(log.got)
      BY <1>2
    <3> QED
      BY <3>1, <3>2
  <2>2. i <= Arrived[i] /\ Arrived[i] + ((l + m) - i) <= n
    BY <1>1, <1>2, <1>3 DEF Received, Ordered
  <2>3. PICK v \in Nat : v = log.got[i] /\ i <= v /\ v + ((l + m) - i) <= n
    BY <2>1, <2>2
  <2>4. n <= r /\ l = r /\ i \in Nat
    BY <1>2
  <2>5. v <= i
    BY <2>3, <2>4
  <2> QED
    BY <2>3, <2>5
<1>5. log.got \in Seq(Nat) /\ Len(log.got) = r
  BY <1>1, <1>2, ArrivedType
<1>6. log.got = [k \in 1 .. r |-> log.got[k]]
  BY <1>5
<1> QED
  BY <1>2, <1>4, <1>6

WholeWhenFull ==
    \A t \in Tasks : pc[t] = "done" /\ drv.req.r > 0 /\ Full(t)
                        => log.got = [k \in 1 .. drv.req.r |-> k]

LEMMA FullCount == ReadInv => WholeWhenFull
BY WholeRead DEF ReadInv, FullIsWhole, WholeWhenFull

\* A full count of a transaction that reads (PicoI2C.cpp:187) means that all its
\* bytes have been received, in their order: however late the interrupts are
\* served, and after any number of calls that timed out, whose late
\* notifications end later transactions before their time.
THEOREM FullCountIsWhole == Spec => []WholeWhenFull
<1> QED
  BY FullCount, ReadsInOrder, PTL

-----------------------------------------------------------------------------
\* What a count says while no call has timed out.

\* The transaction has been sent to its end, or was refused.
Sent == hw.fifo = <<>> /\ (hw.aborted \/ Len(log.wire) = Total)

\* And its end has been seen by the handler, which will not run again.
Finished == /\ hw.mask = {} /\ isr = "out" /\ ~hw.stopping /\ ~hw.stopDet /\ Sent
            /\ ~hw.aborted /\ ~log.overrun => drv.n = 0

\* The interrupt is enabled while the task waits, and it is served in time.
Timing == /\ \A t \in Tasks : pc[t] # "idle" => drv.owner = t
          /\ nvic <=> \E t \in Tasks : pc[t] \in {"wait", "done"}
          /\ isr # "out" => nvic
          /\ holder # Free /\ ~Served => hw.lag = 0

\* No byte is missing that the FIFO has not lost.
Lossless == ~log.overrun => Len(Arrived) = Reads

\* Only the end of the transaction is a STOP.
Stops == /\ hw.stopping \/ hw.stopDet => Sent
         /\ ~(hw.stopping /\ hw.stopDet)

\* When the handler looks for the STOP it has taken all bytes that came before.
Emptied == isr \in {"w", "r", "stop"} =>
              hw.rx = <<>> \/ drv.n = 0 \/ (~hw.stopDet /\ hw.lag > 0)

\* A task goes on when its transaction has been finished.
Quiet == /\ holder = Free => hw.fifo = <<>> /\ ~hw.stopping /\ ~hw.stopDet
         /\ \A t \in Tasks :
               /\ notified[t] => pc[t] = "wait" /\ Finished
               /\ pc[t] = "done" => /\ Finished
                                    /\ ~hw.aborted /\ ~log.overrun => Full(t)

EndInv == /\ Timing /\ Lossless
          /\ timeouts = 0 => Stops /\ Emptied /\ Quiet

\* While a transaction goes on, its task has the mutex and waits.
LEMMA GoingOn ==
  ASSUME ReadInv, EndInv, timeouts = 0,
         isr # "out" \/ hw.fifo # <<>> \/ hw.stopping \/ hw.stopDet \/ Pending
  PROVE  /\ holder # Free
         /\ \A t \in Tasks : ~notified[t] /\ pc[t] # "done"
<1>1. ~Finished
  BY DEF Finished, Sent, Pending, TxEmpty, RxFull, Stopped
<1>2. \A t \in Tasks : ~notified[t] /\ pc[t] # "done"
  BY <1>1 DEF EndInv, Quiet
<1>3. CASE hw.fifo # <<>> \/ hw.stopping \/ hw.stopDet
  BY <1>2, <1>3 DEF EndInv, Quiet
<1>4. CASE isr # "out" \/ Pending
  <2>1. nvic
    BY <1>4 DEF EndInv, Timing, Pending
  <2>2. PICK t \in Tasks : pc[t] \in {"wait", "done"}
    BY <2>1 DEF EndInv, Timing
  <2> QED
    BY <1>2, <2>2, BusAssumption DEF ReadInv, Owned
<1> QED
  BY <1>2, <1>3, <1>4

\* What leaves the tasks alone while a transaction goes on.
LEMMA StillGoingOn ==
  ASSUME ReadInv, EndInv, UNCHANGED <<holder, pc, notified>>,
         isr # "out" \/ hw.fifo # <<>> \/ hw.stopping \/ hw.stopDet \/ Pending
  PROVE  timeouts = 0 => Quiet'
<1> SUFFICES ASSUME timeouts = 0 PROVE Quiet'
  OBVIOUS
<1> QED
  BY GoingOn DEF Quiet

\* One command queued by the task or by the handler.
LEMMA EndFill ==
  ASSUME ReadInv, EndInv, ReadInv', FillWrite \/ FillRead,
         UNCHANGED <<tasks, nvic, isr, log, timeouts>>,
         \/ isr # "out"
         \/ ~nvic /\ \E t \in Tasks : pc[t] = "fill"
  PROVE  EndInv'
<1>0. TypeOK /\ IInv /\ hw \in HwType /\ drv \in DrvType
  BY Types DEF ReadInv, IInv
<1>1. /\ drv'.owner = drv.owner /\ drv'.req = drv.req /\ drv'.n = drv.n
      /\ UNCHANGED <<holder, pc, notified, count>>
  BY <1>0 DEF FillWrite, FillRead, DrvType, tasks
<1>2. /\ hw'.rx = hw.rx /\ hw'.stopping = hw.stopping /\ hw'.stopDet = hw.stopDet
      /\ hw'.lag = hw.lag /\ hw'.aborted = hw.aborted
      /\ hw.aborted => hw'.fifo = hw.fifo
  BY <1>0 DEF FillWrite, FillRead, Push, HwType
<1>3. Timing'
  <2>1. Served' <=> Served
    BY DEF Served, Pending
  <2> QED
    BY <1>1, <1>2, <2>1 DEF EndInv, Timing
<1>4. Lossless'
  BY <1>2 DEF EndInv, Lossless, Arrived, Reads
<1>5. ASSUME timeouts = 0 PROVE Stops'
  <2>1. Stops
    BY <1>5 DEF EndInv
  <2>2. ASSUME hw.stopping \/ hw.stopDet PROVE hw.aborted
    <3> SUFFICES ASSUME ~hw.aborted PROVE FALSE
      OBVIOUS
    <3>1. Len(log.wire) = Total /\ hw.fifo = <<>>
      BY <2>1, <2>2 DEF Stops, Sent
    <3>2. PICK w \in Nat, r \in Nat, qw \in Nat, qr \in Nat :
             w = drv.w /\ r = drv.r /\ qw = drv.req.w /\ qr = drv.req.r
      BY <1>0, Types
    <3>3. Made = (qw - w) + (qr - r) /\ Total = qw + qr /\ Len(log.wire) <= Made
      BY <1>0, <3>2, WireLength DEF Made, Total
    <3>4. w <= qw /\ r <= qr /\ (w > 0 \/ r > 0)
      BY <1>0, <3>2 DEF IInv, Counters, FillWrite, FillRead
    <3>5. qw + qr <= (qw - w) + (qr - r)
      BY <3>1, <3>3
    <3> QED
      BY <3>4, <3>5
  <2> QED
    BY <1>1, <1>2, <2>1, <2>2 DEF Stops, Sent, Total
<1>6. ASSUME timeouts = 0 PROVE Emptied'
  BY <1>1, <1>2, <1>6 DEF EndInv, Emptied
<1>7. ASSUME timeouts = 0 PROVE Quiet'
  <2>1. CASE isr # "out"
    BY <1>1, <1>7, <2>1, StillGoingOn
  <2>2. CASE \E t \in Tasks : pc[t] = "fill"
    <3>1. PICK t \in Tasks : pc[t] = "fill"
      BY <2>2
    <3>2. holder = t /\ \A u \in Tasks : u # t => pc[u] = "idle"
      BY <3>1 DEF ReadInv, Owned
    <3>3. \A u \in Tasks : ~notified[u] /\ pc[u] # "done"
      BY <1>7, <3>1, <3>2 DEF EndInv, Quiet
    <3> QED
      BY <1>1, <3>2, <3>3, BusAssumption DEF Quiet
  <2> QED
    BY <2>1, <2>2
<1> QED
  BY <1>3, <1>4, <1>5, <1>6, <1>7 DEF EndInv


\* The steps of a task in its transaction.
LEMMA EndTaskStep ==
  ASSUME ReadInv, EndInv, ReadInv', NEW t \in Tasks, Task(t) \/ TimeOut(t)
  PROVE  EndInv'
<1>0. /\ TypeOK /\ IInv /\ Owned /\ Timing /\ Lossless
      /\ timeouts = 0 => Stops /\ Emptied /\ Quiet
      /\ pc \in [Tasks -> {"idle", "fill", "wait", "done"}]
      /\ notified \in [Tasks -> BOOLEAN] /\ count \in [Tasks -> Nat]
  BY DEF ReadInv, IInv, TypeOK, EndInv
<1>1. CASE Fill(t)
  <2>1. /\ FillWrite \/ FillRead
        /\ UNCHANGED <<tasks, nvic, isr, log, timeouts>> /\ pc[t] = "fill"
    BY <1>1 DEF Fill
  <2>2. \A u \in Tasks : u # t => pc[u] = "idle"
    BY <1>0, <2>1 DEF Owned
  <2>3. ~nvic
    BY <1>0, <2>1, <2>2 DEF Timing
  <2> QED
    BY <2>1, <2>3, EndFill
<1>2. ASSUME Wait(t) \/ Take(t) \/ TimeOut(t) \/ End(t) PROVE EndInv'
  <2>1. UNCHANGED <<drv, isr, hw, log>>
    BY <1>2 DEF Wait, Take, TimeOut, End
  <2>2. holder = t /\ holder # Free /\ \A u \in Tasks : u # t => pc[u] = "idle"
    <3>1. pc[t] # "idle"
      BY <1>2 DEF Wait, Take, TimeOut, End
    <3> QED
      BY <1>0, <3>1, BusAssumption DEF Owned
  <2>3. \A u \in Tasks : u # t => pc'[u] = "idle" /\ notified'[u] = notified[u]
    BY <1>0, <1>2, <2>2 DEF Wait, Take, TimeOut, End
  <2>4. Timing'
    <3>1. drv.owner = t
      <4>1. pc[t] # "idle"
        BY <1>2 DEF Wait, Take, TimeOut, End
      <4> QED
        BY <1>0, <4>1 DEF Timing
    <3>2. CASE Wait(t)
      <4>1. pc[t] = "fill" /\ pc'[t] = "wait" /\ nvic'
        BY <1>0, <3>2 DEF Wait
      <4>2. ~nvic
        BY <1>0, <2>2, <4>1 DEF Timing
      <4>3. hw.lag = 0
        BY <1>0, <2>2, <4>2 DEF Timing, Served
      <4> QED
        BY <2>1, <2>3, <3>1, <4>1, <4>3 DEF Timing
    <3>3. CASE Take(t) \/ TimeOut(t)
      <4>1. pc[t] = "wait" /\ pc'[t] = "done" /\ UNCHANGED <<nvic, holder>>
        BY <1>0, <3>3 DEF Take, TimeOut
      <4>2. nvic
        BY <1>0, <4>1 DEF Timing
      <4>3. Served' <=> Served
        BY <2>1, <4>1 DEF Served, Pending, TxEmpty, RxFull, Stopped
      <4> QED
        BY <1>0, <2>1, <2>2, <2>3, <3>1, <4>1, <4>2, <4>3 DEF Timing
    <3>4. CASE End(t)
      <4>1. pc'[t] = "idle" /\ ~nvic' /\ holder' = Free /\ isr = "out"
        BY <1>0, <3>4 DEF End
      <4> QED
        BY <2>1, <2>3, <4>1 DEF Timing
    <3> QED
      BY <1>2, <3>2, <3>3, <3>4
  <2>5. Lossless' /\ (timeouts = 0 => Stops' /\ Emptied')
    BY <1>0, <2>1
       DEF Lossless, Arrived, Reads, Stops, Sent, Total, Emptied
  <2>6. Finished' <=> Finished
    BY <2>1 DEF Finished, Sent, Total
  <2>7. CASE Wait(t)
    <3>1. /\ pc[t] = "fill" /\ pc'[t] = "wait"
          /\ UNCHANGED <<holder, notified, count, timeouts>>
      BY <1>0, <2>7 DEF Wait
    <3>2. timeouts = 0 => Quiet'
      BY <1>0, <2>2, <2>3, <3>1 DEF Quiet
    <3> QED
      BY <2>4, <2>5, <3>1, <3>2 DEF EndInv
  <2>8. CASE Take(t)
    <3>1. /\ notified[t] /\ pc'[t] = "done" /\ ~notified'[t]
          /\ count'[t] = drv.req.w + drv.req.r - (drv.n + drv.w)
          /\ UNCHANGED <<holder, timeouts>>
      BY <1>0, <2>8 DEF Take
    <3>2. ASSUME timeouts = 0 PROVE Quiet'
      <4>1. Finished
        BY <1>0, <3>1, <3>2 DEF Quiet
      <4>2. ASSUME ~hw.aborted, ~log.overrun PROVE count'[t] = Total
        <5>1. drv.n = 0 /\ Len(log.wire) = Total
          BY <4>1, <4>2 DEF Finished, Sent
        <5>2. PICK w \in Nat, r \in Nat, qw \in Nat, qr \in Nat :
                 w = drv.w /\ r = drv.r /\ qw = drv.req.w /\ qr = drv.req.r
          BY <1>0, Types
        <5>3. Made = (qw - w) + (qr - r) /\ Total = qw + qr /\ Len(log.wire) <= Made
          BY <1>0, <5>2, WireLength DEF Made, Total
        <5>4. w <= qw /\ r <= qr
          BY <1>0, <5>2 DEF IInv, Counters
        <5>5. qw + qr <= (qw - w) + (qr - r)
          BY <5>1, <5>3
        <5>6. w = 0
          BY <5>4, <5>5
        <5>7. count'[t] = qw + qr - (0 + 0)
          BY <3>1, <5>1, <5>2, <5>6
        <5> QED
          BY <5>3, <5>7
      <4>3. ~hw'.aborted /\ ~log'.overrun => Full(t)'
        BY <2>1, <4>2 DEF Full, Total
      <4>4. \A u \in Tasks : ~notified'[u]
        BY <1>0, <2>2, <2>3, <3>1, <3>2 DEF Quiet
      <4>5. holder' # Free /\ \A u \in Tasks : pc'[u] = "done" => u = t
        BY <2>2, <2>3, <3>1
      <4> QED
        BY <2>6, <4>1, <4>3, <4>4, <4>5 DEF Quiet
    <3> QED
      BY <2>4, <2>5, <3>1, <3>2 DEF EndInv
  <2>9. CASE TimeOut(t)
    <3>1. timeouts' = timeouts + 1 /\ timeouts \in Nat
      BY <1>0, <2>9, BusAssumption DEF TypeOK, TimeOut
    <3>2. timeouts' # 0
      BY <3>1
    <3> QED
      BY <2>4, <2>5, <3>2 DEF EndInv
  <2>10. CASE End(t)
    <3>1. /\ pc[t] = "done" /\ pc'[t] = "idle"
          /\ UNCHANGED <<notified, count, timeouts>>
      BY <1>0, <2>10 DEF End
    <3>2. ASSUME timeouts = 0 PROVE Quiet'
      <4>1. Finished
        BY <1>0, <3>1, <3>2 DEF Quiet
      <4>2. hw.fifo = <<>> /\ ~hw.stopping /\ ~hw.stopDet
        BY <4>1 DEF Finished, Sent
      <4>3. \A u \in Tasks : ~notified[u]
        BY <1>0, <2>2, <3>1, <3>2 DEF Quiet
      <4>4. \A u \in Tasks : pc'[u] # "done"
        BY <2>3, <3>1
      <4> QED
        BY <2>1, <3>1, <4>2, <4>3, <4>4 DEF Quiet
    <3> QED
      BY <2>4, <2>5, <3>1, <3>2 DEF EndInv
  <2> QED
    BY <1>2, <2>7, <2>8, <2>9, <2>10
<1> QED
  BY <1>1, <1>2 DEF Task

\* While no call has timed out, a transaction begins with nothing left behind.
LEMMA EndBeginStep ==
  ASSUME ReadInv, EndInv, ReadInv', NEW t \in Tasks, NEW q \in Requests,
         Begin(t, q)
  PROVE  EndInv'
<1>0. /\ TypeOK /\ IInv /\ IInv' /\ Owned /\ Timing
      /\ timeouts = 0 => Stops /\ Emptied /\ Quiet
      /\ pc \in [Tasks -> {"idle", "fill", "wait", "done"}]
  BY DEF ReadInv, IInv, TypeOK, EndInv
<1>1. /\ holder = Free /\ holder' = t /\ pc' = [pc EXCEPT ![t] = "fill"]
      /\ isr = "out" /\ drv'.owner = t
      /\ log'.got = <<>> /\ log'.wire = <<>>
      /\ UNCHANGED <<notified, count, nvic, isr, timeouts>>
  BY DEF Begin, Fresh
<1>2. PICK s \in {FALSE, hw.stopDet \/ hw.stopping \/ hw.fifo # <<>>} :
         /\ hw'.fifo = <<>> /\ hw'.rx = <<>> /\ hw'.stopping = FALSE
         /\ hw'.stopDet = s /\ hw'.lag = 0
  <2>1. PICK s \in {FALSE, hw.stopDet \/ hw.stopping \/ hw.fifo # <<>>} :
           hw' = [fifo |-> <<>>, rx |-> <<>>, stopping |-> FALSE,
                  stopDet |-> s, aborted |-> FALSE,
                  mask |-> {"tx", "rx", "stop"}, lag |-> 0]
    BY Zenon DEF Begin, Reset
  <2> QED
    BY <2>1
<1>3. \A u \in Tasks : pc[u] = "idle"
  BY <1>0, <1>1, BusAssumption DEF Owned
<1>4. pc'[t] = "fill" /\ \A u \in Tasks : u # t => pc'[u] = "idle"
  BY <1>0, <1>1, <1>3
<1>5. Timing'
  <2>1. ~nvic
    BY <1>0, <1>3 DEF Timing
  <2> QED
    BY <1>1, <1>2, <1>4, <2>1 DEF Timing
<1>6. Lossless'
  <2>1. Arrived' = <<>> /\ Len(log'.wire) = 0
    BY <1>1, <1>2 DEF Arrived
  <2>2. Reads' = IF Len(log'.wire) > drv'.req.w THEN Len(log'.wire) - drv'.req.w
                 ELSE 0
    BY <1>0, ReadsCounted DEF ReadsIs
  <2>3. drv'.req.w \in Nat
    BY BusAssumption DEF Begin
  <2>4. Reads' = 0
    BY <2>1, <2>2, <2>3
  <2> QED
    BY <2>1, <2>4 DEF Lossless
<1>7. ASSUME timeouts = 0 PROVE Stops' /\ Emptied' /\ Quiet'
  <2>1. ~hw'.stopDet /\ ~hw'.stopping
    BY <1>0, <1>1, <1>2, <1>7 DEF Quiet
  <2>2. \A u \in Tasks : ~notified[u]
    BY <1>0, <1>3, <1>7 DEF Quiet
  <2> QED
    BY <1>1, <1>4, <2>1, <2>2, BusAssumption DEF Stops, Emptied, Quiet
<1> QED
  BY <1>1, <1>5, <1>6, <1>7 DEF EndInv


\* The steps of the interrupt handler.
LEMMA EndIsrStep ==
  ASSUME ReadInv, EndInv, ReadInv', Isr
  PROVE  EndInv'
<1>0. /\ TypeOK /\ IInv /\ Received /\ Owned /\ Timing /\ Lossless
      /\ timeouts = 0 => Stops /\ Emptied /\ Quiet
      /\ notified \in [Tasks -> BOOLEAN] /\ hw \in HwType /\ drv \in DrvType
  BY Types DEF ReadInv, IInv, TypeOK, EndInv
<1>1. CASE Enter
  <2>1. /\ isr = "out" /\ isr' = "drain" /\ Pending
        /\ UNCHANGED <<tasks, drv, nvic, hw, log, timeouts>>
    BY <1>1 DEF Enter
  <2>2. UNCHANGED <<holder, pc, notified, count>>
    BY <2>1 DEF tasks
  <2>3. Timing'
    <3>1. Served /\ Served' /\ nvic
      BY <2>1 DEF Served, Pending
    <3> QED
      BY <1>0, <2>1, <2>2, <3>1 DEF Timing
  <2>4. Lossless' /\ (timeouts = 0 => Stops' /\ Emptied')
    BY <1>0, <2>1 DEF Lossless, Arrived, Reads, Stops, Sent, Total, Emptied
  <2> QED
    BY <2>1, <2>2, <2>3, <2>4, StillGoingOn DEF EndInv
<1>2. CASE Drain
  <2>1. /\ isr = "drain" /\ isr' = "drain"
        /\ UNCHANGED <<holder, pc, notified, count, nvic, timeouts>>
        /\ hw' = [hw EXCEPT !.rx = Tail(hw.rx)]
    BY <1>2 DEF Drain, tasks
  <2>2. /\ hw'.fifo = hw.fifo /\ hw'.stopping = hw.stopping
        /\ hw'.stopDet = hw.stopDet /\ hw'.aborted = hw.aborted
        /\ hw'.lag = hw.lag
    BY <1>0, <2>1 DEF HwType
  <2>3. Timing'
    <3>1. Served' <=> Served
      BY <2>1 DEF Served
    <3> QED
      BY <1>0, <1>2, <2>1, <2>2, <3>1, DrainKeeps DEF Timing
  <2>4. Lossless'
    <3>1. Reads' = Reads
      BY <1>0, <1>2, DrainKeeps DEF Reads
    <3> QED
      BY <1>0, <1>2, <3>1, DrainKeeps DEF Lossless
  <2>5. timeouts = 0 => Stops' /\ Emptied'
    <3>1. Sent' <=> Sent
      BY <1>0, <1>2, <2>2, DrainKeeps DEF Sent, Total
    <3> QED
      BY <1>0, <2>1, <2>2, <3>1 DEF Stops, Emptied
  <2> QED
    BY <2>1, <2>3, <2>4, <2>5, StillGoingOn DEF EndInv
<1>3. CASE Drained \/ IsrFilled
  <2>1. /\ isr # "out" /\ isr' \in {"stop", "w", "r"}
        /\ UNCHANGED <<holder, pc, notified, count, drv, nvic, log, timeouts>>
        /\ hw' = hw \/ hw' = [hw EXCEPT !.mask = {"rx", "stop"}]
    BY <1>3 DEF Drained, IsrFilled, tasks
  <2>2. /\ hw'.fifo = hw.fifo /\ hw'.stopping = hw.stopping
        /\ hw'.stopDet = hw.stopDet /\ hw'.aborted = hw.aborted
        /\ hw'.lag = hw.lag /\ hw'.rx = hw.rx
    BY <1>0, <2>1 DEF HwType
  <2>3. Timing'
    <3>1. Served' <=> Served
      BY <2>1 DEF Served
    <3> QED
      BY <1>0, <2>1, <2>2, <3>1 DEF Timing
  <2>4. Lossless' /\ (timeouts = 0 => Stops')
    BY <1>0, <2>1, <2>2 DEF Lossless, Arrived, Reads, Stops, Sent, Total
  <2>5. timeouts = 0 => Emptied'
    <3>1. CASE Drained
      <4>1. drv.n = 0 \/ hw.rx = <<>>
        BY <3>1 DEF Drained
      <4> QED
        BY <2>1, <2>2, <4>1 DEF Emptied
    <3>2. CASE IsrFilled
      <4>1. isr \in {"w", "r"}
        BY <3>2 DEF IsrFilled
      <4> QED
        BY <1>0, <2>1, <2>2, <4>1 DEF Emptied
    <3> QED
      BY <1>3, <3>1, <3>2
  <2> QED
    BY <2>1, <2>3, <2>4, <2>5, StillGoingOn DEF EndInv
<1>4. CASE IsrFill
  <2>1. /\ isr # "out" /\ (FillWrite \/ FillRead)
        /\ UNCHANGED <<tasks, nvic, isr, log, timeouts>>
    BY <1>4 DEF IsrFill
  <2> QED
    BY <2>1, EndFill
<1>5. CASE Leave
  <2>1. /\ isr = "stop" /\ isr' = "out"
        /\ UNCHANGED <<holder, pc, count, drv, nvic, log, timeouts>>
    BY <1>5 DEF Leave
  <2>2. nvic
    BY <1>0, <2>1 DEF Timing
  <2>3. CASE ~Stopped
    <3>1. hw' = [hw EXCEPT !.lag = 0] /\ notified' = notified
      BY <1>5, <2>3 DEF Leave
    <3>2. /\ hw'.fifo = hw.fifo /\ hw'.stopping = hw.stopping
          /\ hw'.stopDet = hw.stopDet /\ hw'.aborted = hw.aborted
          /\ hw'.lag = 0 /\ hw'.rx = hw.rx
      BY <1>0, <3>1 DEF HwType
    <3>3. Timing'
      BY <1>0, <2>1, <3>2 DEF Timing
    <3>4. Lossless' /\ (timeouts = 0 => Stops' /\ Emptied')
      BY <1>0, <2>1, <3>2
         DEF Lossless, Arrived, Reads, Stops, Sent, Total, Emptied
    <3> QED
      BY <2>1, <3>1, <3>3, <3>4, StillGoingOn DEF EndInv
  <2>4. CASE Stopped
    <3>1. /\ hw' = [hw EXCEPT !.mask = {}, !.stopDet = FALSE, !.lag = 0]
          /\ notified' = [notified EXCEPT ![drv.owner] = TRUE]
      BY <1>5, <2>4 DEF Leave
    <3>2. /\ hw'.fifo = hw.fifo /\ hw'.stopping = hw.stopping
          /\ ~hw'.stopDet /\ hw'.aborted = hw.aborted
          /\ hw'.lag = 0 /\ hw'.rx = hw.rx /\ hw'.mask = {}
      BY <1>0, <3>1 DEF HwType
    <3>3. Timing'
      BY <1>0, <2>1, <3>2 DEF Timing
    <3>4. Lossless'
      BY <1>0, <2>1, <3>2 DEF Lossless, Arrived, Reads
    <3>5. ASSUME timeouts = 0 PROVE Stops' /\ Emptied' /\ Quiet'
      <4>1. hw.stopDet /\ Sent /\ ~hw.stopping
        BY <1>0, <2>4, <3>5 DEF Stopped, Stops
      <4>2. Stops' /\ Emptied'
        BY <2>1, <3>2, <4>1 DEF Stops, Emptied
      <4>3. holder # Free /\ \A u \in Tasks : ~notified[u] /\ pc[u] # "done"
        BY <2>1, <3>5, GoingOn
      <4>4. PICK t \in Tasks : pc[t] = "wait"
        BY <1>0, <2>2, <4>3 DEF Timing
      <4>5. drv.owner = t
        BY <1>0, <4>4 DEF Timing
      <4>6. ASSUME ~hw.aborted, ~log.overrun PROVE drv.n = 0
        <5>1. SUFFICES ASSUME hw.rx = <<>> PROVE drv.n = 0
          BY <1>0, <2>1, <3>5, <4>1 DEF Emptied
        <5>2. Len(Arrived) = Reads /\ Len(log.wire) = Total
          BY <1>0, <4>1, <4>6 DEF Lossless, Sent
        <5>3. PICK n \in Nat, qw \in Nat, qr \in Nat, g \in Nat :
                 /\ n = drv.n /\ qw = drv.req.w /\ qr = drv.req.r
                 /\ g = Len(log.got)
          BY <1>0, Types, ArrivedType
        <5>4. Reads = IF qw + qr > qw THEN qw + qr - qw ELSE 0
          BY <1>0, <5>2, <5>3, WireLength DEF Total
        <5>5. Reads = qr
          BY <5>4
        <5>6. Len(Arrived) = g + 0
          BY <1>0, <5>1, <5>3, ArrivedType
        <5>7. n + g = qr /\ g = qr
          BY <1>0, <5>2, <5>3, <5>5, <5>6 DEF Received
        <5> QED
          BY <5>3, <5>7
      <4>7. Finished'
        BY <2>1, <3>2, <4>1, <4>6 DEF Finished, Sent, Total
      <4>8. notified'[t] /\ \A u \in Tasks : u # t => ~notified'[u]
        BY <1>0, <3>1, <4>3, <4>5
      <4>9. Quiet'
        BY <2>1, <4>3, <4>4, <4>7, <4>8 DEF Quiet
      <4> QED
        BY <4>2, <4>9
    <3> QED
      BY <2>1, <3>3, <3>4, <3>5 DEF EndInv
  <2> QED
    BY <2>3, <2>4
<1> QED
  BY <1>1, <1>2, <1>3, <1>4, <1>5 DEF Isr


\* The steps of the controller.
LEMMA EndBusStep ==
  ASSUME MaxLag <= 1, ReadInv, EndInv, ReadInv', Bus
  PROVE  EndInv'
<1>0. /\ TypeOK /\ IInv /\ IInv' /\ Received /\ Owned /\ Timing /\ Lossless
      /\ timeouts = 0 => Stops /\ Emptied /\ Quiet
      /\ hw \in HwType /\ hw.fifo \in Seq(Commands) /\ hw.rx \in Seq(Nat)
  BY Types DEF ReadInv, IInv, EndInv, HwType
<1>1. /\ UNCHANGED <<holder, pc, notified, count, drv, nvic, isr, timeouts>>
      /\ Prompt /\ (hw.fifo # <<>> \/ hw.stopping)
  BY DEF Bus, Execute, Nack, StopBit, tasks
<1>2. timeouts = 0 => Quiet'
  BY <1>1, StillGoingOn
<1>3. /\ hw'.lag = NextLag /\ hw'.mask = hw.mask
      /\ hw'.stopDet = hw.stopDet \/ hw'.stopDet
      /\ Len(hw.rx) \in Nat /\ Len(hw'.rx) \in Nat /\ Len(hw.rx) <= Len(hw'.rx)
  <2>1. CASE Execute
    <3> DEFINE cmd == Head(hw.fifo)
               keep == cmd.op = "w" \/ Len(hw.rx) = Depth
               rx == IF keep THEN hw.rx ELSE Append(hw.rx, Reads + 1)
    <3>1. hw' = [hw EXCEPT !.fifo = Tail(hw.fifo), !.stopping = cmd.stop,
                           !.rx = rx, !.lag = NextLag]
      BY <2>1, Zenon DEF Execute
    <3>2. Len(rx) \in Nat /\ Len(hw.rx) \in Nat /\ Len(hw.rx) <= Len(rx)
      <4>1. CASE keep
        BY <1>0, <4>1
      <4>2. CASE ~keep
        <5>1. Len(Append(hw.rx, Reads + 1)) = Len(hw.rx) + 1
          BY <1>0, ReadsType
        <5> QED
          BY <1>0, <4>2, <5>1
      <4> QED
        BY <4>1, <4>2
    <3> HIDE DEF rx, cmd
    <3>3. /\ hw'.rx = rx /\ hw'.lag = NextLag /\ hw'.mask = hw.mask
          /\ hw'.stopDet = hw.stopDet
      BY <1>0, <3>1 DEF HwType
    <3> QED
      BY <3>2, <3>3
  <2>2. CASE Nack \/ StopBit
    <3>1. /\ hw'.rx = hw.rx /\ hw'.lag = NextLag /\ hw'.mask = hw.mask
          /\ hw'.stopDet = hw.stopDet \/ hw'.stopDet
      BY <1>0, <2>2 DEF Nack, StopBit, HwType
    <3> QED
      BY <1>0, <3>1
  <2> QED
    BY <2>1, <2>2 DEF Bus
<1>4. TxEmpty => hw'.fifo = <<>>
  <2>1. ASSUME hw.fifo = <<>> PROVE hw'.fifo = <<>>
    <3>1. StopBit
      BY <2>1 DEF Bus, Execute, Nack
    <3> QED
      BY <1>0, <2>1, <3>1 DEF StopBit, HwType
  <2> QED
    BY <2>1 DEF TxEmpty
<1>5. Served => Served'
  <2>1. TxEmpty => TxEmpty'
    BY <1>3, <1>4 DEF TxEmpty
  <2>2. RxFull => RxFull'
    <3>1. PICK d \in Nat, m \in Nat, n \in Nat :
             d = Depth /\ m = Len(hw.rx) /\ n = Len(hw'.rx) /\ m <= n
      BY <1>0, <1>3, Types
    <3>2. m >= d - 1 => n >= d - 1
      BY <3>1
    <3> QED
      BY <1>3, <3>1, <3>2 DEF RxFull
  <2>3. Stopped => Stopped'
    BY <1>3 DEF Stopped
  <2> QED
    BY <1>1, <2>1, <2>2, <2>3 DEF Served, Pending
<1>6. Timing'
  <2>1. ~Served' => hw'.lag = 0
    BY <1>3, <1>5 DEF NextLag
  <2> QED
    BY <1>0, <1>1, <2>1 DEF Timing
<1>7. Lossless'
  <2>1. CASE Execute
    <3>1. \/ Reads' = Reads /\ Arrived' = Arrived /\ log'.overrun = log.overrun
          \/ log'.overrun
          \/ /\ Reads' = Reads + 1 /\ Arrived' = Append(Arrived, Reads + 1)
             /\ log'.overrun = log.overrun
      BY <1>0, <2>1, ExecuteReads
    <3>2. PICK n \in Nat : n = Reads
      BY <1>0, ReadsType
    <3>3. Len(Append(Arrived, n + 1)) = Len(Arrived) + 1
      BY <1>0, ArrivedType
    <3> QED
      BY <1>0, <3>1, <3>2, <3>3 DEF Lossless
  <2>2. CASE Nack \/ StopBit
    <3>1. hw'.rx = hw.rx /\ log' = log
      BY <1>0, <2>2 DEF Nack, StopBit, HwType
    <3> QED
      BY <1>0, <3>1 DEF Lossless, Arrived, Reads
  <2> QED
    BY <2>1, <2>2 DEF Bus
<1>8. ASSUME timeouts = 0, hw.fifo # <<>>, hw'.stopDet = hw.stopDet
      PROVE  ~hw'.stopDet /\ Emptied'
  <2>1. ~hw.stopDet
    BY <1>0, <1>8 DEF Stops, Sent
  <2>2. ASSUME isr # "out" PROVE hw'.lag > 0
    <3>1. Served
      BY <1>0, <2>2 DEF Served, Timing
    <3>2. hw'.lag = hw.lag + 1 /\ hw.lag \in Nat
      BY <1>0, <1>3, <3>1, BusAssumption DEF NextLag, HwType
    <3> QED
      BY <3>2
  <2> QED
    BY <1>1, <1>8, <2>1, <2>2 DEF Emptied
<1>9. ASSUME timeouts = 0 PROVE Stops' /\ Emptied'
  <2>1. CASE Execute
    <3> DEFINE cmd == Head(hw.fifo)
               rx == IF cmd.op = "w" \/ Len(hw.rx) = Depth THEN hw.rx
                     ELSE Append(hw.rx, Reads + 1)
               over == log.overrun \/ (cmd.op = "r" /\ Len(hw.rx) = Depth)
    <3>1. hw' = [hw EXCEPT !.fifo = Tail(hw.fifo), !.stopping = cmd.stop,
                           !.rx = rx, !.lag = NextLag]
      BY <2>1, Zenon DEF Execute
    <3>2. hw.fifo # <<>> /\ ~hw.aborted
      BY <1>0, <2>1 DEF Execute, IInv, InTurn
    <3>3. log' = [log EXCEPT !.wire = Append(log.wire, cmd), !.overrun = over]
      BY <2>1, Zenon DEF Execute
    <3> HIDE DEF rx, cmd, over
    <3>4. /\ hw'.stopping = cmd.stop /\ hw'.stopDet = hw.stopDet
          /\ hw'.aborted = hw.aborted /\ hw'.fifo = Tail(hw.fifo)
          /\ log'.wire = Append(log.wire, cmd)
      BY <1>0, <3>1, <3>3, Types DEF HwType, LogType
    <3>5. ~hw'.stopDet /\ Emptied'
      BY <1>8, <1>9, <3>2, <3>4
    <3>6. PICK a \in Nat : a = Len(log.wire) /\ Len(log'.wire) = a + 1
      BY <1>0, <3>4, WireLength
    <3>7. cmd.stop <=> a + 1 = Total
      <4>1. Len(hw.fifo) \in Nat /\ Len(hw.fifo) # 0
        BY <1>0, <3>2
      <4>2. 1 \in 1 .. Len(hw.fifo)
        BY <4>1
      <4>3. hw.fifo[1] = Command(drv.req, a + 1)
        BY <1>0, <3>6, <4>2 DEF IInv, InTurn
      <4>4. cmd = Command(drv.req, a + 1)
        BY <1>0, <3>2, <4>3 DEF cmd
      <4>5. Command(drv.req, a + 1).stop = (a + 1 = drv.req.w + drv.req.r)
        BY Zenon DEF Command
      <4> QED
        BY <4>4, <4>5 DEF Total
    <3>8. ASSUME cmd.stop PROVE Sent'
      <4>1. Len(log'.wire) = Total'
        BY <1>1, <3>6, <3>7, <3>8 DEF Total
      <4>2. hw'.fifo \in Seq(Commands) /\ Len(hw'.fifo) \in Nat
        BY <1>0, <3>2, <3>4
      <4>3. PICK l \in Nat, b \in Nat, t \in Nat, m \in Nat :
               /\ l = Len(log'.wire) /\ b = Len(hw'.fifo) /\ t = Total
               /\ m = Made /\ m <= t /\ l = t
        BY <1>0, <1>1, <3>6, <4>1, <4>2, WireLength DEF Total
      <4>4. l + b = m
        <5>1. Made' = Made
          BY <1>1 DEF Made
        <5>2. Len(log'.wire) + Len(hw'.fifo) = Made'
          BY <1>0, <3>2, <3>4 DEF IInv, InTurn
        <5> QED
          BY <4>3, <5>1, <5>2
      <4>5. b = 0
        BY <4>3, <4>4
      <4>6. Len(hw'.fifo) = 0
        BY <4>3, <4>5
      <4>7. hw'.fifo = <<>>
        BY <4>2, <4>6
      <4> QED
        BY <4>1, <4>7 DEF Sent
    <3> QED
      BY <3>4, <3>5, <3>8 DEF Stops
  <2>2. CASE Nack
    <3>1. /\ hw.fifo # <<>> /\ hw'.fifo = <<>> /\ hw'.aborted = TRUE
          /\ hw'.stopping = TRUE /\ hw'.stopDet = hw.stopDet
      BY <1>0, <2>2 DEF Nack, HwType
    <3>2. ~hw'.stopDet /\ Emptied'
      BY <1>8, <1>9, <3>1
    <3> QED
      BY <3>1, <3>2 DEF Stops, Sent
  <2>3. CASE StopBit
    <3>1. /\ hw.stopping /\ hw'.stopping = FALSE /\ hw'.fifo = hw.fifo
          /\ hw'.aborted = hw.aborted /\ hw'.rx = hw.rx /\ log' = log
      BY <1>0, <2>3 DEF StopBit, HwType
    <3>2. Stops'
      BY <1>0, <1>1, <1>9, <3>1 DEF Stops, Sent, Total
    <3>3. ASSUME isr # "out" PROVE ~(hw.lag > 0)
      <4>1. Served
        BY <1>0, <3>3 DEF Served, Timing
      <4>2. hw.lag < MaxLag /\ hw.lag \in Nat /\ MaxLag \in Nat
        BY <1>0, <1>1, <4>1, BusAssumption DEF Prompt, HwType
      <4> QED
        BY <4>2
    <3>4. Emptied'
      BY <1>0, <1>1, <1>9, <3>1, <3>3 DEF Emptied
    <3> QED
      BY <3>2, <3>4
  <2> QED
    BY <2>1, <2>2, <2>3 DEF Bus
<1> QED
  BY <1>1, <1>2, <1>6, <1>7, <1>9 DEF EndInv

\* Both parts of the invariant hold of every behaviour.
LEMMA EndsInTurn ==
  ASSUME MaxLag <= 1
  PROVE  Spec => [](ReadInv /\ EndInv)
<1>1. Init => EndInv
  <2> SUFFICES ASSUME Init PROVE EndInv
    OBVIOUS
  <2>1. Init /\ holder = Free /\ nvic = FALSE /\ isr = "out"
        /\ \A t \in Tasks : pc[t] = "idle" /\ ~notified[t]
    BY DEF Init
  <2>2. Timing
    BY <2>1 DEF Timing
  <2>3. Lossless
    <3>1. log.wire = <<>> /\ log.got = <<>> /\ hw.rx = <<>> /\ drv.req.w = 0
      BY DEF Init, Fresh, NoRequest
    <3>2. Arrived = <<>> /\ Len(log.wire) = 0
      BY <3>1 DEF Arrived
    <3>3. Reads = IF Len(log.wire) > drv.req.w THEN Len(log.wire) - drv.req.w ELSE 0
      BY InitIInv, WireLength
    <3> QED
      BY <3>1, <3>2, <3>3 DEF Lossless
  <2>4. Stops /\ Emptied /\ Quiet
    BY <2>1 DEF Init, Stops, Emptied, Quiet
  <2> QED
    BY <2>2, <2>3, <2>4 DEF EndInv
<1>2. ReadInv /\ EndInv /\ ReadInv' /\ [Next]_vars => EndInv'
  <2>1. ASSUME ReadInv, EndInv, UNCHANGED vars PROVE EndInv'
    <3>1. Served' <=> Served
      BY <2>1 DEF vars, tasks, Served, Pending, TxEmpty, RxFull, Stopped
    <3>2. Timing' /\ Lossless'
      BY <2>1, <3>1 DEF vars, tasks, EndInv, Timing, Lossless, Arrived, Reads
    <3>3. timeouts' = 0 => Stops' /\ Emptied' /\ Quiet'
      BY <2>1 DEF vars, tasks, EndInv, Stops, Emptied, Quiet, Finished, Sent,
                  Full, Total
    <3> QED
      BY <3>2, <3>3 DEF EndInv
  <2> QED
    BY <2>1, EndIsrStep, EndBusStep, EndTaskStep, EndBeginStep DEF Next
<1> QED
  BY <1>1, <1>2, ReadsInOrder, PTL DEF Spec

\* The count that transaction returns (PicoI2C.cpp:191) tells what happened on
\* the wire, for any tasks, transactions and FIFOs, and any number of calls that
\* time out, if the controller makes at most one step, the time of a byte or of
\* the STOP, before the handler of a pending interrupt has run.
THEOREM CountTellsTheWire ==
  ASSUME MaxLag <= 1
  PROVE  Spec => []CountIsTrue
<1>1. ReadInv /\ EndInv => CountIsTrue
  <2> SUFFICES ASSUME ReadInv, EndInv, NEW t \in Tasks, pc[t] = "done"
               PROVE  /\ drv.req.r > 0 /\ Full(t)
                         => log.got = [k \in 1 .. drv.req.r |-> k]
                      /\ timeouts = 0 /\ ~hw.aborted /\ ~log.overrun
                         => /\ Full(t)
                            /\ log.wire = Requested(drv.req) /\ ~hw.stopping
    BY DEF CountIsTrue, Full, Total
  <2>1. drv.req.r > 0 /\ Full(t) => log.got = [k \in 1 .. drv.req.r |-> k]
    BY FullCount DEF WholeWhenFull
  <2>2. ASSUME timeouts = 0, ~hw.aborted, ~log.overrun
        PROVE  Full(t) /\ log.wire = Requested(drv.req) /\ ~hw.stopping
    <3>1. Finished /\ Full(t) /\ Len(log.wire) = Total
      BY <2>2 DEF EndInv, Quiet, Finished, Sent
    <3>2. IInv /\ log.wire \in Seq(Commands) /\ drv.req \in [w : Nat, r : Nat]
      BY WireLength DEF ReadInv
    <3>3. /\ Requested(drv.req) \in Seq(Commands)
          /\ Len(Requested(drv.req)) = Len(log.wire)
          /\ \A k \in 1 .. Len(log.wire) :
                Requested(drv.req)[k] = Command(drv.req, k)
      BY <3>1, <3>2, RequestedCommands DEF Total
    <3>4. \A k \in 1 .. Len(log.wire) : log.wire[k] = Requested(drv.req)[k]
      BY <3>2, <3>3 DEF IInv, InTurn
    <3>5. log.wire = Requested(drv.req)
      BY <3>2, <3>3, <3>4, SeqEqual
    <3> QED
      BY <3>1, <3>5 DEF Finished
  <2> QED
    BY <2>1, <2>2
<1> QED
  BY <1>1, EndsInTurn, PTL

=============================================================================
