--------------------------- MODULE ModbusBus_proofs ---------------------------
(***************************************************************************)
(* Theorems about ModbusBus, for every size of requests, FIFO and queue and *)
(* any number of requests under way.                                        *)
(***************************************************************************)
EXTENDS ModbusBus, SequenceTheorems, TLAPS

-----------------------------------------------------------------------------
\* The transmit side.

\* What the argument needs of the types.
UartTypes ==
    /\ at \in {"idle", "queue", "fill", "header", "len", "data", "crc"}
    /\ uart \in [txq : Nat, fifo : 0 .. TxDepth, txim : BOOLEAN, ris : BOOLEAN,
                 out : Nat]
    /\ need \in Nat

\* The transmit interrupt is off while the writing task fills the FIFO.
FillsAlone == at = "fill" => ~uart.txim

TxInv == UartTypes /\ FillsAlone /\ NoByteLeftBehind

\* The interrupt handler keeps the types and leaves no byte behind: it goes on
\* being called unless it has emptied the queue.
LEMMA IrqTxLeavesNothing ==
  ASSUME NEW u \in [txq : Nat, fifo : 0 .. TxDepth, txim : BOOLEAN,
                    ris : BOOLEAN, out : Nat]
  PROVE  /\ IrqTx(u) \in [txq : Nat, fifo : 0 .. TxDepth, txim : BOOLEAN,
                          ris : BOOLEAN, out : Nat]
         /\ IrqTx(u).txim => /\ u.txim
                             /\ IrqTx(u).txq > 0 /\ IrqTx(u).fifo > TxLevel
         /\ IrqTx(u).txq > 0 => u.txq > 0 /\ (u.txim => IrqTx(u).txim)
<1> DEFINE n == Smaller(u.txq, TxDepth - u.fifo)
<1>1. /\ u.txq \in Nat /\ u.fifo \in Nat /\ u.fifo <= TxDepth /\ u.out \in Nat
      /\ u.txim \in BOOLEAN /\ u.ris \in BOOLEAN
      /\ u = [txq |-> u.txq, fifo |-> u.fifo, txim |-> u.txim, ris |-> u.ris,
              out |-> u.out]
  BY BusAssumption
<1>2. /\ n \in Nat /\ n <= u.txq /\ n <= TxDepth - u.fifo
      /\ n < u.txq => n = TxDepth - u.fifo
  BY <1>1, BusAssumption DEF Smaller
<1>3. /\ IrqTx(u).txq = u.txq - n
      /\ IrqTx(u).fifo = u.fifo + n
      /\ IrqTx(u).txim <=> u.txim /\ u.txq > n
  <2>1. IrqTx(u).txq = u.txq - n
    BY Zenon DEF IrqTx
  <2>2. IrqTx(u).fifo = u.fifo + n
    BY Zenon DEF IrqTx
  <2>3. IrqTx(u).txim <=> u.txim /\ u.txq > n
    BY Zenon DEF IrqTx
  <2> QED
    BY <2>1, <2>2, <2>3, Zenon
<1>4. /\ u.txq - n \in Nat /\ u.fifo + n \in 0 .. TxDepth
      /\ u.txq > n => u.fifo + n > TxLevel
      /\ u.txq - n > 0 <=> u.txq > n
  BY <1>1, <1>2, BusAssumption
<1>5. IrqTx(u) = [txq |-> u.txq - n, fifo |-> u.fifo + n,
                  txim |-> u.txim /\ u.txq > n,
                  ris |-> u.ris /\ u.fifo + n <= TxLevel, out |-> u.out]
  BY Zenon DEF IrqTx
<1> HIDE DEF n
<1>6. IrqTx(u) \in [txq : Nat, fifo : 0 .. TxDepth, txim : BOOLEAN,
                    ris : BOOLEAN, out : Nat]
  <2> DEFINE i == u.txim /\ u.txq > n
             r == u.ris /\ u.fifo + n <= TxLevel
             q == u.txq - n
             f == u.fifo + n
  <2>1. i \in BOOLEAN /\ r \in BOOLEAN
    BY Zenon
  <2>2. q \in Nat /\ f \in 0 .. TxDepth /\ u.out \in Nat
    BY <1>1, <1>4
  <2>3. IrqTx(u) = [txq |-> q, fifo |-> f, txim |-> i, ris |-> r, out |-> u.out]
    BY <1>5, Zenon
  <2> HIDE DEF i, r, q, f
  <2> QED
    BY <2>1, <2>2, <2>3
<1>7. IrqTx(u).txim => u.txim /\ IrqTx(u).txq > 0 /\ IrqTx(u).fifo > TxLevel
  BY <1>3, <1>4
<1>8. IrqTx(u).txq > 0 => u.txq > 0 /\ (u.txim => IrqTx(u).txim)
  BY <1>1, <1>2, <1>3, <1>4
<1> QED
  BY <1>6, <1>7, <1>8

\* Initially nothing is queued.
LEMMA TxInit == Init => TxInv
BY BusAssumption DEF Init, TxInv, UartTypes, FillsAlone, NoByteLeftBehind

\* The bytes of a request are queued while no byte can be left behind, and the
\* first of them are put into the FIFO with the interrupt disabled.
LEMMA TxQueueByte == TxInv /\ QueueByte => TxInv'
<1> SUFFICES ASSUME TxInv, QueueByte PROVE TxInv'
  OBVIOUS
<1> USE DEF TxInv, UartTypes, FillsAlone, NoByteLeftBehind, QueueByte
<1>1. UartTypes'
  BY BusAssumption
<1>2. FillsAlone'
  OBVIOUS
<1>3. NoByteLeftBehind'
  OBVIOUS
<1> QED
  BY <1>1, <1>2, <1>3

LEMMA TxQueued == TxInv /\ Queued => TxInv'
BY DEF TxInv, UartTypes, FillsAlone, NoByteLeftBehind, Queued

LEMMA TxFillByte == TxInv /\ FillByte => TxInv'
<1> SUFFICES ASSUME TxInv, FillByte PROVE TxInv'
  OBVIOUS
<1> USE DEF TxInv, UartTypes, FillsAlone, NoByteLeftBehind, FillByte, Moved
<1>1. uart.txq - 1 \in Nat /\ uart.fifo + 1 \in 0 .. TxDepth
  BY BusAssumption
<1>2. (uart.ris /\ uart.fifo + 1 <= TxLevel) \in BOOLEAN
  BY Zenon
<1>3. UartTypes'
  BY <1>1, <1>2
<1>4. FillsAlone' /\ NoByteLeftBehind'
  OBVIOUS
<1> QED
  BY <1>3, <1>4

\* When the FIFO is full, it is above the level of the interrupt, which will
\* come for the bytes that are left.
LEMMA TxFillEnd == TxInv /\ FillEnd => TxInv'
<1> SUFFICES ASSUME TxInv, FillEnd PROVE TxInv'
  OBVIOUS
<1>1. (uart.txq > 0) \in BOOLEAN
  BY DEF TxInv, UartTypes
<1> USE DEF TxInv, UartTypes, FillsAlone, NoByteLeftBehind, FillEnd
<1>2. UartTypes'
  BY <1>1
<1>3. FillsAlone'
  OBVIOUS
<1>4. uart'.txim <=> uart.txq > 0
  BY Zenon
<1>5. uart'.txq = uart.txq /\ uart'.fifo = uart.fifo /\ uart.txq \in Nat
  OBVIOUS
<1>6. NoByteLeftBehind'
  BY <1>4, <1>5, BusAssumption
<1> QED
  BY <1>2, <1>3, <1>6

\* The interrupt handler, called for the transmit or for the receive interrupt.
LEMMA TxHandler ==
  ASSUME TxInv, at # "fill", uart' = IrqTx(uart), at' = at, need' = need
  PROVE  TxInv'
<1> USE DEF TxInv, UartTypes
<1>1. UartTypes'
  BY IrqTxLeavesNothing
<1>2. FillsAlone'
  BY DEF FillsAlone
<1>3. NoByteLeftBehind'
  BY IrqTxLeavesNothing DEF NoByteLeftBehind
<1> QED
  BY <1>1, <1>2, <1>3

\* The level is passed with the interrupt raised.
LEMMA TxTransmit == TxInv /\ Transmit => TxInv'
<1> SUFFICES ASSUME TxInv, Transmit PROVE TxInv'
  OBVIOUS
<1> DEFINE r == uart.ris \/ uart.fifo - 1 = TxLevel
           o == IF uart.out + 1 = ReqLen THEN 0 ELSE uart.out + 1
<1>1. UartTypes /\ uart.fifo > 0
  BY DEF TxInv, Transmit
<1>2. /\ uart' = [uart EXCEPT !.fifo = uart.fifo - 1, !.ris = r, !.out = o]
      /\ at' = at /\ need' = need
  BY DEF Transmit
<1>3. uart.fifo - 1 \in 0 .. TxDepth /\ o \in Nat
  BY <1>1, BusAssumption DEF UartTypes
<1>4. r \in BOOLEAN
  BY Zenon
<1>5. r <=> uart.ris \/ uart.fifo - 1 = TxLevel
  OBVIOUS
<1> HIDE DEF r, o
<1>6. /\ uart'.fifo = uart.fifo - 1 /\ uart'.txq = uart.txq
      /\ uart'.txim = uart.txim /\ uart'.ris = r
  BY <1>1, <1>2 DEF UartTypes
<1>7. UartTypes'
  BY <1>1, <1>2, <1>3, <1>4 DEF UartTypes
<1>8. FillsAlone'
  BY <1>2, <1>6 DEF TxInv, FillsAlone
<1>9. NoByteLeftBehind'
  BY <1>1, <1>2, <1>5, <1>6, BusAssumption DEF TxInv, UartTypes, NoByteLeftBehind
<1> QED
  BY <1>7, <1>8, <1>9 DEF TxInv

\* Whoever leaves the transmitter alone and is neither in the queue nor in the
\* filling before leaves no byte behind.
LEMMA TxOthers ==
  ASSUME TxInv, uart' = uart, need' \in Nat,
         \/ at' = "queue"
         \/ /\ at \notin {"queue", "fill"}
            /\ at' \in {"idle", "header", "len", "data", "crc"}
         \/ at' = at
  PROVE  TxInv'
BY DEF TxInv, UartTypes, FillsAlone, NoByteLeftBehind

LEMMA TxStep == TxInv /\ [Next]_vars => TxInv'
<1> SUFFICES ASSUME TxInv, [Next]_vars PROVE TxInv'
  OBVIOUS
<1>0. need \in Nat /\ RxSize \in Nat /\ ReqLen \in Nat
  BY BusAssumption DEF TxInv, UartTypes
<1>1. CASE ReaderRequest \/ FanRequest
  BY <1>0, <1>1, TxOthers DEF ReaderRequest, FanRequest, Request
<1>2. CASE Publish \/ UNCHANGED vars
  BY <1>0, <1>2, TxOthers DEF Publish, vars
<1>3. CASE QueueByte
  BY <1>3, TxQueueByte
<1>4. CASE Queued
  BY <1>4, TxQueued
<1>5. CASE FillByte
  BY <1>5, TxFillByte
<1>6. CASE FillEnd
  BY <1>6, TxFillEnd
<1>7. CASE TxInterrupt
  BY <1>7, TxHandler DEF TxInterrupt
<1>8. CASE Transmit
  BY <1>8, TxTransmit
<1>9. CASE Respond
  <2>1. /\ at' = at /\ need' = need
        /\ (at # "fill" /\ uart' = IrqTx(uart)) \/ uart' = uart
    BY <1>9 DEF Respond, Arrive
  <2> QED
    BY <1>0, <2>1, TxHandler, TxOthers
<1>10. CASE HeaderOk
  BY <1>0, <1>10, TxOthers DEF HeaderOk
<1>11. CASE Length
  BY <1>0, <1>11, TxOthers DEF Length
<1>12. CASE Data
  BY <1>0, <1>12, TxOthers DEF Data
<1>13. CASE HeaderWrong \/ Silence \/ Crc \/ Short
  BY <1>0, <1>13, TxOthers DEF HeaderWrong, Silence, Crc, Short, Finish
<1> QED
  BY <1>1, <1>2, <1>3, <1>4, <1>5, <1>6, <1>7, <1>8, <1>9, <1>10, <1>11, <1>12,
     <1>13 DEF Next, Client

\* Whoever filled or emptied the transmit queue last, the writing task
\* (PicoOsUart::write) or the interrupt handler (uart_irq_tx), no byte is left
\* behind in it, for every size of requests and of the FIFO.
THEOREM NothingLeftBehind == Spec => []NoByteLeftBehind
<1>1. Init => TxInv
  BY TxInit
<1>2. TxInv /\ [Next]_vars => TxInv'
  BY TxStep
<1>3. TxInv => NoByteLeftBehind
  BY DEF TxInv
<1> QED
  BY <1>1, <1>2, <1>3, PTL DEF Spec

-----------------------------------------------------------------------------
\* The requests and their responses: the inductive invariant.

\* Who holds the line has a request under way, the reader that of its step.
Held == /\ holder = "none" <=> at = "idle"
        /\ holder = "reader" => reader.step <= 4 /\ cur = ReaderReads[reader.step]

\* The bytes of a request that the client still has to queue.
Unqueued == IF at = "queue" THEN need ELSE 0

\* Every request on its way has all its bytes, queued, in the FIFO or sent.
Complete == uart.txq + uart.fifo + uart.out + Unqueued = Len(frames) * ReqLen

\* What may be in the buffer as a value of register i.
Akin(v, i) == v = "zero" \/ (v \in Kinds /\ Unit[v] = Unit[ReaderReads[i]])

\* A byte of a frame is followed by the next one.
Followed(i) == \E k \in Kinds, j \in 1 .. 5 :
                  /\ rxq[i] = <<k, j>> /\ j <= FrameLen(k)
                  /\ j < FrameLen(k) => i < Len(rxq) /\ rxq[i + 1] = <<k, j + 1>>

\* The next byte is the j-th of a response of the device that was asked.
Ahead(j) == /\ Function[cur] = "read" /\ rxq # <<>>
            /\ \E k \in Kinds : /\ rxq[1] = <<k, j>> /\ Unit[k] = Unit[cur]
                                /\ Function[k] = Function[cur]

\* Until bytes are garbled or dropped, the receive queue holds whole responses
\* but for the part of the first that has been read.
Whole ==
    /\ \A i \in 1 .. Len(rxq) : Followed(i)
    /\ at = "len" => Ahead(3)
    /\ at = "data" /\ holder = "reader" => need = 1 /\ Ahead(4)
    /\ holder = "reader" \/ reader.step \in {2, 4} => Akin(reader.buf, reader.step)
    /\ reader.step > 1 => Akin(reader.got, reader.step - 1)

\* The response to the request is in the queue, but for its first n bytes.
Remains(n) == /\ Len(rxq) = FrameLen(cur) - n
              /\ \A i \in 1 .. Len(rxq) : rxq[i] = <<cur, n + i>>

\* The request is on its way, or its response, or nothing more.
Awaited == \/ frames = <<cur>> /\ owed = <<>> /\ rxq = <<>>
           \/ frames = <<>> /\ owed = <<cur>> /\ rxq = <<>>
           \/ frames = <<>> /\ owed = <<>> /\ (rxq = <<>> \/ Remains(0))

\* What the reader has read, and has in its buffer, is of its own registers.
OwnBuffer ==
    /\ reader.step = 1 /\ holder = "reader" => reader.buf \in {"co2", "zero"}
    /\ reader.step = 2 => reader.got \in {"co2", "zero"}
    /\ reader.step = 3 /\ holder = "reader" => reader.buf \in {"rh", "zero"}
    /\ reader.step = 4 => /\ reader.buf \in {"temp", "rh", "zero"}
                         /\ reader.got \in {"rh", "zero"}
    /\ reader.step = 5 => reader.got \in {"temp", "rh", "zero"}

\* Until a response is late, there is no other one than that to the request.
InTime ==
    /\ at = "idle" => frames = <<>> /\ owed = <<>> /\ rxq = <<>>
    /\ at \in {"queue", "fill", "header"} => Awaited
    /\ at \in {"len", "data", "crc"} => frames = <<>> /\ owed = <<>>
    /\ at = "len" => Function[cur] = "read" /\ Remains(2)
    /\ at = "data" => need = 1 /\ Remains(FrameLen(cur) - 2)
    /\ at = "crc" => Remains(FrameLen(cur) - 1)
    /\ OwnBuffer

BusInv == /\ TypeOK /\ Held /\ Complete
          /\ trouble <= 1 => Whole
          /\ trouble = 0 => InTime

-----------------------------------------------------------------------------
\* The operators.

\* The requests, their devices and functions, and the sizes of their responses.
LEMMA KindsAre ==
  /\ Kinds = {"co2", "co2Temp", "rh", "temp", "setSpeed", "speed"}
  /\ \A k \in Kinds :
        /\ Function[k] = "read" => FrameLen(k) = 5 /\ k # "setSpeed"
        /\ Function[k] = "write" => FrameLen(k) = 4 /\ k = "setSpeed"
        /\ Function[k] \in {"read", "write"}
  /\ \A i \in 1 .. 4 : ReaderReads[i] \in Kinds /\ Function[ReaderReads[i]] = "read"
  /\ \A i \in 1 .. 2 : FanRequests[i] \in Kinds
  /\ Unit[ReaderReads[1]] = Unit[ReaderReads[2]]
  /\ Unit[ReaderReads[3]] = Unit[ReaderReads[4]]
<1>1. Range(ReaderReads) = {"co2", "co2Temp", "rh", "temp"}
  BY DEF Range, ReaderReads
<1>2. Range(FanRequests) = {"setSpeed", "speed"}
  BY DEF Range, FanRequests
<1>3. Kinds = {"co2", "co2Temp", "rh", "temp", "setSpeed", "speed"}
  BY <1>1, <1>2 DEF Kinds
<1>4. \A k \in Kinds :
         /\ Function[k] = "read" => FrameLen(k) = 5 /\ k # "setSpeed"
         /\ Function[k] = "write" => FrameLen(k) = 4 /\ k = "setSpeed"
         /\ Function[k] \in {"read", "write"}
  BY <1>3 DEF Function, FrameLen
<1>5. \A i \in 1 .. 4 : ReaderReads[i] \in Kinds /\ Function[ReaderReads[i]] = "read"
  BY <1>3 DEF ReaderReads, Function
<1>6. \A i \in 1 .. 2 : FanRequests[i] \in Kinds
  BY <1>3 DEF FanRequests
<1>7. /\ Unit[ReaderReads[1]] = Unit[ReaderReads[2]]
      /\ Unit[ReaderReads[3]] = Unit[ReaderReads[4]]
  BY <1>3 DEF ReaderReads, Unit
<1> QED
  BY <1>3, <1>4, <1>5, <1>6, <1>7

\* A response, byte by byte.
LEMMA FrameBytes ==
  ASSUME NEW k \in Kinds
  PROVE  /\ FrameLen(k) \in {4, 5} /\ Frame(k) \in Seq(Bytes)
         /\ Len(Frame(k)) = FrameLen(k)
         /\ \A i \in 1 .. FrameLen(k) : Frame(k)[i] = <<k, i>>
<1>1. FrameLen(k) \in {4, 5}
  BY DEF FrameLen
<1>2. \A i \in 1 .. FrameLen(k) : <<k, i>> \in Bytes
  BY <1>1 DEF Bytes
<1>3. Frame(k) \in [1 .. FrameLen(k) -> Bytes]
  BY <1>2 DEF Frame
<1> QED
  BY <1>1, <1>3 DEF Frame

\* What is left of one that is garbled.
LEMMA GarbledBytes ==
  ASSUME NEW k \in Kinds, NEW bytes \in Garbled(k)
  PROVE  bytes \in Seq(Bytes) /\ Len(bytes) \in Nat
<1>1. Noise \in Bytes
  BY DEF Bytes
<1>2. ASSUME NEW i \in 1 .. FrameLen(k), bytes = [Frame(k) EXCEPT ![i] = Noise]
      PROVE  bytes \in Seq(Bytes)
  BY <1>1, <1>2, FrameBytes
<1>3. ASSUME NEW i \in 1 .. FrameLen(k), bytes = RemoveAt(Frame(k), i)
      PROVE  bytes \in Seq(Bytes)
  <2>1. /\ SubSeq(Frame(k), 1, i - 1) \in Seq(Bytes)
        /\ SubSeq(Frame(k), i + 1, Len(Frame(k))) \in Seq(Bytes)
    BY FrameBytes
  <2> QED
    BY <1>3, <2>1 DEF RemoveAt
<1>4. bytes \in Seq(Bytes)
  BY <1>2, <1>3 DEF Garbled
<1> QED
  BY <1>4

\* What the receive queue holds after n bytes have been read.
LEMMA RestBytes ==
  ASSUME TypeOK, NEW n \in Nat, n <= Len(rxq)
  PROVE  /\ Rest(n) \in Seq(Bytes) /\ Len(Rest(n)) = Len(rxq) - n
         /\ \A i \in 1 .. Len(Rest(n)) : Rest(n)[i] = rxq[i + n] /\ i + n <= Len(rxq)
<1>1. rxq \in Seq(Bytes) /\ Len(rxq) \in Nat
  BY DEF TypeOK
<1> QED
  BY <1>1 DEF Rest

LEMMA Product ==
  ASSUME NEW c \in Nat, NEW n \in Nat
  PROVE  /\ n * c \in Nat /\ (n + 1) * c = n * c + c
         /\ \A m \in Nat : n <= m => n * c <= m * c
OBVIOUS

-----------------------------------------------------------------------------
\* The invariant holds at first.

LEMMA InitBus == Init => BusInv
<1> SUFFICES ASSUME Init PROVE BusInv
  OBVIOUS
<1>1. TypeOK
  <2>1. 0 \in 0 .. MaxFrames * ReqLen /\ 0 \in 0 .. ReqLen - 1 /\ 0 \in 0 .. TxDepth
    BY Product, BusAssumption
  <2>2. uart \in [txq : 0 .. MaxFrames * ReqLen, fifo : 0 .. TxDepth,
                  txim : BOOLEAN, ris : BOOLEAN, out : 0 .. ReqLen - 1]
    BY <2>1 DEF Init
  <2>3. /\ frames \in Seq(Kinds) /\ owed \in Seq(Kinds) /\ rxq \in Seq(Bytes)
        /\ Len(frames \o owed) <= MaxFrames /\ Len(rxq) <= RxSize
    BY BusAssumption DEF Init
  <2>4. reader \in [step : 1 .. 5, buf : Readings, got : Readings]
    BY DEF Init, Readings
  <2>5. fan \in 1 .. 2 /\ trouble \in 0 .. 2 /\ faults \in 0 .. MaxFaults
        /\ need \in Nat /\ cur \in Kinds
    BY KindsAre, BusAssumption DEF Init
  <2> QED
    BY <2>2, <2>3, <2>4, <2>5 DEF Init, TypeOK
<1>2. Held /\ Complete
  BY BusAssumption DEF Init, Held, Complete, Unqueued
<1>3. Whole
  BY DEF Init, Whole
<1>4. InTime
  BY DEF Init, InTime, OwnBuffer
<1> QED
  BY <1>1, <1>2, <1>3, <1>4 DEF BusInv

-----------------------------------------------------------------------------
\* The transmitter.

UartType == [txq : 0 .. MaxFrames * ReqLen, fifo : 0 .. TxDepth,
             txim : BOOLEAN, ris : BOOLEAN, out : 0 .. ReqLen - 1]

\* The counters of the transmitter are numbers.
LEMMA UartCounters ==
  ASSUME TypeOK
  PROVE  /\ uart \in UartType
         /\ uart.txq \in Nat /\ uart.fifo \in Nat /\ uart.out \in Nat
         /\ uart.fifo <= TxDepth /\ uart.out < ReqLen /\ need \in Nat
         /\ ReqLen \in Nat /\ ReqLen > 0 /\ TxDepth \in Nat
         /\ frames \in Seq(Kinds) /\ Len(frames) \in Nat /\ Unqueued \in Nat
         /\ Len(frames) <= MaxFrames /\ MaxFrames \in Nat
<1>1. frames \in Seq(Kinds) /\ owed \in Seq(Kinds) /\ Len(frames \o owed) <= MaxFrames
  BY DEF TypeOK
<1>2. Len(frames \o owed) = Len(frames) + Len(owed)
  BY <1>1
<1>3. Len(frames) <= MaxFrames
  BY <1>1, <1>2, BusAssumption
<1>4. /\ uart \in UartType /\ need \in Nat
  BY DEF TypeOK, UartType
<1>5. ReqLen \in Nat /\ ReqLen > 0 /\ TxDepth \in Nat /\ MaxFrames \in Nat
  BY BusAssumption
<1> QED
  BY <1>1, <1>3, <1>4, <1>5 DEF UartType, Unqueued

LEMMA UartNumbers ==
  ASSUME TypeOK
  PROVE  /\ uart.txq \in Nat /\ uart.fifo \in Nat /\ uart.out \in Nat
         /\ uart.fifo <= TxDepth /\ uart.out < ReqLen /\ need \in Nat
         /\ ReqLen \in Nat /\ ReqLen > 0 /\ TxDepth \in Nat
BY UartCounters

\* The transmit queue holds no more than the bytes of the requests.
LEMMA QueueBounded ==
  ASSUME NEW n \in Nat, n <= MaxFrames, NEW q \in Nat, NEW r \in Nat,
         q + r = n * ReqLen
  PROVE  q \in 0 .. MaxFrames * ReqLen
<1>1. ReqLen \in Nat /\ MaxFrames \in Nat
  BY BusAssumption
<1>2. PICK a \in Nat, b \in Nat : a = n * ReqLen /\ b = MaxFrames * ReqLen /\ a <= b
  BY <1>1, Product
<1> QED
  BY <1>2

\* What a step of the transmitter leaves alone.
LEMMA SameBytes ==
  ASSUME BusInv, TypeOK', Held', Complete',
         UNCHANGED <<holder, cur, frames, owed, rxq, reader, trouble>>,
         \/ at' = at /\ need' = need
         \/ at \in {"queue", "fill"} /\ at' \in {"queue", "fill", "header"}
  PROVE  BusInv'
<1>1. trouble' <= 1 => Whole'
  <2> SUFFICES ASSUME trouble <= 1 PROVE Whole'
    OBVIOUS
  <2>1. Whole
    BY DEF BusInv
  <2>2. \A i \in 1 .. Len(rxq') : Followed(i)'
    BY <2>1 DEF Whole, Followed
  <2> QED
    BY <2>1, <2>2 DEF Whole, Ahead, Akin
<1>2. trouble' = 0 => InTime'
  <2> SUFFICES ASSUME trouble = 0 PROVE InTime'
    OBVIOUS
  <2>1. InTime
    BY DEF BusInv
  <2>2. Awaited' <=> Awaited
    BY DEF Awaited, Remains
  <2>3. \A n : Remains(n)' <=> Remains(n)
    BY DEF Remains
  <2> QED
    BY <2>1, <2>2, <2>3 DEF InTime, OwnBuffer
<1> QED
  BY <1>1, <1>2 DEF BusInv

LEMMA QueueByteStep ==
  ASSUME BusInv, QueueByte
  PROVE  BusInv'
<1>1. /\ at = "queue" /\ need > 0 /\ uart' = [uart EXCEPT !.txq = @ + 1]
      /\ need' = need - 1
      /\ UNCHANGED <<holder, at, cur, frames, owed, rxq, reader, fan, trouble, faults>>
  BY DEF QueueByte, line, task
<1>2. TypeOK /\ Complete
  BY DEF BusInv
<1>3. /\ uart'.txq = uart.txq + 1 /\ uart'.fifo = uart.fifo /\ uart'.out = uart.out
      /\ need' \in Nat
  BY <1>1, <1>2, UartCounters DEF UartType
<1>4. PICK q \in Nat, f \in Nat, o \in Nat, n \in Nat, l \in Nat :
         /\ q = uart.txq /\ f = uart.fifo /\ o = uart.out /\ n = need'
         /\ l = Len(frames) /\ l <= MaxFrames
  BY <1>2, <1>3, UartCounters
<1>5. (q + 1) + (f + o + n) = l * ReqLen
  <2>1. q + f + o + (n + 1) = l * ReqLen
    <3>1. need = n + 1 /\ Unqueued = n + 1
      BY <1>1, <1>2, <1>4, UartNumbers DEF Unqueued
    <3> QED
      BY <1>2, <1>4, <3>1 DEF Complete
  <2>2. l * ReqLen \in Nat
    BY Product, BusAssumption
  <2> QED
    BY <2>1, <2>2
<1>6. Complete'
  <2>1. Unqueued' = n /\ uart'.txq = q + 1 /\ uart'.fifo = f /\ uart'.out = o
        /\ Len(frames') = l
    BY <1>1, <1>3, <1>4 DEF Unqueued
  <2>2. (q + 1) + f + o + n = l * ReqLen
    BY <1>5
  <2> QED
    BY <2>1, <2>2 DEF Complete
<1>7. uart' \in UartType
  <2>1. q + 1 \in 0 .. MaxFrames * ReqLen
    <3>1. q + 1 \in Nat /\ f + o + n \in Nat
      OBVIOUS
    <3> QED
      BY <1>4, <1>5, <3>1, QueueBounded
  <2>2. uart' = [uart EXCEPT !.txq = q + 1] /\ uart \in UartType
    BY <1>1, <1>2, <1>4, UartCounters
  <2> QED
    BY <2>1, <2>2 DEF UartType
<1>8. TypeOK'
  BY <1>1, <1>2, <1>3, <1>7 DEF TypeOK, UartType
<1>9. Held'
  BY <1>1 DEF BusInv, Held
<1> QED
  BY <1>1, <1>6, <1>8, <1>9, SameBytes

LEMMA QueuedStep ==
  ASSUME BusInv, Queued
  PROVE  BusInv'
<1>1. /\ at = "queue" /\ need = 0 /\ at' \in {"header", "fill"}
      /\ UNCHANGED <<holder, cur, need, uart, frames, owed, rxq, reader, fan, trouble,
                     faults>>
  BY DEF Queued, line, task
<1>2. TypeOK'
  BY <1>1 DEF BusInv, TypeOK
<1>3. Held' /\ Complete'
  BY <1>1 DEF BusInv, Held, Complete, Unqueued
<1> QED
  BY <1>1, <1>2, <1>3, SameBytes

\* A step that moves bytes from the transmit queue to the FIFO.
LEMMA Moves ==
  ASSUME TypeOK, Complete, NEW n \in Nat, n <= uart.txq, uart.fifo + n <= TxDepth,
         uart' \in [txq : Nat, fifo : Nat, txim : BOOLEAN, ris : BOOLEAN, out : Nat],
         uart'.txq = uart.txq - n, uart'.fifo = uart.fifo + n, uart'.out = uart.out,
         Unqueued' = Unqueued, frames' = frames
  PROVE  uart' \in UartType /\ Complete'
<1>1. PICK q \in Nat, f \in Nat, o \in Nat, r \in Nat :
         q = uart.txq /\ f = uart.fifo /\ o = uart.out /\ r = Unqueued
  BY UartCounters
<1>2. /\ uart'.txq = q - n /\ uart'.fifo = f + n /\ uart'.out = o /\ Unqueued' = r
      /\ n <= q /\ f + n <= TxDepth /\ q + f + o + r = Len(frames) * ReqLen
  BY <1>1 DEF Complete
<1>3. (q - n) + (f + n) + o + r = Len(frames) * ReqLen
  BY <1>2
<1>4. Complete'
  BY <1>2, <1>3 DEF Complete
<1>5. q - n \in 0 .. MaxFrames * ReqLen
  <2>1. MaxFrames * ReqLen \in Nat
    BY Product, BusAssumption
  <2>2. q \in 0 .. MaxFrames * ReqLen
    BY <1>1, UartCounters DEF UartType
  <2>3. PICK b \in Nat : b = MaxFrames * ReqLen /\ q <= b
    BY <2>1, <2>2
  <2> QED
    BY <1>2, <2>3
<1>6. f + n \in 0 .. TxDepth /\ o \in 0 .. ReqLen - 1
  <2>1. o < ReqLen
    BY <1>1, UartNumbers
  <2> QED
    BY <1>2, <2>1, BusAssumption
<1>7. uart' \in UartType
  BY <1>2, <1>5, <1>6 DEF UartType
<1> QED
  BY <1>4, <1>7

\* So does the interrupt handler.
LEMMA IrqTxMoves ==
  ASSUME TypeOK, Complete, uart' = IrqTx(uart), Unqueued' = Unqueued,
         frames' = frames
  PROVE  uart' \in UartType /\ Complete'
<1> DEFINE n == Smaller(uart.txq, TxDepth - uart.fifo)
           i == uart.txim /\ uart.txq > n
           r == uart.ris /\ uart.fifo + n <= TxLevel
<1>1. n \in Nat /\ n <= uart.txq /\ uart.fifo + n <= TxDepth
  BY UartNumbers DEF Smaller
<1>2. i \in BOOLEAN /\ r \in BOOLEAN
  BY Zenon
<1>3. uart' = [txq |-> uart.txq - n, fifo |-> uart.fifo + n, txim |-> i, ris |-> r,
               out |-> uart.out]
  BY Zenon DEF IrqTx
<1> HIDE DEF n, i, r
<1>4. uart.txq - n \in Nat /\ uart.fifo + n \in Nat /\ uart.out \in Nat
  BY <1>1, UartNumbers
<1>5. uart' \in [txq : Nat, fifo : Nat, txim : BOOLEAN, ris : BOOLEAN, out : Nat]
  BY <1>2, <1>3, <1>4
<1>6. uart'.txq = uart.txq - n /\ uart'.fifo = uart.fifo + n /\ uart'.out = uart.out
  BY <1>3
<1> QED
  BY <1>1, <1>5, <1>6, Moves

LEMMA TxInterruptStep ==
  ASSUME BusInv, TxInterrupt
  PROVE  BusInv'
<1>1. /\ uart' = IrqTx(uart)
      /\ UNCHANGED <<holder, at, cur, need, frames, owed, rxq, reader, fan, trouble,
                     faults>>
  BY DEF TxInterrupt, line, task
<1>2. uart' \in UartType /\ Complete'
  BY <1>1, IrqTxMoves DEF BusInv, Unqueued
<1>3. TypeOK' /\ Held'
  BY <1>1, <1>2 DEF BusInv, TypeOK, UartType, Held
<1> QED
  BY <1>1, <1>2, <1>3, SameBytes

LEMMA FillByteStep ==
  ASSUME BusInv, FillByte
  PROVE  BusInv'
<1>1. /\ at = "fill" /\ uart.txq > 0 /\ uart.fifo < TxDepth /\ uart' = Moved(uart)
      /\ UNCHANGED <<holder, at, cur, need, frames, owed, rxq, reader, fan, trouble,
                     faults>>
  BY DEF FillByte, line, task
<1>2. TypeOK /\ Complete
  BY DEF BusInv
<1> DEFINE r == uart.ris /\ uart.fifo + 1 <= TxLevel
<1>3. r \in BOOLEAN
  BY Zenon
<1>4. uart' = [uart EXCEPT !.txq = uart.txq - 1, !.fifo = uart.fifo + 1, !.ris = r]
  BY <1>1 DEF Moved
<1> HIDE DEF r
<1>5. 1 <= uart.txq /\ uart.fifo + 1 <= TxDepth /\ uart.txq - 1 \in Nat
  BY <1>1, <1>2, UartCounters
<1>6. /\ uart' \in [txq : Nat, fifo : Nat, txim : BOOLEAN, ris : BOOLEAN, out : Nat]
      /\ uart'.txq = uart.txq - 1 /\ uart'.fifo = uart.fifo + 1
      /\ uart'.out = uart.out
  <2> DEFINE q == uart.txq - 1
             f == uart.fifo + 1
  <2>1. q \in Nat /\ f \in Nat
    BY <1>2, <1>5, UartNumbers
  <2>2. uart' = [uart EXCEPT !.txq = q, !.fifo = f, !.ris = r]
    BY <1>4
  <2> HIDE DEF q, f
  <2>3. /\ uart' \in [txq : Nat, fifo : Nat, txim : BOOLEAN, ris : BOOLEAN, out : Nat]
        /\ uart'.txq = q /\ uart'.fifo = f /\ uart'.out = uart.out
    BY <1>2, <1>3, <2>1, <2>2, UartCounters DEF UartType
  <2> QED
    BY <2>3 DEF q, f
<1>7. uart' \in UartType /\ Complete'
  BY <1>1, <1>2, <1>5, <1>6, Moves DEF Unqueued
<1>8. TypeOK' /\ Held'
  BY <1>1, <1>2, <1>7 DEF BusInv, TypeOK, UartType, Held
<1> QED
  BY <1>1, <1>7, <1>8, SameBytes

LEMMA FillEndStep ==
  ASSUME BusInv, FillEnd
  PROVE  BusInv'
<1> DEFINE i == uart.txq > 0
<1>1. /\ at = "fill" /\ at' = "header" /\ uart' = [uart EXCEPT !.txim = i]
      /\ UNCHANGED <<holder, cur, need, frames, owed, rxq, reader, fan, trouble,
                     faults>>
  BY DEF FillEnd, line, task
<1>2. TypeOK /\ Complete
  BY DEF BusInv
<1>3. i \in BOOLEAN
  BY <1>2, UartCounters
<1> HIDE DEF i
<1>4. /\ uart' \in UartType /\ uart'.txq = uart.txq /\ uart'.fifo = uart.fifo
      /\ uart'.out = uart.out
  BY <1>1, <1>2, <1>3, UartCounters DEF UartType
<1>5. Complete'
  BY <1>1, <1>2, <1>4 DEF Complete, Unqueued
<1>6. TypeOK' /\ Held'
  BY <1>1, <1>2, <1>4 DEF BusInv, TypeOK, UartType, Held
<1> QED
  BY <1>1, <1>5, <1>6, SameBytes

\* What does not touch the receive queue, the reader and its request.
LEMMA SameWhole ==
  ASSUME Whole, UNCHANGED <<holder, at, need, cur, rxq, reader>>
  PROVE  Whole'
<1>1. \A i \in 1 .. Len(rxq') : Followed(i)'
  BY DEF Whole, Followed
<1> QED
  BY <1>1 DEF Whole, Ahead, Akin

\* In the FIFO or on the line there is a byte of some request.
LEMMA FramesNotEmpty ==
  ASSUME TypeOK, Complete, uart.fifo > 0
  PROVE  frames # <<>> /\ Len(frames) > 0 /\ Head(frames) \in Kinds
<1>1. frames \in Seq(Kinds) /\ Len(frames) \in Nat
  BY UartCounters
<1>2. Len(frames) # 0
  <2> SUFFICES ASSUME Len(frames) = 0 PROVE FALSE
    OBVIOUS
  <2>1. PICK q \in Nat, f \in Nat, o \in Nat, r \in Nat :
           q = uart.txq /\ f = uart.fifo /\ o = uart.out /\ r = Unqueued
    BY UartCounters
  <2>2. q + f + o + r = 0 * ReqLen /\ f > 0
    BY <2>1 DEF Complete
  <2>3. 0 * ReqLen = 0
    BY BusAssumption
  <2> QED
    BY <2>2, <2>3
<1> QED
  BY <1>1, <1>2

LEMMA TransmitStep ==
  ASSUME BusInv, Transmit
  PROVE  BusInv'
<1> DEFINE last == uart.out + 1 = ReqLen
           r == uart.ris \/ uart.fifo - 1 = TxLevel
           o == IF last THEN 0 ELSE uart.out + 1
<1>1. /\ uart.fifo > 0
      /\ uart' = [uart EXCEPT !.fifo = uart.fifo - 1, !.ris = r, !.out = o]
      /\ frames' = IF last THEN Tail(frames) ELSE frames
      /\ owed' = IF last THEN Append(owed, Head(frames)) ELSE owed
      /\ UNCHANGED <<holder, at, cur, need, rxq, reader, fan, trouble, faults>>
  BY DEF Transmit, task
<1>2. TypeOK /\ Complete /\ Held
  BY DEF BusInv
<1>3. /\ frames # <<>> /\ Len(frames) > 0 /\ Head(frames) \in Kinds
      /\ frames \in Seq(Kinds) /\ owed \in Seq(Kinds)
      /\ Len(frames) \in Nat /\ Len(owed) \in Nat
  BY <1>1, <1>2, FramesNotEmpty DEF TypeOK
<1>4. /\ frames' \in Seq(Kinds) /\ owed' \in Seq(Kinds)
      /\ Len(frames') = (IF last THEN Len(frames) - 1 ELSE Len(frames))
      /\ Len(owed') = (IF last THEN Len(owed) + 1 ELSE Len(owed))
  BY <1>1, <1>3
<1>5. Len(frames' \o owed') <= MaxFrames
  <2>1. Len(frames \o owed) = Len(frames) + Len(owed) /\ Len(frames \o owed) <= MaxFrames
    BY <1>2, <1>3 DEF TypeOK
  <2>2. Len(frames' \o owed') = Len(frames') + Len(owed')
    BY <1>4
  <2>3. PICK m \in Nat, n \in Nat : m = Len(frames) /\ n = Len(owed)
    BY <1>3
  <2>4. CASE last
    BY <1>3, <1>4, <2>1, <2>2, <2>3, <2>4, BusAssumption
  <2>5. CASE ~last
    BY <1>3, <1>4, <2>1, <2>2, <2>3, <2>5, BusAssumption
  <2> QED
    BY <2>4, <2>5
<1>6. r \in BOOLEAN
  BY Zenon
<1>7. uart.fifo - 1 \in 0 .. TxDepth /\ o \in 0 .. ReqLen - 1
  <2>1. PICK f \in Nat, u \in Nat :
           f = uart.fifo /\ u = uart.out /\ f <= TxDepth /\ u < ReqLen
    BY <1>2, UartNumbers
  <2>2. f - 1 \in 0 .. TxDepth
    <3>1. f > 0 /\ TxDepth \in Nat
      BY <1>1, <2>1, BusAssumption
    <3> QED
      BY <2>1, <3>1
  <2>3. (IF u + 1 = ReqLen THEN 0 ELSE u + 1) \in 0 .. ReqLen - 1
    BY <2>1, BusAssumption
  <2> QED
    BY <2>1, <2>2, <2>3
<1>8. Complete'
  <2>1. PICK q \in Nat, f \in Nat, u \in Nat, m \in Nat :
           q = uart.txq /\ f = uart.fifo /\ u = uart.out /\ m = Unqueued
    BY <1>2, UartCounters
  <2>2. /\ q + f + u + m = Len(frames) * ReqLen
        /\ f > 0 /\ (last <=> u + 1 = ReqLen)
    BY <1>1, <1>2, <2>1 DEF Complete
  <2>3. PICK l \in Nat : Len(frames) = l + 1
    BY <1>3
  <2>4. Len(frames) * ReqLen = l * ReqLen + ReqLen /\ l * ReqLen \in Nat
        /\ ReqLen \in Nat
    BY <2>3, Product, BusAssumption
  <2> HIDE DEF r, o
  <2>5. uart'.txq = q /\ uart'.fifo = f - 1 /\ uart'.out = o
    BY <1>1, <1>2, <2>1, UartCounters DEF UartType
  <2>6. Unqueued' = m
    BY <1>1, <2>1 DEF Unqueued
  <2>7. CASE last
    <3>1. q + (f - 1) + 0 + m = l * ReqLen
      BY <2>2, <2>4, <2>7
    <3>2. Len(frames') = l /\ o = 0
      BY <1>4, <2>3, <2>7 DEF o
    <3> QED
      BY <2>5, <2>6, <3>1, <3>2 DEF Complete
  <2>8. CASE ~last
    <3>1. q + (f - 1) + (u + 1) + m = Len(frames) * ReqLen
      BY <2>2, <2>4
    <3>2. frames' = frames /\ o = u + 1
      BY <1>1, <2>1, <2>8 DEF o
    <3> QED
      BY <2>5, <2>6, <3>1, <3>2 DEF Complete
  <2> QED
    BY <2>7, <2>8
<1>9. TypeOK'
  <2> DEFINE f == uart.fifo - 1
  <2>1. f \in 0 .. TxDepth /\ uart' = [uart EXCEPT !.fifo = f, !.ris = r, !.out = o]
    BY <1>1, <1>7
  <2> HIDE DEF f, r, o
  <2>2. uart' \in UartType
    BY <1>2, <1>6, <1>7, <2>1, UartCounters DEF UartType
  <2>3. Len((frames \o owed)') <= MaxFrames
    BY <1>5
  <2> QED
    BY <1>1, <1>2, <1>4, <2>2, <2>3 DEF TypeOK, UartType
<1>10. Held'
  BY <1>1, <1>2 DEF Held
<1>11. trouble' <= 1 => Whole'
  BY <1>1, SameWhole DEF BusInv
<1>12. ASSUME trouble' = 0 PROVE InTime'
  <2>1. InTime
    BY <1>1, <1>12 DEF BusInv
  <2>2. at \in {"queue", "fill", "header"}
    BY <1>2, <1>3, <2>1 DEF InTime, TypeOK
  <2>3. frames = <<cur>> /\ owed = <<>> /\ rxq = <<>>
    BY <1>3, <2>1, <2>2 DEF InTime, Awaited
  <2>4. (frames' = <<>> /\ owed' = <<cur>>) \/ (frames' = frames /\ owed' = owed)
    BY <1>1, <2>3
  <2>5. Awaited'
    BY <1>1, <2>3, <2>4 DEF Awaited
  <2> QED
    BY <1>1, <2>1, <2>2, <2>5 DEF InTime, OwnBuffer
<1> QED
  BY <1>8, <1>9, <1>10, <1>11, <1>12 DEF BusInv

-----------------------------------------------------------------------------
\* Requests, and the reader's turns.

LEMMA RequestStep ==
  ASSUME BusInv, NEW who \in {"reader", "fan"}, NEW kind \in Kinds,
         Request(who, kind),
         IF who = "fan" THEN UNCHANGED reader
         ELSE /\ reader.step <= 4 /\ kind = ReaderReads[reader.step]
              /\ reader' = [reader EXCEPT !.buf =
                              IF reader.step \in {1, 3} THEN "zero" ELSE @]
  PROVE  BusInv'
<1>1. /\ holder = "none" /\ holder' = who /\ at' = "queue" /\ cur' = kind
      /\ need' = ReqLen /\ Len(frames \o owed) < MaxFrames
      /\ frames' = Append(frames, kind)
      /\ UNCHANGED <<uart, owed, rxq, fan, trouble, faults>>
  BY DEF Request
<1>2. TypeOK /\ Complete /\ Held /\ at = "idle"
  BY <1>1 DEF BusInv, Held
<1>3. /\ frames \in Seq(Kinds) /\ owed \in Seq(Kinds)
      /\ reader \in [step : 1 .. 5, buf : Readings, got : Readings]
  BY <1>2 DEF TypeOK
<1>4. /\ reader' \in [step : 1 .. 5, buf : Readings, got : Readings]
      /\ reader'.step = reader.step /\ reader'.got = reader.got
      /\ reader'.buf = (IF who = "reader" /\ reader.step \in {1, 3} THEN "zero"
                        ELSE reader.buf)
  BY <1>3 DEF Readings
<1>5. TypeOK'
  <2>1. frames' \in Seq(Kinds) /\ Len(frames') = Len(frames) + 1
    BY <1>1, <1>3
  <2>2. Len((frames \o owed)') <= MaxFrames
    <3>1. Len(frames \o owed) = Len(frames) + Len(owed)
      BY <1>3
    <3>2. Len(frames' \o owed) = Len(frames') + Len(owed)
      BY <1>3, <2>1
    <3>3. PICK m \in Nat, n \in Nat : m = Len(frames) /\ n = Len(owed)
      BY <1>3
    <3>4. m + n < MaxFrames /\ Len(frames' \o owed) = m + 1 + n
      BY <1>1, <2>1, <3>1, <3>2, <3>3
    <3>5. m + 1 + n <= MaxFrames
      BY <3>4, BusAssumption
    <3> QED
      BY <1>1, <3>4, <3>5
  <2>3. need' \in Nat
    BY <1>1, BusAssumption
  <2> QED
    BY <1>1, <1>2, <1>4, <2>1, <2>2, <2>3 DEF TypeOK
<1>6. Held'
  BY <1>1, <1>4 DEF Held
<1>7. Complete'
  <2>1. PICK q \in Nat, f \in Nat, o \in Nat :
           q = uart.txq /\ f = uart.fifo /\ o = uart.out
    BY <1>2, UartCounters
  <2>2. q + f + o = Len(frames) * ReqLen
    BY <1>2, <2>1 DEF Complete, Unqueued
  <2>3. Len(frames') = Len(frames) + 1 /\ Len(frames) \in Nat
    BY <1>1, <1>3
  <2>4. Len(frames') * ReqLen = Len(frames) * ReqLen + ReqLen
    BY <2>3, Product, BusAssumption
  <2>5. Unqueued' = ReqLen
    BY <1>1 DEF Unqueued
  <2>6. q + f + o + ReqLen = Len(frames') * ReqLen
    BY <2>2, <2>4
  <2> QED
    BY <1>1, <2>1, <2>5, <2>6 DEF Complete
<1>8. ASSUME trouble' <= 1 PROVE Whole'
  <2>1. Whole
    BY <1>1, <1>8 DEF BusInv
  <2>2. \A i \in 1 .. Len(rxq') : Followed(i)'
    BY <1>1, <2>1 DEF Whole, Followed
  <2>3. holder' = "reader" \/ reader'.step \in {2, 4} => Akin(reader.buf, reader.step)'
    BY <1>1, <1>3, <1>4, <2>1 DEF Whole, Akin
  <2>4. reader'.step > 1 => Akin(reader.got, reader.step - 1)'
    BY <1>4, <2>1 DEF Whole, Akin
  <2> QED
    BY <1>1, <2>2, <2>3, <2>4 DEF Whole
<1>9. ASSUME trouble' = 0 PROVE InTime'
  <2>1. InTime
    BY <1>1, <1>9 DEF BusInv
  <2>2. Awaited'
    BY <1>1, <1>2, <2>1 DEF InTime, Awaited
  <2>3. OwnBuffer'
    BY <1>1, <1>3, <1>4, <2>1 DEF InTime, OwnBuffer
  <2> QED
    BY <1>1, <2>2, <2>3 DEF InTime
<1> QED
  BY <1>5, <1>6, <1>7, <1>8, <1>9 DEF BusInv

LEMMA ReaderRequestStep ==
  ASSUME BusInv, ReaderRequest
  PROVE  BusInv'
<1>1. reader.step \in 1 .. 4
  BY DEF BusInv, TypeOK, ReaderRequest
<1>2. ReaderReads[reader.step] \in Kinds
  BY <1>1, KindsAre
<1> QED
  BY <1>1, <1>2, RequestStep DEF ReaderRequest

LEMMA FanRequestStep ==
  ASSUME BusInv, FanRequest
  PROVE  BusInv'
<1>1. FanRequests[fan] \in Kinds
  BY KindsAre DEF BusInv, TypeOK
<1> QED
  BY <1>1, RequestStep DEF FanRequest

LEMMA PublishStep ==
  ASSUME BusInv, Publish
  PROVE  BusInv'
<1>1. /\ reader.step = 5 /\ reader' = [reader EXCEPT !.step = 1]
      /\ UNCHANGED <<holder, at, cur, need, uart, frames, owed, rxq, fan, trouble,
                     faults>>
  BY DEF Publish, line
<1>2. TypeOK /\ Complete /\ Held
  BY DEF BusInv
<1>3. /\ reader' \in [step : 1 .. 5, buf : Readings, got : Readings]
      /\ reader'.step = 1
  <2>1. reader \in [step : 1 .. 5, buf : Readings, got : Readings]
    BY <1>2 DEF TypeOK
  <2> QED
    BY <1>1, <2>1
<1>4. holder # "reader"
  BY <1>1, <1>2 DEF Held
<1>5. TypeOK'
  BY <1>1, <1>2, <1>3 DEF TypeOK
<1>6. Held' /\ Complete'
  BY <1>1, <1>2, <1>4 DEF Held, Complete, Unqueued
<1>7. ASSUME trouble' <= 1 PROVE Whole'
  <2>1. Whole
    BY <1>1, <1>7 DEF BusInv
  <2>2. \A i \in 1 .. Len(rxq') : Followed(i)'
    BY <1>1, <2>1 DEF Whole, Followed
  <2>3. Ahead(3)' <=> Ahead(3)
    BY <1>1 DEF Ahead
  <2> QED
    BY <1>1, <1>3, <1>4, <2>1, <2>2, <2>3 DEF Whole
<1>8. ASSUME trouble' = 0 PROVE InTime'
  <2>1. InTime
    BY <1>1, <1>8 DEF BusInv
  <2>2. Awaited' <=> Awaited
    BY <1>1 DEF Awaited, Remains
  <2>3. \A n : Remains(n)' <=> Remains(n)
    BY <1>1 DEF Remains
  <2> QED
    BY <1>1, <1>3, <1>4, <2>1, <2>2, <2>3 DEF InTime, OwnBuffer
<1> QED
  BY <1>5, <1>6, <1>7, <1>8 DEF BusInv

-----------------------------------------------------------------------------
\* A response comes, or does not.

\* What the receive interrupt leaves in the queue.
LEMMA ArriveBytes ==
  ASSUME TypeOK, NEW bytes \in Seq(Bytes), Arrive(bytes)
  PROVE  /\ rxq' \in Seq(Bytes) /\ Len(rxq') <= RxSize
         /\ Len(rxq) + Len(bytes) <= RxSize => rxq' = rxq \o bytes
<1> DEFINE n == Smaller(Len(bytes), RxSize - Len(rxq))
<1>1. /\ rxq \in Seq(Bytes) /\ Len(rxq) \in Nat /\ Len(rxq) <= RxSize
      /\ Len(bytes) \in Nat /\ RxSize \in Nat
  BY BusAssumption DEF TypeOK
<1>2. /\ n \in Nat /\ n <= Len(bytes) /\ n <= RxSize - Len(rxq)
      /\ Len(rxq) + Len(bytes) <= RxSize => n = Len(bytes)
  BY <1>1 DEF Smaller
<1>3. rxq' = rxq \o SubSeq(bytes, 1, n)
  BY DEF Arrive
<1> HIDE DEF n
<1>4. SubSeq(bytes, 1, n) \in Seq(Bytes) /\ Len(SubSeq(bytes, 1, n)) = n
  BY <1>1, <1>2
<1>5. rxq' \in Seq(Bytes) /\ Len(rxq') = Len(rxq) + n
  BY <1>1, <1>3, <1>4
<1>6. Len(rxq') <= RxSize
  BY <1>1, <1>2, <1>5
<1>7. n = Len(bytes) => SubSeq(bytes, 1, n) = bytes
  BY <1>1
<1> QED
  BY <1>2, <1>3, <1>5, <1>6, <1>7

\* A whole response joins the whole responses.
LEMMA FrameJoins ==
  ASSUME TypeOK, NEW k \in Kinds, rxq' = rxq \o Frame(k),
         \A i \in 1 .. Len(rxq) : Followed(i)
  PROVE  \A i \in 1 .. Len(rxq') : Followed(i)'
<1>1. /\ rxq \in Seq(Bytes) /\ Len(rxq) \in Nat
      /\ Frame(k) \in Seq(Bytes) /\ Len(Frame(k)) = FrameLen(k)
      /\ FrameLen(k) \in {4, 5}
  BY FrameBytes DEF TypeOK
<1>2. /\ Len(rxq') = Len(rxq) + FrameLen(k)
      /\ \A i \in 1 .. Len(rxq) : rxq'[i] = rxq[i]
      /\ \A i \in 1 .. FrameLen(k) : rxq'[Len(rxq) + i] = <<k, i>>
  BY <1>1, FrameBytes
<1>3. ASSUME NEW i \in 1 .. Len(rxq') PROVE Followed(i)'
  <2>1. CASE i <= Len(rxq)
    <3>0. i \in 1 .. Len(rxq) /\ Followed(i)
      BY <1>1, <1>2, <2>1
    <3>1. PICK l \in Kinds, j \in 1 .. 5 :
             /\ rxq[i] = <<l, j>> /\ j <= FrameLen(l)
             /\ j < FrameLen(l) => i < Len(rxq) /\ rxq[i + 1] = <<l, j + 1>>
      BY <3>0 DEF Followed
    <3>2. rxq'[i] = <<l, j>>
      BY <1>2, <3>0, <3>1
    <3>3. j < FrameLen(l) => i < Len(rxq') /\ rxq'[i + 1] = <<l, j + 1>>
      BY <1>1, <1>2, <2>1, <3>1
    <3> QED
      BY <3>1, <3>2, <3>3 DEF Followed
  <2>2. CASE i > Len(rxq)
    <3>1. PICK j \in 1 .. FrameLen(k) : i = Len(rxq) + j
      BY <1>1, <1>2, <2>2
    <3>2. rxq'[i] = <<k, j>> /\ j \in 1 .. 5 /\ j <= FrameLen(k)
      BY <1>1, <1>2, <3>1
    <3>3. j < FrameLen(k) => i < Len(rxq') /\ rxq'[i + 1] = <<k, j + 1>>
      BY <1>1, <1>2, <3>1
    <3> QED
      BY <3>2, <3>3 DEF Followed
  <2> QED
    BY <1>1, <2>1, <2>2
<1> QED
  BY <1>3

\* The first byte stays the first.
LEMMA HeadStays ==
  ASSUME TypeOK, NEW bytes \in Seq(Bytes), rxq' = rxq \o bytes, cur' = cur, NEW j,
         Ahead(j)
  PROVE  Ahead(j)'
<1>1. rxq \in Seq(Bytes) /\ rxq # <<>>
  BY DEF TypeOK, Ahead
<1>2. rxq' # <<>> /\ rxq'[1] = rxq[1]
  BY <1>1
<1> QED
  BY <1>2 DEF Ahead

\* Until a response is late, an answer that is owed is that to the request.
LEMMA OwedInTime ==
  ASSUME BusInv, trouble = 0, owed # <<>>
  PROVE  /\ at \in {"queue", "fill", "header"}
         /\ frames = <<>> /\ owed = <<cur>> /\ rxq = <<>>
<1>1. at \in {"queue", "fill", "header"}
  BY DEF BusInv, InTime, TypeOK
<1> QED
  BY <1>1 DEF BusInv, InTime, Awaited

LEMMA RespondStep ==
  ASSUME BusInv, Respond
  PROVE  BusInv'
<1> DEFINE k == Head(owed)
           fits == Len(rxq) + Len(Frame(k)) <= RxSize
<1>1. /\ owed # <<>> /\ owed' = Tail(owed)
      /\ UNCHANGED <<holder, at, cur, need, frames, reader, fan>>
  BY DEF Respond, task
<1>2. TypeOK /\ Complete /\ Held
  BY DEF BusInv
<1>3. /\ owed \in Seq(Kinds) /\ frames \in Seq(Kinds)
      /\ trouble \in 0 .. 2 /\ faults \in 0 .. MaxFaults /\ MaxFaults \in Nat
  BY <1>2, BusAssumption DEF TypeOK
<1>4. k \in Kinds /\ owed' \in Seq(Kinds) /\ Len(owed') = Len(owed) - 1
  BY <1>1, <1>3
<1> HIDE DEF k
<1>5. \/ /\ Arrive(Frame(k)) /\ faults' = faults
         /\ trouble' = IF fits THEN trouble ELSE 2
      \/ /\ \E bytes \in Garbled(k) : Arrive(bytes)
         /\ faults' = faults + 1 /\ faults < MaxFaults /\ trouble' = 2
      \/ /\ faults' = faults + 1 /\ faults < MaxFaults
         /\ UNCHANGED <<rxq, uart, trouble>>
  BY <1>3 DEF Respond, Fault, NoFault, Trouble, k
<1>6. faults' \in 0 .. MaxFaults /\ trouble' \in 0 .. 2 /\ trouble <= trouble'
  BY <1>3, <1>5
<1>7. rxq' \in Seq(Bytes) /\ Len(rxq') <= RxSize
  <2>1. CASE Arrive(Frame(k))
    BY <1>2, <1>4, <2>1, FrameBytes, ArriveBytes
  <2>2. CASE \E bytes \in Garbled(k) : Arrive(bytes)
    BY <1>2, <1>4, <2>2, GarbledBytes, ArriveBytes
  <2>3. CASE rxq' = rxq
    BY <1>2, <2>3 DEF TypeOK
  <2> QED
    BY <1>5, <2>1, <2>2, <2>3
<1>8. uart' \in UartType /\ Complete'
  <2>1. Unqueued' = Unqueued
    BY <1>1 DEF Unqueued
  <2>2. uart' = IrqTx(uart) \/ uart' = uart
    BY <1>5 DEF Arrive
  <2>3. CASE uart' = IrqTx(uart)
    BY <1>1, <1>2, <2>1, <2>3, IrqTxMoves
  <2>4. CASE uart' = uart
    BY <1>1, <1>2, <2>1, <2>4, UartCounters DEF Complete
  <2> QED
    BY <2>2, <2>3, <2>4
<1>9. Len((frames \o owed)') <= MaxFrames
  <2>1. Len(frames \o owed) = Len(frames) + Len(owed) /\ Len(frames \o owed) <= MaxFrames
    BY <1>2, <1>3 DEF TypeOK
  <2>2. Len(frames' \o owed') = Len(frames) + Len(owed')
    BY <1>1, <1>3, <1>4
  <2>3. PICK m \in Nat, n \in Nat : m = Len(frames) /\ n = Len(owed)
    BY <1>3
  <2> QED
    BY <1>4, <2>1, <2>2, <2>3, BusAssumption
<1>10. TypeOK'
  BY <1>1, <1>2, <1>4, <1>6, <1>7, <1>8, <1>9 DEF TypeOK, UartType
<1>11. Held'
  BY <1>1, <1>2 DEF Held
<1>12. trouble' <= 1 => rxq' = rxq \o Frame(k) \/ rxq' = rxq
  BY <1>2, <1>4, <1>5, FrameBytes, ArriveBytes
<1>13. ASSUME trouble' <= 1 PROVE Whole'
  <2>1. Whole
    BY <1>3, <1>6, <1>13 DEF BusInv
  <2>2. CASE rxq' = rxq
    BY <1>1, <2>1, <2>2, SameWhole
  <2>3. CASE rxq' = rxq \o Frame(k)
    <3>1. \A i \in 1 .. Len(rxq') : Followed(i)'
      BY <1>2, <1>4, <2>1, <2>3, FrameJoins DEF Whole
    <3>2. (Ahead(3) => Ahead(3)') /\ (Ahead(4) => Ahead(4)')
      BY <1>1, <1>2, <1>4, <2>3, FrameBytes, HeadStays
    <3> QED
      BY <1>1, <2>1, <3>1, <3>2 DEF Whole, Akin
  <2> QED
    BY <1>12, <1>13, <2>2, <2>3
<1>14. ASSUME trouble' = 0 PROVE InTime'
  <2>1. trouble = 0 /\ InTime
    BY <1>3, <1>6, <1>14 DEF BusInv
  <2>2. /\ at \in {"queue", "fill", "header"}
        /\ frames = <<>> /\ owed = <<cur>> /\ rxq = <<>>
    BY <1>1, <2>1, OwedInTime
  <2>3. owed' = <<>> /\ k = cur
    BY <1>1, <2>2 DEF k
  <2>4. rxq' = <<>> \/ rxq' = Frame(k)
    BY <1>4, <1>12, <1>14, <2>2, FrameBytes
  <2>5. rxq' = Frame(k) => Remains(0)'
    BY <1>1, <1>4, <2>3, FrameBytes DEF Remains
  <2>6. Awaited'
    BY <1>1, <2>2, <2>3, <2>4, <2>5 DEF Awaited
  <2> QED
    BY <1>1, <2>1, <2>2, <2>6 DEF InTime, OwnBuffer
<1> QED
  BY <1>8, <1>10, <1>11, <1>13, <1>14 DEF BusInv

-----------------------------------------------------------------------------
\* The response is read.

\* A request ends, in whatever way.
LEMMA FinishStep ==
  ASSUME BusInv, Finish, at \in {"header", "len", "data", "crc"},
         rxq' \in Seq(Bytes), Len(rxq') <= RxSize,
         trouble' \in 0 .. 2, trouble <= trouble', faults' \in 0 .. MaxFaults,
         trouble' <= 1 => \A i \in 1 .. Len(rxq') : Followed(i)',
         trouble' = 0 => frames = <<>> /\ owed = <<>> /\ rxq' = <<>>
  PROVE  BusInv'
<1>1. /\ holder' = "none" /\ at' = "idle"
      /\ UNCHANGED <<cur, need, uart, frames, owed>>
  BY DEF Finish, line
<1>2. TypeOK /\ Complete /\ Held /\ holder \in {"reader", "fan"}
  BY DEF BusInv, TypeOK, Held
<1>3. /\ reader \in [step : 1 .. 5, buf : Readings, got : Readings] /\ fan \in 1 .. 2
      /\ holder = "reader" => reader.step \in 1 .. 4
  BY <1>2 DEF TypeOK, Held
<1>4. /\ holder = "fan" => reader' = reader /\ fan' = 3 - fan
      /\ holder = "reader" => /\ fan' = fan
                              /\ reader' = [reader EXCEPT !.step = reader.step + 1,
                                                          !.got = reader.buf]
  BY <1>2 DEF Finish
<1>5. CASE holder = "fan"
  <2>1. reader' = reader /\ fan' \in 1 .. 2
    BY <1>3, <1>4, <1>5
  <2>2. TypeOK'
    BY <1>1, <1>2, <2>1 DEF TypeOK
  <2>3. Held' /\ Complete'
    BY <1>1, <1>2 DEF Held, Complete, Unqueued
  <2>4. trouble' <= 1 => Whole'
    BY <1>1, <1>2, <2>1 DEF BusInv, Whole, Akin, TypeOK
  <2>5. trouble' = 0 => InTime'
    BY <1>1, <1>2, <2>1 DEF BusInv, InTime, OwnBuffer, TypeOK
  <2> QED
    BY <2>2, <2>3, <2>4, <2>5 DEF BusInv
<1>6. CASE holder = "reader"
  <2>1. /\ fan' = fan /\ reader' \in [step : 1 .. 5, buf : Readings, got : Readings]
        /\ reader'.step = reader.step + 1
        /\ reader'.buf = reader.buf /\ reader'.got = reader.buf
    <3> DEFINE n == reader.step + 1
    <3>1. n \in 1 .. 5 /\ reader.buf \in Readings
      BY <1>3, <1>6
    <3>2. fan' = fan /\ reader' = [reader EXCEPT !.step = n, !.got = reader.buf]
      BY <1>4, <1>6
    <3> HIDE DEF n
    <3>3. /\ reader' \in [step : 1 .. 5, buf : Readings, got : Readings]
          /\ reader'.step = n /\ reader'.buf = reader.buf /\ reader'.got = reader.buf
      BY <1>3, <3>1, <3>2
    <3> QED
      BY <3>2, <3>3 DEF n
  <2>2. TypeOK'
    BY <1>1, <1>2, <2>1 DEF TypeOK
  <2>3. Held' /\ Complete'
    BY <1>1, <1>2 DEF Held, Complete, Unqueued
  <2>4. ASSUME trouble' <= 1 PROVE Whole'
    <3>1. Akin(reader.buf, reader.step)
      BY <1>2, <1>6, <2>4 DEF BusInv, Whole, TypeOK
    <3>2. reader'.step - 1 = reader.step
      BY <1>3, <1>6, <2>1
    <3>3. Akin(reader.got, reader.step - 1)'
      BY <2>1, <3>1, <3>2 DEF Akin
    <3>4. reader.step + 1 \in {2, 4} =>
             Unit[ReaderReads[reader.step + 1]] = Unit[ReaderReads[reader.step]]
      BY <1>3, <1>6, KindsAre
    <3>5. reader'.step \in {2, 4} => Akin(reader.buf, reader.step)'
      BY <2>1, <3>1, <3>4 DEF Akin
    <3> QED
      BY <1>1, <2>4, <3>3, <3>5 DEF Whole
  <2>5. ASSUME trouble' = 0 PROVE InTime'
    <3>1. OwnBuffer
      BY <1>2, <2>5 DEF BusInv, InTime, TypeOK
    <3>2. OwnBuffer'
      BY <1>1, <1>3, <1>6, <2>1, <3>1 DEF OwnBuffer
    <3> QED
      BY <1>1, <2>5, <3>2 DEF InTime
  <2> QED
    BY <2>2, <2>3, <2>4, <2>5 DEF BusInv
<1> QED
  BY <1>2, <1>5, <1>6

\* Reading from the front leaves every byte followed by the next one.
LEMMA RestFollowed ==
  ASSUME TypeOK, NEW n \in Nat, n <= Len(rxq), rxq' = Rest(n),
         \A i \in 1 .. Len(rxq) : Followed(i)
  PROVE  \A i \in 1 .. Len(rxq') : Followed(i)'
<1>1. /\ Len(rxq) \in Nat /\ Len(rxq') = Len(rxq) - n
      /\ \A i \in 1 .. Len(rxq') : rxq'[i] = rxq[i + n] /\ i + n <= Len(rxq)
  <2>1. rxq \in Seq(Bytes)
    BY DEF TypeOK
  <2>2. /\ Len(Rest(n)) = Len(rxq) - n
        /\ \A i \in 1 .. Len(Rest(n)) : Rest(n)[i] = rxq[i + n] /\ i + n <= Len(rxq)
    BY RestBytes
  <2> QED
    BY <2>1, <2>2
<1>2. ASSUME NEW i \in 1 .. Len(rxq') PROVE Followed(i)'
  <2>1. i + n \in 1 .. Len(rxq) /\ i \in Nat /\ i >= 1
    BY <1>1
  <2>2. Followed(i + n)
    BY <2>1
  <2>3. PICK l \in Kinds, j \in 1 .. 5 :
           /\ rxq[i + n] = <<l, j>> /\ j <= FrameLen(l)
           /\ j < FrameLen(l) => /\ i + n < Len(rxq)
                                 /\ rxq[(i + n) + 1] = <<l, j + 1>>
    BY <2>2 DEF Followed
  <2>4. rxq'[i] = <<l, j>>
    BY <1>1, <2>3
  <2>5. ASSUME j < FrameLen(l)
        PROVE  i < Len(rxq') /\ rxq'[i + 1] = <<l, j + 1>>
    <3>1. i + 1 \in 1 .. Len(rxq')
      BY <1>1, <2>1, <2>3, <2>5
    <3>2. rxq'[i + 1] = rxq[(i + 1) + n] /\ (i + 1) + n = (i + n) + 1
      BY <1>1, <2>1, <3>1
    <3> QED
      BY <1>1, <2>3, <2>5, <3>1, <3>2
  <2> QED
    BY <2>3, <2>4, <2>5 DEF Followed
<1> QED
  BY <1>2

\* What is left of the response to the request when n more bytes have been read.
LEMMA RestRemains ==
  ASSUME TypeOK, NEW n \in Nat, n <= Len(rxq), rxq' = Rest(n), cur' = cur,
         NEW m \in Nat, Remains(m)
  PROVE  Remains(m + n)'
<1>1. /\ Len(rxq) \in Nat /\ Len(rxq') = Len(rxq) - n
      /\ \A i \in 1 .. Len(rxq') : rxq'[i] = rxq[i + n] /\ i + n <= Len(rxq)
  <2>1. rxq \in Seq(Bytes)
    BY DEF TypeOK
  <2>2. /\ Len(Rest(n)) = Len(rxq) - n
        /\ \A i \in 1 .. Len(Rest(n)) : Rest(n)[i] = rxq[i + n] /\ i + n <= Len(rxq)
    BY RestBytes
  <2> QED
    BY <2>1, <2>2
<1>2. cur \in Kinds /\ FrameLen(cur) \in Nat
  BY FrameBytes DEF TypeOK, FrameLen
<1>3. Len(rxq) = FrameLen(cur) - m /\ \A i \in 1 .. Len(rxq) : rxq[i] = <<cur, m + i>>
  BY DEF Remains
<1>4. Len(rxq') = FrameLen(cur) - (m + n)
  BY <1>1, <1>2, <1>3
<1>5. ASSUME NEW i \in 1 .. Len(rxq') PROVE rxq'[i] = <<cur, (m + n) + i>>
  <2>1. i + n \in 1 .. Len(rxq) /\ m + (i + n) = (m + n) + i
    BY <1>1
  <2> QED
    BY <1>1, <1>3, <2>1
<1> QED
  BY <1>4, <1>5 DEF Remains, FrameLen

\* The two bytes of a header.
LEMMA HeaderBytes ==
  ASSUME NEW s \in Seq(Bytes), Len(s) >= 2
  PROVE  /\ SubSeq(s, 1, 2) \in Seq(Bytes) /\ Len(SubSeq(s, 1, 2)) = 2
         /\ SubSeq(s, 1, 2)[1] = s[1] /\ SubSeq(s, 1, 2)[2] = s[2]
OBVIOUS

LEMMA HeaderIs ==
  ASSUME TypeOK, Len(rxq) >= 2, NEW k \in Kinds
  PROVE  SubSeq(rxq, 1, 2) = SubSeq(Frame(k), 1, 2)
            <=> rxq[1] = <<k, 1>> /\ rxq[2] = <<k, 2>>
<1> DEFINE s == SubSeq(rxq, 1, 2)
           t == SubSeq(Frame(k), 1, 2)
<1>1. s \in Seq(Bytes) /\ Len(s) = 2 /\ s[1] = rxq[1] /\ s[2] = rxq[2]
  BY HeaderBytes DEF TypeOK
<1>2. /\ Frame(k) \in Seq(Bytes) /\ Len(Frame(k)) >= 2
      /\ Frame(k)[1] = <<k, 1>> /\ Frame(k)[2] = <<k, 2>>
  BY FrameBytes
<1>3. t \in Seq(Bytes) /\ Len(t) = 2 /\ t[1] = <<k, 1>> /\ t[2] = <<k, 2>>
  BY <1>2, HeaderBytes
<1> HIDE DEF s, t
<1>4. s[1] = t[1] /\ s[2] = t[2] => s = t
  <2> SUFFICES ASSUME s[1] = t[1], s[2] = t[2] PROVE s = t
    OBVIOUS
  <2>0. \A i \in 1 .. Len(s) : i = 1 \/ i = 2
    BY <1>1
  <2>1. \A i \in 1 .. Len(s) : s[i] = t[i]
    BY <2>0
  <2> QED
    BY <1>1, <1>3, <2>1, SeqEqual
<1>5. s = t <=> rxq[1] = <<k, 1>> /\ rxq[2] = <<k, 2>>
  BY <1>1, <1>3, <1>4
<1> QED
  BY <1>5 DEF s, t

\* A header that was taken is followed by the rest of its response.
LEMMA HeaderTaken ==
  ASSUME TypeOK, Len(rxq) >= 2, Answers(SubSeq(rxq, 1, 2)), Function[cur] = "read",
         \A i \in 1 .. Len(rxq) : Followed(i)
  PROVE  Len(rxq) >= 3 /\ \E k \in Kinds : /\ rxq[3] = <<k, 3>> /\ Unit[k] = Unit[cur]
                                           /\ Function[k] = Function[cur]
<1>1. Len(rxq) \in Nat
  BY DEF TypeOK
<1>2. PICK k \in Kinds : /\ SubSeq(rxq, 1, 2) = SubSeq(Frame(k), 1, 2)
                         /\ Unit[k] = Unit[cur] /\ Function[k] = Function[cur]
  BY DEF Answers
<1>3. rxq[2] = <<k, 2>>
  BY <1>2, HeaderIs
<1>4. Followed(2)
  BY <1>1
<1>5. PICK l \in Kinds, j \in 1 .. 5 :
         /\ rxq[2] = <<l, j>>
         /\ j < FrameLen(l) => 2 < Len(rxq) /\ rxq[2 + 1] = <<l, j + 1>>
  BY <1>4 DEF Followed
<1>6. l = k /\ j = 2
  BY <1>3, <1>5
<1>7. FrameLen(k) = 5
  BY <1>2, KindsAre
<1>8. 2 < Len(rxq) /\ rxq[3] = <<k, 3>>
  BY <1>5, <1>6, <1>7
<1> QED
  BY <1>1, <1>2, <1>8

\* In time, a byte in the queue is of the response to the request, of which
\* nothing has been read when the header is expected.
LEMMA HeaderInTime ==
  ASSUME BusInv, trouble = 0, at = "header", rxq # <<>>
  PROVE  frames = <<>> /\ owed = <<>> /\ Remains(0)
BY DEF BusInv, InTime, Awaited

LEMMA HeaderOkStep ==
  ASSUME BusInv, HeaderOk
  PROVE  BusInv'
<1>1. /\ at = "header" /\ Len(rxq) >= 2 /\ Answers(SubSeq(rxq, 1, 2))
      /\ rxq' = Rest(2)
      /\ IF Function[cur] = "read" THEN at' = "len" /\ need' = need
         ELSE at' = "data" /\ need' = 1
      /\ UNCHANGED <<holder, cur, uart, frames, owed, reader, fan, trouble, faults>>
  BY DEF HeaderOk, line, task
<1>2. TypeOK /\ Complete /\ Held
  BY DEF BusInv
<1>3. /\ rxq \in Seq(Bytes) /\ Len(rxq) \in Nat /\ Len(rxq) <= RxSize /\ RxSize \in Nat
      /\ cur \in Kinds /\ need \in Nat /\ holder \in {"none", "reader", "fan"}
  BY <1>2, BusAssumption DEF TypeOK
<1>4. rxq' \in Seq(Bytes) /\ Len(rxq') = Len(rxq) - 2 /\ Len(rxq') <= RxSize
  BY <1>1, <1>2, <1>3, RestBytes
<1>5. TypeOK'
  BY <1>1, <1>2, <1>3, <1>4 DEF TypeOK
<1>6. Held' /\ Complete'
  BY <1>1, <1>2 DEF Held, Complete, Unqueued
<1>7. ASSUME trouble' <= 1 PROVE Whole'
  <2>1. Whole
    BY <1>1, <1>7 DEF BusInv
  <2>2. \A i \in 1 .. Len(rxq') : Followed(i)'
    BY <1>1, <1>2, <1>3, <2>1, RestFollowed DEF Whole
  <2>3. ASSUME at' = "len" PROVE Ahead(3)'
    <3>1. Function[cur] = "read"
      BY <1>1, <2>3
    <3>2. PICK k \in Kinds : /\ Len(rxq) >= 3 /\ rxq[3] = <<k, 3>>
                             /\ Unit[k] = Unit[cur] /\ Function[k] = Function[cur]
      BY <1>1, <1>2, <2>1, <3>1, HeaderTaken DEF Whole
    <3>3. Len(Rest(2)) >= 1 /\ Rest(2)[1] = rxq[1 + 2]
      <4>1. 2 <= Len(rxq) /\ Len(Rest(2)) >= 1
        BY <1>1, <1>3, <1>4, <3>2
      <4>2. \A i \in 1 .. Len(Rest(2)) : Rest(2)[i] = rxq[i + 2]
        BY <1>2, <4>1, RestBytes
      <4>3. 1 \in 1 .. Len(Rest(2))
        BY <1>1, <1>3, <1>4, <4>1
      <4> QED
        BY <4>1, <4>2, <4>3
    <3>4. rxq'[1] = <<k, 3>> /\ rxq' # <<>>
      BY <1>1, <1>4, <3>2, <3>3
    <3> QED
      BY <1>1, <3>1, <3>2, <3>4 DEF Ahead
  <2>4. ~(at' = "data" /\ holder' = "reader")
    <3>1. holder = "reader" => Function[cur] = "read"
      <4>1. ASSUME holder = "reader"
            PROVE  reader.step \in 1 .. 4 /\ cur = ReaderReads[reader.step]
        BY <1>2, <4>1 DEF Held, TypeOK
      <4> QED
        BY <4>1, KindsAre
    <3> QED
      BY <1>1, <3>1
  <2> QED
    BY <1>1, <2>1, <2>2, <2>3, <2>4 DEF Whole, Akin
<1>8. ASSUME trouble' = 0 PROVE InTime'
  <2>1. frames = <<>> /\ owed = <<>> /\ Remains(0)
    BY <1>1, <1>3, <1>8, HeaderInTime
  <2>2. Remains(2)'
    <3>1. Remains(0 + 2)'
      BY <1>1, <1>2, <1>3, <2>1, RestRemains
    <3> QED
      BY <3>1
  <2>3. Function[cur] # "read" => FrameLen(cur) - 2 = 2
    BY <1>3, KindsAre
  <2>4. Remains(FrameLen(cur) - 2)' <=> Remains(FrameLen(cur) - 2)'
    OBVIOUS
  <2>5. FrameLen(cur)' = FrameLen(cur)
    BY <1>1 DEF FrameLen
  <2>6. OwnBuffer'
    BY <1>1, <1>8 DEF BusInv, InTime, OwnBuffer
  <2>7. at' = "data" => Remains(FrameLen(cur) - 2)'
    BY <1>1, <2>2, <2>3, <2>5 DEF Remains
  <2> QED
    BY <1>1, <1>8, <2>1, <2>2, <2>6, <2>7 DEF InTime
<1> QED
  BY <1>5, <1>6, <1>7, <1>8 DEF BusInv

\* In time no header is wrong.
LEMMA HeaderWrongStep ==
  ASSUME BusInv, HeaderWrong
  PROVE  BusInv'
<1>1. /\ at = "header" /\ Len(rxq) >= 2 /\ ~Answers(SubSeq(rxq, 1, 2))
      /\ rxq' = Rest(2) /\ Finish /\ faults' = faults /\ trouble' = trouble
  BY DEF HeaderWrong, NoFault
<1>2. /\ TypeOK /\ rxq \in Seq(Bytes) /\ Len(rxq) \in Nat /\ Len(rxq) <= RxSize
      /\ RxSize \in Nat /\ cur \in Kinds
      /\ trouble \in 0 .. 2 /\ faults \in 0 .. MaxFaults
  BY BusAssumption DEF BusInv, TypeOK
<1>3. rxq' \in Seq(Bytes) /\ Len(rxq') <= RxSize
  BY <1>1, <1>2, RestBytes
<1>4. trouble' <= 1 => \A i \in 1 .. Len(rxq') : Followed(i)'
  BY <1>1, <1>2, RestFollowed DEF BusInv, Whole
<1>5. trouble # 0
  <2> SUFFICES ASSUME trouble = 0 PROVE FALSE
    OBVIOUS
  <2>1. Remains(0)
    BY <1>1, <1>2, HeaderInTime
  <2>2. rxq[1] = <<cur, 1>> /\ rxq[2] = <<cur, 2>>
    BY <1>1, <1>2, <2>1 DEF Remains
  <2>3. SubSeq(rxq, 1, 2) = SubSeq(Frame(cur), 1, 2)
    BY <1>1, <1>2, <2>2, HeaderIs
  <2> QED
    BY <1>1, <1>2, <2>3 DEF Answers
<1> QED
  BY <1>1, <1>2, <1>3, <1>4, <1>5, FinishStep

\* Silence is late, or nothing is to come.
LEMMA SilenceStep ==
  ASSUME BusInv, Silence
  PROVE  BusInv'
<1>1. /\ at = "header" /\ Len(rxq) < 2 /\ rxq' = <<>> /\ Finish
      /\ IF rxq = <<>> /\ owed \o frames # <<>>
         THEN /\ faults < MaxFaults /\ faults' = faults + 1
              /\ trouble' = IF 1 > trouble THEN 1 ELSE trouble
         ELSE faults' = faults /\ trouble' = trouble
  BY DEF Silence, Fault, NoFault, Trouble
<1>2. /\ TypeOK /\ rxq \in Seq(Bytes) /\ frames \in Seq(Kinds) /\ owed \in Seq(Kinds)
      /\ trouble \in 0 .. 2 /\ faults \in 0 .. MaxFaults /\ MaxFaults \in Nat
      /\ cur \in Kinds
  BY BusAssumption DEF BusInv, TypeOK
<1>3. rxq' \in Seq(Bytes) /\ Len(rxq') <= RxSize /\ Len(rxq') = 0
  BY <1>1, BusAssumption
<1>4. trouble' \in 0 .. 2 /\ trouble <= trouble' /\ faults' \in 0 .. MaxFaults
  BY <1>1, <1>2
<1>5. ASSUME trouble' = 0 PROVE frames = <<>> /\ owed = <<>>
  <2>1. trouble = 0
    BY <1>2, <1>4, <1>5
  <2>2. CASE rxq = <<>>
    <3>1. owed \o frames = <<>>
      BY <1>1, <1>5, <2>1, <2>2
    <3>2. Len(owed) + Len(frames) = 0
      BY <1>2, <3>1
    <3> QED
      BY <1>2, <3>2
  <2>3. CASE rxq # <<>>
    BY <1>1, <2>1, <2>3, HeaderInTime
  <2> QED
    BY <2>2, <2>3
<1> QED
  BY <1>1, <1>3, <1>4, <1>5, FinishStep

LEMMA CrcStep ==
  ASSUME BusInv, Crc
  PROVE  BusInv'
<1>1. /\ at = "crc" /\ Len(rxq) >= 1 /\ rxq' = Rest(1) /\ Finish
      /\ faults' = faults /\ trouble' = trouble
  BY DEF Crc, NoFault
<1>2. /\ TypeOK /\ rxq \in Seq(Bytes) /\ Len(rxq) \in Nat /\ Len(rxq) <= RxSize
      /\ RxSize \in Nat /\ cur \in Kinds
      /\ trouble \in 0 .. 2 /\ faults \in 0 .. MaxFaults
  BY BusAssumption DEF BusInv, TypeOK
<1>3. rxq' \in Seq(Bytes) /\ Len(rxq') = Len(rxq) - 1 /\ Len(rxq') <= RxSize
  BY <1>1, <1>2, RestBytes
<1>4. trouble' <= 1 => \A i \in 1 .. Len(rxq') : Followed(i)'
  BY <1>1, <1>2, RestFollowed DEF BusInv, Whole
<1>5. ASSUME trouble' = 0 PROVE frames = <<>> /\ owed = <<>> /\ rxq' = <<>>
  <2>1. frames = <<>> /\ owed = <<>> /\ Remains(FrameLen(cur) - 1)
    BY <1>1, <1>5 DEF BusInv, InTime
  <2>2. Len(rxq) = FrameLen(cur) - (FrameLen(cur) - 1) /\ FrameLen(cur) \in {4, 5}
    BY <1>2, <2>1, FrameBytes DEF Remains
  <2>3. Len(rxq') = 0
    BY <1>3, <2>2
  <2> QED
    BY <1>3, <2>1, <2>3
<1> QED
  BY <1>1, <1>2, <1>3, <1>4, <1>5, FinishStep

LEMMA ShortStep ==
  ASSUME BusInv, Short
  PROVE  BusInv'
<1>1. /\ at \in {"len", "data", "crc"} /\ rxq' = <<>> /\ Finish
      /\ faults' = faults /\ trouble' = trouble
  BY DEF Short, NoFault
<1>2. trouble \in 0 .. 2 /\ faults \in 0 .. MaxFaults
  BY DEF BusInv, TypeOK
<1>3. rxq' \in Seq(Bytes) /\ Len(rxq') <= RxSize /\ Len(rxq') = 0
  BY <1>1, BusAssumption
<1>4. trouble' = 0 => frames = <<>> /\ owed = <<>>
  BY <1>1 DEF BusInv, InTime
<1> QED
  BY <1>1, <1>2, <1>3, <1>4, FinishStep

\* A length tells of one value, when it is that of a response.
LEMMA LengthStep ==
  ASSUME BusInv, Length
  PROVE  BusInv'
<1>1. /\ at = "len" /\ rxq # <<>> /\ rxq' = Tail(rxq) /\ at' = "data"
      /\ need' \in {0, 1, RxSize + 1}
      /\ (\E k \in Kinds : Head(rxq) = <<k, 3>> /\ k # "setSpeed") => need' = 1
      /\ UNCHANGED <<holder, cur, uart, frames, owed, reader, fan, trouble, faults>>
  BY DEF Length, line, task
<1>2. TypeOK /\ Complete /\ Held
  BY DEF BusInv
<1>3. /\ rxq \in Seq(Bytes) /\ Len(rxq) \in Nat /\ Len(rxq) <= RxSize /\ RxSize \in Nat
      /\ Len(rxq) >= 1 /\ cur \in Kinds /\ holder \in {"none", "reader", "fan"}
  BY <1>1, <1>2, BusAssumption DEF TypeOK
<1>4. rxq' = Rest(1) /\ Head(rxq) = rxq[1]
  BY <1>1, <1>3 DEF Rest
<1>5. rxq' \in Seq(Bytes) /\ Len(rxq') = Len(rxq) - 1 /\ Len(rxq') <= RxSize
  BY <1>2, <1>3, <1>4, RestBytes
<1>6. need' \in Nat
  BY <1>1, <1>3
<1>7. TypeOK'
  BY <1>1, <1>2, <1>5, <1>6 DEF TypeOK
<1>8. Held' /\ Complete'
  BY <1>1, <1>2 DEF Held, Complete, Unqueued
<1>9. ASSUME trouble' <= 1 PROVE Whole'
  <2>1. Whole
    BY <1>1, <1>9 DEF BusInv
  <2>2. \A i \in 1 .. Len(rxq') : Followed(i)'
    BY <1>2, <1>3, <1>4, <2>1, RestFollowed DEF Whole
  <2>3. Function[cur] = "read"
    BY <1>1, <2>1 DEF Whole, Ahead
  <2>4. PICK k \in Kinds : /\ rxq[1] = <<k, 3>> /\ Unit[k] = Unit[cur]
                           /\ Function[k] = Function[cur]
    BY <1>1, <2>1 DEF Whole, Ahead
  <2>5. k # "setSpeed" /\ FrameLen(k) = 5
    BY <2>3, <2>4, KindsAre
  <2>6. need' = 1
    BY <1>1, <1>4, <2>4, <2>5
  <2>7. 1 < Len(rxq) /\ rxq[1 + 1] = <<k, 4>>
    <3>1. Followed(1)
      BY <1>3, <2>1 DEF Whole
    <3>2. PICK l \in Kinds, j \in 1 .. 5 :
             /\ rxq[1] = <<l, j>>
             /\ j < FrameLen(l) => 1 < Len(rxq) /\ rxq[1 + 1] = <<l, j + 1>>
      BY <3>1 DEF Followed
    <3>3. l = k /\ j = 3
      BY <2>4, <3>2
    <3> QED
      BY <2>5, <3>2, <3>3
  <2>8. Len(Rest(1)) >= 1 /\ Rest(1)[1] = rxq[1 + 1]
    <3>1. Len(Rest(1)) >= 1
      BY <1>3, <1>4, <1>5, <2>7
    <3>2. \A i \in 1 .. Len(Rest(1)) : Rest(1)[i] = rxq[i + 1]
      BY <1>2, <1>3, RestBytes
    <3>3. 1 \in 1 .. Len(Rest(1))
      BY <1>3, <1>4, <1>5, <2>7
    <3> QED
      BY <3>1, <3>2, <3>3
  <2>9. Ahead(4)'
    <3>1. rxq'[1] = <<k, 4>> /\ rxq' # <<>>
      BY <1>4, <1>5, <2>7, <2>8
    <3> QED
      BY <1>1, <2>3, <2>4, <3>1 DEF Ahead
  <2> QED
    BY <1>1, <2>1, <2>2, <2>6, <2>9 DEF Whole, Akin
<1>10. ASSUME trouble' = 0 PROVE InTime'
  <2>1. /\ InTime /\ frames = <<>> /\ owed = <<>> /\ Function[cur] = "read"
        /\ Remains(2)
    BY <1>1, <1>10 DEF BusInv, InTime
  <2>2. FrameLen(cur) = 5 /\ cur # "setSpeed"
    BY <1>3, <2>1, KindsAre
  <2>3. rxq[1] = <<cur, 3>>
    <3>1. rxq[1] = <<cur, 2 + 1>>
      BY <1>3, <2>1 DEF Remains
    <3> QED
      BY <3>1
  <2>4. need' = 1
    BY <1>1, <1>3, <1>4, <2>2, <2>3
  <2>5. Remains(2 + 1)'
    BY <1>1, <1>2, <1>3, <1>4, <2>1, RestRemains
  <2>6. FrameLen(cur)' = 5
    BY <1>1, <2>2 DEF FrameLen
  <2>7. Remains(FrameLen(cur) - 2)'
    BY <2>5, <2>6 DEF Remains
  <2>8. OwnBuffer'
    BY <1>1, <2>1 DEF InTime, OwnBuffer
  <2> QED
    BY <1>1, <2>1, <2>4, <2>7, <2>8 DEF InTime
<1> QED
  BY <1>7, <1>8, <1>9, <1>10 DEF BusInv

\* The value is that of the register whose response it is in.
LEMMA ValueIs ==
  /\ \A byte : ValueOf(byte) \in Readings
  /\ \A k \in Kinds : k # "setSpeed" => ValueOf(<<k, 4>>) = k
<1>1. ASSUME NEW byte PROVE ValueOf(byte) \in Readings
  <2>1. CASE \E k \in Kinds : byte = <<k, 4>> /\ k # "setSpeed"
    BY <2>1 DEF ValueOf, Readings
  <2>2. CASE ~\E k \in Kinds : byte = <<k, 4>> /\ k # "setSpeed"
    BY <2>2 DEF ValueOf, Readings
  <2> QED
    BY <2>1, <2>2
<1>2. ASSUME NEW k \in Kinds, k # "setSpeed" PROVE ValueOf(<<k, 4>>) = k
  BY <1>2 DEF ValueOf
<1> QED
  BY <1>1, <1>2

LEMMA DataStep ==
  ASSUME BusInv, Data
  PROVE  BusInv'
<1> DEFINE v == ValueOf(Head(rxq))
<1>1. /\ at = "data" /\ Len(rxq) >= need /\ rxq' = Rest(need) /\ at' = "crc"
      /\ reader' = (IF holder = "reader" /\ need > 0 THEN [reader EXCEPT !.buf = v]
                    ELSE reader)
      /\ UNCHANGED <<holder, cur, need, uart, frames, owed, fan, trouble, faults>>
  BY DEF Data, line
<1>2. TypeOK /\ Complete /\ Held /\ v \in Readings
  BY ValueIs DEF BusInv
<1>3. /\ rxq \in Seq(Bytes) /\ Len(rxq) \in Nat /\ Len(rxq) <= RxSize /\ RxSize \in Nat
      /\ need \in Nat /\ cur \in Kinds /\ holder \in {"none", "reader", "fan"}
      /\ reader \in [step : 1 .. 5, buf : Readings, got : Readings]
  BY <1>2, BusAssumption DEF TypeOK
<1> HIDE DEF v
<1>4. /\ reader' \in [step : 1 .. 5, buf : Readings, got : Readings]
      /\ reader'.step = reader.step /\ reader'.got = reader.got
      /\ reader'.buf = (IF holder = "reader" /\ need > 0 THEN v ELSE reader.buf)
  BY <1>1, <1>2, <1>3
<1>5. rxq' \in Seq(Bytes) /\ Len(rxq') = Len(rxq) - need /\ Len(rxq') <= RxSize
  BY <1>1, <1>2, <1>3, RestBytes
<1>6. TypeOK'
  BY <1>1, <1>2, <1>4, <1>5 DEF TypeOK
<1>7. Held' /\ Complete'
  BY <1>1, <1>2, <1>4 DEF Held, Complete, Unqueued
<1>8. need = 1 => Head(rxq) = rxq[1] /\ Len(rxq) >= 1
  BY <1>1, <1>3
<1>9. holder = "reader" => reader.step \in 1 .. 4 /\ cur = ReaderReads[reader.step]
  BY <1>2, <1>3 DEF Held
<1>10. ASSUME trouble' <= 1 PROVE Whole'
  <2>1. Whole
    BY <1>1, <1>10 DEF BusInv
  <2>2. \A i \in 1 .. Len(rxq') : Followed(i)'
    BY <1>1, <1>2, <1>3, <2>1, RestFollowed DEF Whole
  <2>3. ASSUME holder = "reader" PROVE Akin(v, reader.step)
    <3>1. need = 1 /\ Ahead(4)
      BY <1>1, <2>1, <2>3 DEF Whole
    <3>2. PICK k \in Kinds : /\ rxq[1] = <<k, 4>> /\ Unit[k] = Unit[cur]
                             /\ Function[k] = "read"
      BY <3>1 DEF Ahead
    <3>3. k # "setSpeed"
      BY <3>2, KindsAre
    <3>4. v = k
      BY <1>8, <3>1, <3>2, <3>3, ValueIs DEF v
    <3> QED
      BY <1>9, <2>3, <3>2, <3>4 DEF Akin
  <2>4. holder' = "reader" => need = 1
    BY <1>1, <2>1 DEF Whole
  <2>5. holder' = "reader" \/ reader'.step \in {2, 4} => Akin(reader.buf, reader.step)'
    <3>1. CASE holder = "reader"
      BY <1>1, <1>4, <2>3, <2>4, <3>1 DEF Akin
    <3>2. CASE holder # "reader"
      BY <1>1, <1>4, <2>1, <3>2 DEF Whole, Akin
    <3> QED
      BY <3>1, <3>2
  <2>6. reader'.step > 1 => Akin(reader.got, reader.step - 1)'
    BY <1>4, <2>1 DEF Whole, Akin
  <2> QED
    BY <1>1, <2>2, <2>5, <2>6 DEF Whole
<1>11. ASSUME trouble' = 0 PROVE InTime'
  <2>1. /\ InTime /\ frames = <<>> /\ owed = <<>> /\ need = 1
        /\ Remains(FrameLen(cur) - 2)
    BY <1>1, <1>11 DEF BusInv, InTime
  <2>2. PICK n \in Nat : n = FrameLen(cur) - 2 /\ n + 1 = FrameLen(cur) - 1
    BY <1>3, FrameBytes
  <2>3. Remains(n + 1)'
    BY <1>1, <1>2, <1>3, <2>1, <2>2, RestRemains
  <2>4. FrameLen(cur)' = FrameLen(cur)
    BY <1>1 DEF FrameLen
  <2>5. Remains(FrameLen(cur) - 1)'
    BY <2>2, <2>3, <2>4 DEF Remains
  <2>6. ASSUME holder = "reader" PROVE v = cur
    <3>1. Function[cur] = "read" /\ FrameLen(cur) = 5 /\ cur # "setSpeed"
      BY <1>3, <1>9, <2>6, KindsAre
    <3>2. rxq[1] = <<cur, n + 1>> /\ n = 3
      BY <1>3, <1>8, <2>1, <2>2, <3>1 DEF Remains
    <3>3. Head(rxq) = <<cur, 4>>
      BY <1>8, <2>1, <3>2
    <3> QED
      BY <1>3, <3>1, <3>3, ValueIs DEF v
  <2>7. OwnBuffer'
    <3>1. CASE holder = "reader"
      <4>1. /\ reader'.buf = ReaderReads[reader.step] /\ reader'.step = reader.step
            /\ reader'.got = reader.got /\ reader.step \in 1 .. 4
        BY <1>4, <1>9, <2>1, <2>6, <3>1
      <4>2. /\ ReaderReads[1] = "co2" /\ ReaderReads[3] = "rh"
            /\ ReaderReads[4] = "temp"
        BY DEF ReaderReads
      <4> QED
        BY <2>1, <4>1, <4>2 DEF InTime, OwnBuffer
    <3>2. CASE holder # "reader"
      BY <1>1, <1>4, <2>1, <3>2 DEF InTime, OwnBuffer
    <3> QED
      BY <3>1, <3>2
  <2> QED
    BY <1>1, <2>1, <2>5, <2>7 DEF InTime
<1> QED
  BY <1>6, <1>7, <1>10, <1>11 DEF BusInv

-----------------------------------------------------------------------------
\* The theorems.

LEMMA NextBus == BusInv /\ [Next]_vars => BusInv'
<1> SUFFICES ASSUME BusInv, [Next]_vars PROVE BusInv'
  OBVIOUS
<1>1. CASE ReaderRequest
  BY <1>1, ReaderRequestStep
<1>2. CASE FanRequest
  BY <1>2, FanRequestStep
<1>3. CASE Publish
  BY <1>3, PublishStep
<1>4. CASE Client
  BY <1>4, QueueByteStep, QueuedStep, FillByteStep, FillEndStep, HeaderOkStep,
     HeaderWrongStep, SilenceStep, LengthStep, DataStep, CrcStep, ShortStep DEF Client
<1>5. CASE TxInterrupt
  BY <1>5, TxInterruptStep
<1>6. CASE Transmit
  BY <1>6, TransmitStep
<1>7. CASE Respond
  BY <1>7, RespondStep
<1>8. CASE UNCHANGED vars
  <2>1. UNCHANGED <<holder, at, cur, need, uart, frames, owed, rxq, reader, fan,
                    trouble, faults>>
    BY <1>8 DEF vars, line, task
  <2>2. TypeOK' /\ Held' /\ Complete'
    BY <2>1 DEF BusInv, TypeOK, Held, Complete, Unqueued
  <2> QED
    BY <2>1, <2>2, SameBytes
<1> QED
  BY <1>1, <1>2, <1>3, <1>4, <1>5, <1>6, <1>7, <1>8 DEF Next

\* Every variable has its type, and no queue holds more than it can: no more
\* bytes wait to be sent than the requests have, and uart_irq_rx puts no byte
\* into a full queue.
THEOREM TypeCorrect == Spec => []TypeOK
<1>1. BusInv => TypeOK
  BY DEF BusInv
<1> QED
  BY <1>1, InitBus, NextBus, PTL DEF Spec

\* Each of the reader's values is that of its own register while responses come
\* in time or not at all, and of its own device until bytes are garbled or
\* dropped (Register::read, HMP60::update), whatever the sizes of the queues
\* and however many requests are unanswered.
THEOREM ReadingsAreTheirOwn == Spec => []ReadingsAreOwn
<1>1. BusInv => ReadingsAreOwn
  <2> SUFFICES ASSUME BusInv PROVE ReadingsAreOwn
    OBVIOUS
  <2>1. reader.step \in 1 .. 5 /\ trouble \in 0 .. 2
    BY DEF BusInv, TypeOK
  <2>2. ASSUME trouble = 0
        PROVE  /\ Value(1) \in {"co2", "zero"}
               /\ Value(3) \in {"rh", "zero"}
               /\ Value(4) \in {"temp", "rh", "zero"}
    BY <2>1, <2>2 DEF BusInv, InTime, OwnBuffer, Value
  <2>3. ASSUME trouble <= 1, NEW i \in 1 .. 4, Value(i) # "zero"
        PROVE  Value(i) \in Kinds /\ Unit[Value(i)] = Unit[ReaderReads[i]]
    <3>1. reader.step = i + 1 /\ Value(i) = reader.got
      BY <2>3 DEF Value
    <3>2. reader.step > 1 /\ reader.step - 1 = i
      BY <3>1
    <3>3. Akin(reader.got, reader.step - 1)
      BY <2>3, <3>2 DEF BusInv, Whole
    <3>4. Akin(reader.got, i)
      BY <3>2, <3>3
    <3> QED
      BY <2>3, <3>1, <3>4 DEF Akin
  <2> QED
    BY <2>2, <2>3 DEF ReadingsAreOwn
<1> QED
  BY <1>1, InitBus, NextBus, PTL DEF Spec

=============================================================================
