------------------------------ MODULE ModbusBus ------------------------------
(***************************************************************************)
(* The sensor reader (src/task/sensor/Reader.cpp) and the fan controller    *)
(* read and write registers of three devices over one serial line:          *)
(* Modbus::Register takes the line for a request, Modbus::Client sends it   *)
(* through nanomodbus and Uart::PicoOsUart, byte by byte, and reads the     *)
(* bytes of the response from the UART's receive queue.  What a register    *)
(* holds is stood for by its name.  The UART's own mutex is always free:    *)
(* all its callers hold the one of Register.                                *)
(***************************************************************************)
EXTENDS Naturals, Sequences, SequencesExt

CONSTANTS
    ReqLen,     \* bytes of a request, 8 on the target
    TxDepth,    \* of the transmit FIFO, 32
    TxLevel,    \* the FIFO level that raises the transmit interrupt
    RxSize,     \* of the receive queue, 256
    MaxFrames,  \* bound: requests not yet sent or answered
    MaxFaults   \* bound: responses lost, late or garbled

ASSUME BusAssumption ==
    /\ ReqLen \in Nat \ {0} /\ TxLevel \in Nat /\ TxLevel < TxDepth
    /\ TxDepth \in Nat /\ RxSize \in Nat \ 0 .. 4
    /\ MaxFrames \in Nat \ {0} /\ MaxFaults \in Nat

ReaderReads == <<"co2", "co2Temp", "rh", "temp">>
FanRequests == <<"setSpeed", "speed">>
Kinds       == Range(ReaderReads) \cup Range(FanRequests)

\* Device and function of a request.
Unit == [k \in Kinds |-> CASE k \in {"co2", "co2Temp"} -> "gmp252"
                           [] k \in {"rh", "temp"} -> "hmp60"
                           [] OTHER -> "mio12v"]
Function == [k \in Kinds |-> IF k = "setSpeed" THEN "write" ELSE "read"]

\* A response: unit, function, for a read the number of bytes of data, the data
\* and the CRC.  The data are one place here, not two or four, and so is the
\* CRC, not two: a read has an odd length still, a write an even one.
FrameLen(k) == IF Function[k] = "read" THEN 5 ELSE 4
Frame(k)    == [i \in 1 .. FrameLen(k) |-> <<k, i>>]
Noise       == <<"noise", 0>>

VARIABLES
    holder,    \* of Register::s_Access, "none" when it is free
    at,        \* where the client is in the request
    cur,       \* the request
    need,      \* the bytes it still has to queue, or to read as data
    uart,      \* the transmit side: txq, fifo: bytes; txim, ris: interrupt;
               \* out: bytes of the first of frames on the line
    frames,    \* the requests not yet on the line to their last byte
    owed,      \* the requests that devices have to answer
    rxq,       \* the receive queue
    reader,    \* of the reader: the read it is at, its buffer, and the value it
               \* got by the last read
    fan,       \* the request the fan controller is at
    trouble,   \* history: 1 a response was late, 2 bytes were garbled or lost
    faults

task == <<reader, fan>>
line == <<frames, owed>>
vars == <<holder, at, cur, need, uart, line, rxq, task, trouble, faults>>

Init == /\ holder = "none" /\ at = "idle" /\ cur = "co2" /\ need = 0
        /\ uart = [txq |-> 0, fifo |-> 0, txim |-> FALSE, ris |-> FALSE, out |-> 0]
        /\ frames = <<>> /\ owed = <<>> /\ rxq = <<>>
        /\ reader = [step |-> 1, buf |-> "zero", got |-> "zero"]
        /\ fan = 1
        /\ trouble = 0 /\ faults = 0

Fault   == faults < MaxFaults /\ faults' = faults + 1
NoFault == UNCHANGED faults
Trouble(n) == trouble' = IF n > trouble THEN n ELSE trouble

-----------------------------------------------------------------------------
\* Register::read and write take the line; the request is built.
Request(who, kind) ==
    /\ holder = "none" /\ holder' = who
    /\ at' = "queue" /\ cur' = kind /\ need' = ReqLen
    /\ Len(frames \o owed) < MaxFrames
    /\ frames' = Append(frames, kind)
    /\ UNCHANGED <<uart, owed, rxq, fan, trouble, faults>>

\* GMP252::update and HMP60::update start with an empty buffer.
ReaderRequest ==
    /\ reader.step <= 4
    /\ Request("reader", ReaderReads[reader.step])
    /\ reader' = [reader EXCEPT !.buf = IF reader.step \in {1, 3} THEN "zero" ELSE @]

\* Controller::setSpeed.
FanRequest == Request("fan", FanRequests[fan]) /\ UNCHANGED reader

\* Reader::run: the values are put into m_DataQueue, and a new turn begins.
Publish == /\ reader.step = 5
           /\ reader' = [reader EXCEPT !.step = 1]
           /\ UNCHANGED <<holder, at, cur, need, uart, line, rxq, fan, trouble,
                          faults>>

-----------------------------------------------------------------------------
\* PicoOsUart::write, and the transmit interrupt.

\* A byte from the queue to the FIFO; above its level the interrupt goes away.
Moved(u) == [u EXCEPT !.txq = @ - 1, !.fifo = @ + 1,
                      !.ris = @ /\ u.fifo + 1 <= TxLevel]

QueueByte == /\ at = "queue" /\ need > 0
             /\ uart' = [uart EXCEPT !.txq = @ + 1]
             /\ need' = need - 1
             /\ UNCHANGED <<holder, at, cur, line, rxq, task, trouble, faults>>

\* Mutant: the FIFO has no initial fill.
QueuedUnfilled ==
    /\ at = "queue" /\ need = 0
    /\ at' = "header" /\ uart' = [uart EXCEPT !.txim = TRUE]
    /\ UNCHANGED <<holder, cur, need, line, rxq, task, trouble, faults>>

\* From here to FillEnd, at = "fill", the UART's interrupt is disabled.
Queued == /\ at = "queue" /\ need = 0
          /\ at' = IF uart.txim THEN "header" ELSE "fill"
          /\ UNCHANGED <<holder, cur, need, uart, line, rxq, task, trouble, faults>>

FillByte == /\ at = "fill" /\ uart.txq > 0 /\ uart.fifo < TxDepth
            /\ uart' = Moved(uart)
            /\ UNCHANGED <<holder, at, cur, need, line, rxq, task, trouble, faults>>

FillEnd == /\ at = "fill" /\ (uart.txq = 0 \/ uart.fifo = TxDepth)
           /\ uart' = [uart EXCEPT !.txim = uart.txq > 0]
           /\ at' = "header"
           /\ UNCHANGED <<holder, cur, need, line, rxq, task, trouble, faults>>

Smaller(i, j) == IF i < j THEN i ELSE j

\* uart_irq_tx: as many bytes as there is room for.
IrqTx(u) ==
    LET n == Smaller(u.txq, TxDepth - u.fifo)
    IN [txq |-> u.txq - n, fifo |-> u.fifo + n, txim |-> u.txim /\ u.txq > n,
        ris |-> u.ris /\ u.fifo + n <= TxLevel, out |-> u.out]

TxInterrupt == /\ at # "fill" /\ uart.txim /\ uart.ris
               /\ uart' = IrqTx(uart)
               /\ UNCHANGED <<holder, at, cur, need, line, rxq, task, trouble,
                              faults>>

\* The line: the interrupt is raised when the FIFO has sunk to its level.
Transmit ==
    /\ uart.fifo > 0
    /\ LET last == uart.out + 1 = ReqLen
       IN /\ uart' = [uart EXCEPT !.fifo = @ - 1, !.ris = @ \/ uart.fifo - 1 = TxLevel,
                                  !.out = IF last THEN 0 ELSE @ + 1]
          /\ frames' = IF last THEN Tail(frames) ELSE frames
          /\ owed' = IF last THEN Append(owed, Head(frames)) ELSE owed
    /\ UNCHANGED <<holder, at, cur, need, rxq, task, trouble, faults>>

-----------------------------------------------------------------------------
\* Responses, and the receive interrupt.

\* What may arrive of a response in which one byte is garbled or lost.
Garbled(k) == {[Frame(k) EXCEPT ![i] = Noise] : i \in 1 .. FrameLen(k)}
              \cup {RemoveAt(Frame(k), i) : i \in 1 .. FrameLen(k)}

\* Mutant: the bytes that do not fit are not dropped.
ArriveAll(bytes) ==
    /\ at # "fill"
    /\ rxq' = rxq \o bytes
    /\ uart' = IrqTx(uart)

\* uart_irq_rx drops what does not fit, uart_irq_tx runs as well.
Arrive(bytes) ==
    /\ at # "fill"
    /\ rxq' = rxq \o SubSeq(bytes, 1, Smaller(Len(bytes), RxSize - Len(rxq)))
    /\ uart' = IrqTx(uart)

Respond ==
    /\ owed # <<>> /\ owed' = Tail(owed)
    /\ LET k == Head(owed)
           fits(bytes) == Len(rxq) + Len(bytes) <= RxSize
       IN \/ Arrive(Frame(k)) /\ NoFault /\ Trouble(IF fits(Frame(k)) THEN 0 ELSE 2)
          \/ \E bytes \in Garbled(k) : Arrive(bytes) /\ Fault /\ Trouble(2)
          \/ Fault /\ UNCHANGED <<rxq, uart, trouble>>
    /\ UNCHANGED <<holder, at, cur, need, frames, task>>

-----------------------------------------------------------------------------
\* nanomodbus reads the response; Register gives the line up, and nobody looks
\* at the error.

Rest(n) == SubSeq(rxq, n + 1, Len(rxq))

\* Mutant: a read that gave nothing is done again.
FinishRetrying ==
    /\ holder' = "none" /\ at' = "idle"
    /\ IF holder = "fan" THEN fan' = 3 - fan /\ UNCHANGED reader
       ELSE /\ reader' = [reader EXCEPT !.got = reader.buf,
                            !.step = IF reader.buf = "zero" THEN @ ELSE @ + 1]
            /\ UNCHANGED fan
    /\ UNCHANGED <<cur, need, uart, line>>

Finish ==
    /\ holder' = "none" /\ at' = "idle"
    /\ IF holder = "fan" THEN fan' = 3 - fan /\ UNCHANGED reader
       ELSE reader' = [reader EXCEPT !.step = @ + 1, !.got = reader.buf] /\ UNCHANGED fan
    /\ UNCHANGED <<cur, need, uart, line>>

\* Mutant: the unit of the response is not compared.
AnswersAny(head) ==
    \E k \in Kinds : /\ head = SubSeq(Frame(k), 1, 2)
                     /\ Function[k] = Function[cur]

\* The header is that of a response to cur, maybe to an earlier request.
Answers(head) ==
    \E k \in Kinds : /\ head = SubSeq(Frame(k), 1, 2)
                     /\ Unit[k] = Unit[cur] /\ Function[k] = Function[cur]

HeaderOk ==
    /\ at = "header" /\ Len(rxq) >= 2 /\ Answers(SubSeq(rxq, 1, 2))
    /\ rxq' = Rest(2)
    /\ IF Function[cur] = "read" THEN at' = "len" /\ UNCHANGED need
       ELSE at' = "data" /\ need' = 1
    /\ UNCHANGED <<holder, cur, uart, line, task, trouble, faults>>

\* A header of another device or function: only its two bytes are read.
HeaderWrong ==
    /\ at = "header" /\ Len(rxq) >= 2 /\ ~Answers(SubSeq(rxq, 1, 2))
    /\ rxq' = Rest(2)
    /\ Finish /\ NoFault /\ UNCHANGED trouble

\* No response in 1000 ms, and none to come, or a late one; or half a header.
Silence ==
    /\ at = "header" /\ Len(rxq) < 2 /\ rxq' = <<>>
    /\ IF rxq = <<>> /\ owed \o frames # <<>> THEN Fault /\ Trouble(1)
       ELSE NoFault /\ UNCHANGED trouble
    /\ Finish

\* Bytes that are no length may be any number; one beyond the registers is
\* taken as one that is never reached.
Length == /\ at = "len" /\ rxq # <<>>
          /\ need' \in IF \E k \in Kinds : Head(rxq) = <<k, 3>> /\ k # "setSpeed"
                       THEN {1} ELSE {0, 1, RxSize + 1}
          /\ rxq' = Tail(rxq)
          /\ at' = "data"
          /\ UNCHANGED <<holder, cur, uart, line, task, trouble, faults>>

\* The register whose data the byte is.
ValueOf(byte) == IF \E k \in Kinds : byte = <<k, 4>> /\ k # "setSpeed"
                 THEN byte[1] ELSE "noise"

\* The registers are stored before the CRC is looked at.
Data == /\ at = "data" /\ Len(rxq) >= need
        /\ rxq' = Rest(need)
        /\ reader' = IF holder = "reader" /\ need > 0
                     THEN [reader EXCEPT !.buf = ValueOf(Head(rxq))]
                     ELSE reader
        /\ at' = "crc"
        /\ UNCHANGED <<holder, cur, need, uart, line, fan, trouble,
                       faults>>

Crc == /\ at = "crc" /\ Len(rxq) >= 1
       /\ rxq' = Rest(1)
       /\ Finish /\ NoFault /\ UNCHANGED trouble

\* The bytes that are missing do not come within the byte timeout.
Short == /\ at \in {"len", "data", "crc"}
         /\ Len(rxq) < IF at = "data" THEN need ELSE 1
         /\ rxq' = <<>>
         /\ Finish /\ NoFault /\ UNCHANGED trouble

-----------------------------------------------------------------------------
Client == \/ QueueByte \/ Queued \/ FillByte \/ FillEnd
          \/ HeaderOk \/ HeaderWrong \/ Silence \/ Length \/ Data \/ Crc \/ Short

Next == \/ ReaderRequest \/ FanRequest \/ Publish \/ Client
        \/ TxInterrupt \/ Transmit \/ Respond

Spec == Init /\ [][Next]_vars

\* The reader runs, gets the line again and again, and so do interrupts; the
\* line works.  The fan controller may be idle.
LiveSpec == /\ Spec /\ SF_vars(ReaderRequest) /\ WF_vars(Publish)
            /\ WF_vars(Client) /\ WF_vars(FanRequest /\ fan = 2)
            /\ WF_vars(TxInterrupt) /\ WF_vars(Transmit) /\ WF_vars(Respond)

-----------------------------------------------------------------------------
\* Properties.

Readings == Kinds \cup {"zero", "noise"}
Bytes    == {<<k, i>> : k \in Kinds, i \in 1 .. 5} \cup {Noise}

\* Every variable has its type, and no queue holds more than it can.
TypeOK ==
    /\ holder \in {"none", "reader", "fan"}
    /\ at \in {"idle", "queue", "fill", "header", "len", "data", "crc"}
    /\ cur \in Kinds /\ need \in Nat
    /\ uart \in [txq : 0 .. MaxFrames * ReqLen, fifo : 0 .. TxDepth,
                 txim : BOOLEAN, ris : BOOLEAN, out : 0 .. ReqLen - 1]
    /\ frames \in Seq(Kinds) /\ owed \in Seq(Kinds)
    /\ Len(frames \o owed) <= MaxFrames
    /\ rxq \in Seq(Bytes) /\ Len(rxq) <= RxSize
    /\ reader \in [step : 1 .. 5, buf : Readings, got : Readings]
    /\ fan \in 1 .. 2 /\ trouble \in 0 .. 2 /\ faults \in 0 .. MaxFaults

\* The value of the read that the reader has just done.
Value(i) == IF reader.step = i + 1 THEN reader.got ELSE "zero"

\* While responses come in time or not at all, a value is that of its own
\* register, or 0; except that the temperature may be the humidity, which is
\* still in the buffer when its own response is lost (HMP60.cpp:28).  After a
\* late response a value may be of another register, but never of another
\* device, until bytes are garbled, or dropped from the full receive queue.
ReadingsAreOwn ==
    /\ trouble = 0 => /\ Value(1) \in {"co2", "zero"}
                      /\ Value(3) \in {"rh", "zero"}
                      /\ Value(4) \in {"temp", "rh", "zero"}
    /\ trouble <= 1 => \A i \in 1 .. 4 :
          Value(i) # "zero" => /\ Value(i) \in Kinds
                               /\ Unit[Value(i)] = Unit[ReaderReads[i]]

\* Whoever filled or emptied the transmit queue last, the writing task or the
\* interrupt handler on behalf of either direction, no byte is left behind in
\* it: the transmit interrupt is enabled, and raised or still to be raised.
NoByteLeftBehind ==
    /\ uart.txim => uart.txq > 0 /\ (uart.ris \/ uart.fifo > TxLevel)
    /\ uart.txq > 0 /\ at \notin {"queue", "fill"} => uart.txim

\* The reader publishes again and again, though devices are silent, late or
\* garbled, and the fan controller takes the line in between.
EveryTurnPublishes == []<>(reader.step = 5)

=============================================================================
