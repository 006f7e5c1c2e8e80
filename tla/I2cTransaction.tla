--------------------------- MODULE I2cTransaction ---------------------------
(***************************************************************************)
(* I2c::PicoI2C (src/i2c/PicoI2C.cpp): tasks share a bus under a mutex.  A  *)
(* task puts the first commands of its transaction into the transmit FIFO,  *)
(* the interrupt handler the others, while the controller executes them;    *)
(* the STOP at the end makes the handler notify the task.  There is one     *)
(* core: the handler interrupts tasks, never the other way round.           *)
(***************************************************************************)
EXTENDS Naturals, FiniteSets, Sequences, SequencesExt

CONSTANTS
    Tasks,       \* tasks that use the bus
    Requests,    \* transactions: [w, r], the bytes to write and to read
    Depth,       \* of both FIFOs
    Free,        \* nobody holds the mutex
    MaxLag,      \* steps of the controller before an interrupt is served
    MaxTimeouts  \* bound: calls that time out

ASSUME BusAssumption ==
    /\ Requests \subseteq [w : Nat, r : Nat]
    /\ \A q \in Requests : q.w + q.r > 0
    /\ Depth \in Nat \ {0, 1} /\ Free \notin Tasks
    /\ MaxLag \in Nat /\ MaxTimeouts \in Nat

VARIABLES
    holder,    \* of the mutex "access"
    pc,        \* where each task is in transaction
    notified,  \* the notification value of each task
    count,     \* the result of each task's last transaction
    drv,       \* the members: w, r, n stand for wctr, rctr, rcnt
    nvic,      \* the interrupt is enabled
    isr,       \* where the handler is, "out" when it does not run
    hw,        \* the controller
    log,       \* history: what this transaction did on the wire
    timeouts

tasks == <<holder, pc, notified, count>>
vars  == <<tasks, drv, nvic, isr, hw, log, timeouts>>

NoRequest == [w |-> 0, r |-> 0]
Fresh == [wire |-> <<>>, got |-> <<>>, overrun |-> FALSE]

Init == /\ holder = Free
        /\ pc = [t \in Tasks |-> "idle"]
        /\ notified = [t \in Tasks |-> FALSE]
        /\ count = [t \in Tasks |-> 0]
        /\ drv = [w |-> 0, r |-> 0, n |-> 0, restart |-> FALSE,
                  req |-> NoRequest, owner |-> Free]
        /\ nvic = FALSE /\ isr = "out"
        /\ hw = [fifo |-> <<>>, rx |-> <<>>, stopping |-> FALSE,
                 stopDet |-> FALSE, aborted |-> FALSE, mask |-> {}, lag |-> 0]
        /\ log = Fresh
        /\ timeouts = 0

-----------------------------------------------------------------------------
\* tx_fill_fifo and rx_fill_fifo: one command.

\* A FIFO in abort takes no commands.
Push(cmd) == hw' = IF hw.aborted THEN hw
                   ELSE [hw EXCEPT !.fifo = Append(@, cmd)]

\* Mutant: commands are queued whether or not there is room.
FillReadBlind ==
    /\ drv.r > 0
    /\ Push([op |-> "r", byte |-> 0, restart |-> drv.restart, stop |-> drv.r = 1])
    /\ drv' = [drv EXCEPT !.r = @ - 1, !.restart = FALSE]

\* Mutant: the restart flag is not cleared.
FillReadRestarting ==
    /\ drv.r > 0 /\ Len(hw.fifo) < Depth
    /\ Push([op |-> "r", byte |-> 0, restart |-> drv.restart, stop |-> drv.r = 1])
    /\ drv' = [drv EXCEPT !.r = @ - 1]

FillWrite ==
    /\ drv.w > 0 /\ Len(hw.fifo) < Depth
    /\ Push([op |-> "w", byte |-> drv.req.w - drv.w + 1,
             restart |-> drv.restart, stop |-> drv.w = 1 /\ drv.r = 0])
    /\ drv' = [drv EXCEPT !.w = @ - 1, !.restart = drv.w = 1 /\ drv.r > 0]

FillRead ==
    /\ drv.r > 0 /\ Len(hw.fifo) < Depth
    /\ Push([op |-> "r", byte |-> 0, restart |-> drv.restart, stop |-> drv.r = 1])
    /\ drv' = [drv EXCEPT !.r = @ - 1, !.restart = FALSE]

Filled(op) == \/ Len(hw.fifo) = Depth
              \/ IF op = "w" THEN drv.w = 0 ELSE drv.r = 0

-----------------------------------------------------------------------------
\* transaction, as the tasks run it.

\* Mutant: the FIFOs keep what the last transaction left in them.
ResetKeeping == hw' = [hw EXCEPT !.mask = {"tx", "rx", "stop"}]

\* Disabling the controller empties the FIFOs; a STOP on the wire, or one
\* already detected, may be seen afterwards.
Reset == \E s \in {FALSE, hw.stopDet \/ hw.stopping \/ hw.fifo # <<>>} :
            hw' = [fifo |-> <<>>, rx |-> <<>>, stopping |-> FALSE,
                   stopDet |-> s, aborted |-> FALSE,
                   mask |-> {"tx", "rx", "stop"}, lag |-> 0]

Begin(t, q) ==
    /\ isr = "out" /\ pc[t] = "idle" /\ holder = Free
    /\ holder' = t
    /\ Reset
    /\ drv' = [w |-> q.w, r |-> q.r, n |-> q.r, restart |-> FALSE,
               req |-> q, owner |-> t]
    /\ log' = Fresh
    /\ pc' = [pc EXCEPT ![t] = "fill"]
    /\ UNCHANGED <<notified, count, nvic, isr, timeouts>>

\* The interrupt is still disabled, and the controller already works.
First == IF drv.req.w > 0 THEN "w" ELSE "r"
Fill(t) == /\ isr = "out" /\ pc[t] = "fill"
           /\ IF First = "w" THEN FillWrite ELSE FillRead
           /\ UNCHANGED <<tasks, nvic, isr, log, timeouts>>

Wait(t) == /\ isr = "out" /\ pc[t] = "fill" /\ Filled(First)
           /\ nvic' = TRUE
           /\ pc' = [pc EXCEPT ![t] = "wait"]
           /\ UNCHANGED <<holder, notified, count, drv, isr, hw, log, timeouts>>

Take(t) ==
    /\ isr = "out" /\ pc[t] = "wait" /\ notified[t]
    /\ notified' = [notified EXCEPT ![t] = FALSE]
    /\ count' = [count EXCEPT ![t] = drv.req.w + drv.req.r - (drv.n + drv.w)]
    /\ pc' = [pc EXCEPT ![t] = "done"]
    /\ UNCHANGED <<holder, drv, nvic, isr, hw, log, timeouts>>

TimeOut(t) ==
    /\ isr = "out" /\ pc[t] = "wait" /\ ~notified[t]
    /\ timeouts < MaxTimeouts /\ timeouts' = timeouts + 1
    /\ count' = [count EXCEPT ![t] = 0]
    /\ pc' = [pc EXCEPT ![t] = "done"]
    /\ UNCHANGED <<holder, notified, drv, nvic, isr, hw, log>>

\* Until now the handler may run, and notify the task once more.
End(t) == /\ isr = "out" /\ pc[t] = "done"
          /\ nvic' = FALSE
          /\ holder' = Free
          /\ pc' = [pc EXCEPT ![t] = "idle"]
          /\ UNCHANGED <<notified, count, drv, isr, hw, log, timeouts>>

-----------------------------------------------------------------------------
\* isr.

TxEmpty == "tx" \in hw.mask /\ hw.fifo = <<>>
RxFull  == "rx" \in hw.mask /\ Len(hw.rx) >= Depth - 1
Stopped == "stop" \in hw.mask /\ hw.stopDet
Pending == nvic /\ (TxEmpty \/ RxFull \/ Stopped)

Enter == /\ isr = "out" /\ Pending
         /\ isr' = "drain"
         /\ UNCHANGED <<tasks, drv, nvic, hw, log, timeouts>>

Drain == /\ isr = "drain" /\ drv.n > 0 /\ hw.rx # <<>>
         /\ log' = [log EXCEPT !.got = Append(@, Head(hw.rx))]
         /\ hw' = [hw EXCEPT !.rx = Tail(@)]
         /\ drv' = [drv EXCEPT !.n = @ - 1]
         /\ UNCHANGED <<tasks, nvic, isr, timeouts>>

Drained == /\ isr = "drain" /\ (drv.n = 0 \/ hw.rx = <<>>)
           /\ isr' = IF ~TxEmpty THEN "stop" ELSE IF drv.w > 0 THEN "w" ELSE "r"
           /\ UNCHANGED <<tasks, drv, nvic, hw, log, timeouts>>

IsrFill == /\ isr \in {"w", "r"}
           /\ IF isr = "w" THEN FillWrite ELSE FillRead
           /\ UNCHANGED <<tasks, nvic, isr, log, timeouts>>

IsrFilled == /\ isr \in {"w", "r"} /\ Filled(isr)
             /\ hw' = IF drv.w = 0 /\ drv.r = 0
                      THEN [hw EXCEPT !.mask = {"rx", "stop"}] ELSE hw
             /\ isr' = "stop"
             /\ UNCHANGED <<tasks, drv, nvic, log, timeouts>>

\* Mutant: the interrupt of the STOP is neither masked nor cleared.
LeaveUncleared ==
    /\ isr = "stop" /\ isr' = "out"
    /\ hw' = [hw EXCEPT !.lag = 0]
    /\ notified' = IF Stopped THEN [notified EXCEPT ![drv.owner] = TRUE]
                   ELSE notified
    /\ UNCHANGED <<holder, pc, count, drv, nvic, log, timeouts>>

Leave == /\ isr = "stop" /\ isr' = "out"
         /\ IF Stopped
            THEN /\ hw' = [hw EXCEPT !.mask = {}, !.stopDet = FALSE, !.lag = 0]
                 /\ notified' = [notified EXCEPT ![drv.owner] = TRUE]
            ELSE hw' = [hw EXCEPT !.lag = 0] /\ UNCHANGED notified
         /\ UNCHANGED <<holder, pc, count, drv, nvic, log, timeouts>>

-----------------------------------------------------------------------------
\* The controller: a byte or a STOP takes so long that an enabled interrupt is
\* served, and its handler done, within MaxLag of them.
Served  == nvic /\ (Pending \/ isr # "out")
Prompt  == Served => hw.lag < MaxLag
NextLag == IF Served THEN hw.lag + 1 ELSE 0

Reads == Cardinality({i \in DOMAIN log.wire : log.wire[i].op = "r"})

\* One command: the address, if it is the first or a restart, and a byte.  A
\* byte that finds the receive FIFO full is lost.
Execute ==
    /\ hw.fifo # <<>> /\ ~hw.stopping /\ Prompt
    /\ LET cmd  == Head(hw.fifo)
           full == Len(hw.rx) = Depth
       IN /\ hw' = [hw EXCEPT !.fifo = Tail(@), !.stopping = cmd.stop,
                              !.rx = IF cmd.op = "w" \/ full THEN @
                                     ELSE Append(@, Reads + 1),
                              !.lag = NextLag]
          /\ log' = [log EXCEPT !.wire = Append(@, cmd),
                                !.overrun = @ \/ (cmd.op = "r" /\ full)]
    /\ UNCHANGED <<tasks, drv, nvic, isr, timeouts>>

\* The device does not acknowledge an address or a byte: the controller drops
\* the other commands, and those still to come, and sends a STOP.
Nack ==
    /\ hw.fifo # <<>> /\ ~hw.stopping /\ Prompt
    /\ log.wire = <<>> \/ Head(hw.fifo).op = "w" \/ Head(hw.fifo).restart
    /\ hw' = [hw EXCEPT !.fifo = <<>>, !.aborted = TRUE, !.stopping = TRUE,
                        !.lag = NextLag]
    /\ UNCHANGED <<tasks, drv, nvic, isr, log, timeouts>>

StopBit == /\ hw.stopping /\ Prompt
           /\ hw' = [hw EXCEPT !.stopping = FALSE, !.stopDet = TRUE,
                               !.lag = NextLag]
           /\ UNCHANGED <<tasks, drv, nvic, isr, log, timeouts>>

-----------------------------------------------------------------------------
Task(t) == Fill(t) \/ Wait(t) \/ Take(t) \/ End(t)
Isr     == Enter \/ Drain \/ Drained \/ IsrFill \/ IsrFilled \/ Leave
Bus     == Execute \/ Nack \/ StopBit

Next == \/ Isr \/ Bus
        \/ \E t \in Tasks : \/ Task(t) \/ TimeOut(t)
                            \/ \E q \in Requests : Begin(t, q)

Spec == Init /\ [][Next]_vars

\* Tasks run, enabled interrupts are served, the controller works; nobody
\* relies on the timeout.
LiveSpec == /\ Spec /\ WF_vars(Isr) /\ WF_vars(Bus)
            /\ \A t \in Tasks : WF_vars(Task(t))

-----------------------------------------------------------------------------
\* Properties.

Commands == [op : {"w", "r"}, byte : Nat, restart : BOOLEAN, stop : BOOLEAN]

\* Every variable has its type, and no FIFO holds more than it can.
TypeOK ==
    /\ holder \in Tasks \cup {Free}
    /\ pc \in [Tasks -> {"idle", "fill", "wait", "done"}]
    /\ notified \in [Tasks -> BOOLEAN] /\ count \in [Tasks -> Nat]
    /\ drv \in [w : Nat, r : Nat, n : Nat, restart : BOOLEAN,
                req : Requests \cup {NoRequest}, owner : Tasks \cup {Free}]
    /\ nvic \in BOOLEAN /\ isr \in {"out", "drain", "w", "r", "stop"}
    /\ hw \in [fifo : Seq(Commands), rx : Seq(Nat), stopping : BOOLEAN,
               stopDet : BOOLEAN, aborted : BOOLEAN,
               mask : SUBSET {"tx", "rx", "stop"}, lag : 0 .. MaxLag]
    /\ Len(hw.fifo) <= Depth /\ Len(hw.rx) <= Depth
    /\ log \in [wire : Seq(Commands), got : Seq(Nat), overrun : BOOLEAN]
    /\ timeouts \in 0 .. MaxTimeouts

\* The commands of a transaction: every byte to write, in order, then the
\* reads, one restart between them and one STOP at the very end.
Requested(q) ==
    [k \in 1 .. q.w + q.r |->
        [op |-> IF k <= q.w THEN "w" ELSE "r", byte |-> IF k <= q.w THEN k ELSE 0,
         restart |-> q.w > 0 /\ k = q.w + 1, stop |-> k = q.w + q.r]]

\* Whoever of the task and the handler queues the commands, and however full
\* the FIFO is at each moment, the wire sees those of the transaction in turn.
WireIsRequested == IsPrefix(log.wire, Requested(drv.req))

\* A full count of a transaction that reads means that all its bytes have been
\* received, in their order: even after calls that timed out, whose late
\* notification ends a later transaction before its time.  As long as no call
\* has timed out, a transaction ends with its STOP, and its count is the full
\* one unless the device refused a byte or the receive FIFO ran over while the
\* interrupt was still disabled.
CountIsTrue ==
    \A t \in Tasks : pc[t] = "done" =>
        /\ drv.req.r > 0 /\ count[t] = drv.req.w + drv.req.r
           => log.got = [k \in 1 .. drv.req.r |-> k]
        /\ timeouts = 0 /\ ~hw.aborted /\ ~log.overrun
           => /\ count[t] = drv.req.w + drv.req.r
              /\ log.wire = Requested(drv.req) /\ ~hw.stopping

\* A call returns without its timeout, whether the device acknowledges or not.
CallReturns == \A t \in Tasks : pc[t] = "wait" ~> pc[t] = "done"

=============================================================================
