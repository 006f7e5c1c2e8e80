------------------------------ MODULE TlsClient ------------------------------
(***************************************************************************)
(* Network::Client (src/network/TlsClient.cpp): the network task sends a    *)
(* request on a new connection and waits for the status of the response,    *)
(* which the callbacks of lwIP set.  The callbacks run in another thread,   *)
(* under lwIP's lock, and all work on the one m_Pcb of the client, whatever *)
(* connection they come from.                                               *)
(***************************************************************************)
EXTENDS Naturals, Sequences

CONSTANTS
    MaxSends,       \* bound: requests sent
    MaxFaults,      \* bound: calls and connections that fail
    SplitAnswers,   \* a response may come in two pieces
    SlowAnswers,    \* a response may take longer than the poll timeout
    NoPcb,          \* m_Pcb = NULL
    Torn,           \* a request read while it is being assigned
    NoStatus,       \* m_ResponseStatus = 0
    Unparsed,       \* m_ResponseStatus = -1
    NoCommand       \* no command in m_TargetQueue

\* Requests and connections are numbered by the call of send they belong to.
Requests    == 1 .. MaxSends
Connections == 1 .. MaxSends
Sendable    == Requests \cup {Torn}

ASSUME BoundsAssumption ==
    /\ MaxSends \in Nat /\ MaxFaults \in Nat
    /\ SplitAnswers \in BOOLEAN /\ SlowAnswers \in BOOLEAN
    /\ {NoPcb, Torn, NoStatus, Unparsed, NoCommand} \cap Requests = {}
    /\ NoStatus \notin {Torn, Unparsed} /\ Torn # Unparsed

VARIABLES
    pc,               \* where the network task is in send
    sends,            \* calls of send so far
    m_Request,
    m_ResponseStatus, \* NoStatus, Unparsed, or the request it answers
    m_Pcb,
    targetQueue,      \* the request whose response last set the target
    phase,            \* of each connection
    written,          \* the requests written to each connection
    owed,             \* the pieces of the responses still to come on each
    dns,              \* DNS queries whose callback is to come
    lwip,             \* "closing": a callback is inside close; "halted": the
                      \* controller has crashed
    returned,         \* history: what each send returned
    faults            \* calls and connections that failed

task == <<pc, sends, returned>>
vars == <<task, m_Request, m_ResponseStatus, m_Pcb, targetQueue, phase,
          written, owed, dns, lwip, faults>>

\* A piece of a response: whether the status and a command are in it.
Pieces == [of : Sendable, status : BOOLEAN, target : BOOLEAN]

\* The pieces in which the response to r may come.
Responses(r) ==
    {<<[of |-> r, status |-> TRUE, target |-> b]>> : b \in BOOLEAN}
    \cup IF SplitAnswers
         THEN {<<[of |-> r, status |-> b, target |-> FALSE],
                 [of |-> r, status |-> ~b, target |-> TRUE]>> : b \in BOOLEAN}
         ELSE {}

Init ==
    /\ pc = "idle" /\ sends = 0
    /\ m_Request = Torn /\ m_ResponseStatus = NoStatus /\ m_Pcb = NoPcb
    /\ targetQueue = NoCommand
    /\ phase = [c \in Connections |-> "unused"]
    /\ written = [c \in Connections |-> <<>>]
    /\ owed = [c \in Connections |-> <<>>]
    /\ dns = 0 /\ lwip = "ready"
    /\ returned = [r \in Requests |-> NoStatus]
    /\ faults = 0

Fault   == faults < MaxFaults /\ faults' = faults + 1
NoFault == UNCHANGED faults

-----------------------------------------------------------------------------
\* close: the calls of lwIP on the connection m_Pcb, given the phases.
Freed(ph) == IF m_Pcb = NoPcb THEN ph ELSE [ph EXCEPT ![m_Pcb] = "gone"]

\* close as a callback does it: m_Pcb becomes NULL only afterwards.
CallClose(ph) == /\ phase' = Freed(ph)
                 /\ lwip' = IF m_Pcb = NoPcb THEN "ready" ELSE "closing"
                 /\ UNCHANGED m_Pcb

\* connect: m_Pcb can be connected only when it is new.
CanConnect == m_Pcb # NoPcb /\ phase[m_Pcb] = "new"
Connecting == phase' = [phase EXCEPT ![m_Pcb] = "connecting"]

-----------------------------------------------------------------------------
\* The network task.

\* send: m_Request is assigned, which is not atomic.
Send == /\ pc = "idle" /\ sends < MaxSends
        /\ sends' = sends + 1
        /\ m_Request' = Torn
        /\ pc' = "assign"
        /\ UNCHANGED <<m_ResponseStatus, m_Pcb, targetQueue, phase, written,
                       owed, dns, lwip, returned, faults>>

Assign == /\ pc = "assign"
          /\ m_Request' = sends
          /\ pc' = "reset"
          /\ UNCHANGED <<sends, m_ResponseStatus, m_Pcb, targetQueue, phase,
                         written, owed, dns, lwip, returned, faults>>

\* Mutant: the status of the last response is not reset.
KeepStatus == /\ pc = "reset"
              /\ pc' = "open"
              /\ UNCHANGED <<sends, m_Request, m_ResponseStatus, m_Pcb,
                             targetQueue, phase, written, owed, dns, lwip,
                             returned, faults>>

ResetStatus == /\ pc = "reset"
               /\ m_ResponseStatus' = NoStatus
               /\ pc' = "open"
               /\ UNCHANGED <<sends, m_Request, m_Pcb, targetQueue, phase,
                              written, owed, dns, lwip, returned, faults>>

\* open: a new connection takes the place of the last one.
NewPcb == /\ pc = "open"
          /\ \/ /\ m_Pcb' = sends
                /\ phase' = [phase EXCEPT ![sends] = "new"]
                /\ pc' = "setup"
                /\ NoFault
             \/ /\ Fault
                /\ m_Pcb' = NoPcb
                /\ pc' = "wait"
                /\ UNCHANGED phase
          /\ UNCHANGED <<sends, m_Request, m_ResponseStatus, targetQueue,
                         written, owed, dns, lwip, returned>>

\* open, the calls that set up m_Pcb, which do not take the lock: a callback of
\* an earlier connection may have closed it meanwhile.  Calls on a connection
\* that is NULL or freed have no effect, or crash the controller.
SetUp == /\ pc = "setup"
         /\ \/ pc' = "resolve" /\ UNCHANGED lwip
            \/ ~CanConnect /\ pc' = "halted" /\ lwip' = "halted"
         /\ UNCHANGED <<sends, m_Request, m_ResponseStatus, m_Pcb, targetQueue,
                        phase, written, owed, dns, returned, faults>>

\* open under the lock: the host is known, asked for, or neither.
Resolve == /\ pc = "resolve" /\ lwip = "ready"
           /\ \/ /\ CanConnect /\ Connecting
                 /\ NoFault /\ UNCHANGED <<m_Pcb, dns>>
              \/ /\ IF CanConnect THEN Fault ELSE NoFault
                 /\ phase' = Freed(phase) /\ m_Pcb' = NoPcb
                 /\ UNCHANGED dns
              \/ /\ dns' = dns + 1
                 /\ NoFault /\ UNCHANGED <<m_Pcb, phase>>
           /\ pc' = "wait"
           /\ UNCHANGED <<sends, m_Request, m_ResponseStatus, targetQueue,
                          written, owed, lwip, returned>>

\* send: the loop that waits for a status.
Return == /\ pc = "wait" /\ m_ResponseStatus # NoStatus
          /\ returned' = [returned EXCEPT ![sends] = m_ResponseStatus]
          /\ pc' = "idle"
          /\ UNCHANGED <<sends, m_Request, m_ResponseStatus, m_Pcb,
                         targetQueue, phase, written, owed, dns, lwip, faults>>

-----------------------------------------------------------------------------
\* The callbacks.

\* The rest of close.
CloseEnd == /\ lwip = "closing"
            /\ m_Pcb' = NoPcb
            /\ lwip' = "ready"
            /\ UNCHANGED <<task, m_Request, m_ResponseStatus, targetQueue,
                           phase, written, owed, dns, faults>>

\* Mutant: a callback without a query.
DnsFoundUnasked ==
    /\ lwip = "ready"
    /\ dns' = dns - 1
    /\ \/ CanConnect /\ Connecting /\ UNCHANGED <<m_Pcb, lwip>>
       \/ ~CanConnect /\ CallClose(phase)
    /\ UNCHANGED <<task, m_Request, m_ResponseStatus, targetQueue, written,
                   owed, faults>>

\* tlsDnsFound: the address, or none; connect takes the m_Pcb of the moment.
DnsFound ==
    /\ lwip = "ready" /\ dns > 0
    /\ dns' = dns - 1
    /\ \/ CanConnect /\ Connecting /\ NoFault /\ UNCHANGED <<m_Pcb, lwip>>
       \/ (IF CanConnect THEN Fault ELSE NoFault) /\ CallClose(phase)
    /\ UNCHANGED <<task, m_Request, m_ResponseStatus, targetQueue, written,
                   owed>>

\* tlsConnected: the m_Request of the moment is written to the m_Pcb of the
\* moment, which need not be the connection that is established.
Connected(c) ==
    /\ lwip = "ready" /\ phase[c] = "connecting"
    /\ LET ph == [phase EXCEPT ![c] = "established"]
           writable == m_Pcb # NoPcb /\ ph[m_Pcb] \in {"established", "half"}
       IN \/ /\ writable /\ NoFault
             /\ written' = [written EXCEPT ![m_Pcb] = Append(@, m_Request)]
             /\ \E pieces \in Responses(m_Request) :
                   owed' = IF ph[m_Pcb] = "half" THEN owed
                           ELSE [owed EXCEPT ![m_Pcb] = @ \o pieces]
             /\ phase' = ph
             /\ UNCHANGED <<m_Pcb, lwip>>
          \/ /\ IF writable THEN Fault ELSE NoFault
             /\ CallClose(ph)
             /\ UNCHANGED <<written, owed>>
    /\ UNCHANGED <<task, m_Request, m_ResponseStatus, targetQueue, dns>>

\* getStatus, getTarget.
StatusIn(p) == IF p.status THEN p.of ELSE Unparsed
TargetIn(p) == IF p.status /\ p.target THEN p.of ELSE targetQueue

\* tlsReceive with data.
Receive(c) ==
    /\ lwip = "ready" /\ phase[c] = "established" /\ owed[c] # <<>>
    /\ m_ResponseStatus' = StatusIn(Head(owed[c]))
    /\ targetQueue' = TargetIn(Head(owed[c]))
    /\ owed' = [owed EXCEPT ![c] = Tail(@)]
    /\ UNCHANGED <<task, m_Request, m_Pcb, phase, written, dns, lwip, faults>>

\* tlsReceive without data: the server has closed c, after it answered or
\* before; what is closed is m_Pcb.
Closed(c) ==
    /\ lwip = "ready" /\ phase[c] = "established"
    /\ IF owed[c] = <<>> /\ written[c] # <<>> THEN NoFault ELSE Fault
    /\ CallClose([phase EXCEPT ![c] = "half"])
    /\ UNCHANGED <<task, m_Request, m_ResponseStatus, targetQueue, written,
                   owed, dns>>

Alive(c) == phase[c] \in {"connecting", "established", "half"}

\* Mutant: the request is sent again.
PollResending(c) ==
    /\ lwip = "ready" /\ phase[c] = "established" /\ m_Pcb = c
    /\ Len(written[c]) < 2
    /\ written' = [written EXCEPT ![c] = Append(@, m_Request)]
    /\ UNCHANGED <<task, m_Request, m_ResponseStatus, m_Pcb, targetQueue,
                   phase, owed, dns, lwip, faults>>

\* Mutant: the timeout is noted only.
PollNoting(c) ==
    /\ lwip = "ready" /\ Alive(c)
    /\ UNCHANGED vars

\* tlsPoll: c has timed out.
Poll(c) ==
    /\ lwip = "ready" /\ Alive(c)
    /\ SlowAnswers \/ phase[c] = "half"
    /\ CallClose(phase)
    /\ UNCHANGED <<task, m_Request, m_ResponseStatus, targetQueue, written,
                   owed, dns, faults>>

\* Mutant: the connection that failed is not closed.
ErrorNoting(c) ==
    /\ lwip = "ready" /\ Alive(c) /\ Fault
    /\ phase' = [phase EXCEPT ![c] = "gone"]
    /\ UNCHANGED <<task, m_Request, m_ResponseStatus, m_Pcb, targetQueue,
                   written, owed, dns, lwip>>

\* tlsError: c has failed, and lwIP has freed it.
Error(c) ==
    /\ lwip = "ready" /\ Alive(c) /\ Fault
    /\ CallClose([phase EXCEPT ![c] = "gone"])
    /\ UNCHANGED <<task, m_Request, m_ResponseStatus, targetQueue, written,
                   owed, dns>>

-----------------------------------------------------------------------------
Task == Send \/ Assign \/ ResetStatus \/ NewPcb \/ SetUp \/ Resolve \/ Return
Lwip == \/ CloseEnd \/ DnsFound
        \/ \E c \in Connections : \/ Connected(c) \/ Receive(c) \/ Closed(c)
                                  \/ Poll(c) \/ Error(c)
Next == Task \/ Lwip

Spec == Init /\ [][Next]_vars

\* The task goes on, lwIP answers every query, and polls.
Fairness == /\ WF_vars(Assign) /\ WF_vars(ResetStatus) /\ WF_vars(NewPcb)
            /\ WF_vars(SetUp) /\ WF_vars(Resolve) /\ WF_vars(Return)
            /\ WF_vars(CloseEnd) /\ WF_vars(DnsFound)
            /\ \A c \in Connections : WF_vars(Poll(c))

LiveSpec == Spec /\ Fairness

\* The server accepts connections, answers, and closes.
ServedSpec == /\ LiveSpec
              /\ \A c \in Connections : /\ WF_vars(Connected(c))
                                        /\ WF_vars(Receive(c))
                                        /\ WF_vars(Closed(c))

-----------------------------------------------------------------------------
\* Properties.

\* Every variable has its type.
TypeOK ==
    /\ pc \in {"idle", "assign", "reset", "open", "setup", "resolve", "wait",
               "halted"}
    /\ sends \in 0 .. MaxSends
    /\ m_Request \in Sendable
    /\ m_ResponseStatus \in Sendable \cup {NoStatus, Unparsed}
    /\ m_Pcb \in Connections \cup {NoPcb}
    /\ targetQueue \in Sendable \cup {NoCommand}
    /\ phase \in [Connections -> {"unused", "new", "connecting",
                                  "established", "half", "gone"}]
    /\ written \in [Connections -> Seq(Sendable)]
    /\ owed \in [Connections -> Seq(Pieces)]
    /\ dns \in 0 .. MaxSends
    /\ lwip \in {"ready", "closing", "halted"}
    /\ returned \in [Requests -> Sendable \cup {NoStatus, Unparsed}]
    /\ faults \in 0 .. MaxFaults

\* Some send has returned -1: a response has come in two pieces.
Disturbed == \E r \in Requests : returned[r] = Unparsed

\* A send returns the status of its own request, or -1, whatever callbacks of
\* earlier connections come in between: until a send returns -1, after which
\* the rest of a response can be taken for the next one.
StatusIsOwn == \A r \in Requests :
                   \/ returned[r] \in {NoStatus, Unparsed, r}
                   \/ \E q \in 1 .. r - 1 : returned[q] = Unparsed

\* Until then no request is sent twice, nor on the connection of another one,
\* nor half assigned: when a connection is established, m_Request and m_Pcb
\* are still its own.
SentOnce == \A c \in Connections : written[c] \in {<<>>, <<c>>} \/ Disturbed

\* Whatever runs under lwIP's lock, the callbacks and the end of open, finds
\* m_Pcb NULL or a connection that lwIP has not freed, though most callbacks
\* come from other connections than the one they close.  It says nothing of
\* what open does before it takes the lock: see SetUpIsSafe.
PcbIsAlive == lwip = "ready" /\ m_Pcb # NoPcb
              => phase[m_Pcb] \notin {"unused", "gone"}

\* A send that waits on a silent server does not keep its connection for ever:
\* poll closes it, although poll closes m_Pcb and not the connection that has
\* timed out.  (Connections that m_Pcb no longer knows are another matter.)
SilentServerGivenUp ==
    \A c \in Connections :
        pc = "wait" /\ m_Pcb = c ~> phase[c] = "gone" \/ pc = "idle"

\* Every send returns: the task never stops reporting.
SendReturns == pc = "wait" ~> pc = "idle"

\* A comment in open: cyw43_arch_lwip_begin/end should be used around calls into
\* lwIP.  The calls that set up a new connection work on it, not on a NULL
\* pointer or one that lwIP has freed.
SetUpIsSafe == pc = "setup" => CanConnect

-----------------------------------------------------------------------------
\* The invariant that makes TypeOK and PcbIsAlive inductive.

\* A call of send has its number, and makes one query at most.
Counted == /\ pc # "idle" => sends >= 1
           /\ dns <= sends
           /\ pc \in {"assign", "reset", "open", "setup", "resolve"} => dns < sends

IInv == TypeOK /\ Counted /\ PcbIsAlive

=============================================================================
