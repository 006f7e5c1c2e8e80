--------------------------- MODULE TlsClient_proofs ---------------------------
(***************************************************************************)
(* Proofs about TlsClient, for any number of requests and failures: type   *)
(* correctness, that under lwIP's lock m_Pcb is never a connection lwIP has *)
(* freed, and that a status and a request are those of their own send.     *)
(***************************************************************************)
EXTENDS TlsClient, TLAPS

Phases == {"unused", "new", "connecting", "established", "half", "gone"}

\* Responses come in pieces.
LEMMA ResponsesType ==
  ASSUME NEW r \in Sendable
  PROVE  Responses(r) \subseteq Seq(Pieces)
<1>1. \A b \in BOOLEAN, d \in BOOLEAN :
         [of |-> r, status |-> b, target |-> d] \in Pieces
  BY DEF Pieces
<1>2. \A p \in Pieces, q \in Pieces : <<p>> \in Seq(Pieces) /\ <<p, q>> \in Seq(Pieces)
  OBVIOUS
<1> QED
  BY <1>1, <1>2 DEF Responses

\* close leaves phases of the right type, and m_Pcb alone until it is done.
LEMMA CloseType ==
  ASSUME TypeOK, NEW ph \in [Connections -> Phases], CallClose(ph)
  PROVE  /\ phase' \in [Connections -> Phases]
         /\ lwip' \in {"ready", "closing"} /\ m_Pcb' = m_Pcb
         /\ lwip' = "ready" => m_Pcb = NoPcb
BY DEF TypeOK, CallClose, Freed, Phases

\* connect leaves phases of the right type.
LEMMA ConnectType ==
  ASSUME TypeOK, Connecting
  PROVE  phase' \in [Connections -> Phases]
BY DEF TypeOK, Connecting, Phases

\* A failure is counted.
LEMMA FaultType ==
  ASSUME TypeOK, Fault \/ NoFault
  PROVE  faults' \in 0 .. MaxFaults
BY BoundsAssumption DEF TypeOK, Fault, NoFault

\* What the initial state satisfies.
LEMMA IInvInit == Init => IInv
<1> SUFFICES ASSUME Init PROVE IInv
  OBVIOUS
<1>1. TypeOK
  <2>1. <<>> \in Seq(Sendable) /\ <<>> \in Seq(Pieces)
    OBVIOUS
  <2> QED
    BY <2>1, BoundsAssumption DEF Init, TypeOK, Sendable
<1>2. Counted /\ PcbIsAlive
  BY DEF Init, Counted, PcbIsAlive
<1> QED
  BY <1>1, <1>2 DEF IInv

\* The steps of the network task.
LEMMA TaskStep == IInv /\ Task => IInv'
<1> SUFFICES ASSUME IInv, Task PROVE IInv'
  OBVIOUS
<1> USE BoundsAssumption DEF IInv
<1>0. sends \in Nat /\ dns \in Nat /\ MaxSends \in Nat
  BY DEF TypeOK
<1>1. CASE Send
  <2>1. sends' = sends + 1 /\ sends' \in 0 .. MaxSends /\ pc' = "assign"
    BY <1>0, <1>1 DEF Send
  <2>2. TypeOK'
    BY <1>1, <2>1 DEF Send, TypeOK, Sendable
  <2>3. Counted'
    BY <1>0, <1>1, <2>1 DEF Send, Counted
  <2> QED
    BY <1>1, <2>2, <2>3 DEF Send, PcbIsAlive
<1>2. CASE Assign
  <2>1. sends \in Requests
    BY <1>0, <1>2 DEF Assign, Requests, Counted, TypeOK
  <2>2. TypeOK'
    BY <1>2, <2>1 DEF Assign, TypeOK, Sendable
  <2> QED
    BY <1>2, <2>2 DEF Assign, PcbIsAlive, Counted
<1>3. CASE ResetStatus
  BY <1>3 DEF ResetStatus, PcbIsAlive, Counted, TypeOK
<1>4. CASE NewPcb
  <2>1. sends \in Connections
    BY <1>0, <1>4 DEF NewPcb, Connections, Counted, TypeOK
  <2>2. TypeOK'
    <3>1. faults' \in 0 .. MaxFaults
      BY <1>4, FaultType DEF NewPcb
    <3>2. m_Pcb' \in Connections \cup {NoPcb} /\ phase' \in [Connections -> Phases]
      BY <1>4, <2>1 DEF NewPcb, TypeOK, Phases
    <3> QED
      BY <1>4, <3>1, <3>2 DEF NewPcb, TypeOK, Phases
  <2>3. Counted'
    BY <1>0, <1>4 DEF NewPcb, Counted
  <2>4. PcbIsAlive'
    BY <1>4, <2>1 DEF NewPcb, PcbIsAlive, TypeOK
  <2> QED
    BY <2>2, <2>3, <2>4
<1>5. CASE SetUp
  <2>1. pc = "setup" /\ pc' \in {"resolve", "halted"} /\ lwip' \in {lwip, "halted"}
        /\ UNCHANGED <<sends, m_Pcb, phase, dns>>
    BY <1>5 DEF SetUp
  <2>2. TypeOK'
    BY <1>5, <2>1 DEF SetUp, TypeOK
  <2> QED
    BY <2>1, <2>2 DEF Counted, PcbIsAlive
<1>6. CASE Resolve
  <2>1. pc = "resolve" /\ pc' = "wait" /\ sends' = sends
    BY <1>6 DEF Resolve
  <2>2. dns' \in {dns, dns + 1} /\ dns' \in 0 .. MaxSends /\ dns' <= sends
    BY <1>0, <1>6, <2>1 DEF Resolve, Counted, TypeOK
  <2>3. faults' \in 0 .. MaxFaults
    BY <1>6, FaultType DEF Resolve
  <2>4. /\ phase' \in [Connections -> Phases]
        /\ m_Pcb' \in Connections \cup {NoPcb}
    BY <1>6, ConnectType DEF Resolve, Freed, TypeOK, Phases
  <2>5. TypeOK'
    BY <1>6, <2>2, <2>3, <2>4 DEF Resolve, TypeOK, Phases
  <2>6. PcbIsAlive'
    BY <1>6 DEF Resolve, Connecting, CanConnect, PcbIsAlive, TypeOK
  <2> QED
    BY <1>0, <2>1, <2>2, <2>5, <2>6 DEF Counted
<1>7. CASE Return
  <2>1. returned' \in [Requests -> Sendable \cup {NoStatus, Unparsed}]
    BY <1>7 DEF Return, TypeOK
  <2> QED
    BY <1>7, <2>1 DEF Return, PcbIsAlive, Counted, TypeOK
<1> QED
  BY <1>1, <1>2, <1>3, <1>4, <1>5, <1>6, <1>7 DEF Task

\* The steps of the callbacks.
LEMMA LwipStep == IInv /\ Lwip => IInv'
<1> SUFFICES ASSUME IInv, Lwip PROVE IInv'
  OBVIOUS
<1> USE BoundsAssumption DEF IInv
<1>1. ASSUME UNCHANGED <<task, dns>>
      PROVE  Counted'
  BY <1>1 DEF task, Counted
<1>2. ASSUME NEW ph \in [Connections -> Phases], CallClose(ph)
      PROVE  PcbIsAlive'
  BY <1>2, CloseType DEF PcbIsAlive
<1>3. CASE CloseEnd
  BY <1>1, <1>3 DEF CloseEnd, task, TypeOK, PcbIsAlive
<1>4. CASE DnsFound
  <2>1. dns' \in 0 .. MaxSends /\ Counted'
    BY <1>4 DEF DnsFound, task, Counted, TypeOK
  <2>2. faults' \in 0 .. MaxFaults
    BY <1>4, FaultType DEF DnsFound
  <2>3. CASE CanConnect /\ Connecting /\ UNCHANGED <<m_Pcb, lwip>>
    <3>1. phase' \in [Connections -> Phases]
      BY <2>3, ConnectType
    <3>2. TypeOK'
      BY <1>4, <2>1, <2>2, <2>3, <3>1 DEF DnsFound, task, TypeOK, Phases
    <3>3. PcbIsAlive'
      BY <2>3 DEF Connecting, CanConnect, PcbIsAlive, TypeOK
    <3> QED
      BY <2>1, <3>2, <3>3
  <2>4. CASE CallClose(phase)
    <3>1. phase \in [Connections -> Phases]
      BY DEF TypeOK, Phases
    <3>2. TypeOK'
      BY <1>4, <2>1, <2>2, <2>4, <3>1, CloseType
         DEF DnsFound, task, TypeOK, Phases
    <3> QED
      BY <1>2, <2>1, <2>4, <3>1, <3>2
  <2> QED
    BY <1>4, <2>3, <2>4 DEF DnsFound
<1>5. ASSUME NEW c \in Connections, Connected(c)
      PROVE  IInv'
  <2> DEFINE ph == [phase EXCEPT ![c] = "established"]
             writable == m_Pcb # NoPcb /\ ph[m_Pcb] \in {"established", "half"}
  <2>1. ph \in [Connections -> Phases]
    BY DEF TypeOK, Phases
  <2>2. faults' \in 0 .. MaxFaults
    BY <1>5, FaultType DEF Connected
  <2>3. UNCHANGED <<task, m_Request, m_ResponseStatus, targetQueue, dns>>
    BY <1>5 DEF Connected
  <2>4. CASE /\ writable
             /\ written' = [written EXCEPT ![m_Pcb] = Append(@, m_Request)]
             /\ \E pieces \in Responses(m_Request) :
                   owed' = IF ph[m_Pcb] = "half" THEN owed
                           ELSE [owed EXCEPT ![m_Pcb] = @ \o pieces]
             /\ phase' = ph
             /\ UNCHANGED <<m_Pcb, lwip>>
    <3>1. m_Pcb \in Connections
      BY <2>4 DEF TypeOK
    <3>2. Append(written[m_Pcb], m_Request) \in Seq(Sendable)
      BY <3>1 DEF TypeOK
    <3>3. written' \in [Connections -> Seq(Sendable)]
      BY <2>4, <3>2 DEF TypeOK
    <3>4. owed' \in [Connections -> Seq(Pieces)]
      <4>1. PICK pieces \in Responses(m_Request) :
                   owed' = IF ph[m_Pcb] = "half" THEN owed
                           ELSE [owed EXCEPT ![m_Pcb] = @ \o pieces]
        BY <2>4
      <4>2. pieces \in Seq(Pieces) /\ owed[m_Pcb] \in Seq(Pieces)
        BY <3>1, <4>1, ResponsesType DEF TypeOK
      <4>3. owed[m_Pcb] \o pieces \in Seq(Pieces)
        BY <4>2
      <4> QED
        BY <4>1, <4>3 DEF TypeOK
    <3>5. TypeOK'
      BY <2>1, <2>2, <2>3, <2>4, <3>3, <3>4 DEF task, TypeOK, Phases
    <3>6. PcbIsAlive'
      BY <2>4 DEF PcbIsAlive
    <3> QED
      BY <1>1, <2>3, <3>5, <3>6
  <2>5. CASE CallClose(ph) /\ UNCHANGED <<written, owed>>
    <3>1. TypeOK'
      BY <2>1, <2>2, <2>3, <2>5, CloseType DEF task, TypeOK, Phases
    <3> QED
      BY <1>1, <1>2, <2>1, <2>3, <2>5, <3>1
  <2> QED
    BY <1>5, <2>4, <2>5 DEF Connected
<1>6. ASSUME NEW c \in Connections, Receive(c)
      PROVE  IInv'
  <2>1. owed[c] \in Seq(Pieces) /\ owed[c] # <<>>
    BY <1>6 DEF Receive, TypeOK
  <2>2. Head(owed[c]) \in Pieces /\ Tail(owed[c]) \in Seq(Pieces)
    BY <2>1
  <2>3. /\ m_ResponseStatus' \in Sendable \cup {NoStatus, Unparsed}
        /\ targetQueue' \in Sendable \cup {NoCommand}
        /\ owed' \in [Connections -> Seq(Pieces)]
    BY <1>6, <2>2 DEF Receive, StatusIn, TargetIn, Pieces, TypeOK
  <2>4. TypeOK'
    BY <1>6, <2>3 DEF Receive, task, TypeOK
  <2> QED
    BY <1>1, <1>6, <2>4 DEF Receive, PcbIsAlive
<1>7. ASSUME NEW c \in Connections, NEW p \in Phases,
             \/ CallClose([phase EXCEPT ![c] = p])
             \/ CallClose(phase),
             Fault \/ NoFault,
             UNCHANGED <<task, m_Request, m_ResponseStatus, targetQueue,
                         written, owed, dns>>
      PROVE  IInv'
  <2>1. PICK ph \in [Connections -> Phases] : CallClose(ph)
    BY <1>7 DEF TypeOK, Phases
  <2>2. faults' \in 0 .. MaxFaults
    BY <1>7, FaultType
  <2>3. TypeOK'
    BY <1>7, <2>1, <2>2, CloseType DEF task, TypeOK, Phases
  <2> QED
    BY <1>1, <1>2, <1>7, <2>1, <2>3
<1>8. ASSUME NEW c \in Connections, Closed(c) \/ Poll(c) \/ Error(c)
      PROVE  IInv'
  BY <1>7, <1>8 DEF Closed, Poll, Error, NoFault, Phases
<1> QED
  BY <1>3, <1>4, <1>5, <1>6, <1>8 DEF Lwip

LEMMA NextIInv == IInv /\ [Next]_vars => IInv'
<1>1. ASSUME IInv, UNCHANGED vars
      PROVE  IInv'
  BY <1>1 DEF vars, task, IInv, TypeOK, Counted, PcbIsAlive
<1> QED
  BY <1>1, TaskStep, LwipStep DEF Next

\* The inductive invariant holds in every reachable state.
LEMMA Inductive == Spec => []IInv
BY IInvInit, NextIInv, PTL DEF Spec

\* Every variable has its type in every reachable state.
THEOREM TypeCorrect == Spec => []TypeOK
<1>1. IInv => TypeOK
  BY DEF IInv
<1> QED
  BY <1>1, Inductive, PTL

\* What runs under lwIP's lock, the callbacks and the end of open, finds m_Pcb
\* NULL or a connection that lwIP has not freed (TlsClient.cpp:98-120, 132-154,
\* 186-256).  The calls of open in lines 83 to 90, which do not take the lock,
\* are excepted: the run tls_unlocked shows what they find.
THEOREM PcbStaysAlive == Spec => []PcbIsAlive
<1>1. IInv => PcbIsAlive
  BY DEF IInv
<1> QED
  BY <1>1, Inductive, PTL

-----------------------------------------------------------------------------
\* The requests and their connections: the inductive invariant.

\* A send that has not returned has no result.
Unreturned == \A r \in Requests :
                  r > sends \/ (r = sends /\ pc # "idle") => returned[r] = NoStatus

\* The send of c has its status, or has returned it.
Answered(c) == \/ c < sends
               \/ c = sends /\ (pc = "idle" \/ m_ResponseStatus = c)

\* A connection is used first by the send that made it: only that one makes it
\* connect, while m_Pcb and m_Request are its own, and every request is written
\* at most once and to its own connection.
Alone(c) ==
    /\ c > sends \/ (c = sends /\ pc \in {"assign", "reset", "open"})
       => phase[c] = "unused"
    /\ phase[c] = "new" => c = sends /\ pc \in {"setup", "resolve", "wait", "halted"}
    /\ phase[c] = "connecting"
       => c = sends /\ pc = "wait" /\ m_Pcb = c /\ lwip = "ready"
    /\ written[c] \in {<<>>, <<c>>}
    /\ phase[c] \in {"unused", "new", "connecting"} => written[c] = <<>>

\* What is still to come on a connection answers its request, and once that has
\* its status only the rest of a response can come.
Owed(c) ==
    /\ written[c] = <<>> => owed[c] = <<>>
    /\ \A i \in 1 .. Len(owed[c]) : owed[c][i].of = c
    /\ \A i, j \in 1 .. Len(owed[c]) :
          owed[c][i].status /\ owed[c][j].status => i = j
    /\ Answered(c) => \A i \in 1 .. Len(owed[c]) : ~owed[c][i].status

\* The send that is under way: until its request is written nothing but the rest
\* of an earlier response can give it a status, and a name is asked for once.
UnderWay ==
    /\ pc \in {"reset", "open", "setup", "resolve", "wait"} => m_Request = sends
    /\ pc \in {"setup", "resolve"} \/ dns > 0
       => phase[sends] \in {"new", "gone"} /\ written[sends] = <<>>
    /\ dns > 0 => dns = 1 /\ pc = "wait"
    /\ pc \in {"open", "setup", "resolve", "wait"}
       => \/ m_ResponseStatus \in {NoStatus, Unparsed}
          \/ m_ResponseStatus = sends /\ written[sends] # <<>>

Undisturbed == UnderWay /\ \A c \in Connections : Alone(c) /\ Owed(c)

OwnInv == IInv /\ Unreturned /\ StatusIsOwn /\ (Disturbed \/ Undisturbed)

LEMMA InitOwn == Init => OwnInv
<1> SUFFICES ASSUME Init PROVE OwnInv
  OBVIOUS
<1>1. IInv
  BY IInvInit
<1>2. Unreturned /\ StatusIsOwn
  BY DEF Init, Unreturned, StatusIsOwn
<1>3. \A c \in Connections : Alone(c) /\ Owed(c)
  BY DEF Init, Alone, Owed
<1>4. UnderWay
  BY DEF Init, UnderWay
<1> QED
  BY <1>1, <1>2, <1>3, <1>4 DEF OwnInv, Undisturbed

-----------------------------------------------------------------------------
\* What the sends have returned.

\* A result is that of the request or comes after a disturbed one, and it stays.
LEMMA ReturnedStep ==
  ASSUME OwnInv, [Next]_vars
  PROVE  Unreturned' /\ StatusIsOwn' /\ (Disturbed => Disturbed')
<1> USE BoundsAssumption DEF OwnInv
<1>0. sends \in Nat /\ returned \in [Requests -> Sendable \cup {NoStatus, Unparsed}]
  BY DEF IInv, TypeOK
<1>1. CASE Send
  <2>1. sends' = sends + 1 /\ pc = "idle" /\ returned' = returned
    BY <1>1 DEF Send
  <2> QED
    BY <1>0, <2>1 DEF Unreturned, StatusIsOwn, Disturbed, Requests
<1>2. CASE Return
  <2>1. /\ pc = "wait" /\ pc' = "idle" /\ sends' = sends
        /\ returned' = [returned EXCEPT ![sends] = m_ResponseStatus]
    BY <1>2 DEF Return
  <2>2. sends \in Requests
    BY <1>0, <2>1 DEF IInv, Counted, TypeOK, Requests
  <2>3. \A r \in Requests : r # sends => returned'[r] = returned[r]
    BY <1>0, <2>1, <2>2
  <2>4. returned'[sends] = m_ResponseStatus /\ returned[sends] = NoStatus
    BY <1>0, <2>1, <2>2 DEF Unreturned
  <2>5. Unreturned'
    BY <1>0, <2>1, <2>3 DEF Unreturned, Requests
  <2>6. \A q \in Requests : returned[q] = Unparsed => q < sends
    BY <1>0, <2>4 DEF Unreturned, Requests
  <2>7. Disturbed => Disturbed'
    BY <2>3, <2>6, <2>4 DEF Disturbed
  <2>8. m_ResponseStatus \in {NoStatus, Unparsed, sends} \/ Disturbed
    BY <2>1 DEF Undisturbed, UnderWay
  <2>9. StatusIsOwn'
    <3> SUFFICES ASSUME NEW r \in Requests
                 PROVE  \/ returned'[r] \in {NoStatus, Unparsed, r}
                        \/ \E q \in 1 .. r - 1 : returned'[q] = Unparsed
      BY DEF StatusIsOwn
    <3>1. CASE r = sends
      <4>1. CASE Disturbed
        <5>1. PICK q \in Requests : returned[q] = Unparsed
          BY <4>1 DEF Disturbed
        <5>2. q < sends /\ returned'[q] = Unparsed
          BY <1>0, <2>3, <2>6, <5>1 DEF Requests
        <5>3. q \in 1 .. r - 1
          BY <1>0, <3>1, <5>2 DEF Requests
        <5> QED
          BY <5>2, <5>3
      <4>2. CASE m_ResponseStatus \in {NoStatus, Unparsed, sends}
        BY <2>4, <3>1, <4>2
      <4> QED
        BY <2>8, <4>1, <4>2
    <3>2. CASE r # sends
      <4>1. CASE returned[r] \in {NoStatus, Unparsed, r}
        BY <2>3, <3>2, <4>1
      <4>2. CASE \E q \in 1 .. r - 1 : returned[q] = Unparsed
        <5>1. PICK q \in 1 .. r - 1 : returned[q] = Unparsed
          BY <4>2
        <5>2. q \in Requests
          BY <1>0 DEF Requests
        <5>3. returned'[q] = Unparsed
          BY <2>3, <2>6, <5>1, <5>2
        <5> QED
          BY <5>1, <5>3
      <4> QED
        BY <4>1, <4>2 DEF StatusIsOwn
    <3> QED
      BY <3>1, <3>2
  <2> QED
    BY <2>5, <2>7, <2>9
<1>3. ASSUME sends' = sends, returned' = returned, pc' # "idle" => pc # "idle"
      PROVE  Unreturned' /\ StatusIsOwn' /\ (Disturbed => Disturbed')
  BY <1>3 DEF Unreturned, StatusIsOwn, Disturbed
<1>4. CASE Assign \/ ResetStatus \/ NewPcb \/ SetUp \/ Resolve
  BY <1>3, <1>4 DEF Assign, ResetStatus, NewPcb, SetUp, Resolve
<1>5. CASE Lwip \/ UNCHANGED vars
  <2>1. UNCHANGED task
    BY <1>5 DEF Lwip, CloseEnd, DnsFound, Connected, Receive, Closed, Poll, Error, vars
  <2> QED
    BY <1>3, <2>1 DEF task
<1> QED
  BY <1>1, <1>2, <1>4, <1>5 DEF Next, Task

-----------------------------------------------------------------------------
\* The steps of the task, as long as no send has been disturbed.

LEMMA SendAlone ==
  ASSUME IInv, Undisturbed, Send
  PROVE  Undisturbed'
<1>1. /\ pc = "idle" /\ pc' = "assign" /\ sends \in Nat /\ sends' = sends + 1
      /\ UNCHANGED <<m_ResponseStatus, m_Pcb, phase, written, owed, dns, lwip>>
  BY DEF Send, IInv, TypeOK
<1>2. UnderWay'
  BY <1>1 DEF Undisturbed, UnderWay
<1>3. ASSUME NEW c \in Connections
      PROVE  Alone(c)' /\ Owed(c)'
  <2>1. Alone(c) /\ Owed(c) /\ c \in Nat
    BY DEF Undisturbed, Connections
  <2>2. Alone(c)'
    BY <1>1, <2>1 DEF Alone
  <2>3. c = sends' => owed[c] = <<>>
    BY <1>1, <2>1 DEF Alone, Owed
  <2>4. Owed(c)'
    BY <1>1, <2>1, <2>3 DEF Owed, Answered
  <2> QED
    BY <2>2, <2>4
<1> QED
  BY <1>2, <1>3 DEF Undisturbed

LEMMA AssignAlone ==
  ASSUME IInv, Undisturbed, Assign
  PROVE  Undisturbed'
<1>1. /\ pc = "assign" /\ pc' = "reset" /\ m_Request' = sends
      /\ UNCHANGED <<sends, m_ResponseStatus, m_Pcb, phase, written, owed, dns, lwip>>
  BY DEF Assign
<1>2. UnderWay'
  BY <1>1 DEF Undisturbed, UnderWay
<1>3. ASSUME NEW c \in Connections
      PROVE  Alone(c)' /\ Owed(c)'
  <2>1. Alone(c) /\ Owed(c)
    BY DEF Undisturbed
  <2> QED
    BY <1>1, <2>1 DEF Alone, Owed, Answered
<1> QED
  BY <1>2, <1>3 DEF Undisturbed

LEMMA ResetAlone ==
  ASSUME IInv, Undisturbed, ResetStatus
  PROVE  Undisturbed'
<1>1. /\ pc = "reset" /\ pc' = "open" /\ m_ResponseStatus' = NoStatus
      /\ UNCHANGED <<sends, m_Request, m_Pcb, phase, written, owed, dns, lwip>>
  BY DEF ResetStatus
<1>2. UnderWay'
  BY <1>1 DEF Undisturbed, UnderWay
<1>3. ASSUME NEW c \in Connections
      PROVE  Alone(c)' /\ Owed(c)'
  <2>1. Alone(c) /\ Owed(c)
    BY DEF Undisturbed
  <2>2. NoStatus # c
    BY BoundsAssumption DEF Connections, Requests
  <2> QED
    BY <1>1, <2>1, <2>2 DEF Alone, Owed, Answered
<1> QED
  BY <1>2, <1>3 DEF Undisturbed

LEMMA NewPcbAlone ==
  ASSUME IInv, Undisturbed, NewPcb
  PROVE  Undisturbed'
<1>1. /\ pc = "open"
      /\ UNCHANGED <<sends, m_Request, m_ResponseStatus, written, owed, dns, lwip>>
  BY DEF NewPcb
<1>2. sends \in Connections /\ phase \in [Connections -> Phases]
  BY <1>1, BoundsAssumption DEF IInv, Counted, TypeOK, Connections, Phases
<1>3. phase[sends] = "unused" /\ written[sends] = <<>> /\ dns = 0
  BY <1>1, <1>2 DEF Undisturbed, UnderWay, Alone, IInv, TypeOK
<1>4. CASE m_Pcb' = sends /\ phase' = [phase EXCEPT ![sends] = "new"] /\ pc' = "setup"
  <2>1. UnderWay'
    BY <1>1, <1>2, <1>3, <1>4 DEF Undisturbed, UnderWay
  <2>2. ASSUME NEW c \in Connections
        PROVE  Alone(c)' /\ Owed(c)'
    <3>1. Alone(c) /\ Owed(c) /\ phase'[c] = IF c = sends THEN "new" ELSE phase[c]
      BY <1>2, <1>4 DEF Undisturbed
    <3>2. Alone(c)'
      <4>1. sends' = sends /\ pc' = "setup" /\ written' = written
        BY <1>1, <1>4
      <4>2. CASE c = sends
        <5>1. phase'[c] = "new" /\ written'[c] = <<>>
          BY <1>3, <3>1, <4>1, <4>2
        <5>2. sends \in Nat
          BY <1>2, BoundsAssumption DEF Connections
        <5> QED
          BY <4>1, <4>2, <5>1, <5>2 DEF Alone
      <4>3. CASE c # sends
        <5>1. phase'[c] = phase[c] /\ phase[c] \notin {"new", "connecting"}
          BY <3>1, <4>3 DEF Alone
        <5>2. c > sends => phase[c] = "unused"
          BY <3>1 DEF Alone
        <5>3. /\ written[c] \in {<<>>, <<c>>}
              /\ phase[c] = "unused" => written[c] = <<>>
          BY <3>1 DEF Alone
        <5> QED
          BY <4>1, <4>3, <5>1, <5>2, <5>3 DEF Alone
      <4> QED
        BY <4>2, <4>3
    <3>3. Owed(c)'
      BY <1>1, <1>4, <3>1 DEF Owed, Answered
    <3> QED
      BY <3>2, <3>3
  <2> QED
    BY <2>1, <2>2 DEF Undisturbed
<1>5. CASE m_Pcb' = NoPcb /\ phase' = phase /\ pc' = "wait"
  <2>1. UnderWay'
    BY <1>1, <1>3, <1>5 DEF Undisturbed, UnderWay
  <2>2. ASSUME NEW c \in Connections
        PROVE  Alone(c)' /\ Owed(c)'
    <3>1. Alone(c) /\ Owed(c)
      BY DEF Undisturbed
    <3> QED
      BY <1>1, <1>5, <3>1 DEF Alone, Owed, Answered
  <2> QED
    BY <2>1, <2>2 DEF Undisturbed
<1> QED
  BY <1>4, <1>5 DEF NewPcb

LEMMA SetUpAlone ==
  ASSUME IInv, Undisturbed, SetUp
  PROVE  Undisturbed'
<1>1. /\ pc = "setup" /\ pc' \in {"resolve", "halted"}
      /\ pc' = "resolve" => lwip' = lwip
      /\ UNCHANGED <<sends, m_Request, m_ResponseStatus, m_Pcb, phase, written, owed,
                     dns>>
  BY DEF SetUp
<1>2. dns = 0
  BY <1>1 DEF Undisturbed, UnderWay, IInv, TypeOK
<1>3. UnderWay'
  BY <1>1, <1>2 DEF Undisturbed, UnderWay
<1>4. ASSUME NEW c \in Connections
      PROVE  Alone(c)' /\ Owed(c)'
  <2>1. Alone(c) /\ Owed(c)
    BY DEF Undisturbed
  <2>2. Alone(c)'
    BY <1>1, <2>1 DEF Alone
  <2>3. Owed(c)'
    BY <1>1, <2>1 DEF Owed, Answered
  <2> QED
    BY <2>2, <2>3
<1> QED
  BY <1>3, <1>4 DEF Undisturbed

LEMMA ResolveAlone ==
  ASSUME IInv, Undisturbed, Resolve
  PROVE  Undisturbed'
<1>1. /\ pc = "resolve" /\ pc' = "wait" /\ lwip = "ready"
      /\ UNCHANGED <<sends, m_Request, m_ResponseStatus, written, owed, lwip>>
  BY DEF Resolve
<1>2. sends \in Connections /\ phase \in [Connections -> Phases]
      /\ m_Pcb \in Connections \cup {NoPcb}
  BY <1>1, BoundsAssumption
     DEF IInv, Counted, TypeOK, Connections, Phases
<1>3. dns = 0 /\ phase[sends] \in {"new", "gone"} /\ written[sends] = <<>>
  BY <1>1 DEF Undisturbed, UnderWay, IInv, TypeOK
<1>4. CASE CanConnect /\ Connecting /\ UNCHANGED <<m_Pcb, dns>>
  <2>1. m_Pcb \in Connections /\ phase[m_Pcb] = "new"
    BY <1>2, <1>4 DEF CanConnect
  <2>2. m_Pcb = sends /\ phase' = [phase EXCEPT ![sends] = "connecting"]
    BY <1>4, <2>1 DEF Undisturbed, Alone, Connecting
  <2>3. UnderWay'
    BY <1>1, <1>3, <1>4 DEF Undisturbed, UnderWay
  <2>4. ASSUME NEW c \in Connections
        PROVE  Alone(c)' /\ Owed(c)'
    <3>1. /\ Alone(c) /\ Owed(c)
          /\ phase'[c] = IF c = sends THEN "connecting" ELSE phase[c]
      BY <1>2, <2>2 DEF Undisturbed
    <3>2. Alone(c)'
      BY <1>1, <1>2, <1>3, <1>4, <2>2, <3>1 DEF Alone
    <3>3. Owed(c)'
      BY <1>1, <3>1 DEF Owed, Answered
    <3> QED
      BY <3>2, <3>3
  <2> QED
    BY <2>3, <2>4 DEF Undisturbed
<1>5. CASE phase' = Freed(phase) /\ m_Pcb' = NoPcb /\ UNCHANGED dns
  <2>1. UnderWay'
    BY <1>1, <1>3, <1>5 DEF Undisturbed, UnderWay
  <2>2. ASSUME NEW c \in Connections
        PROVE  Alone(c)' /\ Owed(c)'
    <3>1. Alone(c) /\ Owed(c)
      BY DEF Undisturbed
    <3>2. phase'[c] = phase[c] \/ (phase'[c] = "gone" /\ phase[c] # "unused")
      BY <1>1, <1>2, <1>5 DEF Freed, IInv, PcbIsAlive
    <3>3. Alone(c)'
      BY <1>1, <3>1, <3>2 DEF Alone
    <3>4. Owed(c)'
      BY <1>1, <3>1 DEF Owed, Answered
    <3> QED
      BY <3>3, <3>4
  <2> QED
    BY <2>1, <2>2 DEF Undisturbed
<1>6. CASE dns' = dns + 1 /\ UNCHANGED <<m_Pcb, phase>>
  <2>1. UnderWay'
    BY <1>1, <1>3, <1>6 DEF Undisturbed, UnderWay
  <2>2. ASSUME NEW c \in Connections
        PROVE  Alone(c)' /\ Owed(c)'
    <3>1. Alone(c) /\ Owed(c)
      BY DEF Undisturbed
    <3> QED
      BY <1>1, <1>6, <3>1 DEF Alone, Owed, Answered
  <2> QED
    BY <2>1, <2>2 DEF Undisturbed
<1> QED
  BY <1>4, <1>5, <1>6 DEF Resolve

\* A send that is not disturbed has written its request, so that nothing of it is
\* left behind that could connect.
LEMMA ReturnAlone ==
  ASSUME IInv, Undisturbed, Return, ~Disturbed'
  PROVE  Undisturbed'
<1>1. /\ pc = "wait" /\ pc' = "idle" /\ m_ResponseStatus # NoStatus
      /\ returned' = [returned EXCEPT ![sends] = m_ResponseStatus]
      /\ UNCHANGED <<sends, m_Request, m_ResponseStatus, m_Pcb, phase, written, owed,
                     dns, lwip>>
  BY DEF Return
<1>2. sends \in Connections /\ sends \in Requests
  BY <1>1, BoundsAssumption DEF IInv, Counted, TypeOK, Connections, Requests
<1>3. returned'[sends] = m_ResponseStatus
  BY <1>1, <1>2 DEF IInv, TypeOK
<1>4. m_ResponseStatus = sends /\ written[sends] # <<>>
  BY <1>1, <1>2, <1>3 DEF Undisturbed, UnderWay, Disturbed
<1>5. dns = 0
  BY <1>4 DEF Undisturbed, UnderWay, IInv, TypeOK
<1>6. UnderWay'
  BY <1>1, <1>5 DEF UnderWay
<1>7. ASSUME NEW c \in Connections
      PROVE  Alone(c)' /\ Owed(c)'
  <2>1. Alone(c) /\ Owed(c)
    BY DEF Undisturbed
  <2>2. Alone(c)'
    BY <1>1, <1>4, <2>1 DEF Alone
  <2>3. Owed(c)'
    BY <1>1, <1>4, <2>1 DEF Owed, Answered
  <2> QED
    BY <2>2, <2>3
<1> QED
  BY <1>6, <1>7 DEF Undisturbed

-----------------------------------------------------------------------------
\* The callbacks, as long as no send has been disturbed.

\* close takes away the connection in m_Pcb, and gives none to anyone.
LEMMA CloseAlone ==
  ASSUME IInv, Undisturbed, lwip = "ready",
         NEW ph \in [Connections -> Phases], CallClose(ph),
         \A c \in Connections :
            \/ ph[c] = phase[c]
            \/ /\ phase[c] \in {"connecting", "established", "half"}
               /\ ph[c] \in {"established", "half", "gone"},
         dns' = dns \/ dns' = dns - 1,
         UNCHANGED <<task, m_Request, m_ResponseStatus, written, owed>>
  PROVE  Undisturbed'
<1>1. /\ phase' \in [Connections -> Phases] /\ m_Pcb' = m_Pcb
      /\ m_Pcb \in Connections \cup {NoPcb} /\ phase \in [Connections -> Phases]
      /\ UNCHANGED <<pc, sends>>
  BY CloseType DEF IInv, TypeOK, Phases, task
<1>2. ASSUME NEW c \in Connections
      PROVE  /\ phase'[c] = IF c = m_Pcb THEN "gone" ELSE ph[c]
             /\ c = m_Pcb => phase[c] # "unused"
  BY <1>1, BoundsAssumption
     DEF CallClose, Freed, IInv, PcbIsAlive, Connections, Requests
<1>3. dns \in Nat /\ (dns' > 0 => dns > 0 /\ (dns = 1 => dns' = 1))
  BY DEF IInv, TypeOK
<1>4. UnderWay'
  <2>1. pc \in {"setup", "resolve"} \/ dns > 0 => sends \in Connections
    BY BoundsAssumption DEF IInv, Counted, TypeOK, Connections, Undisturbed, UnderWay
  <2>2. pc \in {"setup", "resolve"} \/ dns > 0 => phase'[sends] \in {"new", "gone"}
    BY <1>2, <2>1 DEF Undisturbed, UnderWay
  <2> QED
    BY <1>1, <1>3, <2>2 DEF Undisturbed, UnderWay
<1>5. ASSUME NEW c \in Connections
      PROVE  Alone(c)' /\ Owed(c)'
  <2>1. Alone(c) /\ Owed(c)
    BY DEF Undisturbed
  <2>2. Alone(c)'
    BY <1>1, <1>2, <2>1 DEF Alone
  <2>3. Owed(c)'
    BY <1>1, <2>1 DEF Owed, Answered
  <2> QED
    BY <2>2, <2>3
<1> QED
  BY <1>4, <1>5 DEF Undisturbed

LEMMA CloseEndAlone ==
  ASSUME IInv, Undisturbed, CloseEnd
  PROVE  Undisturbed'
<1>1. /\ lwip = "closing"
      /\ UNCHANGED <<pc, sends, m_Request, m_ResponseStatus, phase, written, owed, dns>>
  BY DEF CloseEnd, task
<1>2. UnderWay'
  BY <1>1 DEF Undisturbed, UnderWay
<1>3. ASSUME NEW c \in Connections
      PROVE  Alone(c)' /\ Owed(c)'
  <2>1. Alone(c) /\ Owed(c)
    BY DEF Undisturbed
  <2> QED
    BY <1>1, <2>1 DEF Alone, Owed, Answered
<1> QED
  BY <1>2, <1>3 DEF Undisturbed

LEMMA DnsFoundAlone ==
  ASSUME IInv, Undisturbed, DnsFound
  PROVE  Undisturbed'
<1>1. /\ lwip = "ready" /\ dns > 0 /\ dns' = dns - 1
      /\ UNCHANGED <<task, m_Request, m_ResponseStatus, written, owed>>
  BY DEF DnsFound
<1>2. /\ phase \in [Connections -> Phases] /\ m_Pcb \in Connections \cup {NoPcb}
      /\ UNCHANGED <<pc, sends>>
  BY <1>1 DEF IInv, TypeOK, Phases, task
<1>3. CASE CanConnect /\ Connecting /\ UNCHANGED <<m_Pcb, lwip>>
  <2>1. m_Pcb \in Connections /\ phase[m_Pcb] = "new"
    BY <1>2, <1>3 DEF CanConnect
  <2>2. m_Pcb = sends /\ phase' = [phase EXCEPT ![sends] = "connecting"]
    BY <1>3, <2>1 DEF Undisturbed, Alone, Connecting
  <2>3. pc = "wait" /\ dns' = 0 /\ written[sends] = <<>>
    BY <1>1 DEF Undisturbed, UnderWay
  <2>4. UnderWay'
    BY <1>1, <1>2, <2>3 DEF Undisturbed, UnderWay
  <2>5. ASSUME NEW c \in Connections
        PROVE  Alone(c)' /\ Owed(c)'
    <3>1. /\ Alone(c) /\ Owed(c)
          /\ phase'[c] = IF c = sends THEN "connecting" ELSE phase[c]
      BY <1>2, <2>2 DEF Undisturbed
    <3>2. Alone(c)'
      BY <1>1, <1>2, <1>3, <2>1, <2>2, <2>3, <3>1 DEF Alone
    <3>3. Owed(c)'
      BY <1>1, <1>2, <3>1 DEF Owed, Answered
    <3> QED
      BY <3>2, <3>3
  <2> QED
    BY <2>4, <2>5 DEF Undisturbed
<1>4. CASE CallClose(phase)
  BY <1>1, <1>2, <1>4, CloseAlone
<1> QED
  BY <1>3, <1>4 DEF DnsFound

\* A response in pieces: one status at most, and all for one request.
LEMMA ResponsesOf ==
  ASSUME NEW r \in Sendable, NEW pieces \in Responses(r)
  PROVE  /\ pieces \in Seq(Pieces)
         /\ \A i \in 1 .. Len(pieces) : pieces[i].of = r
         /\ \A i, j \in 1 .. Len(pieces) :
               pieces[i].status /\ pieces[j].status => i = j
<1>1. pieces \in Seq(Pieces)
  BY ResponsesType
<1>2. CASE pieces \in {<<[of |-> r, status |-> TRUE, target |-> b]>> : b \in BOOLEAN}
  BY <1>1, <1>2
<1>3. CASE pieces \in {<<[of |-> r, status |-> b, target |-> FALSE],
                          [of |-> r, status |-> ~b, target |-> TRUE]>> : b \in BOOLEAN}
  <2>1. PICK b \in BOOLEAN :
           pieces = <<[of |-> r, status |-> b, target |-> FALSE],
                      [of |-> r, status |-> ~b, target |-> TRUE]>>
    BY <1>3
  <2>2. /\ Len(pieces) = 2 /\ pieces[1].of = r /\ pieces[2].of = r
        /\ ~(pieces[1].status /\ pieces[2].status)
    BY <2>1
  <2> QED
    BY <1>1, <2>2
<1> QED
  BY <1>2, <1>3 DEF Responses

LEMMA ConnectedAlone ==
  ASSUME IInv, Undisturbed, NEW c \in Connections, Connected(c)
  PROVE  Undisturbed'
<1> DEFINE ph == [phase EXCEPT ![c] = "established"]
           writable == m_Pcb # NoPcb /\ ph[m_Pcb] \in {"established", "half"}
<1>1. /\ lwip = "ready" /\ phase[c] = "connecting"
      /\ UNCHANGED <<task, m_Request, m_ResponseStatus, dns>>
  BY DEF Connected
<1>2. /\ phase \in [Connections -> Phases] /\ m_Request \in Sendable
      /\ written \in [Connections -> Seq(Sendable)]
      /\ owed \in [Connections -> Seq(Pieces)]
      /\ UNCHANGED <<pc, sends>>
  BY <1>1 DEF IInv, TypeOK, Phases, task
<1>3. /\ c = sends /\ pc = "wait" /\ m_Pcb = c /\ m_Request = c
      /\ written[c] = <<>> /\ owed[c] = <<>>
  BY <1>1 DEF Undisturbed, Alone, Owed, UnderWay
<1>4. ph \in [Connections -> Phases]
      /\ \A d \in Connections : ph[d] = IF d = c THEN "established" ELSE phase[d]
  BY <1>2 DEF Phases
<1>5. CASE /\ writable
           /\ written' = [written EXCEPT ![m_Pcb] = Append(@, m_Request)]
           /\ \E pieces \in Responses(m_Request) :
                 owed' = IF ph[m_Pcb] = "half" THEN owed
                         ELSE [owed EXCEPT ![m_Pcb] = @ \o pieces]
           /\ phase' = ph
           /\ UNCHANGED <<m_Pcb, lwip>>
  <2>1. PICK pieces \in Responses(c) :
           owed' = [owed EXCEPT ![c] = <<>> \o pieces]
    BY <1>3, <1>4, <1>5
  <2>2. /\ pieces \in Seq(Pieces)
        /\ \A i \in 1 .. Len(pieces) : pieces[i].of = c
        /\ \A i, j \in 1 .. Len(pieces) :
              pieces[i].status /\ pieces[j].status => i = j
    BY <1>2, <1>3, <2>1, ResponsesOf
  <2>3. <<>> \o pieces = pieces
    BY <2>2
  <2>4. \A d \in Connections : owed'[d] = IF d = c THEN pieces ELSE owed[d]
    BY <1>2, <2>1, <2>3
  <2>5. \A d \in Connections : written'[d] = IF d = c THEN <<c>> ELSE written[d]
    BY <1>2, <1>3, <1>5
  <2>6. m_ResponseStatus # c
    BY <1>3, BoundsAssumption DEF Undisturbed, UnderWay, Connections, Requests
  <2>7. dns = 0
    BY <1>1, <1>3 DEF Undisturbed, UnderWay, IInv, TypeOK
  <2>8. UnderWay'
    BY <1>1, <1>2, <1>3, <2>5, <2>7 DEF Undisturbed, UnderWay
  <2>9. ASSUME NEW d \in Connections
        PROVE  Alone(d)' /\ Owed(d)'
    <3>1. Alone(d) /\ Owed(d)
      BY DEF Undisturbed
    <3>2. Alone(d)'
      BY <1>1, <1>2, <1>3, <1>4, <1>5, <2>5, <3>1 DEF Alone
    <3>3. CASE d = c
      <4>1. ~Answered(c)'
        BY <1>1, <1>2, <1>3, <2>6 DEF Answered, Connections
      <4>2. owed'[c] = pieces /\ written'[c] # <<>>
        BY <2>4, <2>5
      <4>3. Owed(c)'
        BY <2>2, <4>1, <4>2 DEF Owed
      <4> QED
        BY <3>2, <3>3, <4>3
    <3>4. CASE d # c
      <4>1. owed'[d] = owed[d] /\ written'[d] = written[d]
        BY <2>4, <2>5, <3>4
      <4>2. Answered(d)' <=> Answered(d)
        BY <1>1, <1>2 DEF Answered
      <4> QED
        BY <3>1, <3>2, <4>1, <4>2 DEF Owed
    <3> QED
      BY <3>2, <3>3, <3>4
  <2> QED
    BY <2>8, <2>9 DEF Undisturbed
<1>6. CASE CallClose(ph) /\ UNCHANGED <<written, owed>>
  BY <1>1, <1>4, <1>6, CloseAlone
<1> QED
  BY <1>5, <1>6 DEF Connected

LEMMA ReceiveAlone ==
  ASSUME IInv, Undisturbed, NEW c \in Connections, Receive(c)
  PROVE  Undisturbed'
<1> DEFINE p == Head(owed[c])
<1>1. /\ lwip = "ready" /\ phase[c] = "established" /\ owed[c] # <<>>
      /\ m_ResponseStatus' = IF p.status THEN p.of ELSE Unparsed
      /\ owed' = [owed EXCEPT ![c] = Tail(@)]
      /\ UNCHANGED <<pc, sends, m_Request, m_Pcb, phase, written, dns, lwip>>
  BY DEF Receive, StatusIn, task
<1>2. /\ owed \in [Connections -> Seq(Pieces)] /\ owed[c] \in Seq(Pieces)
      /\ Len(owed[c]) \in Nat /\ sends \in Nat
  BY DEF IInv, TypeOK
<1>3. Alone(c) /\ Owed(c)
  BY DEF Undisturbed
<1>4. /\ p = owed[c][1] /\ 1 \in 1 .. Len(owed[c]) /\ p.of = c
      /\ written[c] # <<>>
      /\ Answered(c) => ~p.status
  BY <1>1, <1>2, <1>3 DEF Owed
<1>5. /\ Len(Tail(owed[c])) = Len(owed[c]) - 1
      /\ \A i \in 1 .. Len(Tail(owed[c])) :
            i + 1 \in 1 .. Len(owed[c]) /\ Tail(owed[c])[i] = owed[c][i + 1]
  BY <1>1, <1>2
<1> HIDE DEF p
<1>6. c <= sends /\ c \in Nat
  BY <1>1, <1>2, <1>3 DEF Alone, Connections
<1>7. UnderWay'
  <2>1. m_ResponseStatus' = Unparsed \/ (m_ResponseStatus' = sends /\ c = sends)
        \/ pc = "idle"
    BY <1>1, <1>2, <1>4, <1>6 DEF Answered
  <2> QED
    BY <1>1, <1>4, <2>1 DEF Undisturbed, UnderWay
<1>8. ASSUME NEW d \in Connections
      PROVE  Alone(d)' /\ Owed(d)'
  <2>1. Alone(d) /\ Owed(d)
    BY DEF Undisturbed
  <2>2. Alone(d)'
    BY <1>1, <2>1 DEF Alone
  <2>3. CASE d = c
    <3>1. owed'[c] = Tail(owed[c])
      BY <1>1, <1>2
    <3>2. /\ \A i \in 1 .. Len(owed'[c]) : owed'[c][i].of = c
          /\ \A i, j \in 1 .. Len(owed'[c]) :
                owed'[c][i].status /\ owed'[c][j].status => i = j
      BY <1>2, <1>3, <1>5, <3>1 DEF Owed
    <3>3. Answered(c)' => \A i \in 1 .. Len(owed'[c]) : ~owed'[c][i].status
      <4>1. CASE Answered(c)
        BY <1>2, <1>3, <1>5, <3>1, <4>1 DEF Owed
      <4>2. CASE p.status
        <5>1. ASSUME NEW i \in 1 .. Len(owed'[c]) PROVE ~owed'[c][i].status
          <6>1. i + 1 \in 1 .. Len(owed[c]) /\ owed'[c][i] = owed[c][i + 1] /\ i + 1 # 1
            BY <1>2, <1>5, <3>1
          <6> QED
            BY <1>3, <1>4, <4>2, <6>1 DEF Owed
        <5> QED
          BY <5>1
      <4>3. CASE ~p.status /\ ~Answered(c)
        <5>1. m_ResponseStatus' = Unparsed /\ Unparsed # c
          BY <1>1, <4>3, BoundsAssumption DEF Connections, Requests
        <5> QED
          BY <1>1, <4>3, <5>1 DEF Answered
      <4> QED
        BY <4>1, <4>2, <4>3
    <3>4. written'[c] # <<>>
      BY <1>1, <1>4
    <3> QED
      BY <2>2, <2>3, <3>2, <3>3, <3>4 DEF Owed
  <2>4. CASE d # c
    <3>1. owed'[d] = owed[d] /\ written'[d] = written[d]
      BY <1>1, <1>2, <2>4
    <3>2. Answered(d)' => Answered(d)
      <4>1. m_ResponseStatus' # d
        BY <1>1, <1>4, <2>4, BoundsAssumption DEF Connections, Requests
      <4> QED
        BY <1>1, <4>1 DEF Answered
    <3> QED
      BY <2>1, <2>2, <3>1, <3>2 DEF Owed
  <2> QED
    BY <2>3, <2>4
<1> QED
  BY <1>7, <1>8 DEF Undisturbed

\* The end of a connection, of whatever kind.
LEMMA EndAlone ==
  ASSUME IInv, Undisturbed, NEW c \in Connections, Closed(c) \/ Poll(c) \/ Error(c)
  PROVE  Undisturbed'
<1>1. /\ lwip = "ready"
      /\ UNCHANGED <<task, m_Request, m_ResponseStatus, written, owed, dns>>
      /\ phase[c] \in {"connecting", "established", "half"}
  BY DEF Closed, Poll, Error, Alive
<1>2. phase \in [Connections -> Phases]
  BY DEF IInv, TypeOK, Phases
<1>3. ASSUME NEW q \in {"half", "gone"}
      PROVE  /\ [phase EXCEPT ![c] = q] \in [Connections -> Phases]
             /\ \A d \in Connections :
                   [phase EXCEPT ![c] = q][d] = IF d = c THEN q ELSE phase[d]
  BY <1>2 DEF Phases
<1>4. CASE Poll(c)
  BY <1>1, <1>2, <1>4, CloseAlone DEF Poll
<1>5. CASE Closed(c) \/ Error(c)
  <2>1. PICK q \in {"half", "gone"} : CallClose([phase EXCEPT ![c] = q])
    BY <1>5 DEF Closed, Error
  <2> DEFINE ph == [phase EXCEPT ![c] = q]
  <2>2. /\ ph \in [Connections -> Phases] /\ CallClose(ph)
        /\ \A d \in Connections :
              \/ ph[d] = phase[d]
              \/ /\ phase[d] \in {"connecting", "established", "half"}
                 /\ ph[d] \in {"established", "half", "gone"}
    BY <1>1, <1>3, <2>1
  <2> HIDE DEF ph
  <2> QED
    BY <1>1, <2>2, CloseAlone
<1> QED
  BY <1>4, <1>5

-----------------------------------------------------------------------------
\* Every step keeps the invariant.

LEMMA NextOwn == OwnInv /\ [Next]_vars => OwnInv'
<1> SUFFICES ASSUME OwnInv, [Next]_vars PROVE OwnInv'
  OBVIOUS
<1>1. IInv'
  BY NextIInv DEF OwnInv
<1>2. Unreturned' /\ StatusIsOwn' /\ (Disturbed => Disturbed')
  BY ReturnedStep
<1>3. ASSUME ~Disturbed'
      PROVE  Undisturbed'
  <2>1. IInv /\ Undisturbed
    BY <1>2, <1>3 DEF OwnInv
  <2>2. CASE Task
    BY <1>3, <2>1, <2>2, SendAlone, AssignAlone, ResetAlone, NewPcbAlone, SetUpAlone,
       ResolveAlone, ReturnAlone DEF Task
  <2>3. CASE Lwip
    BY <2>1, <2>3, CloseEndAlone, DnsFoundAlone, ConnectedAlone, ReceiveAlone, EndAlone
       DEF Lwip
  <2>4. CASE UNCHANGED vars
    <3>1. UNCHANGED <<pc, sends, m_Request, m_ResponseStatus, m_Pcb, phase, written,
                      owed, dns, lwip>>
      BY <2>4 DEF vars, task
    <3>2. UnderWay'
      BY <2>1, <3>1 DEF Undisturbed, UnderWay
    <3>3. ASSUME NEW c \in Connections
          PROVE  Alone(c)' /\ Owed(c)'
      BY <2>1, <3>1 DEF Undisturbed, Alone, Owed, Answered
    <3> QED
      BY <3>2, <3>3 DEF Undisturbed
  <2> QED
    BY <2>2, <2>3, <2>4 DEF Next
<1> QED
  BY <1>1, <1>2, <1>3 DEF OwnInv

LEMMA OwnInductive == Spec => []OwnInv
BY InitOwn, NextOwn, PTL DEF Spec

\* Every send returns the status of its own request, or -1, until one has returned
\* -1 (TlsClient.cpp, send and tlsReceive).
THEOREM StatusOfItsOwn == Spec => []StatusIsOwn
<1>1. OwnInv => StatusIsOwn
  BY DEF OwnInv
<1> QED
  BY <1>1, OwnInductive, PTL

\* Until then a request goes to its own connection only, whole and once, though
\* tlsConnected writes the m_Request of the moment to the m_Pcb of the moment.
THEOREM RequestSentOnce == Spec => []SentOnce
<1>1. OwnInv => SentOnce
  BY DEF OwnInv, SentOnce, Undisturbed, Alone
<1> QED
  BY <1>1, OwnInductive, PTL

=============================================================================
