-------------------------- MODULE BLEAdapterProofs --------------------------
(***************************************************************************)
(* What BLEAdapter guarantees to its callers, for any number of callers,   *)
(* handles and connections: that it uses its EvtSync objects as EvtSync    *)
(* is meant to be used, so that what holds of EvtSync holds of them; that  *)
(* an answer never comes from another connection; that the tables follow   *)
(* the events; and when an answer is that to the caller's own request.     *)
(***************************************************************************)
EXTENDS BLEAdapter, TLAPS

\* What is proved of EvtSync, of the objects of the adapter.
SyncFacts == INSTANCE EvtSyncProofs WITH Objects <- Conns

\* The bound of the notifications, the one assumption of EvtSync that is not an
\* assumption of the adapter as it stands.
LEMMA NotifyBound == MaxNotify \in Nat
  BY AdapterBoundsAssumption DEF AdapterBoundsAssumption, MaxNotify

\* SyncFacts speaks of the same objects as Sync.
LEMMA SameSync ==
  /\ SyncFacts!Init <=> Sync!Init
  /\ [SyncFacts!Next]_(SyncFacts!esVars) <=> [Sync!Next]_(Sync!esVars)
  /\ SyncFacts!TypeOK <=> Sync!TypeOK
  /\ SyncFacts!FreshAnswer <=> Sync!FreshAnswer
  /\ SyncFacts!WokenCallReturnsAnswer <=> Sync!WokenCallReturnsAnswer
<1> USE DEF Sync!None, SyncFacts!None, Sync!Answer, SyncFacts!Answer,
            Sync!CallerStates, SyncFacts!CallerStates,
            Sync!callerVars, SyncFacts!callerVars, Sync!notifierVars, SyncFacts!notifierVars,
            Sync!esVars, SyncFacts!esVars
<1>1. SyncFacts!Init <=> Sync!Init
  BY DEF Sync!Init, SyncFacts!Init
<1>2. [SyncFacts!Next]_(SyncFacts!esVars) <=> [Sync!Next]_(Sync!esVars)
  BY DEF Sync!Next, SyncFacts!Next, Sync!CallerStep, SyncFacts!CallerStep,
         Sync!Wait, SyncFacts!Wait, Sync!Register, SyncFacts!Register,
         Sync!Timeout, SyncFacts!Timeout, Sync!Reacquire, SyncFacts!Reacquire,
         Sync!Return, SyncFacts!Return, Sync!Publish, SyncFacts!Publish,
         Sync!NotifyAll, SyncFacts!NotifyAll
<1>3. SyncFacts!TypeOK <=> Sync!TypeOK
  BY DEF Sync!TypeOK, SyncFacts!TypeOK
<1>4. SyncFacts!FreshAnswer <=> Sync!FreshAnswer
  BY DEF Sync!FreshAnswer, SyncFacts!FreshAnswer
<1>5. SyncFacts!WokenCallReturnsAnswer <=> Sync!WokenCallReturnsAnswer
  BY DEF Sync!WokenCallReturnsAnswer, SyncFacts!WokenCallReturnsAnswer
<1>6. QED
  BY <1>1, <1>2, <1>3, <1>4, <1>5

\* Every step keeps the EvtSync objects within their types.
LEMMA SyncTypeStep == Sync!TypeOK /\ [Sync!Next]_(Sync!esVars) => Sync!TypeOK'
<1>1. SyncFacts!TypeOK' <=> Sync!TypeOK'
  BY DEF Sync!None, SyncFacts!None, Sync!Answer, SyncFacts!Answer,
         Sync!CallerStates, SyncFacts!CallerStates, Sync!TypeOK, SyncFacts!TypeOK
<1>2. QED
  BY <1>1, SameSync, SyncFacts!TypeStep,
     NotifyBound, AdapterThreadsAssumption, AdapterSetsAssumption

\* Every operation waits for an event.
LEMMA AnswersAreEvents == \A o \in Ops : AnswerEvent[o] \in Events
  BY DEF Events

-----------------------------------------------------------------------------
(* Types.                                                                   *)

\* A notification on the queue names its connection and event, and the event
\* that the worker is in the middle of is still the first one.
QueueInv ==
  /\ \A i \in 1..Len(queue) :
       queue[i].type = "notify" => queue[i].conn \in Conns /\ queue[i].evt \in Events
  /\ worker = "notifying" => queue # <<>> /\ Head(queue).type = "notify"
  /\ worker = "connecting" => queue # <<>> /\ Head(queue).type = "adv_report"

\* A thread whose operation waits has sent a request.
RequestsNumbered ==
  \A c \in Callers : Requesting(c) => req[c] \in 1..MaxReqs

\* The events that change what a handle stands for, and to what.
Moves(x, h) == x.type \in {"connected", "disconnected"} /\ x.h = h
Target(x) == IF x.type = "connected" THEN x.conn ELSE NoConn

\* The events that lower conn_in_progress.
Lowers(x) == x.type \in {"connected", "conn_timeout"}

\* The SoftDevice changes as it delivers x: the handles as x says, an attempt
\* ends with an event that lowers the flag, an answer is that to a request.
DeviceChange(x) ==
  /\ up' = [h \in Handles |-> IF Moves(x, h) THEN Target(x) ELSE up[h]]
  /\ attempt' => attempt
  /\ attempt => attempt' \/ Lowers(x)
  /\ \A p \in pend' : p \in pend /\ (Moves(x, p.h) => p.conn # up[p.h])
  /\ nreq' = nreq
  /\ nuns' = 0 => nuns = 0
  /\ IF x.type = "notify"
       THEN /\ x.conn \in Conns /\ x.evt \in Events
            /\ \/ x.conn = up[x.h] /\ nuns' # 0
               \/ \E p \in pend : x = NotifyEvent(p)
       ELSE x.req = 0

\* What the SoftDevice delivers goes to the end of the queue, and nothing else
\* of the adapter changes.
LEMMA Delivered ==
  ASSUME TypeOK, DeviceStep
  PROVE  /\ isOpen
         /\ UNCHANGED <<syncVars, tableVars, isOpen, workerUp, worker, callVars, histVars>>
         /\ \E x \in QueueEvents : queue' = Append(queue, x) /\ DeviceChange(x)
<1> USE DEF QueueEvents, Event, NotifyEvent, DeviceChange, Moves, Target, Lowers
<1>0. /\ 0 \in 0..MaxReqs /\ NoConn \notin Conns
      /\ up \in [Handles -> Conns \cup {NoConn}] /\ nconns \in 0..MaxConns
      /\ pend \subseteq Requests /\ nuns \in Nat
  BY AdapterBoundsAssumption DEF AdapterBoundsAssumption, TypeOK, NoConn, Conns
<1>1. ASSUME NEW h \in Handles, NEW ours \in BOOLEAN, DeviceConnects(h, ours)
      PROVE  \E x \in QueueEvents : Deliver(x) /\ DeviceChange(x)
  <2> DEFINE x == Event("connected", h, nconns + 1)
  <2>1. nconns + 1 \in Conns
    BY <1>0, <1>1, AdapterBoundsAssumption DEF DeviceConnects, Conns, AdapterBoundsAssumption
  <2>2. x \in QueueEvents /\ Deliver(x)
    BY <1>0, <1>1, <2>1 DEF DeviceConnects
  <2>3. up' = [g \in Handles |-> IF Moves(x, g) THEN Target(x) ELSE up[g]]
    BY <1>0, <1>1 DEF DeviceConnects
  <2>4. \A p \in pend' : p \in pend /\ (Moves(x, p.h) => p.conn # up[p.h])
    BY <1>0, <1>1 DEF DeviceConnects, Requests
  <2>5. DeviceChange(x)
    BY <1>1, <2>3, <2>4 DEF DeviceConnects
  <2>6. QED
    BY <2>2, <2>5
<1>2. ASSUME NEW h \in Handles, DeviceGivesUp(h) \/ DeviceReports(h)
      PROVE  \E x \in QueueEvents : Deliver(x) /\ DeviceChange(x)
  <2> DEFINE x == Event("conn_timeout", h, NoConn)
             y == Event("adv_report", h, NoConn)
  <2>1. x \in QueueEvents /\ y \in QueueEvents
    BY <1>0
  <2>2. up = [g \in Handles |-> up[g]]
    BY <1>0
  <2>3. CASE DeviceGivesUp(h)
    BY <2>1, <2>2, <2>3 DEF DeviceGivesUp
  <2>4. CASE DeviceReports(h)
    BY <2>1, <2>2, <2>4 DEF DeviceReports, deviceVars
  <2>5. QED
    BY <1>2, <2>3, <2>4
<1>3. ASSUME NEW h \in Handles, DeviceDisconnects(h)
      PROVE  \E x \in QueueEvents : Deliver(x) /\ DeviceChange(x)
  <2> DEFINE x == Event("disconnected", h, up[h])
  <2>1. x \in QueueEvents /\ Deliver(x)
    BY <1>0, <1>3 DEF DeviceDisconnects
  <2>2. up' = [g \in Handles |-> IF Moves(x, g) THEN Target(x) ELSE up[g]]
    BY <1>0, <1>3 DEF DeviceDisconnects
  <2>3. DeviceChange(x)
    BY <1>3, <2>2 DEF DeviceDisconnects
  <2>4. QED
    BY <2>1, <2>3
<1>4. ASSUME NEW p \in pend, DeviceAnswers(p)
      PROVE  \E x \in QueueEvents : Deliver(x) /\ DeviceChange(x)
  <2> DEFINE x == NotifyEvent(p)
  <2>1. p.req \in 0..MaxReqs /\ p.conn \in Conns /\ p.h \in Handles /\ p.evt \in Events
    BY <1>0, AdapterBoundsAssumption DEF Requests, AdapterBoundsAssumption
  <2>2. x \in QueueEvents
    BY <2>1
  <2>3. up = [g \in Handles |-> up[g]]
    BY <1>0
  <2>4. QED
    BY <1>4, <2>1, <2>2, <2>3 DEF DeviceAnswers
<1>5. ASSUME NEW h \in Handles, NEW e \in Unsolicited, DeviceNotifies(h, e)
      PROVE  \E x \in QueueEvents : Deliver(x) /\ DeviceChange(x)
  <2> DEFINE x == NotifyEvent([req |-> 0, conn |-> up[h], h |-> h, evt |-> e])
  <2>1. up[h] \in Conns /\ e \in Events
    BY <1>0, <1>5 DEF DeviceNotifies, Events
  <2>2. x \in QueueEvents
    BY <1>0, <2>1
  <2>3. up = [g \in Handles |-> up[g]]
    BY <1>0
  <2>4. nuns' # 0 /\ nuns' = nuns + 1
    BY <1>0, <1>5 DEF DeviceNotifies
  <2>5. QED
    BY <1>5, <2>1, <2>2, <2>3, <2>4 DEF DeviceNotifies
<1>6. \E x \in QueueEvents : Deliver(x) /\ DeviceChange(x)
  BY <1>1, <1>2, <1>3, <1>4, <1>5 DEF DeviceStep
<1>7. QED
  BY <1>6 DEF Deliver

\* Of EvtSync, every step of the adapter is a wait or notification that EvtSync
\* provides, or none.
LEMMA SyncStep ==
  TypeOK /\ QueueInv /\ [Next]_adapterVars => [Sync!Next]_(Sync!esVars)
<1> SUFFICES ASSUME TypeOK, QueueInv, [Next]_adapterVars
             PROVE  Sync!Next \/ UNCHANGED Sync!esVars
  OBVIOUS
<1> USE DEF syncVars, Sync!esVars, Sync!callerVars, Sync!notifierVars
<1>1. ASSUME DeviceStep PROVE UNCHANGED Sync!esVars
  BY <1>1, Delivered
<1>2. ASSUME OnNotify PROVE Sync!Next \/ UNCHANGED Sync!esVars
  <2> DEFINE e == Head(queue)  g == evtSync[e.h]
  <2>1. CASE g = NoConn
    BY <1>2, <2>1 DEF OnNotify
  <2>2. CASE g # NoConn
    <3>1. Sync!Publish(g, e.evt, [req |-> e.req, conn |-> e.conn])
      BY <1>2, <2>2 DEF OnNotify
    <3>2. e \in QueueEvents /\ e.conn \in Conns /\ e.evt \in Events
      <4>1. queue \in Seq(QueueEvents) /\ queue # <<>> /\ e = queue[1] /\ e.type = "notify"
        BY <1>2 DEF OnNotify, Handling, TypeOK
      <4>2. 1 \in 1..Len(queue)
        BY <4>1
      <4>3. QED
        BY <4>1, <4>2 DEF QueueInv
    <3>3. g \in Conns /\ [req |-> e.req, conn |-> e.conn] \in Values
      BY <2>2, <3>2 DEF TypeOK, QueueEvents, Values
    <3>4. QED
      BY <3>1, <3>2, <3>3 DEF Sync!Next
  <2>3. QED
    BY <2>1, <2>2
<1>3. ASSUME OnNotifyEnd PROVE Sync!Next
  BY <1>3 DEF OnNotifyEnd, Sync!Next
<1>4. ASSUME Handler, ~OnNotify, ~OnNotifyEnd PROVE UNCHANGED Sync!esVars
  BY <1>4 DEF Handler, OnConnected, OnDisconnected, OnTimeout, OnAdvReport, OnAdvReportEnd
<1>5. ASSUME NEW c \in Callers, LookUp(c) PROVE Sync!Next \/ UNCHANGED Sync!esVars
  <2> DEFINE g == evtSync[hnd[c]]
  <2>1. CASE g = NoConn
    BY <1>5, <2>1 DEF LookUp
  <2>2. CASE g # NoConn
    <3>1. g \in Conns /\ AnswerEvent[op[c]] \in Events
      BY <2>2, AnswersAreEvents DEF TypeOK
    <3>2. Sync!Wait(c, g, AnswerEvent[op[c]])
      BY <1>5, <2>2 DEF LookUp
    <3>3. QED
      BY <3>1, <3>2 DEF Sync!Next
  <2>3. QED
    BY <2>1, <2>2
<1>6. ASSUME NEW c \in Callers, WaitStep(c) PROVE Sync!Next
  BY <1>6 DEF WaitStep, Sync!Next, Sync!CallerStep
<1>7. ASSUME NEW c \in Callers, CallStep(c), ~LookUp(c), ~WaitStep(c)
      PROVE  UNCHANGED Sync!esVars
  BY <1>7 DEF CallStep, Finish, ConnectEnd, CloseJoin, CloseClear
<1>8. ASSUME NEW c \in Callers, CallBegin(c) PROVE UNCHANGED Sync!esVars
  BY <1>8 DEF CallBegin, Request, Connect, Close, Open
<1>9. CASE UNCHANGED adapterVars
  BY <1>9 DEF adapterVars
<1>10. QED
  BY <1>1, <1>2, <1>3, <1>4, <1>5, <1>6, <1>7, <1>8, <1>9 DEF Next

\* The worker takes the first event off the queue.
LEMMA Popped ==
  ASSUME TypeOK, QueueInv, queue # <<>>, queue' = Tail(queue), worker' = "idle"
  PROVE  queue' \in Seq(QueueEvents) /\ QueueInv'
<1>1. queue \in Seq(QueueEvents)
  BY DEF TypeOK
<1>2. /\ Tail(queue) \in Seq(QueueEvents)
      /\ \A i \in 1..Len(Tail(queue)) : i + 1 \in 1..Len(queue) /\ Tail(queue)[i] = queue[i + 1]
  BY <1>1
<1>3. QED
  BY <1>2 DEF QueueInv

\* Types, with what makes them inductive.
LEMMA Typed == Spec => [](TypeOK /\ QueueInv /\ RequestsNumbered)
<1> USE AdapterBoundsAssumption DEF AdapterBoundsAssumption
<1>1. Init => TypeOK /\ QueueInv /\ RequestsNumbered
  <2> SUFFICES ASSUME Init PROVE TypeOK /\ QueueInv /\ RequestsNumbered
    OBVIOUS
  <2>1. /\ (CHOOSE h \in Handles : TRUE) \in Handles
        /\ (CHOOSE o \in Ops : TRUE) \in Ops
    BY AdapterSetsAssumption
  <2>2. Sync!TypeOK
    BY DEF Init, Sync!Init, Sync!TypeOK, Sync!CallerStates
  <2>3. /\ op \in [Callers -> Ops] /\ hnd \in [Callers -> Handles]
        /\ req \in [Callers -> 0..MaxReqs]
        /\ 0 \in 0..MaxConns /\ 0 \in 0..MaxReqs /\ 0 \in 0..MaxUnsolicited
    BY <2>1 DEF Init
  <2>4. queue \in Seq(QueueEvents) /\ pend \subseteq Requests /\ answered \subseteq 1..MaxReqs
    BY DEF Init
  <2>5. TypeOK
    BY <2>2, <2>3, <2>4 DEF Init, TypeOK, CallStates, Outcomes
  <2>6. QED
    BY <2>5 DEF Init, QueueInv, RequestsNumbered, Requesting
<1>2. TypeOK /\ QueueInv /\ RequestsNumbered /\ [Next]_adapterVars
        => TypeOK' /\ QueueInv' /\ RequestsNumbered'
  <2> SUFFICES ASSUME TypeOK, QueueInv, RequestsNumbered, [Next]_adapterVars
               PROVE  TypeOK' /\ QueueInv' /\ RequestsNumbered'
    OBVIOUS
  <2>0. Sync!TypeOK'
    BY SyncStep, SyncTypeStep DEF TypeOK
  <2> USE DEF tableVars, deviceVars, callVars, histVars
  <2>1. ASSUME DeviceStep PROVE TypeOK' /\ QueueInv' /\ RequestsNumbered'
    <3>1. PICK x \in QueueEvents :
            /\ queue' = Append(queue, x)
            /\ x.type = "notify" => x.conn \in Conns /\ x.evt \in Events
      BY <2>1, Delivered DEF DeviceChange
    <3>2. UNCHANGED <<tableVars, isOpen, workerUp, worker, callVars, histVars>>
      BY <2>1, Delivered
    <3>3. queue \in Seq(QueueEvents)
      BY DEF TypeOK
    <3>4. /\ queue' \in Seq(QueueEvents)
          /\ Len(queue') = Len(queue) + 1
          /\ \A i \in 1..Len(queue) : queue'[i] = queue[i]
          /\ queue'[Len(queue) + 1] = x
      BY <3>1, <3>3
    <3>5. queue # <<>> => queue' # <<>> /\ Head(queue') = Head(queue)
      BY <3>1, <3>3
    <3>6. QueueInv'
      <4>1. ASSUME NEW i \in 1..Len(queue'), queue'[i].type = "notify"
            PROVE  queue'[i].conn \in Conns /\ queue'[i].evt \in Events
        <5>1. i \in 1..Len(queue) \/ i = Len(queue) + 1
          BY <3>3, <3>4
        <5>2. QED
          BY <3>1, <3>4, <4>1, <5>1 DEF QueueInv
      <4>2. QED
        BY <3>2, <3>5, <4>1 DEF QueueInv
    <3>7. /\ up' \in [Handles -> Conns \cup {NoConn}]
          /\ nconns' \in 0..MaxConns
          /\ attempt' \in BOOLEAN
          /\ pend' \subseteq Requests
          /\ nreq' \in 0..MaxReqs
          /\ nuns' \in 0..MaxUnsolicited
      <4> USE DEF TypeOK
      <4>1. ASSUME NEW h \in Handles, NEW ours \in BOOLEAN, DeviceConnects(h, ours)
            PROVE  /\ up' \in [Handles -> Conns \cup {NoConn}]
                   /\ nconns' \in 0..MaxConns
                   /\ attempt' \in BOOLEAN
                   /\ UNCHANGED <<pend, nreq, nuns>>
        <5>1. nconns + 1 \in Conns /\ nconns + 1 \in 0..MaxConns
          BY <4>1 DEF DeviceConnects, Conns
        <5>2. QED
          BY <4>1, <5>1 DEF DeviceConnects
      <4>2. ASSUME NEW h \in Handles, DeviceGivesUp(h) \/ DeviceReports(h)
            PROVE  attempt' \in BOOLEAN /\ UNCHANGED <<up, nconns, pend, nreq, nuns>>
        BY <4>2 DEF DeviceGivesUp, DeviceReports
      <4>3. ASSUME NEW h \in Handles, DeviceDisconnects(h)
            PROVE  /\ up' \in [Handles -> Conns \cup {NoConn}]
                   /\ pend' \subseteq Requests
                   /\ UNCHANGED <<nconns, attempt, nreq, nuns>>
        BY <4>3 DEF DeviceDisconnects
      <4>4. ASSUME NEW p \in pend, DeviceAnswers(p)
            PROVE  pend' \subseteq Requests /\ UNCHANGED <<up, nconns, attempt, nreq, nuns>>
        BY <4>4 DEF DeviceAnswers
      <4>5. ASSUME NEW h \in Handles, NEW e \in Unsolicited, DeviceNotifies(h, e)
            PROVE  nuns' \in 0..MaxUnsolicited /\ UNCHANGED <<up, nconns, attempt, pend, nreq>>
        BY <4>5 DEF DeviceNotifies
      <4>6. QED
        BY <2>1, <4>1, <4>2, <4>3, <4>4, <4>5 DEF DeviceStep
    <3>8. TypeOK'
      BY <2>0, <3>2, <3>4, <3>7 DEF TypeOK
    <3>9. QED
      BY <3>2, <3>6, <3>8 DEF RequestsNumbered, Requesting
  <2>2. ASSUME Handler PROVE TypeOK' /\ QueueInv' /\ RequestsNumbered'
    <3> DEFINE e == Head(queue)
    <3>1. \/ queue # <<>> /\ queue' = Tail(queue) /\ worker' = "idle"
          \/ /\ queue # <<>> /\ queue' = queue
             /\ \/ worker' = "notifying" /\ e.type = "notify"
                \/ worker' = "connecting" /\ e.type = "adv_report"
      BY <2>2 DEF Handler, Handling, OnConnected, OnDisconnected, OnTimeout, OnNotify,
                  OnNotifyEnd, OnAdvReport, OnAdvReportEnd, QueueInv
    <3>2. queue' \in Seq(QueueEvents) /\ QueueInv'
      <4>1. CASE queue # <<>> /\ queue' = Tail(queue) /\ worker' = "idle"
        BY <4>1, Popped
      <4>2. CASE queue # <<>> /\ queue' = queue /\ ~(queue' = Tail(queue) /\ worker' = "idle")
        BY <3>1, <4>2 DEF QueueInv, TypeOK
      <4>3. QED
        BY <3>1, <4>1, <4>2
    <3>3. e \in QueueEvents /\ worker' \in {"idle", "notifying", "connecting"}
      BY <3>1 DEF TypeOK
    <3>4. e.h \in Handles /\ e.conn \in Conns \cup {NoConn}
      BY <3>3 DEF QueueEvents
    <3> HIDE DEF e
    <3>5. /\ dbConns' \in [Handles -> Conns \cup {NoConn}]
          /\ evtSync' \in [Handles -> Conns \cup {NoConn}]
      BY <2>2, <3>4 DEF e, Handler, OnConnected, OnDisconnected, OnTimeout, OnNotify,
                        OnNotifyEnd, OnAdvReport, OnAdvReportEnd, TypeOK
    <3>6. /\ connInProgress' \in BOOLEAN /\ overtaken' \in BOOLEAN
          /\ attempt' \in BOOLEAN
      BY <2>2 DEF Handler, OnConnected, OnDisconnected, OnTimeout, OnNotify,
                  OnNotifyEnd, OnAdvReport, OnAdvReportEnd, LowerConnFlag, TypeOK
    <3>7. told' \subseteq Handles
      BY <2>2, <3>4 DEF e, Handler, OnConnected, OnDisconnected, OnTimeout, OnNotify,
                        OnNotifyEnd, OnAdvReport, OnAdvReportEnd, TypeOK
    <3>8. answered' \subseteq 1..MaxReqs
      <4>1. CASE OnNotify
        BY <4>1 DEF OnNotify, InTime, RequestsNumbered, Requesting, TypeOK
      <4>2. CASE ~OnNotify
        BY <2>2, <4>2 DEF Handler, OnConnected, OnDisconnected, OnTimeout,
                          OnNotifyEnd, OnAdvReport, OnAdvReportEnd, TypeOK
      <4>3. QED
        BY <4>1, <4>2
    <3>9. UNCHANGED <<mtu, isOpen, workerUp, up, nconns, pend, nreq, nuns, callVars, wiped, late, shared>>
      BY <2>2 DEF Handler, OnConnected, OnDisconnected, OnTimeout, OnNotify,
                  OnNotifyEnd, OnAdvReport, OnAdvReportEnd
    <3>10. TypeOK'
      BY <2>0, <3>2, <3>3, <3>5, <3>6, <3>7, <3>8, <3>9 DEF TypeOK
    <3>11. QED
      BY <3>2, <3>9, <3>10 DEF RequestsNumbered, Requesting
  <2>3. ASSUME NEW c \in Callers, LookUp(c) \/ WaitStep(c) \/ ConnectEnd(c)
        PROVE  TypeOK' /\ QueueInv' /\ RequestsNumbered'
    <3>0. \A b \in Callers : Requesting(b)' => Requesting(b)
      BY <2>3 DEF LookUp, WaitStep, ConnectEnd, EndCall, Requesting, TypeOK
    <3>1. /\ call' \in [Callers -> CallStates] /\ outcome' \in [Callers -> Outcomes]
          /\ late' \in BOOLEAN /\ connInProgress' \in BOOLEAN
      BY <2>3 DEF LookUp, WaitStep, ConnectEnd, EndCall, AnswerOnItsWay, TypeOK, CallStates, Outcomes
    <3>2. UNCHANGED <<evtSync, dbConns, mtu, isOpen, workerUp, worker, queue, deviceVars, op, hnd, req,
                      told, answered, overtaken, wiped, shared>>
      BY <2>3 DEF LookUp, WaitStep, ConnectEnd
    <3>3. QED
      BY <2>0, <3>0, <3>1, <3>2 DEF TypeOK, QueueInv, RequestsNumbered, Requesting
  <2>4. ASSUME NEW c \in Callers, Finish(c) PROVE TypeOK' /\ QueueInv' /\ RequestsNumbered'
    <3>0. \A b \in Callers : Requesting(b)' => Requesting(b)
      BY <2>4 DEF Finish, EndCall, Requesting, TypeOK
    <3>1. call' \in [Callers -> CallStates] /\ outcome' \in [Callers -> Outcomes]
      BY <2>4 DEF Finish, EndCall, TypeOK, CallStates, Outcomes
    <3>2. result[c] # Sync!None => result[c].val.conn \in Conns
      BY DEF TypeOK, Sync!TypeOK, Sync!Answer, Values
    <3>3. mtu' \in [Conns -> Conns \cup {NoConn}]
      BY <2>4, <3>2 DEF Finish, TypeOK
    <3>4. UNCHANGED <<evtSync, dbConns, connInProgress, isOpen, workerUp, worker, queue, deviceVars,
                      op, hnd, req, histVars>>
      BY <2>4 DEF Finish
    <3>5. QED
      BY <2>0, <3>0, <3>1, <3>3, <3>4 DEF TypeOK, QueueInv, RequestsNumbered, Requesting
  <2>5. ASSUME NEW c \in Callers, CloseJoin(c) \/ CloseClear(c) PROVE TypeOK' /\ QueueInv' /\ RequestsNumbered'
    <3>1. /\ queue' = queue \/ (queue' = <<>> /\ worker = "idle")
          /\ worker' = worker
      BY <2>5 DEF CloseJoin, CloseClear
    <3>2. queue' \in Seq(QueueEvents) /\ QueueInv'
      <4>1. CASE queue' = queue
        BY <3>1, <4>1 DEF QueueInv, TypeOK
      <4>2. CASE queue' = <<>> /\ worker = "idle"
        <5>1. queue' \in Seq(QueueEvents) /\ Len(queue') = 0
          BY <4>2
        <5>2. QED
          BY <3>1, <4>2, <5>1 DEF QueueInv
      <4>3. QED
        BY <3>1, <4>1, <4>2
    <3>3. /\ call' \in [Callers -> CallStates] /\ workerUp' \in BOOLEAN
          /\ connInProgress' \in BOOLEAN /\ overtaken' \in BOOLEAN /\ wiped' \in BOOLEAN
          /\ dbConns' \in [Handles -> Conns \cup {NoConn}]
          /\ evtSync' \in [Handles -> Conns \cup {NoConn}]
      BY <2>5 DEF CloseJoin, CloseClear, LowerConnFlag, TypeOK, CallStates
    <3>4. UNCHANGED <<mtu, isOpen, deviceVars, op, hnd, req, outcome, told, answered, late, shared>>
      BY <2>5 DEF CloseJoin, CloseClear
    <3>5. \A b \in Callers : Requesting(b)' => Requesting(b)
      BY <2>5 DEF CloseJoin, CloseClear, Requesting, TypeOK
    <3>6. QED
      BY <2>0, <3>1, <3>2, <3>3, <3>4, <3>5 DEF TypeOK, RequestsNumbered, Requesting
  <2>6. ASSUME NEW c \in Callers, NEW o \in Ops, NEW h \in Handles, Request(c, o, h)
        PROVE  TypeOK' /\ QueueInv' /\ RequestsNumbered'
    <3>1. /\ op' \in [Callers -> Ops] /\ hnd' \in [Callers -> Handles]
          /\ shared' \in [Callers -> BOOLEAN]
      BY <2>6 DEF Request, Requesting, TypeOK
    <3>2. nreq + 1 \in 1..MaxReqs
      BY <2>6 DEF Request, TypeOK
    <3>3. DeviceAcceptsRequest(h, AnswerEvent[o]) =>
            [req |-> nreq + 1, conn |-> up[h], h |-> h, evt |-> AnswerEvent[o]] \in Requests
      BY <3>2, AnswersAreEvents DEF DeviceAcceptsRequest, Requests, TypeOK
    <3>4. \/ /\ UNCHANGED <<req, pend, nreq>>
             /\ call' = [call EXCEPT ![c] = "idle"]
             /\ outcome' \in [Callers -> Outcomes]
          \/ /\ DeviceAcceptsRequest(h, AnswerEvent[o])
             /\ nreq' = nreq + 1
             /\ req' = [req EXCEPT ![c] = nreq + 1]
             /\ pend' = pend \cup {[req |-> nreq + 1, conn |-> up[h], h |-> h, evt |-> AnswerEvent[o]]}
             /\ call' = [call EXCEPT ![c] = "looking_up"]
             /\ outcome' \in [Callers -> Outcomes]
      BY <2>6 DEF Request, EndCall, TypeOK, Outcomes
    <3>5. /\ req' \in [Callers -> 0..MaxReqs] /\ nreq' \in 0..MaxReqs /\ pend' \subseteq Requests
          /\ call' \in [Callers -> CallStates] /\ RequestsNumbered'
      <4>0. nreq + 1 \in 0..MaxReqs
        BY <3>2
      <4>1. CASE UNCHANGED <<req, pend, nreq>> /\ call' = [call EXCEPT ![c] = "idle"]
        BY <4>1 DEF TypeOK, CallStates, RequestsNumbered, Requesting
      <4>2. CASE /\ DeviceAcceptsRequest(h, AnswerEvent[o])
                 /\ nreq' = nreq + 1
                 /\ req' = [req EXCEPT ![c] = nreq + 1]
                 /\ pend' = pend \cup {[req |-> nreq + 1, conn |-> up[h], h |-> h,
                                       evt |-> AnswerEvent[o]]}
                 /\ call' = [call EXCEPT ![c] = "looking_up"]
        <5>1. pend' \subseteq Requests
          BY <3>3, <4>2 DEF TypeOK
        <5>2. req' \in [Callers -> 0..MaxReqs] /\ nreq' \in 0..MaxReqs /\ RequestsNumbered'
          BY <3>2, <4>0, <4>2 DEF TypeOK, RequestsNumbered, Requesting
        <5>3. call' \in [Callers -> CallStates]
          BY <4>2 DEF TypeOK, CallStates
        <5>4. QED
          BY <5>1, <5>2, <5>3
      <4>3. QED
        BY <3>4, <4>1, <4>2
    <3>6. UNCHANGED <<tableVars, isOpen, workerUp, worker, queue, up, nconns, attempt,
                      nuns, told, answered, overtaken, wiped, late>>
      BY <2>6 DEF Request
    <3>7. outcome' \in [Callers -> Outcomes]
      BY <3>4
    <3>8. QueueInv'
      BY <3>6 DEF QueueInv
    <3>9. TypeOK'
      BY <2>0, <3>1, <3>5, <3>6, <3>7 DEF TypeOK
    <3>10. QED
      BY <3>5, <3>8, <3>9
  <2>7. ASSUME NEW c \in Callers, Connect(c) \/ Close(c) \/ Open(c) PROVE TypeOK' /\ QueueInv' /\ RequestsNumbered'
    <3>0. \A b \in Callers : Requesting(b)' => Requesting(b)
      BY <2>7 DEF Connect, Close, Open, Requesting, TypeOK
    <3>1. /\ call' \in [Callers -> CallStates]
          /\ isOpen' \in BOOLEAN /\ workerUp' \in BOOLEAN /\ attempt' \in BOOLEAN
          /\ up' \in [Handles -> Conns \cup {NoConn}] /\ pend' \subseteq Requests
      BY <2>7 DEF Connect, Close, Open, TypeOK, CallStates
    <3>2. UNCHANGED <<tableVars, worker, queue, nconns, nreq, nuns, op, hnd, req, outcome, histVars>>
      BY <2>7 DEF Connect, Close, Open
    <3>3. QED
      BY <2>0, <3>0, <3>1, <3>2 DEF TypeOK, QueueInv, RequestsNumbered, Requesting
  <2>8. CASE UNCHANGED adapterVars
    BY <2>0, <2>8 DEF TypeOK, QueueInv, RequestsNumbered, Requesting, adapterVars
  <2>9. QED
    BY <2>1, <2>2, <2>3, <2>4, <2>5, <2>6, <2>7, <2>8 DEF Next, CallStep, CallBegin
<1>3. QED
  BY <1>1, <1>2, PTL DEF Spec

(* Every variable stays within its type.                                    *)
THEOREM TypeCorrect == Spec => []TypeOK
  BY Typed, PTL

(* The adapter uses its EvtSync objects as a behaviour of EvtSync.          *)
THEOREM EvtSyncUsed == Spec => Sync!Spec
<1>1. Init => Sync!Init
  BY DEF Init
<1>2. QED
  BY <1>1, SyncStep, Typed, PTL DEF Spec, Sync!Spec

(* So no operation gets an answer that was notified before its wait began,  *)
(* and a woken one gets an answer unless another wait of the connection     *)
(* began meanwhile.                                                         *)
THEOREM OperationsGetFreshAnswers ==
  Spec => []Sync!FreshAnswer /\ []Sync!WokenCallReturnsAnswer
  BY EvtSyncUsed, SameSync, SyncFacts!WaitsReturnFreshAnswers, SyncFacts!WokenCallsReturnAnswers,
     NotifyBound, AdapterThreadsAssumption, AdapterSetsAssumption, PTL
     DEF Sync!Spec, SyncFacts!Spec

-----------------------------------------------------------------------------
(* Closing.                                                                 *)

\* At most one thread is inside driver.close(), with the transport closed; once it
\* is closed the SoftDevice has nothing, and once driver.close() has returned the
\* event worker has nothing either, until another thread opens the adapter again.
ClosingInv ==
  /\ \A c, d \in Callers : (call[c] = "closing" /\ call[d] = "closing") => c = d
  /\ isOpen => ~ApiBusy
  /\ ~isOpen => up = [h \in Handles |-> NoConn] /\ pend = {} /\ ~attempt
  /\ (~isOpen /\ ~ApiBusy) => queue = <<>> /\ worker = "idle"

LEMMA ClosingHolds == Spec => []ClosingInv
<1>1. Init => ClosingInv
  BY DEF Init, ClosingInv, ApiBusy
<1>2. TypeOK /\ QueueInv /\ ClosingInv /\ [Next]_adapterVars => ClosingInv'
  <2> SUFFICES ASSUME TypeOK, QueueInv, ClosingInv, [Next]_adapterVars PROVE ClosingInv'
    OBVIOUS
  <2> USE DEF ClosingInv, ApiBusy, tableVars, deviceVars, callVars, histVars
  <2>1. ASSUME DeviceStep PROVE ClosingInv'
    <3>1. isOpen /\ UNCHANGED <<isOpen, call>>
      BY <2>1, Delivered
    <3>2. QED
      BY <3>1
  <2>2. ASSUME Handler PROVE ClosingInv'
    <3>1. UNCHANGED <<isOpen, up, pend, call>> /\ (attempt' # attempt => isOpen)
      BY <2>2 DEF Handler, OnConnected, OnDisconnected, OnTimeout, OnNotify, OnNotifyEnd,
                  OnAdvReport, OnAdvReportEnd, DeviceAcceptsConnect
    <3>2. queue # <<>>
      BY <2>2 DEF Handler, Handling, OnConnected, OnDisconnected, OnTimeout, OnNotify,
                  OnNotifyEnd, OnAdvReport, OnAdvReportEnd, QueueInv
    <3>3. QED
      BY <3>1, <3>2
  <2>3. ASSUME NEW c \in Callers,
               \/ LookUp(c) \/ WaitStep(c) \/ Finish(c) \/ ConnectEnd(c)
               \/ \E o \in Ops, h \in Handles : Request(c, o, h)
        PROVE  ClosingInv'
    <3>1. \A d \in Callers : call[d] = "closing" <=> call'[d] = "closing"
      <4>1. \/ call' = call
            \/ /\ call[c] # "closing"
               /\ \E v \in {"idle", "looking_up", "waiting"} : call' = [call EXCEPT ![c] = v]
        <5>1. CASE \E o \in Ops, h \in Handles : Request(c, o, h)
          BY <5>1 DEF Request, EndCall
        <5>2. CASE LookUp(c) \/ WaitStep(c) \/ Finish(c) \/ ConnectEnd(c)
          BY <5>2 DEF LookUp, WaitStep, Finish, ConnectEnd, EndCall
        <5>3. QED
          BY <2>3, <5>1, <5>2
      <4>2. QED
        BY <4>1 DEF TypeOK
    <3>2. UNCHANGED <<isOpen, up, attempt, queue, worker>> /\ (pend' # pend => isOpen)
      <4>1. CASE LookUp(c) \/ WaitStep(c) \/ Finish(c) \/ ConnectEnd(c)
        BY <4>1 DEF LookUp, WaitStep, Finish, ConnectEnd
      <4>2. CASE \E o \in Ops, h \in Handles : Request(c, o, h)
        <5>1. UNCHANGED <<isOpen, up, attempt, queue, worker>>
          BY <4>2 DEF Request
        <5>2. pend' # pend => isOpen
          BY <4>2 DEF Request, DeviceAcceptsRequest
        <5>3. QED
          BY <5>1, <5>2
      <4>3. QED
        BY <2>3, <4>1, <4>2
    <3>3. QED
      BY <3>1, <3>2
  <2>4. ASSUME NEW c \in Callers, CloseJoin(c) PROVE ClosingInv'
    <3>1. ~isOpen /\ UNCHANGED <<isOpen, up, pend, attempt>> /\ queue' = <<>> /\ worker' = "idle"
      BY <2>4 DEF CloseJoin
    <3>2. \A d \in Callers : call'[d] # "closing"
      BY <2>4 DEF CloseJoin, TypeOK
    <3>3. QED
      BY <3>1, <3>2
  <2>5. ASSUME NEW c \in Callers, CloseClear(c) PROVE ClosingInv'
    <3>1. UNCHANGED <<isOpen, up, pend, attempt, queue, worker>>
      BY <2>5 DEF CloseClear
    <3>2. \A d \in Callers : call'[d] = "closing" <=> call[d] = "closing"
      BY <2>5 DEF CloseClear, TypeOK
    <3>3. QED
      BY <3>1, <3>2
  <2>6. ASSUME NEW c \in Callers, Connect(c) PROVE ClosingInv'
    <3>1. isOpen /\ isOpen'
      BY <2>6 DEF Connect, DeviceAcceptsConnect
    <3>2. \A d \in Callers : call'[d] # "closing"
      BY <2>6, <3>1 DEF Connect, TypeOK
    <3>3. QED
      BY <3>1, <3>2
  <2>7. ASSUME NEW c \in Callers, Close(c) PROVE ClosingInv'
    <3>1. /\ ~isOpen' /\ ~attempt' /\ pend' = {} /\ up' = [h \in Handles |-> NoConn]
          /\ call'[c] = "closing"
          /\ \A d \in Callers : call'[d] = "closing" => d = c
      BY <2>7 DEF Close, TypeOK
    <3>2. QED
      BY <3>1
  <2>8. ASSUME NEW c \in Callers, Open(c) PROVE ClosingInv'
    BY <2>8 DEF Open
  <2>9. CASE UNCHANGED adapterVars
    BY <2>9 DEF adapterVars
  <2>10. QED
    BY <2>1, <2>2, <2>3, <2>4, <2>5, <2>6, <2>7, <2>8, <2>9 DEF Next, CallStep, CallBegin
<1>3. QED
  BY <1>1, <1>2, Typed, PTL DEF Spec

-----------------------------------------------------------------------------
(* The tables.                                                              *)

\* When the first i - 1 events of q are handled, an entry t for handle h has
\* become g.
Leads(q, t, h, i, g) ==
  \/ t = g /\ \A l \in 1..(i - 1) : ~Moves(q[l], h)
  \/ \E j \in 1..(i - 1) :
       /\ Moves(q[j], h) /\ Target(q[j]) = g
       /\ \A l \in (j + 1)..(i - 1) : ~Moves(q[l], h)

LEMMA LeadsFirst == ASSUME NEW q, NEW t, NEW h, NEW g PROVE Leads(q, t, h, 1, g) <=> t = g
  BY DEF Leads

\* An event at the end of the queue does not change where those before it lead.
LEMMA LeadsBefore ==
  ASSUME NEW q \in Seq(QueueEvents), NEW x \in QueueEvents, NEW t, NEW h, NEW g,
         NEW i \in 1..(Len(q) + 1), Leads(q, t, h, i, g)
  PROVE  Leads(Append(q, x), t, h, i, g)
<1>1. \A l \in 1..(i - 1) : Append(q, x)[l] = q[l]
  OBVIOUS
<1>2. \A j \in 1..(i - 1) : \A l \in (j + 1)..(i - 1) : l \in 1..(i - 1)
  OBVIOUS
<1>3. QED
  BY <1>1, <1>2 DEF Leads

LEMMA LeadsAppend ==
  ASSUME NEW q \in Seq(QueueEvents), NEW x \in QueueEvents, NEW t, NEW h, NEW g,
         IF Moves(x, h) THEN Target(x) = g ELSE Leads(q, t, h, Len(q) + 1, g)
  PROVE  Leads(Append(q, x), t, h, Len(Append(q, x)) + 1, g)
<1> DEFINE a == Append(q, x)
<1>1. /\ Len(a) = Len(q) + 1 /\ a[Len(a)] = x /\ Len(a) \in 1..((Len(a) + 1) - 1)
      /\ (Len(a) + 1) - 1 = Len(a) /\ Len(a) \in Nat
  OBVIOUS
<1>2. CASE Moves(x, h)
  <2>1. \A l \in (Len(a) + 1)..((Len(a) + 1) - 1) : FALSE
    BY <1>1
  <2>2. QED
    BY <1>1, <1>2, <2>1 DEF Leads
<1>3. CASE ~Moves(x, h)
  <2>1. Leads(a, t, h, Len(q) + 1, g)
    BY <1>3, LeadsBefore
  <2>2. /\ \A l \in 1..((Len(a) + 1) - 1) : l \in 1..((Len(q) + 1) - 1) \/ l = Len(a)
        /\ \A j \in 1..((Len(q) + 1) - 1) :
             /\ j \in 1..((Len(a) + 1) - 1)
             /\ \A l \in (j + 1)..((Len(a) + 1) - 1) :
                   l \in (j + 1)..((Len(q) + 1) - 1) \/ l = Len(a)
    BY <1>1
  <2> HIDE DEF a
  <2>3. CASE t = g /\ \A l \in 1..((Len(q) + 1) - 1) : ~Moves(a[l], h)
    BY <1>1, <1>3, <2>2, <2>3 DEF Leads
  <2>4. ASSUME NEW j \in 1..((Len(q) + 1) - 1), Moves(a[j], h), Target(a[j]) = g,
               \A l \in (j + 1)..((Len(q) + 1) - 1) : ~Moves(a[l], h)
        PROVE  Leads(a, t, h, Len(a) + 1, g)
    <3>1. \A l \in (j + 1)..((Len(a) + 1) - 1) : ~Moves(a[l], h)
      BY <1>1, <1>3, <2>2, <2>4
    <3>2. QED
      BY <2>2, <2>4, <3>1 DEF Leads
  <2>5. QED
    BY <2>1, <2>3, <2>4 DEF Leads, a
<1>4. QED
  BY <1>2, <1>3

\* Handling the first event changes the entry as the event says.
LEMMA LeadsTail ==
  ASSUME NEW q \in Seq(QueueEvents), q # <<>>, NEW t, NEW h, NEW g,
         NEW i \in 1..(Len(q) + 1), i # 1, Leads(q, t, h, i, g)
  PROVE  Leads(Tail(q), IF Moves(Head(q), h) THEN Target(Head(q)) ELSE t, h, i - 1, g)
<1> DEFINE u == IF Moves(Head(q), h) THEN Target(Head(q)) ELSE t
<1>1. Len(q) \in Nat /\ Head(q) = q[1] /\ 1 \in 1..(i - 1)
  OBVIOUS
<1>2. \A l \in 1..((i - 1) - 1) : Tail(q)[l] = q[l + 1] /\ l + 1 \in 1..(i - 1)
  OBVIOUS
<1>3. CASE t = g /\ \A l \in 1..(i - 1) : ~Moves(q[l], h)
  BY <1>1, <1>2, <1>3 DEF Leads
<1>4. ASSUME NEW j \in 1..(i - 1), Moves(q[j], h), Target(q[j]) = g,
             \A l \in (j + 1)..(i - 1) : ~Moves(q[l], h)
      PROVE  Leads(Tail(q), u, h, i - 1, g)
  <2>1. CASE j = 1
    <3>1. \A l \in 1..((i - 1) - 1) : l + 1 \in (j + 1)..(i - 1)
      BY <2>1
    <3>2. u = g /\ \A l \in 1..((i - 1) - 1) : ~Moves(Tail(q)[l], h)
      BY <1>1, <1>2, <1>4, <2>1, <3>1
    <3>3. QED
      BY <3>2 DEF Leads
  <2>2. CASE j # 1
    <3>1. /\ j - 1 \in 1..((i - 1) - 1) /\ (j - 1) + 1 = j
          /\ \A l \in ((j - 1) + 1)..((i - 1) - 1) : l + 1 \in (j + 1)..(i - 1)
                                                   /\ l \in 1..((i - 1) - 1)
      BY <2>2
    <3>2. /\ Moves(Tail(q)[j - 1], h) /\ Target(Tail(q)[j - 1]) = g
          /\ \A l \in ((j - 1) + 1)..((i - 1) - 1) : ~Moves(Tail(q)[l], h)
      BY <1>2, <1>4, <3>1
    <3>3. QED
      BY <3>1, <3>2 DEF Leads
  <2>3. QED
    BY <2>1, <2>2
<1>5. QED
  BY <1>3, <1>4 DEF Leads

\* Without an event for the handle the entry stays, whatever it is.
LEMMA LeadsFrom ==
  ASSUME NEW q, NEW t, NEW u, NEW h, NEW i, NEW g, Leads(q, t, h, i, g)
  PROVE  Leads(q, u, h, i, g) \/ Leads(q, u, h, i, u)
  BY DEF Leads

\* ... become g, or none if the tables may have been cleared.
Reaches(q, t, h, i, g, cleared) ==
  Leads(q, t, h, i, g) \/ (cleared /\ Leads(q, t, h, i, NoConn))

\* A handler ends with the first event off the queue and the entries changed as
\* it says, or is still in the middle of it.
LEMMA Handled ==
  ASSUME TypeOK, QueueInv, Handler, dbConns = evtSync
  PROVE  /\ queue # <<>> /\ dbConns' = evtSync'
         /\ UNCHANGED <<isOpen, up, pend, nreq, nuns, call, req, op, hnd, outcome, wiped>>
         /\ \/ queue' = queue /\ evtSync' = evtSync
            \/ /\ queue' = Tail(queue)
               /\ evtSync' = [h \in Handles |-> IF Moves(Head(queue), h) THEN Target(Head(queue))
                                                ELSE evtSync[h]]
<1> DEFINE e == Head(queue)
<1>1. evtSync \in [Handles -> Conns \cup {NoConn}]
  BY DEF TypeOK
<1>2. evtSync = [h \in Handles |-> evtSync[h]]
  BY <1>1
<1>3. ASSUME OnConnected \/ OnDisconnected
      PROVE  evtSync' = [h \in Handles |-> IF Moves(e, h) THEN Target(e) ELSE evtSync[h]]
  BY <1>1, <1>3 DEF OnConnected, OnDisconnected, Handling, Moves, Target
<1>4. ASSUME Handler, ~OnConnected, ~OnDisconnected
      PROVE  UNCHANGED <<evtSync, dbConns>> /\ e.type \notin {"connected", "disconnected"}
  <2>1. CASE OnTimeout \/ OnNotify \/ OnAdvReport
    BY <2>1 DEF OnTimeout, OnNotify, OnAdvReport, Handling, tableVars
  <2>2. CASE OnNotifyEnd \/ OnAdvReportEnd
    BY <2>2 DEF OnNotifyEnd, OnAdvReportEnd, QueueInv, tableVars
  <2>3. QED
    BY <1>4, <2>1, <2>2 DEF Handler
<1>5. /\ queue # <<>>
      /\ UNCHANGED <<isOpen, up, pend, nreq, nuns, call, req, op, hnd, outcome, wiped>>
      /\ queue' = queue \/ queue' = Tail(queue)
  BY DEF Handler, Handling, OnConnected, OnDisconnected, OnTimeout, OnNotify, OnNotifyEnd,
         OnAdvReport, OnAdvReportEnd, QueueInv, deviceVars, callVars, histVars
<1>6. CASE OnConnected \/ OnDisconnected
  <2>1. dbConns' = evtSync' /\ queue' = Tail(queue)
    BY <1>6 DEF OnConnected, OnDisconnected
  <2>2. QED
    BY <1>3, <1>5, <1>6, <2>1
<1>7. CASE ~OnConnected /\ ~OnDisconnected
  <2>1. \A h \in Handles : ~Moves(e, h)
    BY <1>4, <1>7 DEF Moves
  <2>2. QED
    BY <1>2, <1>4, <1>5, <1>7, <2>1
<1>8. QED
  BY <1>6, <1>7

\* The tables agree; the events on the queue lead from them to the connection
\* of each notification, or to none, and to those of the SoftDevice, unless a close
\* has cleared the tables of an open adapter; requests are pending on the connections
\* of the SoftDevice; and when the adapter has been closed the tables are empty.
\* After a close that failed, and until a close has cleared the tables, entries of
\* the old connections stay, until the handle is used again.
TableInv ==
  /\ dbConns = evtSync
  /\ \A i \in 1..Len(queue) :
       queue[i].type = "notify" =>
         Reaches(queue, evtSync[queue[i].h], queue[i].h, i, queue[i].conn, TRUE)
  /\ \A h \in Handles : isOpen => Leads(queue, up[h], h, Len(queue) + 1, up[h])
  /\ \A h \in Handles :
       (isOpen /\ (up[h] # NoConn \/ (~CloseMayFail /\ NobodyCloses))) =>
         Reaches(queue, evtSync[h], h, Len(queue) + 1, up[h], wiped)
  /\ \A p \in pend : up[p.h] = p.conn
  /\ (~isOpen /\ NobodyCloses /\ ~CloseMayFail) => evtSync = [h \in Handles |-> NoConn]

LEMMA TableHolds == Spec => []TableInv
<1>1. Init => TableInv
  <2> SUFFICES ASSUME Init PROVE TableInv
    OBVIOUS
  <2>1. /\ queue = <<>> /\ isOpen /\ pend = {} /\ dbConns = evtSync
        /\ evtSync = [h \in Handles |-> NoConn] /\ up = evtSync
    BY DEF Init
  <2>2. Len(queue) = 0 /\ Len(queue) + 1 = 1
    BY <2>1
  <2>3. QED
    BY <2>1, <2>2, LeadsFirst DEF TableInv, Reaches
<1>2. TypeOK /\ QueueInv /\ ClosingInv /\ TableInv /\ [Next]_adapterVars => TableInv'
  <2> SUFFICES ASSUME TypeOK, QueueInv, ClosingInv, TableInv, [Next]_adapterVars PROVE TableInv'
    OBVIOUS
  <2>a. queue \in Seq(QueueEvents) /\ Len(queue) \in Nat /\ \A i \in 1..Len(queue) : queue[i] \in QueueEvents
    BY DEF TypeOK
  <2>1. ASSUME DeviceStep PROVE TableInv'
    <3>1. PICK x \in QueueEvents : queue' = Append(queue, x) /\ DeviceChange(x)
      BY <2>1, Delivered
    <3>2. isOpen /\ UNCHANGED <<evtSync, dbConns, isOpen, wiped, call>>
      BY <2>1, Delivered DEF tableVars, callVars, histVars
    <3>3. /\ Len(queue') = Len(queue) + 1 /\ queue'[Len(queue')] = x
          /\ \A i \in 1..Len(queue) : queue'[i] = queue[i] /\ i \in 1..(Len(queue) + 1)
          /\ \A i \in 1..Len(queue') : i \in 1..Len(queue) \/ i = Len(queue')
          /\ Len(queue) + 1 \in 1..(Len(queue) + 1)
      BY <2>a, <3>1
    <3>4. up' = [h \in Handles |-> IF Moves(x, h) THEN Target(x) ELSE up[h]]
      BY <3>1 DEF DeviceChange
    <3>5. \A p \in pend' : up'[p.h] = p.conn
      <4>1. \A p \in pend : p.h \in Handles
        BY DEF TypeOK, Requests
      <4>2. QED
        BY <3>1, <3>4, <4>1 DEF DeviceChange, TableInv
    <3>6. ASSUME NEW i \in 1..Len(queue'), queue'[i].type = "notify"
          PROVE  Reaches(queue', evtSync[queue'[i].h], queue'[i].h, i, queue'[i].conn, TRUE)
      <4>1. CASE i \in 1..Len(queue)
        BY <2>a, <3>1, <3>3, <3>6, <4>1, LeadsBefore DEF TableInv, Reaches
      <4>2. CASE i = Len(queue')
        <5>1. x.type = "notify" /\ x.h \in Handles /\ x.conn \in Conns
          BY <3>1, <3>3, <3>6, <4>2 DEF DeviceChange, QueueEvents
        <5>2. x.conn = up[x.h]
          <6>1. ASSUME NEW p \in pend, x = NotifyEvent(p) PROVE x.conn = up[x.h]
            BY <6>1 DEF NotifyEvent, TableInv
          <6>2. QED
            BY <3>1, <5>1, <6>1 DEF DeviceChange
        <5>3. up[x.h] # NoConn
          BY <5>1, <5>2, AdapterBoundsAssumption DEF Conns, NoConn, AdapterBoundsAssumption
        <5>4. Reaches(queue, evtSync[x.h], x.h, Len(queue) + 1, x.conn, wiped)
          BY <3>2, <5>1, <5>2, <5>3 DEF TableInv
        <5>5. QED
          BY <2>a, <3>1, <3>3, <4>2, <5>4, LeadsBefore DEF Reaches
      <4>3. QED
        BY <3>3, <4>1, <4>2
    <3>7. ASSUME NEW h \in Handles, up'[h] # NoConn \/ (~CloseMayFail /\ NobodyCloses)
          PROVE  Reaches(queue', evtSync[h], h, Len(queue') + 1, up'[h], wiped)
      <4>1. IF Moves(x, h) THEN Target(x) = up'[h]
                           ELSE Reaches(queue, evtSync[h], h, Len(queue) + 1, up'[h], wiped)
        BY <3>2, <3>4, <3>7 DEF TableInv
      <4>2. QED
        BY <2>a, <3>1, <4>1, LeadsAppend DEF Reaches
    <3>8. ASSUME NEW h \in Handles PROVE Leads(queue', up'[h], h, Len(queue') + 1, up'[h])
      <4>1. IF Moves(x, h) THEN Target(x) = up'[h]
                           ELSE Leads(queue, up'[h], h, Len(queue) + 1, up'[h])
        BY <3>2, <3>4 DEF TableInv
      <4>2. QED
        BY <2>a, <3>1, <4>1, LeadsAppend
    <3>9. NobodyCloses' <=> NobodyCloses
      BY <3>2 DEF NobodyCloses
    <3>10. QED
      BY <3>2, <3>5, <3>6, <3>7, <3>8, <3>9 DEF TableInv
  <2>2. ASSUME Handler PROVE TableInv'
    <3> DEFINE e == Head(queue)
    <3>1. /\ queue # <<>> /\ dbConns' = evtSync'
          /\ UNCHANGED <<isOpen, up, pend, call, wiped>>
          /\ \/ queue' = queue /\ evtSync' = evtSync
             \/ /\ queue' = Tail(queue)
                /\ evtSync' = [h \in Handles |-> IF Moves(e, h) THEN Target(e) ELSE evtSync[h]]
      BY <2>2, Handled DEF TableInv
    <3>2. CASE queue' = queue /\ evtSync' = evtSync
      BY <3>1, <3>2 DEF TableInv, NobodyCloses
    <3>3. CASE /\ queue' = Tail(queue)
               /\ evtSync' = [h \in Handles |-> IF Moves(e, h) THEN Target(e) ELSE evtSync[h]]
      <4>1. /\ Len(queue') = Len(queue) - 1 /\ Len(queue') + 1 = (Len(queue) + 1) - 1
            /\ Len(queue) + 1 \in 1..(Len(queue) + 1) /\ Len(queue) + 1 # 1
            /\ \A i \in 1..Len(queue') : /\ queue'[i] = queue[i + 1] /\ i = (i + 1) - 1
                                         /\ i + 1 \in 1..Len(queue) /\ i + 1 # 1
                                         /\ i + 1 \in 1..(Len(queue) + 1)
        BY <2>a, <3>1, <3>3
      <4>2. ASSUME NEW i \in 1..Len(queue'), queue'[i].type = "notify"
            PROVE  Reaches(queue', evtSync'[queue'[i].h], queue'[i].h, i, queue'[i].conn, TRUE)
        <5> DEFINE h == queue'[i].h
        <5>1. h \in Handles
          BY <2>a, <4>1 DEF QueueEvents
        <5>2. Reaches(queue, evtSync[h], h, i + 1, queue'[i].conn, TRUE)
          BY <4>1, <4>2 DEF TableInv
        <5>3. Reaches(Tail(queue), IF Moves(e, h) THEN Target(e) ELSE evtSync[h], h, (i + 1) - 1,
                      queue'[i].conn, TRUE)
          BY <2>a, <3>1, <4>1, <5>2, LeadsTail DEF Reaches
        <5>4. QED
          BY <3>3, <4>1, <5>1, <5>3
      <4>3. ASSUME NEW h \in Handles, isOpen, up[h] # NoConn \/ (~CloseMayFail /\ NobodyCloses)
            PROVE  Reaches(queue', evtSync'[h], h, Len(queue') + 1, up[h], wiped)
        <5>1. Reaches(queue, evtSync[h], h, Len(queue) + 1, up[h], wiped)
          BY <4>3 DEF TableInv
        <5>2. Reaches(Tail(queue), IF Moves(e, h) THEN Target(e) ELSE evtSync[h], h,
                      (Len(queue) + 1) - 1, up[h], wiped)
          BY <2>a, <3>1, <4>1, <5>1, LeadsTail DEF Reaches
        <5>3. QED
          BY <3>3, <4>1, <5>2
      <4>4. ASSUME NEW h \in Handles, isOpen PROVE Leads(queue', up[h], h, Len(queue') + 1, up[h])
        <5>1. Leads(queue, up[h], h, Len(queue) + 1, up[h])
          BY <4>4 DEF TableInv
        <5>2. Leads(Tail(queue), IF Moves(e, h) THEN Target(e) ELSE up[h], h,
                    (Len(queue) + 1) - 1, up[h])
          BY <2>a, <3>1, <4>1, <5>1, LeadsTail
        <5>3. QED
          BY <3>3, <4>1, <5>2, LeadsFrom
      <4>5. isOpen \/ ~NobodyCloses
        BY <3>1 DEF ClosingInv, ApiBusy, NobodyCloses
      <4>6. NobodyCloses' <=> NobodyCloses
        BY <3>1 DEF NobodyCloses
      <4>7. QED
        BY <3>1, <4>2, <4>3, <4>4, <4>5, <4>6 DEF TableInv
    <3>4. QED
      BY <3>1, <3>2, <3>3
  <2>3. ASSUME NEW c \in Callers,
               LookUp(c) \/ WaitStep(c) \/ Finish(c) \/ ConnectEnd(c) \/ Connect(c)
        PROVE  TableInv'
    <3>1. UNCHANGED <<evtSync, dbConns, queue, isOpen, up, pend, wiped>>
      BY <2>3 DEF LookUp, WaitStep, Finish, ConnectEnd, Connect, tableVars, deviceVars, histVars
    <3>2. NobodyCloses' => NobodyCloses
      <4>1. \E v \in CallStates : call' = [call EXCEPT ![c] = v] \/ call' = call
        BY <2>3 DEF LookUp, WaitStep, Finish, ConnectEnd, Connect, EndCall, callVars, CallStates
      <4>2. call[c] \notin {"closing", "clearing"} \/ call' = call
        BY <2>3 DEF LookUp, WaitStep, Finish, ConnectEnd, Connect, EndCall, callVars
      <4>3. QED
        BY <4>1, <4>2 DEF NobodyCloses, TypeOK
    <3>3. QED
      BY <3>1, <3>2 DEF TableInv
  <2>4. ASSUME NEW c \in Callers, NEW o \in Ops, NEW h \in Handles, Request(c, o, h)
        PROVE  TableInv'
    <3>1. UNCHANGED <<evtSync, dbConns, queue, isOpen, up, wiped>>
      BY <2>4 DEF Request, tableVars
    <3>2. /\ call[c] = "idle"
          /\ \E v \in CallStates : call' = [call EXCEPT ![c] = v]
      BY <2>4 DEF Request, EndCall, CallStates
    <3>3. NobodyCloses' => NobodyCloses
      BY <3>2 DEF NobodyCloses, TypeOK
    <3>4. pend' = pend \/ \E r, e : pend' = pend \cup {[req |-> r, conn |-> up[h], h |-> h, evt |-> e]}
      BY <2>4 DEF Request
    <3>5. \A p \in pend' : up[p.h] = p.conn
      BY <3>4 DEF TableInv
    <3>6. QED
      BY <3>1, <3>3, <3>5 DEF TableInv
  <2>5. ASSUME NEW c \in Callers, Close(c) PROVE TableInv'
    <3>1. ~isOpen' /\ pend' = {} /\ UNCHANGED <<evtSync, dbConns, queue>> /\ ~NobodyCloses'
      BY <2>5 DEF Close, tableVars, NobodyCloses, TypeOK
    <3>2. QED
      BY <3>1 DEF TableInv
  <2>6. ASSUME NEW c \in Callers, CloseJoin(c) PROVE TableInv'
    <3>1. ~isOpen /\ UNCHANGED <<isOpen, up, pend, evtSync, dbConns>> /\ queue' = <<>>
      BY <2>6 DEF CloseJoin, tableVars, deviceVars, ClosingInv, ApiBusy
    <3>2. NobodyCloses' => CloseMayFail
      BY <2>6 DEF CloseJoin, NobodyCloses, TypeOK
    <3>3. Len(queue') = 0
      BY <3>1
    <3>4. QED
      BY <3>1, <3>2, <3>3 DEF TableInv
  <2>7. ASSUME NEW c \in Callers, CloseClear(c) PROVE TableInv'
    <3>1. UNCHANGED <<isOpen, up, pend, queue>> /\ wiped' = isOpen
      BY <2>7 DEF CloseClear, deviceVars
    <3>2. /\ evtSync' = [h \in Handles |-> NoConn] /\ dbConns' = evtSync'
          /\ \A h \in Handles : evtSync'[h] = NoConn
      BY <2>7 DEF CloseClear
    <3>3. ASSUME NEW i \in 1..Len(queue), queue[i].type = "notify"
          PROVE  Reaches(queue, evtSync'[queue[i].h], queue[i].h, i, queue[i].conn, TRUE)
      <4>1. Reaches(queue, evtSync[queue[i].h], queue[i].h, i, queue[i].conn, TRUE)
        BY <3>3 DEF TableInv
      <4>2. evtSync'[queue[i].h] = NoConn
        BY <2>a, <3>2 DEF QueueEvents
      <4>3. QED
        BY <4>1, <4>2, LeadsFrom DEF Reaches
    <3>4. ASSUME NEW h \in Handles, isOpen
          PROVE  Reaches(queue, evtSync'[h], h, Len(queue) + 1, up[h], TRUE)
      <4>1. Leads(queue, up[h], h, Len(queue) + 1, up[h])
        BY <3>4 DEF TableInv
      <4>2. QED
        BY <3>2, <4>1, LeadsFrom DEF Reaches
    <3>5. QED
      BY <3>1, <3>2, <3>3, <3>4 DEF TableInv
  <2>8. ASSUME NEW c \in Callers, Open(c) PROVE TableInv'
    <3>1. ~isOpen /\ ~ApiBusy /\ isOpen' /\ UNCHANGED <<up, pend, evtSync, dbConns, queue, call>>
      BY <2>8 DEF Open, tableVars, deviceVars, callVars
    <3>2. up = [h \in Handles |-> NoConn] /\ queue = <<>> /\ pend = {}
      BY <3>1 DEF ClosingInv
    <3>3. Len(queue) = 0 /\ Len(queue) + 1 = 1
      BY <3>2
    <3>4. \A h \in Handles : Leads(queue, up[h], h, Len(queue) + 1, up[h])
      BY <3>3, LeadsFirst
    <3>5. \A h \in Handles : (~CloseMayFail /\ NobodyCloses) =>
                               Leads(queue, evtSync[h], h, Len(queue) + 1, up[h])
      BY <3>1, <3>2, <3>3, LeadsFirst DEF TableInv
    <3>6. NobodyCloses' <=> NobodyCloses
      BY <3>1 DEF NobodyCloses
    <3>7. QED
      BY <3>1, <3>2, <3>3, <3>4, <3>5, <3>6 DEF TableInv, Reaches
  <2>9. CASE UNCHANGED adapterVars
    BY <2>9 DEF adapterVars, tableVars, deviceVars, callVars, histVars, TableInv, NobodyCloses
  <2>10. QED
    BY <2>1, <2>2, <2>3, <2>4, <2>5, <2>6, <2>7, <2>8, <2>9 DEF Next, CallStep, CallBegin
<1>3. QED
  BY <1>1, <1>2, Typed, ClosingHolds, PTL DEF Spec

(* When every event has been handled, both tables have the connections of   *)
(* the SoftDevice, provided that no close fails or clears those of an       *)
(* adapter that is open again.                                              *)
THEOREM TablesRight ==
  ASSUME CloseMayFail = FALSE
  PROVE  Spec => []TablesFollowEvents
<1>1. TypeOK /\ TableInv => TablesFollowEvents
  <2> SUFFICES ASSUME TypeOK, TableInv, Settled, ~wiped PROVE evtSync = up /\ dbConns = up
    BY DEF TablesFollowEvents
  <2>1. isOpen /\ queue = <<>> /\ NobodyCloses
    BY DEF Settled
  <2>2. Len(queue) + 1 = 1
    BY <2>1
  <2>3. \A h \in Handles : evtSync[h] = up[h]
    BY <2>1, <2>2, LeadsFirst DEF TableInv, Reaches
  <2>4. QED
    BY <2>3 DEF TypeOK, TableInv
<1>2. QED
  BY <1>1, Typed, TableHolds, PTL

(* Whether or not a close failed before, a connection of the SoftDevice has *)
(* its own entry in both tables once every event has been handled, unless a *)
(* close has cleared the tables of an adapter that was open again.          *)
THEOREM ConnectionsHaveEntries ==
  Spec => []((Settled /\ ~wiped) => \A h \in Handles :
                                       up[h] # NoConn => evtSync[h] = up[h] /\ dbConns[h] = up[h])
<1>1. TypeOK /\ TableInv =>
        ((Settled /\ ~wiped) => \A h \in Handles :
                                  up[h] # NoConn => evtSync[h] = up[h] /\ dbConns[h] = up[h])
  <2> SUFFICES ASSUME TypeOK, TableInv, Settled, ~wiped, NEW h \in Handles, up[h] # NoConn
               PROVE  evtSync[h] = up[h] /\ dbConns[h] = up[h]
    OBVIOUS
  <2>1. isOpen /\ queue = <<>>
    BY DEF Settled
  <2>2. Len(queue) + 1 = 1
    BY <2>1
  <2>3. Leads(queue, evtSync[h], h, 1, up[h])
    BY <2>1, <2>2 DEF TableInv, Reaches
  <2>4. QED
    BY <2>3, LeadsFirst DEF TableInv
<1>2. QED
  BY <1>1, Typed, TableHolds, PTL

-----------------------------------------------------------------------------
(* Answers.                                                                 *)

\* The slot of a connection's object holds what was answered on the connection,
\* and so does what a caller has read from it.
SlotInv == \A g \in Conns : data[g] # Sync!None => data[g].val.conn = g

LEMMA SlotsHold == Spec => [](SlotInv /\ AnswersSameConnection)
<1>1. Init => SlotInv /\ AnswersSameConnection
  BY DEF Init, Sync!Init, SlotInv, AnswersSameConnection
<1>2. TypeOK /\ QueueInv /\ TableInv /\ SlotInv /\ AnswersSameConnection /\ [Next]_adapterVars
        => SlotInv' /\ AnswersSameConnection'
  <2> SUFFICES ASSUME TypeOK, QueueInv, TableInv, SlotInv, AnswersSameConnection, [Next]_adapterVars
               PROVE  SlotInv' /\ AnswersSameConnection'
    OBVIOUS
  <2>a. /\ data \in [Conns -> Sync!Answer \cup {Sync!None}]
        /\ pc \in [Callers -> Sync!CallerStates] /\ obj \in [Callers -> Conns]
        /\ result \in [Callers -> Sync!Answer \cup {Sync!None}]
    BY DEF TypeOK, Sync!TypeOK
  <2>1. CASE OnNotify
    <3> DEFINE e == Head(queue)  g == evtSync[e.h]
    <3>1. CASE g = NoConn
      BY <2>1, <3>1 DEF OnNotify, syncVars, SlotInv, AnswersSameConnection
    <3>2. CASE g # NoConn
      <4>1. Sync!Publish(g, e.evt, [req |-> e.req, conn |-> e.conn])
        BY <2>1, <3>2 DEF OnNotify
      <4>2. g = e.conn
        <5>1. queue \in Seq(QueueEvents) /\ queue # <<>> /\ e = queue[1] /\ e.type = "notify"
          BY <2>1 DEF OnNotify, Handling, TypeOK
        <5>2. 1 \in 1..Len(queue)
          BY <5>1
        <5>3. Reaches(queue, g, e.h, 1, e.conn, TRUE)
          BY <5>1, <5>2 DEF TableInv
        <5>4. QED
          BY <3>2, <5>3, LeadsFirst DEF Reaches
      <4>3. /\ \E s : data' = [data EXCEPT ![g] = [evt |-> e.evt, seq |-> s,
                                                  val |-> [req |-> e.req, conn |-> e.conn]]]
            /\ UNCHANGED <<pc, obj, result>>
        BY <4>1 DEF Sync!Publish, Sync!callerVars
      <4>4. SlotInv'
        BY <2>a, <4>2, <4>3 DEF SlotInv
      <4>5. QED
        BY <4>3, <4>4 DEF AnswersSameConnection
    <3>3. QED
      BY <3>1, <3>2
  <2>2. CASE OnNotifyEnd
    <3>1. Sync!NotifyAll
      BY <2>2 DEF OnNotifyEnd
    <3>2. UNCHANGED <<data, obj, result>> /\ \A c \in Callers : pc'[c] = "idle" => pc[c] = "idle"
      BY <2>a, <3>1 DEF Sync!NotifyAll
    <3>3. QED
      BY <3>2 DEF SlotInv, AnswersSameConnection
  <2>3. ASSUME NEW c \in Callers, LookUp(c) PROVE SlotInv' /\ AnswersSameConnection'
    <3> DEFINE g == evtSync[hnd[c]]
    <3>1. CASE g = NoConn
      BY <2>3, <3>1 DEF LookUp, syncVars, SlotInv, AnswersSameConnection
    <3>2. CASE g # NoConn
      <4>1. Sync!Wait(c, g, AnswerEvent[op[c]])
        BY <2>3, <3>2 DEF LookUp
      <4>2. /\ data' = [data EXCEPT ![g] = Sync!None] /\ pc' = [pc EXCEPT ![c] = "entering"]
            /\ obj' = [obj EXCEPT ![c] = g] /\ result' = [result EXCEPT ![c] = Sync!None]
        BY <4>1 DEF Sync!Wait
      <4>3. QED
        BY <2>a, <4>2 DEF SlotInv, AnswersSameConnection
    <3>3. QED
      BY <3>1, <3>2
  <2>4. ASSUME NEW c \in Callers, WaitStep(c) PROVE SlotInv' /\ AnswersSameConnection'
    <3>1. CASE Sync!Return(c)
      BY <2>a, <3>1 DEF Sync!Return, SlotInv, AnswersSameConnection
    <3>2. CASE Sync!Register(c) \/ Sync!Timeout(c) \/ Sync!Reacquire(c)
      <4>1. /\ UNCHANGED <<data, obj, result>>
            /\ \E v \in {"waiting", "waking", "reading"} : pc' = [pc EXCEPT ![c] = v]
        BY <3>2 DEF Sync!Register, Sync!Timeout, Sync!Reacquire
      <4>2. QED
        BY <2>a, <4>1 DEF SlotInv, AnswersSameConnection
    <3>3. QED
      BY <2>4, <3>1, <3>2 DEF WaitStep
  <2>5. ASSUME UNCHANGED syncVars PROVE SlotInv' /\ AnswersSameConnection'
    BY <2>5 DEF syncVars, SlotInv, AnswersSameConnection
  <2>6. ASSUME DeviceStep PROVE UNCHANGED syncVars
    BY <2>6, Delivered
  <2>7. ASSUME Handler, ~OnNotify, ~OnNotifyEnd PROVE UNCHANGED syncVars
    BY <2>7 DEF Handler, OnConnected, OnDisconnected, OnTimeout, OnAdvReport, OnAdvReportEnd
  <2>8. ASSUME NEW c \in Callers, CallStep(c), ~LookUp(c), ~WaitStep(c) PROVE UNCHANGED syncVars
    BY <2>8 DEF CallStep, Finish, ConnectEnd, CloseJoin, CloseClear
  <2>9. ASSUME NEW c \in Callers, CallBegin(c) PROVE UNCHANGED syncVars
    BY <2>9 DEF CallBegin, Request, Connect, Close, Open
  <2>10. ASSUME UNCHANGED adapterVars PROVE UNCHANGED syncVars
    BY <2>10 DEF adapterVars
  <2>11. QED
    BY <2>1, <2>2, <2>3, <2>4, <2>5, <2>6, <2>7, <2>8, <2>9, <2>10 DEF Next
<1>3. QED
  BY <1>1, <1>2, Typed, TableHolds, PTL DEF Spec

(* A wait never returns what was answered on another connection, although   *)
(* handles are reused and a close may fail.                                 *)
THEOREM AnswersOfOwnConnection == Spec => []AnswersSameConnection
  BY SlotsHold, PTL

-----------------------------------------------------------------------------
(* The flag conn_in_progress.                                               *)

\* A raised flag, or a thread about to raise it, goes with an attempt that is
\* under way or whose end is on its way to the handlers, unless the adapter is
\* closing or a handler has overtaken the thread.  The event worker is overtaken by
\* no handler.
FlagInv ==
  /\ worker = "connecting" =>
       attempt \/ ApiBusy \/ \E i \in 1..Len(queue) : Lowers(queue[i])
  /\ (/\ connInProgress \/ worker = "connecting" \/ \E c \in Callers : call[c] = "connecting"
      /\ ~overtaken) =>
       attempt \/ ~NobodyCloses \/ \E i \in 1..Len(queue) : Lowers(queue[i])

\* An event that lowers the flag is still to come unless it was the first one.
LEMMA LowersLater ==
  ASSUME NEW q \in Seq(QueueEvents), q # <<>>, NEW i \in 1..Len(q), Lowers(q[i]), ~Lowers(Head(q))
  PROVE  \E j \in 1..Len(Tail(q)) : Lowers(Tail(q)[j])
<1>1. i # 1
  OBVIOUS
<1>2. i - 1 \in 1..Len(Tail(q)) /\ Tail(q)[i - 1] = q[i]
  BY <1>1
<1>3. QED
  BY <1>2

LEMMA FlagHolds ==
  ASSUME CloseMayFail = FALSE
  PROVE  Spec => []FlagInv
<1>1. Init => FlagInv
  BY DEF Init, FlagInv
<1>2. TypeOK /\ QueueInv /\ ClosingInv /\ FlagInv /\ [Next]_adapterVars => FlagInv'
  <2> SUFFICES ASSUME TypeOK, QueueInv, ClosingInv, FlagInv, [Next]_adapterVars PROVE FlagInv'
    OBVIOUS
  <2>a. queue \in Seq(QueueEvents)
    BY DEF TypeOK
  <2>1. ASSUME DeviceStep PROVE FlagInv'
    <3>1. PICK x \in QueueEvents : queue' = Append(queue, x) /\ DeviceChange(x)
      BY <2>1, Delivered
    <3>2. isOpen /\ UNCHANGED <<isOpen, connInProgress, worker, call, overtaken>>
      BY <2>1, Delivered DEF tableVars, callVars, histVars
    <3>3. /\ Len(queue') \in 1..Len(queue') /\ queue'[Len(queue')] = x
          /\ \A i \in 1..Len(queue) : i \in 1..Len(queue') /\ queue'[i] = queue[i]
      BY <2>a, <3>1
    <3>4. attempt => attempt' \/ Lowers(x)
      BY <3>1 DEF DeviceChange
    <3>5. QED
      BY <3>2, <3>3, <3>4 DEF FlagInv, NobodyCloses, ApiBusy
  <2>2. ASSUME OnConnected \/ OnTimeout PROVE FlagInv'
    BY <2>2 DEF OnConnected, OnTimeout, LowerConnFlag, FlagInv, ApiBusy, callVars
  <2>3. ASSUME OnAdvReport, attempt' PROVE FlagInv'
    BY <2>3 DEF FlagInv
  <2>4. ASSUME \/ OnDisconnected \/ OnNotify \/ OnNotifyEnd \/ OnAdvReportEnd
               \/ OnAdvReport /\ ~attempt'
        PROVE  FlagInv'
    <3>1. queue # <<>> /\ ~Lowers(Head(queue)) /\ queue' \in {queue, Tail(queue)}
      BY <2>4 DEF OnDisconnected, OnNotify, OnNotifyEnd, OnAdvReport, OnAdvReportEnd, Handling,
                  Lowers, QueueInv
    <3>2. /\ UNCHANGED <<call, overtaken>> /\ (attempt => attempt')
          /\ (connInProgress' \/ worker' = "connecting") => (connInProgress \/ worker = "connecting")
          /\ worker' = "connecting" => worker = "connecting"
      BY <2>4 DEF OnDisconnected, OnNotify, OnNotifyEnd, OnAdvReport, OnAdvReportEnd,
                  DeviceAcceptsConnect, tableVars, deviceVars, callVars, histVars
    <3>3. ASSUME NEW i \in 1..Len(queue), Lowers(queue[i])
          PROVE  \E j \in 1..Len(queue') : Lowers(queue'[j])
      BY <2>a, <3>1, <3>3, LowersLater
    <3>4. QED
      BY <3>2, <3>3 DEF FlagInv, NobodyCloses, ApiBusy
  <2>5. ASSUME NEW c \in Callers,
               \/ LookUp(c) \/ WaitStep(c) \/ Finish(c)
               \/ \E o \in Ops, h \in Handles : Request(c, o, h)
        PROVE  FlagInv'
    <3>1. UNCHANGED <<connInProgress, worker, overtaken, attempt, queue>>
      BY <2>5 DEF LookUp, WaitStep, Finish, Request, tableVars, deviceVars, histVars
    <3>2. \/ call' = call
          \/ /\ call[c] \notin {"closing", "clearing", "connecting"}
             /\ \E v \in {"idle", "looking_up", "waiting"} : call' = [call EXCEPT ![c] = v]
      <4>1. CASE \E o \in Ops, h \in Handles : Request(c, o, h)
        BY <4>1 DEF Request, EndCall
      <4>2. CASE LookUp(c) \/ WaitStep(c) \/ Finish(c)
        BY <4>2 DEF LookUp, WaitStep, Finish, EndCall, callVars
      <4>3. QED
        BY <2>5, <4>1, <4>2
    <3>3. \A d \in Callers : /\ call'[d] = "connecting" <=> call[d] = "connecting"
                             /\ call'[d] = "closing" <=> call[d] = "closing"
                             /\ call'[d] \in {"closing", "clearing"} <=>
                                call[d] \in {"closing", "clearing"}
      BY <3>2 DEF TypeOK
    <3>4. QED
      BY <3>1, <3>3 DEF FlagInv, NobodyCloses, ApiBusy
  <2>6. ASSUME NEW c \in Callers, Connect(c) PROVE FlagInv'
    BY <2>6 DEF Connect, FlagInv
  <2>7. ASSUME NEW c \in Callers, ConnectEnd(c) PROVE FlagInv'
    <3>1. UNCHANGED <<overtaken, attempt, queue, worker>> /\ call[c] = "connecting"
      BY <2>7 DEF ConnectEnd, deviceVars, histVars
    <3>2. (NobodyCloses' => NobodyCloses) /\ (ApiBusy => ApiBusy')
      BY <2>7 DEF ConnectEnd, NobodyCloses, ApiBusy, TypeOK
    <3>3. QED
      BY <3>1, <3>2 DEF FlagInv
  <2>8. ASSUME NEW c \in Callers, Close(c) \/ CloseJoin(c) PROVE FlagInv'
    BY <2>8 DEF Close, CloseJoin, FlagInv, NobodyCloses, ApiBusy, TypeOK
  <2>9. ASSUME NEW c \in Callers, CloseClear(c) PROVE FlagInv'
    <3>1. UNCHANGED <<queue, attempt, worker>> /\ ~connInProgress'
          /\ overtaken' = \E d \in Callers : call[d] = "connecting"
      BY <2>9 DEF CloseClear, LowerConnFlag, deviceVars
    <3>2. \A d \in Callers : /\ call'[d] = "connecting" => call[d] = "connecting"
                             /\ call'[d] = "closing" <=> call[d] = "closing"
      BY <2>9 DEF CloseClear, TypeOK
    <3>3. ApiBusy => ~NobodyCloses'
      BY <3>2 DEF ApiBusy, NobodyCloses
    <3>4. QED
      BY <3>1, <3>2, <3>3 DEF FlagInv, ApiBusy
  <2>10. ASSUME NEW c \in Callers, Open(c) PROVE FlagInv'
    BY <2>10 DEF Open, FlagInv, NobodyCloses, ApiBusy, tableVars, deviceVars, callVars, histVars
  <2>11. CASE UNCHANGED adapterVars
    BY <2>11 DEF adapterVars, FlagInv, NobodyCloses, ApiBusy, tableVars, deviceVars, callVars, histVars
  <2>12. QED
    BY <2>1, <2>2, <2>3, <2>4, <2>5, <2>6, <2>7, <2>8, <2>9, <2>10, <2>11
       DEF Next, Handler, CallStep, CallBegin
<1>3. QED
  BY <1>1, <1>2, Typed, ClosingHolds, PTL DEF Spec

(* When every event has been handled and no attempt is under way,           *)
(* conn_in_progress is down, provided that no close fails and that no       *)
(* handler overtook the connect that raised it.                             *)
THEOREM FlagCleared ==
  ASSUME CloseMayFail = FALSE
  PROVE  Spec => []ConnectFlagCleared
<1>1. FlagInv => ConnectFlagCleared
  <2> SUFFICES ASSUME FlagInv, Settled, ~attempt, ~overtaken PROVE ~connInProgress
    BY DEF ConnectFlagCleared
  <2>1. queue = <<>> /\ NobodyCloses
    BY DEF Settled
  <2>2. 1..Len(queue) = {}
    BY <2>1
  <2>3. QED
    BY <2>1, <2>2 DEF FlagInv
<1>2. QED
  BY <1>1, FlagHolds, PTL

-----------------------------------------------------------------------------
(* The answer to the caller's own request.                                  *)

\* A slot is empty or holds the answer to c's request.
HoldsOwn(slot, c) == slot # Sync!None => slot.val.req = req[c]

\* As long as no answer came too late and nothing was notified unasked, every
\* answer on its way is awaited by the operation that asked for it, and an
\* operation that nothing overlapped finds its own answer or none.
Undisturbed ==
  /\ \A p \in pend : \E c \in Callers : InTime(c, p.req)
  /\ \A i \in 1..Len(queue) :
       queue[i].type = "notify" => \E c \in Callers : InTime(c, queue[i].req)
  /\ \A c \in Callers :
       (call[c] = "waiting" /\ ~shared[c]) =>
         IF pc[c] = "idle" THEN HoldsOwn(result[c], c) ELSE HoldsOwn(data[obj[c]], c)

\* Two operations under way know of each other.
OwnInv ==
  /\ \A c \in Callers : pc[c] # "idle" => call[c] = "waiting"
  /\ \A c \in Callers : Requesting(c) => outcome[c] = "none_yet"
  /\ \A c, d \in Callers : (Requesting(c) /\ Requesting(d) /\ c # d) => shared[c]
  /\ (~late /\ nuns = 0) => Undisturbed
  /\ AnswerOfOwnRequest

\* Steps that touch no operation and no slot, and put nothing on the queue.
LEMMA OwnFrame ==
  ASSUME OwnInv, UNCHANGED <<data, pc, obj, result, req, outcome, late, shared, nuns>>,
         \A c \in Callers : /\ call'[c] = "looking_up" <=> call[c] = "looking_up"
                            /\ call'[c] = "waiting" <=> call[c] = "waiting",
         \A p \in pend' : p \in pend,
         \A i \in 1..Len(queue') : \E j \in 1..Len(queue) : queue'[i] = queue[j]
  PROVE  OwnInv'
<1>1. \A c \in Callers : Requesting(c) <=> Requesting(c)'
  BY DEF Requesting
<1>2. ASSUME NEW c \in Callers, NEW r, InTime(c, r)
      PROVE  /\ req'[c] = r
             /\ call'[c] = "looking_up" \/ (call'[c] = "waiting" /\ pc'[c] # "idle")
  BY <1>2 DEF InTime
<1>3. Undisturbed => Undisturbed'
  <2> SUFFICES ASSUME Undisturbed PROVE Undisturbed'
    OBVIOUS
  <2>1. \A p \in pend' : \E c \in Callers : InTime(c, p.req)'
    BY <1>2 DEF Undisturbed, InTime
  <2>2. ASSUME NEW i \in 1..Len(queue'), queue'[i].type = "notify"
        PROVE  \E c \in Callers :
                 /\ req'[c] = queue'[i].req
                 /\ call'[c] = "looking_up" \/ (call'[c] = "waiting" /\ pc'[c] # "idle")
    <3>1. PICK j \in 1..Len(queue) : queue'[i] = queue[j]
      OBVIOUS
    <3>2. PICK c \in Callers : InTime(c, queue[j].req)
      BY <2>2, <3>1 DEF Undisturbed
    <3>3. QED
      BY <1>2, <3>1, <3>2
  <2>3. ASSUME NEW c \in Callers, call'[c] = "waiting", ~shared'[c]
        PROVE  IF pc'[c] = "idle" THEN result'[c] # Sync!None => result'[c].val.req = req'[c]
               ELSE data'[obj'[c]] # Sync!None => data'[obj'[c]].val.req = req'[c]
    BY <2>3 DEF Undisturbed, HoldsOwn
  <2>4. QED
    BY <2>1, <2>2, <2>3 DEF Undisturbed, InTime, HoldsOwn
<1>4. QED
  BY <1>1, <1>3 DEF OwnInv, AnswerOfOwnRequest

LEMMA OwnHolds == Spec => []OwnInv
<1>1. Init => OwnInv
  <2> SUFFICES ASSUME Init PROVE OwnInv
    OBVIOUS
  <2>1. \A c \in Callers : pc[c] = "idle" /\ call[c] = "idle" /\ outcome[c] = "none_yet"
    BY DEF Init, Sync!Init
  <2>2. pend = {} /\ 1..Len(queue) = {}
    BY DEF Init
  <2>3. QED
    BY <2>1, <2>2 DEF OwnInv, Undisturbed, AnswerOfOwnRequest, Requesting
<1>2. TypeOK /\ QueueInv /\ RequestsNumbered /\ OwnInv /\ [Next]_adapterVars => OwnInv'
  <2> SUFFICES ASSUME TypeOK, QueueInv, RequestsNumbered, OwnInv, [Next]_adapterVars PROVE OwnInv'
    OBVIOUS
  <2>a. /\ data \in [Conns -> Sync!Answer \cup {Sync!None}]
        /\ pc \in [Callers -> Sync!CallerStates] /\ obj \in [Callers -> Conns]
        /\ result \in [Callers -> Sync!Answer \cup {Sync!None}]
        /\ call \in [Callers -> CallStates] /\ outcome \in [Callers -> Outcomes]
        /\ req \in [Callers -> 0..MaxReqs] /\ shared \in [Callers -> BOOLEAN]
        /\ queue \in Seq(QueueEvents)
    BY DEF TypeOK, Sync!TypeOK
  <2>b. \A i \in 1..Len(Tail(queue)) :
          queue # <<>> => i + 1 \in 1..Len(queue) /\ Tail(queue)[i] = queue[i + 1]
    BY <2>a
  <2>1. ASSUME DeviceStep PROVE OwnInv'
    <3>1. PICK x \in QueueEvents : queue' = Append(queue, x) /\ DeviceChange(x)
      BY <2>1, Delivered
    <3>2. UNCHANGED <<data, pc, obj, result, call, req, outcome, late, shared>>
      BY <2>1, Delivered DEF syncVars, callVars, histVars
    <3>3. \A i \in 1..Len(queue') : (i \in 1..Len(queue) /\ queue'[i] = queue[i]) \/ queue'[i] = x
      BY <2>a, <3>1
    <3>4. (nuns' = 0 => nuns = 0) /\ \A p \in pend' : p \in pend
      BY <3>1 DEF DeviceChange
    <3>5. (nuns' = 0 /\ x.type = "notify") => \E p \in pend : x.req = p.req
      BY <3>1 DEF DeviceChange, NotifyEvent
    <3>6. (~late' /\ nuns' = 0) => Undisturbed'
      BY <3>2, <3>3, <3>4, <3>5 DEF OwnInv, Undisturbed, InTime, HoldsOwn
    <3>7. QED
      BY <3>2, <3>4, <3>6 DEF OwnInv, AnswerOfOwnRequest, Requesting
  <2>2. ASSUME OnNotify, evtSync[Head(queue).h] # NoConn PROVE OwnInv'
    <3> DEFINE e == Head(queue)  g == evtSync[e.h]
    <3>1. Sync!Publish(g, e.evt, [req |-> e.req, conn |-> e.conn])
      BY <2>2 DEF OnNotify
    <3>2. /\ \E s : data' = [data EXCEPT ![g] = [evt |-> e.evt, seq |-> s,
                                                val |-> [req |-> e.req, conn |-> e.conn]]]
          /\ UNCHANGED <<pc, obj, result>>
      BY <3>1 DEF Sync!Publish, Sync!callerVars
    <3>3. UNCHANGED <<queue, pend, nuns, call, req, outcome, late, shared>>
      BY <2>2 DEF OnNotify, deviceVars, callVars
    <3>4. 1 \in 1..Len(queue) /\ e = queue[1] /\ e.type = "notify"
      BY <2>2, <2>a DEF OnNotify, Handling
    <3>5. ASSUME Undisturbed PROVE Undisturbed'
      <4>1. PICK d \in Callers : InTime(d, e.req)
        BY <3>4, <3>5 DEF Undisturbed
      <4>2. ASSUME NEW c \in Callers, call[c] = "waiting", ~shared[c], pc[c] # "idle"
            PROVE  HoldsOwn(data[obj[c]], c)'
        <5>1. c = d /\ req[c] = e.req
          BY <4>1, <4>2 DEF OwnInv, Requesting, InTime
        <5>2. CASE obj[c] = g
          <6>1. data'[obj'[c]].val.req = req'[c]
            BY <2>a, <3>2, <3>3, <5>1, <5>2
          <6>2. QED
            BY <6>1 DEF HoldsOwn
        <5>3. CASE obj[c] # g
          <6>1. data'[obj'[c]] = data[obj[c]]
            BY <2>a, <3>2, <5>3
          <6>2. QED
            BY <3>3, <3>5, <4>2, <6>1 DEF HoldsOwn, Undisturbed
        <5>4. QED
          BY <5>2, <5>3
      <4>3. QED
        BY <3>2, <3>3, <3>5, <4>2 DEF Undisturbed, InTime, HoldsOwn
    <3>6. QED
      BY <3>2, <3>3, <3>5 DEF OwnInv, AnswerOfOwnRequest, Requesting
  <2>3. ASSUME OnNotifyEnd PROVE OwnInv'
    <3>1. Sync!NotifyAll
      BY <2>3 DEF OnNotifyEnd
    <3>2. /\ UNCHANGED <<data, obj, result>>
          /\ \A c \in Callers : pc'[c] = "idle" <=> pc[c] = "idle"
      BY <2>a, <3>1 DEF Sync!NotifyAll
    <3>3. UNCHANGED <<pend, nuns, call, req, outcome, late, shared>>
      BY <2>3 DEF OnNotifyEnd, deviceVars, callVars, histVars
    <3>4. \A i \in 1..Len(queue') : \E j \in 1..Len(queue) : queue'[i] = queue[j]
      BY <2>3, <2>b DEF OnNotifyEnd, QueueInv
    <3>5. ASSUME Undisturbed PROVE Undisturbed'
      <4>1. \A p \in pend' : \E c \in Callers : InTime(c, p.req)'
        BY <3>2, <3>3, <3>5 DEF Undisturbed, InTime
      <4>2. \A i \in 1..Len(queue') :
              queue'[i].type = "notify" => \E c \in Callers : InTime(c, queue[i].req)'
        <5>1. \A j \in 1..Len(queue) : queue[j].type = "notify" =>
                \E c \in Callers : /\ req'[c] = queue[j].req
                                   /\ call'[c] = "looking_up" \/ (call'[c] = "waiting" /\ pc'[c] # "idle")
          BY <3>2, <3>3, <3>5 DEF Undisturbed, InTime
        <5>2. QED
          BY <3>4, <5>1 DEF InTime
      <4>3. \A c \in Callers : (call[c] = "waiting" /\ ~shared[c])' =>
              (IF pc[c] = "idle" THEN HoldsOwn(result[c], c) ELSE HoldsOwn(data[obj[c]], c))'
        BY <3>2, <3>3, <3>5 DEF Undisturbed, HoldsOwn
      <4>4. QED
        BY <4>1, <4>2, <4>3 DEF Undisturbed
    <3>6. QED
      BY <3>2, <3>3, <3>5 DEF OwnInv, AnswerOfOwnRequest, Requesting
  <2>4. ASSUME Handler, ~OnNotifyEnd, ~(OnNotify /\ evtSync[Head(queue).h] # NoConn) PROVE OwnInv'
    <3>1. UNCHANGED <<data, pc, obj, result, call, req, outcome, late, shared, nuns, pend>>
      BY <2>4 DEF Handler, OnConnected, OnDisconnected, OnTimeout, OnNotify, OnAdvReport,
                  OnAdvReportEnd, syncVars, deviceVars, callVars, histVars
    <3>2. queue # <<>> /\ queue' \in {queue, Tail(queue)}
      BY <2>4 DEF Handler, OnConnected, OnDisconnected, OnTimeout, OnNotify, OnAdvReport,
                  OnAdvReportEnd, Handling, QueueInv
    <3>3. \A i \in 1..Len(queue') : \E j \in 1..Len(queue) : queue'[i] = queue[j]
      BY <2>b, <3>2
    <3>4. QED
      BY <3>1, <3>3, OwnFrame
  <2>5. ASSUME NEW c \in Callers,
               \/ ConnectEnd(c) \/ CloseJoin(c) \/ CloseClear(c)
               \/ Connect(c) \/ Close(c) \/ Open(c)
        PROVE  OwnInv'
    <3>1. UNCHANGED <<data, pc, obj, result, req, outcome, late, shared, nuns>>
      BY <2>5 DEF ConnectEnd, CloseJoin, CloseClear, Connect, Close, Open,
                  syncVars, deviceVars, callVars, histVars
    <3>2. pend' \subseteq pend /\ queue' \in {queue, <<>>}
      BY <2>5 DEF ConnectEnd, CloseJoin, CloseClear, Connect, Close, Open, deviceVars
    <3>3. \A i \in 1..Len(queue') : \E j \in 1..Len(queue) : queue'[i] = queue[j]
      <4>1. Len(<<>>) = 0
        OBVIOUS
      <4>2. QED
        BY <3>2, <4>1
    <3>4. /\ call[c] \notin {"looking_up", "waiting"}
          /\ \/ call' = call
             \/ \E v \in CallStates \ {"looking_up", "waiting"} : call' = [call EXCEPT ![c] = v]
      BY <2>5 DEF ConnectEnd, CloseJoin, CloseClear, Connect, Close, Open, callVars, CallStates
    <3>5. \A d \in Callers : /\ call'[d] = "looking_up" <=> call[d] = "looking_up"
                             /\ call'[d] = "waiting" <=> call[d] = "waiting"
      BY <2>a, <3>4
    <3>6. QED
      BY <3>1, <3>2, <3>3, <3>5, OwnFrame
  <2>6. ASSUME NEW c \in Callers, LookUp(c), evtSync[hnd[c]] = NoConn PROVE OwnInv'
    <3>1. /\ UNCHANGED <<data, pc, obj, result, req, shared, pend, nuns, queue>>
          /\ call[c] = "looking_up" /\ call' = [call EXCEPT ![c] = "idle"]
          /\ outcome' = [outcome EXCEPT ![c] = "key_error"]
          /\ late' = (late \/ AnswerOnItsWay(c))
      BY <2>6 DEF LookUp, EndCall, syncVars, deviceVars
    <3>2. \A d \in Callers : d # c => call'[d] = call[d] /\ outcome'[d] = outcome[d]
      BY <2>a, <3>1
    <3>3. call'[c] = "idle" /\ outcome'[c] = "key_error"
      BY <2>a, <3>1
    <3>4. ASSUME Undisturbed, ~AnswerOnItsWay(c) PROVE Undisturbed'
      <4>1. \A p \in pend : \E d \in Callers : d # c /\ InTime(d, p.req)
        BY <3>4 DEF Undisturbed, AnswerOnItsWay, InTime
      <4>2. \A i \in 1..Len(queue) :
              queue[i].type = "notify" => \E d \in Callers : d # c /\ InTime(d, queue[i].req)
        BY <3>4 DEF Undisturbed, AnswerOnItsWay, InTime
      <4>3. \A d \in Callers : (call'[d] = "waiting" /\ ~shared[d]) =>
              IF pc[d] = "idle" THEN HoldsOwn(result[d], d) ELSE HoldsOwn(data[obj[d]], d)
        BY <3>2, <3>3, <3>4 DEF Undisturbed
      <4>4. QED
        BY <3>1, <3>2, <4>1, <4>2, <4>3 DEF Undisturbed, InTime, HoldsOwn
    <3>5. /\ \A d \in Callers : pc'[d] # "idle" => call'[d] = "waiting"
          /\ \A d \in Callers : Requesting(d)' => Requesting(d) /\ d # c
      BY <3>1, <3>2, <3>3 DEF OwnInv, Requesting
    <3>6. AnswerOfOwnRequest'
      <4>1. ~late' => ~late
        BY <3>1
      <4>2. \A d \in Callers : outcome'[d] = "answer" => outcome[d] = "answer"
        BY <3>2, <3>3
      <4>3. QED
        BY <3>1, <4>1, <4>2 DEF OwnInv, AnswerOfOwnRequest
    <3>7. QED
      BY <3>1, <3>2, <3>4, <3>5, <3>6 DEF OwnInv
  <2>7. ASSUME NEW c \in Callers, LookUp(c), evtSync[hnd[c]] # NoConn PROVE OwnInv'
    <3> DEFINE g == evtSync[hnd[c]]
    <3>1. Sync!Wait(c, g, AnswerEvent[op[c]])
      BY <2>7 DEF LookUp
    <3>2. /\ data' = [data EXCEPT ![g] = Sync!None] /\ pc' = [pc EXCEPT ![c] = "entering"]
          /\ obj' = [obj EXCEPT ![c] = g] /\ result' = [result EXCEPT ![c] = Sync!None]
      BY <3>1 DEF Sync!Wait
    <3>3. /\ UNCHANGED <<req, outcome, late, shared, pend, nuns, queue>>
          /\ call[c] = "looking_up" /\ call' = [call EXCEPT ![c] = "waiting"]
      BY <2>7 DEF LookUp, deviceVars
    <3>4. /\ pc'[c] = "entering" /\ call'[c] = "waiting" /\ data'[obj'[c]] = Sync!None
          /\ \A d \in Callers \ {c} :
               /\ pc'[d] = pc[d] /\ call'[d] = call[d] /\ result'[d] = result[d]
               /\ data'[obj'[d]] \in {data[obj[d]], Sync!None}
      <4>1. g \in Conns
        BY <2>7 DEF TypeOK
      <4>2. QED
        BY <2>a, <3>2, <3>3, <4>1
    <3>5. ASSUME Undisturbed PROVE Undisturbed'
      <4>1. /\ \A p \in pend : \E d \in Callers : InTime(d, p.req)'
            /\ \A i \in 1..Len(queue) :
                 queue[i].type = "notify" => \E d \in Callers : InTime(d, queue[i].req)'
        BY <3>3, <3>4, <3>5 DEF Undisturbed, InTime
      <4>2. ASSUME NEW d \in Callers, (call[d] = "waiting" /\ ~shared[d])'
            PROVE (IF pc[d] = "idle" THEN HoldsOwn(result[d], d) ELSE HoldsOwn(data[obj[d]], d))'
        <5>1. CASE d = c
          BY <3>4, <5>1 DEF HoldsOwn
        <5>2. CASE d # c
          BY <3>3, <3>4, <3>5, <4>2, <5>2 DEF HoldsOwn, Undisturbed
        <5>3. QED
          BY <5>1, <5>2
      <4>3. QED
        BY <3>3, <4>1, <4>2 DEF Undisturbed
    <3>6. \A d \in Callers : Requesting(d)' => Requesting(d)
      BY <3>3, <3>4 DEF Requesting
    <3>7. AnswerOfOwnRequest'
      <4>1. outcome[c] = "none_yet"
        BY <3>3 DEF OwnInv, Requesting
      <4>2. QED
        BY <3>3, <3>4, <4>1 DEF OwnInv, AnswerOfOwnRequest
    <3>8. \A d \in Callers : pc'[d] # "idle" => call'[d] = "waiting"
      BY <3>4 DEF OwnInv
    <3>9. QED
      BY <3>3, <3>5, <3>6, <3>7, <3>8 DEF OwnInv
  <2>8. ASSUME NEW c \in Callers, WaitStep(c), ~Sync!Return(c) PROVE OwnInv'
    <3>1. /\ UNCHANGED <<data, obj, result, call, req, outcome, late, shared, pend, nuns, queue>>
          /\ pc[c] # "idle"
          /\ \E v \in {"waiting", "waking", "reading"} : pc' = [pc EXCEPT ![c] = v]
      BY <2>8 DEF WaitStep, Sync!Register, Sync!Timeout, Sync!Reacquire, deviceVars, callVars
    <3>2. \A d \in Callers : pc'[d] = "idle" <=> pc[d] = "idle"
      BY <2>a, <3>1
    <3>3. Undisturbed => Undisturbed'
      BY <3>1, <3>2 DEF Undisturbed, InTime, HoldsOwn
    <3>4. QED
      BY <3>1, <3>2, <3>3 DEF OwnInv, AnswerOfOwnRequest, Requesting
  <2>9. ASSUME NEW c \in Callers, WaitStep(c), Sync!Return(c) PROVE OwnInv'
    <3>1. /\ pc[c] = "reading" /\ pc' = [pc EXCEPT ![c] = "idle"]
          /\ result' = [result EXCEPT ![c] = data[obj[c]]]
          /\ UNCHANGED <<data, obj>>
      BY <2>9 DEF Sync!Return
    <3>2. /\ UNCHANGED <<call, req, outcome, shared, pend, nuns, queue>>
          /\ late' = (late \/ AnswerOnItsWay(c))
      BY <2>9 DEF WaitStep, deviceVars, callVars, Sync!Return, Sync!Register, Sync!Timeout,
                  Sync!Reacquire
    <3>3. /\ pc'[c] = "idle" /\ result'[c] = data[obj[c]]
          /\ \A d \in Callers \ {c} : pc'[d] = pc[d] /\ result'[d] = result[d]
      BY <2>a, <3>1
    <3>4. call[c] = "waiting" /\ outcome[c] = "none_yet"
      BY <3>1 DEF OwnInv, Requesting
    <3>5. ASSUME Undisturbed, ~AnswerOnItsWay(c) PROVE Undisturbed'
      <4>1. \A p \in pend : \E d \in Callers : d # c /\ InTime(d, p.req)
        BY <3>5 DEF Undisturbed, AnswerOnItsWay, InTime
      <4>2. \A i \in 1..Len(queue) :
              queue[i].type = "notify" => \E d \in Callers : d # c /\ InTime(d, queue[i].req)
        BY <3>5 DEF Undisturbed, AnswerOnItsWay, InTime
      <4>3. /\ \A p \in pend : \E d \in Callers : InTime(d, p.req)'
            /\ \A i \in 1..Len(queue) :
                 queue[i].type = "notify" => \E d \in Callers : InTime(d, queue[i].req)'
        BY <3>2, <3>3, <4>1, <4>2 DEF InTime
      <4>4. ASSUME NEW d \in Callers, (call[d] = "waiting" /\ ~shared[d])'
            PROVE (IF pc[d] = "idle" THEN HoldsOwn(result[d], d) ELSE HoldsOwn(data[obj[d]], d))'
        BY <3>1, <3>2, <3>3, <3>5, <4>4 DEF Undisturbed, HoldsOwn
      <4>5. QED
        BY <3>2, <4>3, <4>4 DEF Undisturbed
    <3>6. \A d \in Callers : pc'[d] # "idle" => call'[d] = "waiting"
      BY <3>2, <3>3 DEF OwnInv
    <3>7. AnswerOfOwnRequest'
      BY <3>2, <3>3, <3>4 DEF OwnInv, AnswerOfOwnRequest
    <3>8. QED
      BY <3>2, <3>5, <3>6, <3>7 DEF OwnInv, Requesting
  <2>10. ASSUME NEW c \in Callers, Finish(c) PROVE OwnInv'
    <3>1. /\ UNCHANGED <<data, pc, obj, result, req, late, shared, pend, nuns, queue>>
          /\ call[c] = "waiting" /\ pc[c] = "idle" /\ call' = [call EXCEPT ![c] = "idle"]
          /\ \E v \in Outcomes : /\ outcome' = [outcome EXCEPT ![c] = v]
                                 /\ v = "answer" => result[c] # Sync!None
      BY <2>10 DEF Finish, EndCall, syncVars, deviceVars, histVars, Outcomes
    <3>2. /\ call'[c] = "idle" /\ (outcome'[c] = "answer" => result[c] # Sync!None)
          /\ \A d \in Callers \ {c} : call'[d] = call[d] /\ outcome'[d] = outcome[d]
      BY <2>a, <3>1
    <3>3. ASSUME Undisturbed PROVE Undisturbed'
      <4>1. /\ \A p \in pend : \E d \in Callers : InTime(d, p.req)'
            /\ \A i \in 1..Len(queue) :
                 queue[i].type = "notify" => \E d \in Callers : InTime(d, queue[i].req)'
        BY <3>1, <3>2, <3>3 DEF Undisturbed, InTime
      <4>2. ASSUME NEW d \in Callers, (call[d] = "waiting" /\ ~shared[d])'
            PROVE (IF pc[d] = "idle" THEN HoldsOwn(result[d], d) ELSE HoldsOwn(data[obj[d]], d))'
        BY <3>1, <3>2, <3>3, <4>2 DEF Undisturbed, HoldsOwn
      <4>3. QED
        BY <3>1, <4>1, <4>2 DEF Undisturbed
    <3>4. /\ \A d \in Callers : pc'[d] # "idle" => call'[d] = "waiting"
          /\ \A d \in Callers : Requesting(d)' => Requesting(d) /\ d # c
      BY <3>1, <3>2 DEF OwnInv, Requesting
    <3>5. AnswerOfOwnRequest'
      <4>1. ASSUME outcome'[c] = "answer", ~shared[c], ~late, nuns = 0
            PROVE  result[c].val.req = req[c]
        BY <3>1, <3>2, <4>1 DEF OwnInv, Undisturbed, HoldsOwn
      <4>2. QED
        BY <3>1, <3>2, <4>1 DEF OwnInv, AnswerOfOwnRequest
    <3>6. QED
      BY <3>1, <3>2, <3>3, <3>4, <3>5 DEF OwnInv
  <2>11. ASSUME NEW c \in Callers, NEW o \in Ops, NEW h \in Handles, Request(c, o, h)
         PROVE  OwnInv'
    <3>1. /\ UNCHANGED <<data, pc, obj, result, late, nuns, queue>> /\ call[c] = "idle"
          /\ shared' = [b \in Callers |-> IF b = c THEN \E d \in Callers \ {c} : Requesting(d)
                                                   ELSE shared[b] \/ Requesting(b)]
      BY <2>11 DEF Request, syncVars
    <3>2. \/ /\ UNCHANGED <<req, pend>>
             /\ call' = [call EXCEPT ![c] = "idle"]
             /\ \E v \in {"key_error", "error"} : outcome' = [outcome EXCEPT ![c] = v]
          \/ /\ req' = [req EXCEPT ![c] = nreq + 1]
             /\ \E g, e : pend' = pend \cup {[req |-> nreq + 1, conn |-> g, h |-> h, evt |-> e]}
             /\ call' = [call EXCEPT ![c] = "looking_up"]
             /\ outcome' = [outcome EXCEPT ![c] = "none_yet"]
      BY <2>11 DEF Request, EndCall
    <3>3. nreq + 1 \in 0..MaxReqs
      BY <2>11, AdapterBoundsAssumption DEF Request, TypeOK, AdapterBoundsAssumption
    <3>4. /\ \A d \in Callers \ {c} : /\ call'[d] = call[d] /\ outcome'[d] = outcome[d]
                                      /\ req'[d] = req[d]
                                      /\ shared'[d] <=> (shared[d] \/ Requesting(d))
          /\ shared'[c] <=> \E d \in Callers \ {c} : Requesting(d)
          /\ outcome'[c] # "answer" /\ call'[c] # "waiting"
          /\ call'[c] = "looking_up" => outcome'[c] = "none_yet"
      BY <2>a, <3>1, <3>2, <3>3
    <3>5. pc[c] = "idle" /\ ~Requesting(c)
      BY <3>1 DEF OwnInv, Requesting
    <3>6. ASSUME Undisturbed PROVE Undisturbed'
      <4>1. \A p \in pend' : p \in pend \/ InTime(c, p.req)'
        <5>1. CASE pend' = pend
          BY <5>1
        <5>2. CASE /\ req' = [req EXCEPT ![c] = nreq + 1]
                   /\ \E g, e : pend' = pend \cup {[req |-> nreq + 1, conn |-> g, h |-> h,
                                                    evt |-> e]}
                   /\ call' = [call EXCEPT ![c] = "looking_up"]
          BY <2>a, <3>3, <5>2 DEF InTime
        <5>3. QED
          BY <3>2, <5>1, <5>2
      <4>2. \A d \in Callers : d # c => (req'[d] = req[d] /\ call'[d] = call[d] /\ pc'[d] = pc[d])
        BY <3>1, <3>4
      <4>3. \A p \in pend : \E d \in Callers : InTime(d, p.req)'
        BY <3>1, <3>6, <4>2 DEF Undisturbed, InTime
      <4>4. \A i \in 1..Len(queue) :
              queue[i].type = "notify" => \E d \in Callers : InTime(d, queue[i].req)'
        BY <3>1, <3>6, <4>2 DEF Undisturbed, InTime
      <4>5. ASSUME NEW d \in Callers, (call[d] = "waiting" /\ ~shared[d])'
            PROVE (IF pc[d] = "idle" THEN HoldsOwn(result[d], d) ELSE HoldsOwn(data[obj[d]], d))'
        BY <3>1, <3>4, <3>6, <4>5 DEF Undisturbed, HoldsOwn
      <4>6. QED
        BY <3>1, <4>1, <4>3, <4>4, <4>5 DEF Undisturbed
    <3>7. \A d \in Callers : pc'[d] # "idle" => call'[d] = "waiting"
      BY <3>1, <3>4, <3>5 DEF OwnInv
    <3>8. \A d \in Callers : Requesting(d)' => outcome'[d] = "none_yet"
      BY <3>4 DEF OwnInv, Requesting
    <3>9. \A b, d \in Callers : (Requesting(b)' /\ Requesting(d)' /\ b # d) => shared'[b]
      BY <3>4 DEF OwnInv, Requesting
    <3>10. AnswerOfOwnRequest'
      BY <3>1, <3>4 DEF OwnInv, AnswerOfOwnRequest
    <3>11. QED
      BY <3>1, <3>6, <3>7, <3>8, <3>9, <3>10 DEF OwnInv
  <2>12. CASE UNCHANGED adapterVars
    <3>1. UNCHANGED <<data, pc, obj, result, call, req, outcome, late, shared, pend, nuns, queue>>
      BY <2>12 DEF adapterVars, syncVars, deviceVars, callVars, histVars
    <3>2. QED
      BY <3>1, OwnFrame
  <2>13. QED
    BY <2>1, <2>2, <2>3, <2>4, <2>5, <2>6, <2>7, <2>8, <2>9, <2>10, <2>11, <2>12
       DEF Next, CallStep, CallBegin
<1>3. QED
  BY <1>1, <1>2, Typed, PTL DEF Spec

(* An operation that returns an answer returns the one to its own request,  *)
(* if no other thread's operation overlapped it, none stopped waiting for   *)
(* an answer that came later, and nothing else was notified.                *)
THEOREM OwnAnswer == Spec => []AnswerOfOwnRequest
<1>1. OwnInv => AnswerOfOwnRequest
  BY DEF OwnInv
<1>2. QED
  BY <1>1, OwnHolds, PTL
=============================================================================
