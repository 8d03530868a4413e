----------------------------- MODULE BLEAdapter -----------------------------
(***************************************************************************)
(* The class BLEAdapter (ble_adapter.py): application threads that send a  *)
(* request to the SoftDevice and wait for the event answering it, the      *)
(* event worker that runs the adapter's event handlers, and the tables     *)
(* db_conns and evt_sync that the handlers keep of the connections.        *)
(*                                                                         *)
(* It composes three parts.  The EvtSync objects are those of module       *)
(* EvtSync, one for each connection: every wait and notify below is a step *)
(* of that module.  The path of an event from the SoftDevice to the        *)
(* handlers is the channel of module EventChannel that BLEDriver           *)
(* implements: one queue, in order.  The SoftDevice and the peer (not part *)
(* of the repository) are modelled by the events they may deliver.         *)
(*                                                                         *)
(* Connections are numbered in the order in which they are made; a         *)
(* connection stands for its Connection object, its EvtSync object and     *)
(* itself.  Handles are reused.                                            *)
(***************************************************************************)
EXTENDS Integers, Sequences, FiniteSets

CONSTANTS
  Callers,         \* application threads
  Handles,         \* connection handles of the SoftDevice
  Ops,             \* the blocking operations that are called
  Unsolicited,     \* event ids notified to EvtSync that nobody asked for
  Notifier, Free, NoEvent, NoValue,   \* see EvtSync
  MaxConns,        \* bound: connections made
  MaxReqs,         \* bound: requests sent
  MaxUnsolicited,  \* bound: unsolicited events
  MaxQueue,        \* bound: events on the way to the handlers
  ConnectInApp,    \* connect is called by application threads
  ConnectInCallback,  \* connect is called in on_gap_evt_adv_report
  CloseMayFail     \* driver.close raises after it has stopped the workers

Conns == 1..MaxConns
NoConn == 0

\* The event each blocking operation waits for.
AnswerEvent ==
  [ att_mtu_exchange    |-> "gattc_evt_exchange_mtu_rsp",
    phy_update          |-> "gap_evt_phy_update",
    data_length_update  |-> "gap_evt_data_length_update",
    conn_param_update   |-> "gap_evt_conn_param_update",
    enable_notification |-> "gattc_evt_write_rsp",
    disable_notification |-> "gattc_evt_write_rsp",
    enable_indication   |-> "gattc_evt_write_rsp",
    disable_indication  |-> "gattc_evt_write_rsp",
    write_req           |-> "gattc_evt_write_rsp",
    write_prep          |-> "gattc_evt_write_rsp",
    write_exec          |-> "gattc_evt_write_rsp",
    read_req            |-> "gattc_evt_read_rsp",
    encrypt             |-> "gap_evt_conn_sec_update" ]

\* The operations that look the connection up in db_conns before they send,
\* and those that do unless they are given attr_handle.
UsesDatabase ==
  {"enable_notification", "disable_notification", "enable_indication", "disable_indication",
   "encrypt"}
MayUseDatabase == {"write_req", "write_prep", "read_req"}

\* The operations that test whether wait returned None; the others subscript
\* None and raise TypeError.
ChecksNone == {"att_mtu_exchange", "phy_update", "data_length_update"}

ASSUME OpsAssumption == Ops \subseteq DOMAIN AnswerEvent
ASSUME AdapterBoundsAssumption ==
  /\ MaxConns \in Nat \ {0}
  /\ {MaxReqs, MaxUnsolicited, MaxQueue} \subseteq Nat

Events == {AnswerEvent[o] : o \in Ops} \cup Unsolicited
ASSUME AdapterThreadsAssumption == /\ Notifier \notin Callers
                                   /\ Free \notin Callers
                                   /\ Free # Notifier
ASSUME AdapterSetsAssumption == Handles # {} /\ Ops # {} /\ NoEvent \notin Events

Values == [req : 0..MaxReqs, conn : Conns]
MaxNotify == MaxReqs + MaxUnsolicited

VARIABLES
  data, lock, waiters, pc, obj, want, gotit, result, since, disturbed,
  npc, nobj, nevt, seq,   \* the EvtSync objects
  evtSync, dbConns,       \* the tables: handle -> connection or NoConn
  connInProgress,         \* self.conn_in_progress
  mtu,      \* mtu[g]: whose MTU exchange set att_mtu of Connection g
  isOpen,   \* the transport is open
  workerUp, \* the event worker runs
  worker,   \* what the event worker is in the middle of
  queue,    \* events delivered and not yet handled
  up,       \* SoftDevice: the connection behind each handle
  nconns,   \* SoftDevice: how many connections there have been
  attempt,  \* SoftDevice: a connection attempt is under way
  pend,     \* SoftDevice: requests that were not answered
  nreq, nuns,        \* how many requests, unsolicited events there have been
  call, op, hnd, req, \* application thread: step, operation, handle, request
  outcome,  \* how its last operation ended
  told,     \* the handles the application has been told of
  answered, \* history: the requests whose answer was notified in time
  overtaken, \* history: conn_in_progress was last lowered while a thread was
             \* between ble_gap_connect and raising it
  wiped,    \* history: the last close to forget the connections did so after
            \* another thread had opened the adapter again
  late,     \* history: an operation stopped waiting and its answer came later
  shared    \* history: another request was under way during this one

syncVars == <<data, lock, waiters, pc, obj, want, gotit, result, since, disturbed, npc, nobj, nevt, seq>>
tableVars == <<evtSync, dbConns, connInProgress, mtu>>
deviceVars == <<up, nconns, attempt, pend, nreq, nuns>>
callVars == <<call, op, hnd, req, outcome>>
histVars == <<told, answered, overtaken, wiped, late, shared>>
adapterVars == <<syncVars, tableVars, isOpen, workerUp, worker, queue, deviceVars,
                 callVars, histVars>>

Sync == INSTANCE EvtSync WITH Objects <- Conns

Requests == [req : 1..MaxReqs, conn : Conns, h : Handles, evt : Events]
QueueEvents ==
  [type : {"connected", "disconnected", "conn_timeout", "adv_report", "notify"},
   h : Handles, conn : Conns \cup {NoConn}, evt : Events \cup {NoEvent}, req : 0..MaxReqs]

Event(type, h, conn) == [type |-> type, h |-> h, conn |-> conn, evt |-> NoEvent, req |-> 0]
NotifyEvent(p) == [type |-> "notify", h |-> p.h, conn |-> p.conn, evt |-> p.evt, req |-> p.req]

CallStates == {"idle", "looking_up", "waiting", "connecting", "closing", "clearing"}
Outcomes == {"none_yet", "answer", "none", "key_error", "type_error", "error"}

TypeOK ==
  /\ Sync!TypeOK
  /\ evtSync \in [Handles -> Conns \cup {NoConn}]
  /\ dbConns \in [Handles -> Conns \cup {NoConn}]
  /\ connInProgress \in BOOLEAN
  /\ mtu \in [Conns -> Conns \cup {NoConn}]
  /\ isOpen \in BOOLEAN
  /\ workerUp \in BOOLEAN
  /\ worker \in {"idle", "notifying", "connecting"}
  /\ queue \in Seq(QueueEvents)
  /\ up \in [Handles -> Conns \cup {NoConn}]
  /\ nconns \in 0..MaxConns
  /\ attempt \in BOOLEAN
  /\ pend \subseteq Requests
  /\ nreq \in 0..MaxReqs
  /\ nuns \in 0..MaxUnsolicited
  /\ call \in [Callers -> CallStates]
  /\ op \in [Callers -> Ops]
  /\ hnd \in [Callers -> Handles]
  /\ req \in [Callers -> 0..MaxReqs]
  /\ outcome \in [Callers -> Outcomes]
  /\ told \subseteq Handles
  /\ answered \subseteq 1..MaxReqs
  /\ overtaken \in BOOLEAN
  /\ wiped \in BOOLEAN
  /\ late \in BOOLEAN
  /\ shared \in [Callers -> BOOLEAN]

Init ==
  /\ Sync!Init
  /\ obj = [c \in Callers |-> 1] /\ nobj = 1
  /\ \A c \in Callers : want[c] = nevt
  /\ nevt = CHOOSE e \in Events : TRUE
  /\ evtSync = [h \in Handles |-> NoConn]
  /\ dbConns = [h \in Handles |-> NoConn]
  /\ connInProgress = FALSE
  /\ mtu = [g \in Conns |-> NoConn]
  /\ isOpen = TRUE
  /\ workerUp = TRUE
  /\ worker = "idle"
  /\ queue = <<>>
  /\ up = [h \in Handles |-> NoConn]
  /\ nconns = 0
  /\ attempt = FALSE
  /\ pend = {}
  /\ nreq = 0
  /\ nuns = 0
  /\ call = [c \in Callers |-> "idle"]
  /\ op \in [Callers -> {CHOOSE o \in Ops : TRUE}]
  /\ hnd \in [Callers -> {CHOOSE h \in Handles : TRUE}]
  /\ req = [c \in Callers |-> 0]
  /\ outcome = [c \in Callers |-> "none_yet"]
  /\ told = {}
  /\ answered = {}
  /\ overtaken = FALSE
  /\ wiped = FALSE
  /\ late = FALSE
  /\ shared = [c \in Callers |-> FALSE]

-----------------------------------------------------------------------------
(* The SoftDevice: what it may deliver.                                     *)

Deliver(e) ==
  /\ isOpen
  /\ Len(queue) < MaxQueue
  /\ queue' = Append(queue, e)
  /\ UNCHANGED <<syncVars, tableVars, isOpen, workerUp, worker, callVars, histVars>>

\* A connection is made: ours (an attempt succeeds) or a peer's.
DeviceConnects(h, ours) ==
  /\ up[h] = NoConn
  /\ nconns < MaxConns
  /\ ours => attempt
  /\ attempt' = (attempt /\ ~ours)
  /\ nconns' = nconns + 1
  /\ up' = [up EXCEPT ![h] = nconns + 1]
  /\ Deliver(Event("connected", h, nconns + 1))
  /\ UNCHANGED <<pend, nreq, nuns>>

\* The attempt times out: gap_evt_timeout with src = conn.
DeviceGivesUp(h) ==
  /\ attempt
  /\ attempt' = FALSE
  /\ Deliver(Event("conn_timeout", h, NoConn))
  /\ UNCHANGED <<up, nconns, pend, nreq, nuns>>

\* The connection is lost, and with it what was asked on it.
DeviceDisconnects(h) ==
  /\ up[h] # NoConn
  /\ up' = [up EXCEPT ![h] = NoConn]
  /\ pend' = {p \in pend : p.conn # up[h]}
  /\ Deliver(Event("disconnected", h, up[h]))
  /\ UNCHANGED <<nconns, attempt, nreq, nuns>>

DeviceAnswers(p) ==
  /\ p \in pend
  /\ pend' = pend \ {p}
  /\ Deliver(NotifyEvent(p))
  /\ UNCHANGED <<up, nconns, attempt, nreq, nuns>>

DeviceNotifies(h, e) ==
  /\ up[h] # NoConn
  /\ nuns < MaxUnsolicited
  /\ nuns' = nuns + 1
  /\ Deliver(NotifyEvent([req |-> 0, conn |-> up[h], h |-> h, evt |-> e]))
  /\ UNCHANGED <<up, nconns, attempt, pend, nreq>>

DeviceReports(h) ==
  /\ ConnectInCallback
  /\ Deliver(Event("adv_report", h, NoConn))
  /\ UNCHANGED deviceVars

-----------------------------------------------------------------------------
(* The event worker: the adapter's handlers, one event at a time.           *)

Handling(type) ==
  /\ workerUp
  /\ queue # <<>>
  /\ Head(queue).type = type

\* Someone is inside driver.close() and holds the driver's api_lock.
ApiBusy == \E c \in Callers : call[c] = "closing"

\* The driver accepts ble_gap_connect.
DeviceAcceptsConnect == isOpen /\ ~attempt

\* conn_in_progress = False, perhaps while a thread is inside connect.
LowerConnFlag ==
  /\ connInProgress' = FALSE
  /\ overtaken' = \E c \in Callers : call[c] = "connecting"

\* Mutant of OnConnected: all connections share one EvtSync object.
OnConnectedShared ==
  LET e == Head(queue) IN
  /\ Handling("connected") /\ worker = "idle"
  /\ dbConns' = [dbConns EXCEPT ![e.h] = e.conn]
  /\ evtSync' = [evtSync EXCEPT ![e.h] = 1]
  /\ LowerConnFlag
  /\ told' = told \cup {e.h}
  /\ queue' = Tail(queue)
  /\ UNCHANGED <<syncVars, mtu, isOpen, workerUp, worker, deviceVars, callVars, answered, wiped,
                 late, shared>>

\* A new Connection, a new EvtSync, conn_in_progress = False; the application's
\* own on_gap_evt_connected, called next, learns the handle.
OnConnected ==
  LET e == Head(queue) IN
  /\ Handling("connected") /\ worker = "idle"
  /\ dbConns' = [dbConns EXCEPT ![e.h] = e.conn]
  /\ evtSync' = [evtSync EXCEPT ![e.h] = e.conn]
  /\ LowerConnFlag
  /\ told' = told \cup {e.h}
  /\ queue' = Tail(queue)
  /\ UNCHANGED <<syncVars, mtu, isOpen, workerUp, worker, deviceVars, callVars, answered, wiped,
                 late, shared>>

\* Both entries are deleted; a missing one is no error.
OnDisconnected ==
  LET e == Head(queue) IN
  /\ Handling("disconnected") /\ worker = "idle"
  /\ dbConns' = [dbConns EXCEPT ![e.h] = NoConn]
  /\ evtSync' = [evtSync EXCEPT ![e.h] = NoConn]
  /\ queue' = Tail(queue)
  /\ UNCHANGED <<syncVars, connInProgress, mtu, isOpen, workerUp, worker, deviceVars,
                 callVars, histVars>>

\* Mutant of OnTimeout: the handler ignores the timeout of an attempt.
OnTimeoutIgnored ==
  /\ Handling("conn_timeout") /\ worker = "idle"
  /\ queue' = Tail(queue)
  /\ UNCHANGED <<syncVars, tableVars, isOpen, workerUp, worker, deviceVars, callVars, histVars>>

\* on_gap_evt_timeout with src = conn.
OnTimeout ==
  /\ Handling("conn_timeout") /\ worker = "idle"
  /\ LowerConnFlag
  /\ queue' = Tail(queue)
  /\ UNCHANGED <<syncVars, evtSync, dbConns, mtu, isOpen, workerUp, worker, deviceVars,
                 callVars, told, answered, wiped, late, shared>>

\* c's operation has sent request r and its wait has not returned yet.
InTime(c, r) ==
  /\ req[c] = r
  /\ call[c] = "looking_up" \/ (call[c] = "waiting" /\ pc[c] # "idle")

\* self.evt_sync[conn_handle].notify(...) up to the write of the slot.  Without
\* an entry the handler raises KeyError and the event is lost.
OnNotify ==
  LET e == Head(queue) IN
  /\ Handling("notify") /\ worker = "idle"
  /\ IF evtSync[e.h] = NoConn
       THEN /\ queue' = Tail(queue)
            /\ UNCHANGED <<syncVars, worker, answered>>
       ELSE /\ Sync!Publish(evtSync[e.h], e.evt, [req |-> e.req, conn |-> e.conn])
            /\ worker' = "notifying"
            /\ answered' = answered \cup {req[c] : c \in {d \in Callers : InTime(d, e.req)}}
            /\ UNCHANGED queue
  /\ UNCHANGED <<tableVars, isOpen, workerUp, deviceVars, callVars, told, overtaken, wiped,
                 late, shared>>

OnNotifyEnd ==
  /\ worker = "notifying"
  /\ Sync!NotifyAll
  /\ worker' = "idle"
  /\ queue' = Tail(queue)
  /\ UNCHANGED <<tableVars, isOpen, workerUp, deviceVars, callVars, histVars>>

\* The application's on_gap_evt_adv_report calls connect: nothing happens if
\* conn_in_progress, or if the driver raises.  The callback does not overlap
\* a close here: module BLEDriver shows what happens when it does.
OnAdvReport ==
  /\ Handling("adv_report") /\ worker = "idle"
  /\ ~ApiBusy
  /\ IF ~connInProgress /\ DeviceAcceptsConnect
       THEN /\ attempt' = TRUE
            /\ worker' = "connecting"
            /\ UNCHANGED queue
       ELSE /\ queue' = Tail(queue)
            /\ UNCHANGED <<attempt, worker>>
  /\ UNCHANGED <<syncVars, tableVars, isOpen, workerUp, up, nconns, pend, nreq, nuns,
                 callVars, histVars>>

OnAdvReportEnd ==
  /\ worker = "connecting"
  /\ connInProgress' = TRUE
  /\ worker' = "idle"
  /\ queue' = Tail(queue)
  /\ UNCHANGED <<syncVars, evtSync, dbConns, mtu, isOpen, workerUp, deviceVars,
                 callVars, histVars>>

Handler ==
  \/ OnConnected \/ OnDisconnected \/ OnTimeout
  \/ OnNotify \/ OnNotifyEnd
  \/ OnAdvReport \/ OnAdvReportEnd

-----------------------------------------------------------------------------
(* The application threads.                                                 *)

\* The SoftDevice takes one request of a kind at a time on a connection.
DeviceAcceptsRequest(h, e) ==
  /\ isOpen
  /\ up[h] # NoConn
  /\ ~\E p \in pend : p.conn = up[h] /\ p.evt = e

EndCall(c, how) ==
  /\ call' = [call EXCEPT ![c] = "idle"]
  /\ outcome' = [outcome EXCEPT ![c] = how]

Requesting(c) == call[c] \in {"looking_up", "waiting"}

\* An operation up to the return of its driver call.  It raises KeyError if it
\* needs the Connection and there is none, an error if the attribute is not in
\* the Connection's database or the SoftDevice refuses.
Request(c, o, h) ==
  LET e == AnswerEvent[o] IN
  /\ call[c] = "idle"
  /\ ~ApiBusy
  /\ h \in told
  /\ nreq < MaxReqs
  /\ op' = [op EXCEPT ![c] = o]
  /\ hnd' = [hnd EXCEPT ![c] = h]
  /\ shared' = [b \in Callers |-> IF b = c THEN \E d \in Callers \ {c} : Requesting(d)
                                           ELSE shared[b] \/ Requesting(b)]
  /\ \E looksUp \in BOOLEAN :
       /\ o \in UsesDatabase => looksUp
       /\ looksUp => o \in UsesDatabase \cup MayUseDatabase
       /\ \/ /\ looksUp /\ dbConns[h] = NoConn
             /\ EndCall(c, "key_error")
             /\ UNCHANGED <<req, pend, nreq>>
          \/ /\ looksUp => dbConns[h] # NoConn
             /\ looksUp \/ ~DeviceAcceptsRequest(h, e)
             /\ EndCall(c, "error")
             /\ UNCHANGED <<req, pend, nreq>>
          \/ /\ looksUp => dbConns[h] # NoConn
             /\ DeviceAcceptsRequest(h, e)
             /\ nreq' = nreq + 1
             /\ req' = [req EXCEPT ![c] = nreq + 1]
             /\ pend' = pend \cup {[req |-> nreq + 1, conn |-> up[h], h |-> h, evt |-> e]}
             /\ call' = [call EXCEPT ![c] = "looking_up"]
             /\ outcome' = [outcome EXCEPT ![c] = "none_yet"]
  /\ UNCHANGED <<syncVars, tableVars, isOpen, workerUp, worker, queue, up, nconns, attempt,
                 nuns, told, answered, overtaken, wiped, late>>

\* The answer to c's request may still come.
AnswerOnItsWay(c) ==
  \/ \E p \in pend : p.req = req[c]
  \/ \E i \in 1..Len(queue) : queue[i].req = req[c]

\* Mutant of LookUp: it is retried until there is an entry.
LookUpRetries(c) ==
  LET g == evtSync[hnd[c]] IN
  /\ call[c] = "looking_up"
  /\ g # NoConn
  /\ Sync!Wait(c, g, AnswerEvent[op[c]])
  /\ call' = [call EXCEPT ![c] = "waiting"]
  /\ UNCHANGED <<tableVars, isOpen, workerUp, worker, queue, deviceVars, op, hnd, req, outcome,
                 histVars>>

\* self.evt_sync[conn_handle].wait(...): KeyError if the entry is gone.
LookUp(c) ==
  LET g == evtSync[hnd[c]] IN
  /\ call[c] = "looking_up"
  /\ IF g = NoConn
       THEN /\ EndCall(c, "key_error")
            /\ late' = (late \/ AnswerOnItsWay(c))
            /\ UNCHANGED syncVars
       ELSE /\ Sync!Wait(c, g, AnswerEvent[op[c]])
            /\ call' = [call EXCEPT ![c] = "waiting"]
            /\ UNCHANGED <<outcome, late>>
  /\ UNCHANGED <<tableVars, isOpen, workerUp, worker, queue, deviceVars, op, hnd, req,
                 told, answered, overtaken, wiped, shared>>

WaitStep(c) ==
  /\ \/ (Sync!Register(c) \/ Sync!Timeout(c) \/ Sync!Reacquire(c)) /\ UNCHANGED late
     \/ Sync!Return(c) /\ late' = (late \/ AnswerOnItsWay(c))
  /\ UNCHANGED <<tableVars, isOpen, workerUp, worker, queue, deviceVars, callVars,
                 told, answered, overtaken, wiped, shared>>

\* What the operation does with the result.  att_mtu_exchange reads or writes
\* att_mtu of the Connection that db_conns now has for the handle.  What
\* disable_indication returns is the None of disable_notification, for which its
\* own NordicSemiErrorCheck raises, whatever the peer answered.
Finish(c) ==
  LET isMtu == op[c] = "att_mtu_exchange"
      now == dbConns[hnd[c]]
      got == result[c] # Sync!None
  IN
  /\ call[c] = "waiting" /\ pc[c] = "idle"
  /\ EndCall(c, IF isMtu /\ now = NoConn THEN "key_error"
                ELSE IF got THEN IF op[c] = "disable_indication" THEN "error" ELSE "answer"
                ELSE IF op[c] \in ChecksNone THEN "none" ELSE "type_error")
  /\ mtu' = IF isMtu /\ got /\ now # NoConn
              THEN [mtu EXCEPT ![now] = result[c].val.conn]
              ELSE mtu
  /\ UNCHANGED <<syncVars, evtSync, dbConns, connInProgress, isOpen, workerUp, worker, queue,
                 deviceVars, op, hnd, req, histVars>>

\* connect, called by an application thread: the driver call ...
Connect(c) ==
  /\ ConnectInApp
  /\ call[c] = "idle"
  /\ ~ApiBusy
  /\ ~connInProgress /\ DeviceAcceptsConnect
  /\ attempt' = TRUE
  /\ call' = [call EXCEPT ![c] = "connecting"]
  /\ UNCHANGED <<syncVars, tableVars, isOpen, workerUp, worker, queue, up, nconns, pend, nreq,
                 nuns, op, hnd, req, outcome, histVars>>

\* ... and then self.conn_in_progress = True.
ConnectEnd(c) ==
  /\ call[c] = "connecting"
  /\ connInProgress' = TRUE
  /\ call' = [call EXCEPT ![c] = "idle"]
  /\ UNCHANGED <<syncVars, evtSync, dbConns, mtu, isOpen, workerUp, worker, queue, deviceVars,
                 op, hnd, req, outcome, histVars>>

\* close: driver.close() closes the transport ...
Close(c) ==
  /\ call[c] = "idle"
  /\ isOpen
  /\ ~ApiBusy
  /\ isOpen' = FALSE
  /\ up' = [h \in Handles |-> NoConn]
  /\ attempt' = FALSE
  /\ pend' = {}
  /\ call' = [call EXCEPT ![c] = "closing"]
  /\ UNCHANGED <<syncVars, tableVars, workerUp, worker, queue, nconns, nreq, nuns,
                 op, hnd, req, outcome, histVars>>

\* ... joins the event worker, empties the queue, and returns or raises ...
CloseJoin(c) ==
  /\ call[c] = "closing"
  /\ worker = "idle"
  /\ workerUp' = FALSE
  /\ queue' = <<>>
  /\ \/ call' = [call EXCEPT ![c] = "clearing"]
     \/ CloseMayFail /\ call' = [call EXCEPT ![c] = "idle"]
  /\ UNCHANGED <<syncVars, tableVars, isOpen, worker, deviceVars, op, hnd, req, outcome, histVars>>

\* Mutant of CloseClear: the handles are forgotten altogether.
CloseClearDomain(c) ==
  /\ call[c] = "clearing"
  /\ LowerConnFlag
  /\ wiped' = isOpen
  /\ dbConns' = [h \in Handles |-> NoConn]
  /\ evtSync' = <<>>
  /\ call' = [call EXCEPT ![c] = "idle"]
  /\ UNCHANGED <<syncVars, mtu, isOpen, workerUp, worker, queue, deviceVars, op, hnd, req,
                 outcome, told, answered, late, shared>>

\* Mutant of CloseClear: the EvtSync objects are kept.
CloseClearKeepsSync(c) ==
  /\ call[c] = "clearing"
  /\ LowerConnFlag
  /\ wiped' = isOpen
  /\ dbConns' = [h \in Handles |-> NoConn]
  /\ evtSync' = evtSync
  /\ call' = [call EXCEPT ![c] = "idle"]
  /\ UNCHANGED <<syncVars, mtu, isOpen, workerUp, worker, queue, deviceVars, op, hnd, req,
                 outcome, told, answered, late, shared>>

\* ... and the adapter forgets its connections, outside of the driver's lock:
\* also those of an adapter that another thread has opened again.
CloseClear(c) ==
  /\ call[c] = "clearing"
  /\ LowerConnFlag
  /\ wiped' = isOpen
  /\ dbConns' = [h \in Handles |-> NoConn]
  /\ evtSync' = [h \in Handles |-> NoConn]
  /\ call' = [call EXCEPT ![c] = "idle"]
  /\ UNCHANGED <<syncVars, mtu, isOpen, workerUp, worker, queue, deviceVars, op, hnd, req,
                 outcome, told, answered, late, shared>>

\* open, when nobody is inside driver.close().
Open(c) ==
  /\ call[c] = "idle"
  /\ ~isOpen
  /\ ~ApiBusy
  /\ isOpen' = TRUE
  /\ workerUp' = TRUE
  /\ UNCHANGED <<syncVars, tableVars, worker, queue, deviceVars, callVars, histVars>>

-----------------------------------------------------------------------------
DeviceStep ==
  \/ \E h \in Handles, ours \in BOOLEAN : DeviceConnects(h, ours)
  \/ \E h \in Handles : DeviceGivesUp(h) \/ DeviceDisconnects(h) \/ DeviceReports(h)
  \/ \E p \in pend : DeviceAnswers(p)
  \/ \E h \in Handles, e \in Unsolicited : DeviceNotifies(h, e)

\* What a thread does inside an operation it has begun.
CallStep(c) ==
  \/ LookUp(c) \/ WaitStep(c) \/ Finish(c)
  \/ ConnectEnd(c) \/ CloseJoin(c) \/ CloseClear(c)

CallBegin(c) ==
  \/ \E o \in Ops, h \in Handles : Request(c, o, h)
  \/ Connect(c) \/ Close(c) \/ Open(c)

Next ==
  \/ DeviceStep
  \/ Handler
  \/ \E c \in Callers : CallStep(c) \/ CallBegin(c)

Spec == Init /\ [][Next]_adapterVars

(* The threads keep running, timeouts expire, and a lock that is released   *)
(* again and again is obtained.  The SoftDevice owes nothing.               *)
Fairness ==
  /\ WF_adapterVars(Handler)
  /\ \A c \in Callers : SF_adapterVars(CallStep(c))

FairSpec == Spec /\ Fairness

-----------------------------------------------------------------------------
(* A wait never returns what was answered on another connection, although   *)
(* handles are reused: the handlers replace the EvtSync object with the     *)
(* connection, and a caller keeps the one it looked up.                     *)
AnswersSameConnection ==
  \A c \in Callers :
    (pc[c] = "idle" /\ result[c] # Sync!None) => result[c].val.conn = obj[c]

NobodyCloses == \A c \in Callers : call[c] \notin {"closing", "clearing"}

Settled ==
  /\ isOpen /\ workerUp
  /\ queue = <<>>
  /\ worker = "idle"
  /\ NobodyCloses

(* When every event has been handled, both tables have exactly the          *)
(* connections of the SoftDevice, also after disconnections, reuse of a     *)
(* handle, and a close and reopen.  The exception is a close that clears    *)
(* the tables (lines 187 to 189) of an adapter that another thread has      *)
(* opened again in the meantime.                                            *)
TablesFollowEvents ==
  (Settled /\ ~wiped) => evtSync = up /\ dbConns = up

(* When every event has been handled and no attempt is under way,           *)
(* conn_in_progress is down: connect does not ignore its next call.  The    *)
(* exception is a connect whose attempt ended before it raised the flag     *)
(* (line 205): the handler runs first, and the flag stays up.               *)
ConnectFlagCleared ==
  (Settled /\ ~attempt /\ ~overtaken /\ \A c \in Callers : call[c] # "connecting")
    => ~connInProgress

(* An operation that returns an answer returns the one to its own request,  *)
(* even after operations that failed or lost their answer, if no other      *)
(* thread's operation overlapped it, none stopped waiting for an answer     *)
(* that came later, and nothing else was notified.                          *)
AnswerOfOwnRequest ==
  \A c \in Callers :
    (outcome[c] = "answer" /\ ~shared[c] /\ ~late /\ nuns = 0) => result[c].val.req = req[c]

(* tests/test_mtu.py:180-182 asserts that att_mtu_exchange returns the MTU  *)
(* that was exchanged once the peer has answered: an operation whose answer *)
(* is notified before its wait returns does not return without it.          *)
AnsweredCallReturnsAnswer ==
  \A c \in Callers : outcome[c] = "none" => req[c] \notin answered

(* Every operation returns or raises, also when the connection or the       *)
(* driver goes away meanwhile.                                              *)
CallReturns ==
  \A c \in Callers : Requesting(c) ~> call[c] = "idle"
=============================================================================
