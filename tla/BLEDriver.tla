------------------------------ MODULE BLEDriver ------------------------------
(***************************************************************************)
(* The threads of class BLEDriver (ble_driver.py): application threads     *)
(* that open and close drivers, call the SoftDevice API and register       *)
(* observers; the native library's threads, which put log messages, status *)
(* messages and BLE events on the driver's queues; and the workers that    *)
(* take items off the queues and hand them to the observers.               *)
(*                                                                         *)
(* The two locks are attributes of the CLASS, not of a driver: api_lock    *)
(* serialises every API call of the process (open and close included),     *)
(* observer_lock every dispatch.  Neither is reentrant.                    *)
(*                                                                         *)
(* The streams (log, status, event) are numbered in the order in which     *)
(* close joins their workers; each open starts one worker for each.        *)
(***************************************************************************)
EXTENDS Integers, Sequences, FiniteSets

CONSTANTS
  Drivers,       \* BLEDriver objects of the process
  Apps,          \* application threads
  Observers,     \* objects that may be registered with a driver
  NumStreams,    \* how many of the streams are modelled
  Free,          \* the owner of a lock nobody holds
  MaxOpens,      \* bound: calls of open for each driver
  MaxItems,      \* bound: items put on each queue
  MaxObservers,  \* bound: length of a driver's list of observers
  OpenMayFail,   \* whether sd_rpc_open may return an error
  ReopenRunning, \* whether open is called on a driver whose workers run
  Closing,       \* the drivers the application closes
  Calling,       \* the drivers whose callbacks call the API
  Raising        \* the drivers whose callbacks may raise

Streams == 1..NumStreams
Workers == Drivers \X Streams \X (1..MaxOpens)
Threads == Apps \cup Workers

ASSUME BoundsAssumption ==
  /\ NumStreams \in 1..3
  /\ MaxOpens \in Nat \ {0}
  /\ MaxItems \in Nat
  /\ MaxObservers \in Nat
ASSUME FlagsAssumption ==
  /\ OpenMayFail \in BOOLEAN
  /\ ReopenRunning \in BOOLEAN
  /\ Closing \subseteq Drivers
  /\ Calling \subseteq Drivers
  /\ Raising \subseteq Drivers
ASSUME FreeAssumption == Free \notin Threads
ASSUME AppsAssumption == Apps \cap Workers = {}

VARIABLES
  apiLock,    \* BLEDriver.api_lock
  obsLock,    \* BLEDriver.observer_lock
  ctx,        \* ctx[d]: the binding has an adapter context for d
  link,       \* link[d]: the native library delivers callbacks
  run,        \* run[d]: self.run_workers
  gen,        \* gen[d]: how many sets of workers were started; the
              \* attributes log_worker, ... name the last one
  observers,  \* observers[d]: the list self.observers
  queue,      \* queue[d][k]: the queue of a stream
  made,       \* history: how many items were put on it
  handed,     \* history: the items whose dispatch began, in order
  pc, cur, idx,     \* application thread: step, driver, stream
  wpc, item, next   \* worker: step, item in hand, observer it is at

appVars == <<pc, cur, idx>>
workerVars == <<wpc, item, next>>
driverVars == <<apiLock, obsLock, ctx, link, run, gen, observers, queue, made,
                handed, appVars, workerVars>>

\* An item remembers its number and the session (open) it was put in.
Items == [num : Nat, session : Nat]
NoItem == [num |-> 0, session |-> 0]

DriverOf(w) == w[1]
StreamOf(w) == w[2]
CurrentWorker(d, k) == <<d, k, gen[d]>>

AppStates == {"idle", "starting", "registering_ctx", "rpc_opening",
              "rpc_closing", "joining", "calling"}
WorkerStates == {"none", "checking", "getting", "locking", "dispatching",
                 "cb_locking", "cb_calling", "exited"}

TypeOK ==
  /\ apiLock \in Threads \cup {Free}
  /\ obsLock \in Threads \cup {Free}
  /\ ctx \in [Drivers -> BOOLEAN]
  /\ link \in [Drivers -> BOOLEAN]
  /\ run \in [Drivers -> BOOLEAN]
  /\ gen \in [Drivers -> 0..MaxOpens]
  /\ observers \in [Drivers -> Seq(Observers)]
  /\ queue \in [Drivers -> [Streams -> Seq(Items)]]
  /\ made \in [Drivers -> [Streams -> Nat]]
  /\ handed \in [Drivers -> [Streams -> Seq(Items)]]
  /\ pc \in [Apps -> AppStates]
  /\ cur \in [Apps -> Drivers]
  /\ idx \in [Apps -> Streams]
  /\ wpc \in [Workers -> WorkerStates]
  /\ item \in [Workers -> Items]
  /\ next \in [Workers -> Nat]

Init ==
  /\ apiLock = Free
  /\ obsLock = Free
  /\ ctx = [d \in Drivers |-> FALSE]
  /\ link = [d \in Drivers |-> FALSE]
  /\ run = [d \in Drivers |-> FALSE]
  /\ gen = [d \in Drivers |-> 0]
  /\ observers = [d \in Drivers |-> <<>>]
  /\ queue = [d \in Drivers |-> [k \in Streams |-> <<>>]]
  /\ made = [d \in Drivers |-> [k \in Streams |-> 0]]
  /\ handed = [d \in Drivers |-> [k \in Streams |-> <<>>]]
  /\ pc = [a \in Apps |-> "idle"]
  /\ cur \in [Apps -> Drivers]
  /\ idx = [a \in Apps |-> 1]
  /\ wpc = [w \in Workers |-> "none"]
  /\ item = [w \in Workers |-> NoItem]
  /\ next = [w \in Workers |-> 1]

-----------------------------------------------------------------------------
(* open() *)

\* api_lock; self.run_workers = True.
OpenBegin(a, d) ==
  /\ pc[a] = "idle"
  /\ apiLock = Free
  /\ gen[d] < MaxOpens
  /\ ReopenRunning \/ ~run[d]
  /\ apiLock' = a
  /\ run' = [run EXCEPT ![d] = TRUE]
  /\ gen' = [gen EXCEPT ![d] = @ + 1]
  /\ pc' = [pc EXCEPT ![a] = "starting"]
  /\ cur' = [cur EXCEPT ![a] = d]
  /\ idx' = [idx EXCEPT ![a] = 1]
  /\ UNCHANGED <<obsLock, ctx, link, observers, queue, made, handed, workerVars>>

\* self.log_worker.start(), and so on for each stream.
StartWorker(a) ==
  /\ pc[a] = "starting"
  /\ wpc' = [wpc EXCEPT ![CurrentWorker(cur[a], idx[a])] = "checking"]
  /\ IF idx[a] < NumStreams
       THEN /\ idx' = [idx EXCEPT ![a] = @ + 1]
            /\ UNCHANGED pc
       ELSE /\ pc' = [pc EXCEPT ![a] = "registering_ctx"]
            /\ UNCHANGED idx
  /\ UNCHANGED <<apiLock, obsLock, ctx, link, run, gen, observers, queue, made, handed,
                 cur, item, next>>

\* sd_rpc_open_py up to the call of sd_rpc_open: it refuses an adapter that
\* has a context already, and open raises.
RpcOpenBegin(a) ==
  LET d == cur[a] IN
  /\ pc[a] = "registering_ctx"
  /\ IF ctx[d]
       THEN /\ pc' = [pc EXCEPT ![a] = "idle"]
            /\ apiLock' = Free
            /\ UNCHANGED <<ctx, link>>
       ELSE /\ pc' = [pc EXCEPT ![a] = "rpc_opening"]
            /\ ctx' = [ctx EXCEPT ![d] = TRUE]
            /\ link' = [link EXCEPT ![d] = TRUE]
            /\ UNCHANGED apiLock
  /\ UNCHANGED <<obsLock, run, gen, observers, queue, made, handed, cur, idx, workerVars>>

\* sd_rpc_open returns.  On an error open raises; the workers keep running
\* and the context stays registered.
RpcOpenEnd(a) ==
  LET d == cur[a] IN
  /\ pc[a] = "rpc_opening"
  /\ \/ UNCHANGED link
     \/ OpenMayFail /\ link' = [link EXCEPT ![d] = FALSE]
  /\ pc' = [pc EXCEPT ![a] = "idle"]
  /\ apiLock' = Free
  /\ UNCHANGED <<obsLock, ctx, run, gen, observers, queue, made, handed, cur, idx, workerVars>>

(* close() *)

\* api_lock; the call of sd_rpc_close.  On a driver without a context it
\* raises and changes nothing.
CloseBegin(a, d) ==
  /\ pc[a] = "idle"
  /\ apiLock = Free
  /\ d \in Closing
  /\ ctx[d]
  /\ apiLock' = a
  /\ pc' = [pc EXCEPT ![a] = "rpc_closing"]
  /\ cur' = [cur EXCEPT ![a] = d]
  /\ UNCHANGED <<obsLock, ctx, link, run, gen, observers, queue, made, handed, idx, workerVars>>

\* Mutant of StopWorkers: run_workers stays True.
StopWorkersRunning(a) ==
  LET d == cur[a] IN
  /\ pc[a] = "rpc_closing"
  /\ link' = [link EXCEPT ![d] = FALSE]
  /\ ctx' = [ctx EXCEPT ![d] = FALSE]
  /\ pc' = [pc EXCEPT ![a] = "joining"]
  /\ idx' = [idx EXCEPT ![a] = 1]
  /\ UNCHANGED <<apiLock, obsLock, run, gen, observers, queue, made, handed, cur, workerVars>>

\* sd_rpc_close has returned: no more callbacks, the context is gone; then
\* self.run_workers = False.
StopWorkers(a) ==
  LET d == cur[a] IN
  /\ pc[a] = "rpc_closing"
  /\ link' = [link EXCEPT ![d] = FALSE]
  /\ ctx' = [ctx EXCEPT ![d] = FALSE]
  /\ run' = [run EXCEPT ![d] = FALSE]
  /\ pc' = [pc EXCEPT ![a] = "joining"]
  /\ idx' = [idx EXCEPT ![a] = 1]
  /\ UNCHANGED <<apiLock, obsLock, gen, observers, queue, made, handed, cur, workerVars>>

\* Mutant of JoinWorker: close does not wait for the worker.
JoinWorkerEarly(a) ==
  LET d == cur[a]  k == idx[a] IN
  /\ pc[a] = "joining"
  /\ queue' = [queue EXCEPT ![d][k] = <<>>]
  /\ IF k < NumStreams
       THEN /\ idx' = [idx EXCEPT ![a] = k + 1]
            /\ UNCHANGED <<pc, apiLock>>
       ELSE /\ pc' = [pc EXCEPT ![a] = "idle"]
            /\ apiLock' = Free
            /\ UNCHANGED idx
  /\ UNCHANGED <<obsLock, ctx, link, run, gen, observers, made, handed, cur, workerVars>>

\* Mutant of JoinWorker: the queue is not emptied.
JoinWorkerKeep(a) ==
  LET d == cur[a]  k == idx[a] IN
  /\ pc[a] = "joining"
  /\ wpc[CurrentWorker(d, k)] = "exited"
  /\ IF k < NumStreams
       THEN /\ idx' = [idx EXCEPT ![a] = k + 1]
            /\ UNCHANGED <<pc, apiLock>>
       ELSE /\ pc' = [pc EXCEPT ![a] = "idle"]
            /\ apiLock' = Free
            /\ UNCHANGED idx
  /\ UNCHANGED <<obsLock, ctx, link, run, gen, observers, queue, made, handed, cur, workerVars>>

\* Mutant of JoinWorker: it steps beyond the last stream.
JoinWorkerOverrun(a) ==
  LET d == cur[a]  k == idx[a] IN
  /\ pc[a] = "joining"
  /\ wpc[CurrentWorker(d, k)] = "exited"
  /\ queue' = [queue EXCEPT ![d][k] = <<>>]
  /\ idx' = [idx EXCEPT ![a] = k + 1]
  /\ IF k < NumStreams
       THEN UNCHANGED <<pc, apiLock>>
       ELSE /\ pc' = [pc EXCEPT ![a] = "idle"]
            /\ apiLock' = Free
  /\ UNCHANGED <<obsLock, ctx, link, run, gen, observers, made, handed, cur, workerVars>>

\* worker.join(), and its queue is emptied; the last one ends close.
JoinWorker(a) ==
  LET d == cur[a]  k == idx[a] IN
  /\ pc[a] = "joining"
  /\ wpc[CurrentWorker(d, k)] = "exited"
  /\ queue' = [queue EXCEPT ![d][k] = <<>>]
  /\ IF k < NumStreams
       THEN /\ idx' = [idx EXCEPT ![a] = k + 1]
            /\ UNCHANGED <<pc, apiLock>>
       ELSE /\ pc' = [pc EXCEPT ![a] = "idle"]
            /\ apiLock' = Free
            /\ UNCHANGED idx
  /\ UNCHANGED <<obsLock, ctx, link, run, gen, observers, made, handed, cur, workerVars>>

(* Every other method decorated with synchronized(api_lock) *)

\* Mutant of ApiCall: the method is not synchronized.
ApiCallUnlocked(a) ==
  /\ pc[a] = "idle"
  /\ pc' = [pc EXCEPT ![a] = "calling"]
  /\ UNCHANGED <<apiLock, obsLock, ctx, link, run, gen, observers, queue, made, handed,
                 cur, idx, workerVars>>

ApiCall(a) ==
  /\ pc[a] = "idle"
  /\ apiLock = Free
  /\ apiLock' = a
  /\ pc' = [pc EXCEPT ![a] = "calling"]
  /\ UNCHANGED <<obsLock, ctx, link, run, gen, observers, queue, made, handed, cur, idx, workerVars>>

ApiReturn(a) ==
  /\ pc[a] = "calling"
  /\ apiLock' = Free
  /\ pc' = [pc EXCEPT ![a] = "idle"]
  /\ UNCHANGED <<obsLock, ctx, link, run, gen, observers, queue, made, handed, cur, idx, workerVars>>

(* observer_register(o) and observer_unregister(o), under observer_lock *)

\* Mutant of ObserverRegister: the method is not synchronized.
ObserverRegisterUnlocked(a, d, o) ==
  /\ pc[a] = "idle"
  /\ Len(observers[d]) < MaxObservers
  /\ observers' = [observers EXCEPT ![d] = Append(@, o)]
  /\ UNCHANGED <<apiLock, obsLock, ctx, link, run, gen, queue, made, handed, appVars, workerVars>>

ObserverRegister(a, d, o) ==
  /\ pc[a] = "idle"
  /\ obsLock = Free
  /\ Len(observers[d]) < MaxObservers
  /\ observers' = [observers EXCEPT ![d] = Append(@, o)]
  /\ UNCHANGED <<apiLock, obsLock, ctx, link, run, gen, queue, made, handed, appVars, workerVars>>

\* list.remove takes the first occurrence away, and raises if there is none.
ObserverUnregister(a, d, o) ==
  LET s == observers[d] IN
  /\ pc[a] = "idle"
  /\ obsLock = Free
  /\ \E i \in 1..Len(s) :
       /\ s[i] = o
       /\ \A j \in 1..(i - 1) : s[j] # o
       /\ observers' = [observers EXCEPT ![d] = SubSeq(s, 1, i - 1) \o SubSeq(s, i + 1, Len(s))]
  /\ UNCHANGED <<apiLock, obsLock, ctx, link, run, gen, queue, made, handed, appVars, workerVars>>

-----------------------------------------------------------------------------
(* A native callback: log_message_handler, status_handler and               *)
(* ble_event_handler put the item on their queue.                           *)
Enqueue(d, k) ==
  /\ ctx[d] /\ link[d]
  /\ made[d][k] < MaxItems
  /\ made' = [made EXCEPT ![d][k] = @ + 1]
  /\ queue' = [queue EXCEPT ![d][k] =
                 Append(@, [num |-> made[d][k] + 1, session |-> gen[d]])]
  /\ UNCHANGED <<apiLock, obsLock, ctx, link, run, gen, observers, handed, appVars, workerVars>>

-----------------------------------------------------------------------------
(* The worker threads *)

\* Mutant of CheckRun: a worker stops only if it belongs to the last set.
CheckRunOfSet(w) ==
  /\ wpc[w] = "checking"
  /\ wpc' = [wpc EXCEPT ![w] =
               IF run[DriverOf(w)] \/ w[3] # gen[DriverOf(w)] THEN "getting" ELSE "exited"]
  /\ UNCHANGED <<apiLock, obsLock, ctx, link, run, gen, observers, queue, made, handed,
                 appVars, item, next>>

\* while self.run_workers
CheckRun(w) ==
  /\ wpc[w] = "checking"
  /\ wpc' = [wpc EXCEPT ![w] = IF run[DriverOf(w)] THEN "getting" ELSE "exited"]
  /\ UNCHANGED <<apiLock, obsLock, ctx, link, run, gen, observers, queue, made, handed,
                 appVars, item, next>>

\* Mutant of Get: the newest item is taken.
GetNewest(w) ==
  LET d == DriverOf(w)  k == StreamOf(w) IN
  /\ wpc[w] = "getting"
  /\ queue[d][k] # <<>>
  /\ item' = [item EXCEPT ![w] = queue[d][k][Len(queue[d][k])]]
  /\ queue' = [queue EXCEPT ![d][k] = SubSeq(@, 1, Len(@) - 1)]
  /\ wpc' = [wpc EXCEPT ![w] = "locking"]
  /\ UNCHANGED <<apiLock, obsLock, ctx, link, run, gen, observers, made, handed, appVars, next>>

\* get(True, WORKER_QUEUE_WAIT_TIME) returns an item.
Get(w) ==
  LET d == DriverOf(w)  k == StreamOf(w) IN
  /\ wpc[w] = "getting"
  /\ queue[d][k] # <<>>
  /\ item' = [item EXCEPT ![w] = Head(queue[d][k])]
  /\ queue' = [queue EXCEPT ![d][k] = Tail(@)]
  /\ wpc' = [wpc EXCEPT ![w] = "locking"]
  /\ UNCHANGED <<apiLock, obsLock, ctx, link, run, gen, observers, made, handed, appVars, next>>

\* get raises queue.Empty.
GetEmpty(w) ==
  /\ wpc[w] = "getting"
  /\ queue[DriverOf(w)][StreamOf(w)] = <<>>
  /\ wpc' = [wpc EXCEPT ![w] = "checking"]
  /\ UNCHANGED <<apiLock, obsLock, ctx, link, run, gen, observers, queue, made, handed,
                 appVars, item, next>>

\* The handler takes observer_lock.
DispatchBegin(w) ==
  /\ wpc[w] = "locking"
  /\ obsLock = Free
  /\ obsLock' = w
  /\ handed' = [handed EXCEPT ![DriverOf(w)][StreamOf(w)] = Append(@, item[w])]
  /\ next' = [next EXCEPT ![w] = 1]
  /\ wpc' = [wpc EXCEPT ![w] = "dispatching"]
  /\ UNCHANGED <<apiLock, ctx, link, run, gen, observers, queue, made, appVars, item>>

AtObserver(w) ==
  wpc[w] = "dispatching" /\ next[w] <= Len(observers[DriverOf(w)])

\* The callback of the next observer returns.
CallbackReturns(w) ==
  /\ AtObserver(w)
  /\ next' = [next EXCEPT ![w] = @ + 1]
  /\ UNCHANGED <<apiLock, obsLock, ctx, link, run, gen, observers, queue, made, handed,
                 appVars, wpc, item>>

\* The callback calls an API method, which takes api_lock ...
CallbackCalls(w) ==
  /\ AtObserver(w)
  /\ DriverOf(w) \in Calling
  /\ wpc' = [wpc EXCEPT ![w] = "cb_locking"]
  /\ UNCHANGED <<apiLock, obsLock, ctx, link, run, gen, observers, queue, made, handed,
                 appVars, item, next>>

CallbackLocksApi(w) ==
  /\ wpc[w] = "cb_locking"
  /\ apiLock = Free
  /\ apiLock' = w
  /\ wpc' = [wpc EXCEPT ![w] = "cb_calling"]
  /\ UNCHANGED <<obsLock, ctx, link, run, gen, observers, queue, made, handed,
                 appVars, item, next>>

\* ... and returns to the callback, which calls no further method; the error
\* the method reports may end the dispatch like any exception.
CallbackApiReturns(w) ==
  /\ wpc[w] = "cb_calling"
  /\ apiLock' = Free
  /\ \/ /\ next' = [next EXCEPT ![w] = @ + 1]
        /\ wpc' = [wpc EXCEPT ![w] = "dispatching"]
        /\ UNCHANGED obsLock
     \/ /\ DriverOf(w) \in Raising
        /\ obsLock' = Free
        /\ wpc' = [wpc EXCEPT ![w] = "checking"]
        /\ UNCHANGED next
  /\ UNCHANGED <<ctx, link, run, gen, observers, queue, made, handed, appVars, item>>

\* Mutant of CallbackRaises: the exception ends the thread.
CallbackRaisesFatal(w) ==
  /\ AtObserver(w)
  /\ DriverOf(w) \in Raising
  /\ obsLock' = Free
  /\ wpc' = [wpc EXCEPT ![w] = "exited"]
  /\ UNCHANGED <<apiLock, ctx, link, run, gen, observers, queue, made, handed,
                 appVars, item, next>>

\* The callback raises: the remaining observers are skipped, the exception is
\* logged and the worker goes on.
CallbackRaises(w) ==
  /\ AtObserver(w)
  /\ DriverOf(w) \in Raising
  /\ obsLock' = Free
  /\ wpc' = [wpc EXCEPT ![w] = "checking"]
  /\ UNCHANGED <<apiLock, ctx, link, run, gen, observers, queue, made, handed,
                 appVars, item, next>>

\* Every observer has been called.
DispatchEnd(w) ==
  /\ wpc[w] = "dispatching"
  /\ next[w] > Len(observers[DriverOf(w)])
  /\ obsLock' = Free
  /\ wpc' = [wpc EXCEPT ![w] = "checking"]
  /\ UNCHANGED <<apiLock, ctx, link, run, gen, observers, queue, made, handed,
                 appVars, item, next>>

-----------------------------------------------------------------------------
\* What an application thread does inside a call it has begun.
AppStep(a) ==
  \/ StartWorker(a) \/ RpcOpenBegin(a) \/ RpcOpenEnd(a)
  \/ StopWorkers(a) \/ JoinWorker(a)
  \/ ApiReturn(a)

AppCall(a) ==
  \/ \E d \in Drivers : OpenBegin(a, d) \/ CloseBegin(a, d)
  \/ ApiCall(a)
  \/ \E d \in Drivers, o \in Observers :
       ObserverRegister(a, d, o) \/ ObserverUnregister(a, d, o)

WorkerRuns(w) ==
  \/ CheckRun(w) \/ Get(w) \/ GetEmpty(w)
  \/ CallbackReturns(w) \/ CallbackCalls(w) \/ CallbackApiReturns(w)
  \/ CallbackRaises(w) \/ DispatchEnd(w)

WorkerStep(w) == WorkerRuns(w) \/ DispatchBegin(w) \/ CallbackLocksApi(w)

Next ==
  \/ \E a \in Apps : AppStep(a) \/ AppCall(a)
  \/ \E d \in Drivers, k \in Streams : Enqueue(d, k)
  \/ \E w \in Workers : WorkerStep(w)

Spec == Init /\ [][Next]_driverVars

(* Threads keep running, callbacks return, the native calls return, and a   *)
(* lock that is released again and again is obtained.  Nothing forces the   *)
(* application to make a call or the native library to deliver an item.     *)
Fairness ==
  /\ \A a \in Apps : WF_driverVars(AppStep(a))
  /\ \A w \in Workers : /\ WF_driverVars(WorkerRuns(w))
                        /\ SF_driverVars(DispatchBegin(w))
                        /\ SF_driverVars(CallbackLocksApi(w))

FairSpec == Spec /\ Fairness

-----------------------------------------------------------------------------
(* api_lock is held by the thread that is inside a synchronized method and  *)
(* observer_lock by the worker that runs callbacks: in the whole process at *)
(* most one API call and one callback are in progress at any time.          *)
LockOwners ==
  /\ \A a \in Apps : apiLock = a <=> pc[a] # "idle"
  /\ \A w \in Workers : apiLock = w <=> wpc[w] = "cb_calling"
  /\ \A w \in Workers :
       obsLock = w <=> wpc[w] \in {"dispatching", "cb_locking", "cb_calling"}
  /\ obsLock \notin Apps

ClosingNow(d) == \E a \in Apps : cur[a] = d /\ pc[a] = "joining"

(* After close has returned and until the next open, no worker of the       *)
(* driver is alive: no callback runs on a closed driver.  (Not so when a    *)
(* failed open was retried without a close: see LeftWorkersExit.)           *)
QuietWhenClosed ==
  \A w \in Workers :
    (~run[DriverOf(w)] /\ ~ClosingNow(DriverOf(w))) => wpc[w] \in {"none", "exited"}

(* A worker only ever dispatches items of the session it was started in:    *)
(* what close left undelivered is never seen after a later open.  (Not so   *)
(* when an open was retried without a close: two sets of workers then share *)
(* the queues.)                                                             *)
SessionIsolation ==
  \A w \in Workers :
    wpc[w] \in {"locking", "dispatching", "cb_locking", "cb_calling"} =>
      item[w].session = w[3] /\ w[3] = gen[DriverOf(w)]

(* The list of observers does not change while a worker iterates over it.   *)
ObserversStableInDispatch ==
  [][\A w \in Workers :
       (obsLock = w /\ obsLock' = w) => UNCHANGED observers[DriverOf(w)]]_driverVars

(* close returns: the workers it joins exit.  test_driver_open_close.py:67-90 *)
(* and the tearDown of every other test call it as if nothing could prevent  *)
(* that.                                                                     *)
CloseReturns == \A a \in Apps : pc[a] = "joining" ~> pc[a] = "idle"

\* A callback waits for api_lock while close, which holds it, waits for a
\* worker: neither goes on.
ClosedUnderCallback ==
  \E a \in Apps, w \in Workers : pc[a] = "joining" /\ wpc[w] = "cb_locking"

(* The only thing that keeps close from returning is a callback that calls   *)
(* the API: nothing else a worker does or waits for does, whatever is on the *)
(* queues and whether or not callbacks raise.                                *)
CloseReturnsOrCallbackWaits ==
  \A a \in Apps : pc[a] = "joining" ~> (pc[a] = "idle" \/ ClosedUnderCallback)

(* A retried open replaces the attributes that name the workers, so that    *)
(* close joins the last set only; the workers left behind share run_workers *)
(* and end too, unless the driver is opened again before they look at it.   *)
LeftWorkersExit ==
  \A w \in Workers :
    (wpc[w] # "none" /\ ~run[DriverOf(w)]) ~>
      (wpc[w] = "exited" \/ run[DriverOf(w)] \/ ClosedUnderCallback)

(* An item on the queue is handed over or, by close, dropped, also when      *)
(* callbacks raise, unless close and a callback wait for each other.         *)
QueueServed ==
  \A d \in Drivers, k \in Streams :
    queue[d][k] # <<>> ~> (queue[d][k] = <<>> \/ ClosedUnderCallback)

-----------------------------------------------------------------------------
(* The items of a channel are those on the queue, after the one that a      *)
(* worker has taken off it and not yet begun to dispatch.                   *)
Nums(s) == [i \in 1..Len(s) |-> s[i].num]

InHand(d, k) == {w \in Workers : DriverOf(w) = d /\ StreamOf(w) = k /\ wpc[w] = "locking"}

Pending(d, k) ==
  IF InHand(d, k) = {}
    THEN Nums(queue[d][k])
    ELSE <<item[CHOOSE w \in InHand(d, k) : TRUE].num>> \o Nums(queue[d][k])

Channel == INSTANCE EventChannel WITH
  Channels <- Drivers \X Streams,
  accepted <- [c \in Drivers \X Streams |-> made[c[1]][c[2]]],
  pending <- [c \in Drivers \X Streams |-> Pending(c[1], c[2])],
  handed <- [c \in Drivers \X Streams |-> Nums(handed[c[1]][c[2]])]

(* The queues, the workers and the locks together are a channel: nothing is *)
(* reordered, repeated or invented between the native callback and the      *)
(* observers, and only close drops items.                                   *)
ImplementsChannel == Channel!Spec
=============================================================================
