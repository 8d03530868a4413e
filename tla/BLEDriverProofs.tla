--------------------------- MODULE BLEDriverProofs ---------------------------
(***************************************************************************)
(* What the locks and the joins of BLEDriver guarantee, for any number of  *)
(* drivers, application threads, streams and sessions.                     *)
(***************************************************************************)
EXTENDS BLEDriver, SequenceTheorems, TLAPS

\* A position among the streams, advanced or set back, is one.
LEMMA StreamIndex ==
  ASSUME idx \in [Apps -> Streams], NEW a \in Apps
  PROVE  /\ [idx EXCEPT ![a] = 1] \in [Apps -> Streams]
         /\ idx[a] < NumStreams => [idx EXCEPT ![a] = idx[a] + 1] \in [Apps -> Streams]
  BY BoundsAssumption DEF BoundsAssumption, Streams

(* Every variable stays within its type.                                   *)
THEOREM TypeCorrect == Spec => []TypeOK
<1> USE BoundsAssumption DEF BoundsAssumption
<1>1. Init => TypeOK
  <2> SUFFICES ASSUME Init PROVE TypeOK
    OBVIOUS
  <2>1. 1 \in Streams /\ <<>> \in Seq(Items) /\ <<>> \in Seq(Observers) /\ NoItem \in Items
    BY DEF Streams, NoItem, Items
  <2>2. QED
    BY <2>1 DEF Init, TypeOK, AppStates, WorkerStates
<1>2. TypeOK /\ [Next]_driverVars => TypeOK'
  <2> SUFFICES ASSUME TypeOK, [Next]_driverVars PROVE TypeOK'
    OBVIOUS
  <2> USE DEF TypeOK, AppStates, WorkerStates, appVars, workerVars
  <2>1. ASSUME NEW a \in Apps, NEW d \in Drivers, OpenBegin(a, d) PROVE TypeOK'
    <3>1. gen' = [gen EXCEPT ![d] = gen[d] + 1] /\ gen[d] < MaxOpens
      BY <2>1 DEF OpenBegin
    <3>2. gen' \in [Drivers -> 0..MaxOpens]
      BY <3>1
    <3>3. idx' \in [Apps -> Streams]
      BY <2>1, StreamIndex DEF OpenBegin
    <3>4. QED
      BY <2>1, <3>2, <3>3 DEF OpenBegin, Threads
  <2>2. ASSUME NEW a \in Apps, StartWorker(a) PROVE TypeOK'
    <3>1. idx' \in [Apps -> Streams]
      <4>1. CASE idx[a] < NumStreams
        <5>1. idx' = [idx EXCEPT ![a] = idx[a] + 1]
          BY <2>2, <4>1 DEF StartWorker
        <5>2. QED
          BY <4>1, <5>1, StreamIndex
      <4>2. CASE ~(idx[a] < NumStreams)
        BY <2>2, <4>2 DEF StartWorker
      <4>3. QED
        BY <4>1, <4>2
    <3>2. QED
      BY <2>2, <3>1 DEF StartWorker
  <2>3. ASSUME NEW a \in Apps, RpcOpenBegin(a) PROVE TypeOK'
    BY <2>3 DEF RpcOpenBegin
  <2>4. ASSUME NEW a \in Apps, RpcOpenEnd(a) PROVE TypeOK'
    BY <2>4 DEF RpcOpenEnd
  <2>5. ASSUME NEW a \in Apps, NEW d \in Drivers, CloseBegin(a, d) PROVE TypeOK'
    BY <2>5 DEF CloseBegin, Threads
  <2>6. ASSUME NEW a \in Apps, StopWorkers(a) PROVE TypeOK'
    <3>1. idx' \in [Apps -> Streams]
      BY <2>6, StreamIndex DEF StopWorkers
    <3>2. QED
      BY <2>6, <3>1 DEF StopWorkers
  <2>7. ASSUME NEW a \in Apps, JoinWorker(a) PROVE TypeOK'
    <3>1. queue' \in [Drivers -> [Streams -> Seq(Items)]]
      BY <2>7 DEF JoinWorker
    <3>2. idx' \in [Apps -> Streams]
      <4>1. CASE idx[a] < NumStreams
        <5>1. idx' = [idx EXCEPT ![a] = idx[a] + 1]
          BY <2>7, <4>1 DEF JoinWorker
        <5>2. QED
          BY <4>1, <5>1, StreamIndex
      <4>2. CASE ~(idx[a] < NumStreams)
        BY <2>7, <4>2 DEF JoinWorker
      <4>3. QED
        BY <4>1, <4>2
    <3>3. QED
      BY <2>7, <3>1, <3>2 DEF JoinWorker
  <2>8. ASSUME NEW a \in Apps, ApiCall(a) \/ ApiReturn(a) PROVE TypeOK'
    BY <2>8 DEF ApiCall, ApiReturn, Threads
  <2>9. ASSUME NEW a \in Apps, NEW d \in Drivers, NEW o \in Observers, ObserverRegister(a, d, o)
        PROVE  TypeOK'
    BY <2>9 DEF ObserverRegister
  <2>10. ASSUME NEW a \in Apps, NEW d \in Drivers, NEW o \in Observers, ObserverUnregister(a, d, o)
         PROVE  TypeOK'
    <3> DEFINE s == observers[d]
    <3>1. PICK i \in 1..Len(s) :
            observers' = [observers EXCEPT ![d] = SubSeq(s, 1, i - 1) \o SubSeq(s, i + 1, Len(s))]
      BY <2>10 DEF ObserverUnregister
    <3>2. s \in Seq(Observers)
      OBVIOUS
    <3>3. SubSeq(s, 1, i - 1) \in Seq(Observers)
      BY <3>2, SubSeqProperties
    <3>4. SubSeq(s, i + 1, Len(s)) \in Seq(Observers)
      BY <3>2, SubSeqProperties
    <3>5. SubSeq(s, 1, i - 1) \o SubSeq(s, i + 1, Len(s)) \in Seq(Observers)
      BY <3>3, <3>4, ConcatProperties
    <3>6. observers' \in [Drivers -> Seq(Observers)]
      BY <3>1, <3>5
    <3>7. QED
      BY <2>10, <3>6 DEF ObserverUnregister
  <2>11. ASSUME NEW d \in Drivers, NEW k \in Streams, Enqueue(d, k) PROVE TypeOK'
    <3>1. [num |-> made[d][k] + 1, session |-> gen[d]] \in Items
      BY DEF Items
    <3>2. queue' \in [Drivers -> [Streams -> Seq(Items)]]
      BY <2>11, <3>1 DEF Enqueue
    <3>3. QED
      BY <2>11, <3>2 DEF Enqueue
  <2>12. ASSUME NEW w \in Workers, WorkerStep(w) PROVE TypeOK'
    <3>0. DriverOf(w) \in Drivers /\ StreamOf(w) \in Streams /\ w \in Threads
      BY DEF Workers, DriverOf, StreamOf, Threads
    <3>1. CASE CheckRun(w)
      BY <3>1 DEF CheckRun
    <3>2. CASE Get(w)
      <4>1. queue[DriverOf(w)][StreamOf(w)] \in Seq(Items)
        BY <3>0
      <4>2. /\ Head(queue[DriverOf(w)][StreamOf(w)]) \in Items
            /\ Tail(queue[DriverOf(w)][StreamOf(w)]) \in Seq(Items)
        BY <3>2, <4>1 DEF Get
      <4>3. queue' \in [Drivers -> [Streams -> Seq(Items)]]
        BY <3>2, <3>0, <4>2 DEF Get
      <4>4. QED
        BY <3>2, <4>2, <4>3 DEF Get
    <3>3. CASE GetEmpty(w)
      BY <3>3 DEF GetEmpty
    <3>4. CASE DispatchBegin(w)
      <4>1. handed' \in [Drivers -> [Streams -> Seq(Items)]]
        BY <3>4, <3>0 DEF DispatchBegin
      <4>2. QED
        BY <3>4, <3>0, <4>1 DEF DispatchBegin
    <3>5. CASE CallbackReturns(w)
      BY <3>5 DEF CallbackReturns
    <3>6. CASE CallbackCalls(w)
      BY <3>6 DEF CallbackCalls
    <3>7. CASE CallbackLocksApi(w)
      BY <3>7, <3>0 DEF CallbackLocksApi
    <3>8. CASE CallbackApiReturns(w)
      <4>1. next' = next \/ next' = [next EXCEPT ![w] = next[w] + 1]
        BY <3>8 DEF CallbackApiReturns
      <4>2. wpc' \in [Workers -> WorkerStates]
        BY <3>8 DEF CallbackApiReturns
      <4>3. apiLock' \in Threads \cup {Free} /\ obsLock' \in Threads \cup {Free}
        BY <3>8 DEF CallbackApiReturns
      <4>4. next' \in [Workers -> Nat]
        <5>1. next[w] + 1 \in Nat
          OBVIOUS
        <5>2. QED
          BY <4>1, <5>1
      <4>5. QED
        BY <3>8, <4>2, <4>3, <4>4 DEF CallbackApiReturns
    <3>9. CASE CallbackRaises(w)
      BY <3>9 DEF CallbackRaises
    <3>10. CASE DispatchEnd(w)
      BY <3>10 DEF DispatchEnd
    <3>11. QED
      BY <2>12, <3>1, <3>2, <3>3, <3>4, <3>5, <3>6, <3>7, <3>8, <3>9, <3>10
         DEF WorkerStep, WorkerRuns
  <2>13. CASE UNCHANGED driverVars
    BY <2>13 DEF driverVars
  <2>14. QED
    BY <2>1, <2>2, <2>3, <2>4, <2>5, <2>6, <2>7, <2>8, <2>9, <2>10, <2>11, <2>12, <2>13
       DEF Next, AppStep, AppCall
<1>3. QED
  BY <1>1, <1>2, PTL DEF Spec

-----------------------------------------------------------------------------
\* The workers of later sessions, and those of the session that an open is
\* starting from the stream it is at on, have not been started.
SlotsFree ==
  \A w \in Workers :
    /\ w[3] > gen[DriverOf(w)] => wpc[w] = "none"
    /\ \A a \in Apps :
         (/\ pc[a] = "starting" /\ cur[a] = DriverOf(w)
          /\ w[3] = gen[DriverOf(w)] /\ StreamOf(w) >= idx[a]) => wpc[w] = "none"

OwnersInv == LockOwners /\ SlotsFree

\* The locks are held by the threads that are inside them; a worker that
\* StartWorker starts has not been running already.
LEMMA OwnersInvariant == Spec => []OwnersInv
<1> USE FreeAssumption, AppsAssumption DEF FreeAssumption, AppsAssumption, Threads
<1>1. Init => OwnersInv
  BY DEF Init, OwnersInv, LockOwners, SlotsFree
<1>2. TypeOK /\ OwnersInv /\ [Next]_driverVars => OwnersInv'
  <2> SUFFICES ASSUME TypeOK, OwnersInv, [Next]_driverVars PROVE OwnersInv'
    OBVIOUS
  <2>0. /\ pc \in [Apps -> AppStates]
        /\ wpc \in [Workers -> WorkerStates]
        /\ \A a \in Apps : a \notin Workers /\ a # Free
        /\ \A w \in Workers : w \notin Apps /\ w # Free
    BY DEF TypeOK
  <2> USE DEF OwnersInv, LockOwners, SlotsFree, appVars, workerVars
  <2>1. ASSUME NEW a \in Apps, NEW d \in Drivers, OpenBegin(a, d) PROVE OwnersInv'
    <3>1. LockOwners'
      BY <2>0, <2>1 DEF OpenBegin
    <3>2. /\ gen \in [Drivers -> 0..MaxOpens] /\ cur \in [Apps -> Drivers]
          /\ idx \in [Apps -> Streams]
      BY DEF TypeOK
    <3>3. ASSUME NEW w \in Workers
          PROVE  /\ DriverOf(w) \in Drivers /\ w[3] \in Nat
                 /\ gen[DriverOf(w)] \in Nat
      BY <3>2 DEF Workers, DriverOf
    <3>4. \A b \in Apps : pc[b] = "idle"
      BY <2>1 DEF OpenBegin
    <3>5. /\ gen' = [gen EXCEPT ![d] = gen[d] + 1]
          /\ pc' = [pc EXCEPT ![a] = "starting"]
          /\ cur' = [cur EXCEPT ![a] = d]
          /\ wpc' = wpc
      BY <2>1 DEF OpenBegin
    <3>6. ASSUME NEW w \in Workers, w[3] > gen'[DriverOf(w)] PROVE wpc'[w] = "none"
      BY <3>2, <3>3, <3>5, <3>6
    <3>7. ASSUME NEW w \in Workers, NEW b \in Apps, pc'[b] = "starting",
                 cur'[b] = DriverOf(w), w[3] = gen'[DriverOf(w)]
          PROVE  wpc'[w] = "none"
      <4>1. b = a
        BY <2>0, <3>4, <3>5, <3>7
      <4>2. DriverOf(w) = d
        BY <3>2, <3>5, <3>7, <4>1
      <4>3. w[3] > gen[d]
        BY <3>2, <3>3, <3>5, <3>7, <4>2
      <4>4. QED
        BY <3>5, <4>2, <4>3
    <3>8. SlotsFree'
      BY <3>6, <3>7 DEF DriverOf, StreamOf
    <3>9. QED
      BY <3>1, <3>8
  <2>2. ASSUME NEW a \in Apps, StartWorker(a) PROVE OwnersInv'
    <3> DEFINE s == CurrentWorker(cur[a], idx[a])
    <3>1. /\ gen \in [Drivers -> 0..MaxOpens] /\ cur \in [Apps -> Drivers]
          /\ idx \in [Apps -> Streams]
      BY DEF TypeOK
    <3>2. /\ pc[a] = "starting"
          /\ wpc' = [wpc EXCEPT ![s] = "checking"]
          /\ \/ /\ idx' = [idx EXCEPT ![a] = idx[a] + 1]
                /\ pc' = pc
             \/ /\ pc' = [pc EXCEPT ![a] = "registering_ctx"]
                /\ idx' = idx
          /\ UNCHANGED <<apiLock, obsLock, gen, cur>>
      BY <2>2 DEF StartWorker
    <3>3. ASSUME s \in Workers PROVE wpc[s] = "none"
      <4>1. /\ DriverOf(s) = cur[a] /\ StreamOf(s) = idx[a] /\ s[3] = gen[cur[a]]
        BY DEF CurrentWorker, DriverOf, StreamOf
      <4>2. idx[a] >= idx[a]
        BY <3>1 DEF Streams
      <4>3. QED
        BY <3>2, <3>3, <4>1, <4>2
    <3>4. \A b \in Apps : b # a => pc[b] = "idle"
      BY <3>2
    <3>5. LockOwners'
      BY <2>0, <3>2, <3>3
    <3>6. ASSUME NEW w \in Workers
          PROVE  /\ DriverOf(w) \in Drivers /\ StreamOf(w) \in Streams /\ w[3] \in Nat
                 /\ w = <<DriverOf(w), StreamOf(w), w[3]>>
      BY DEF Workers, DriverOf, StreamOf
    <3>7. ASSUME NEW w \in Workers, w[3] > gen'[DriverOf(w)] PROVE wpc'[w] = "none"
      <4>1. wpc[w] = "none"
        BY <3>2, <3>7
      <4>2. w # s
        BY <3>1, <3>2, <3>7, <3>6 DEF CurrentWorker, DriverOf
      <4>3. QED
        BY <2>0, <3>2, <4>1, <4>2
    <3>8. ASSUME NEW w \in Workers, NEW b \in Apps, pc'[b] = "starting",
                 cur'[b] = DriverOf(w), w[3] = gen'[DriverOf(w)], StreamOf(w) >= idx'[b]
          PROVE  wpc'[w] = "none"
      <4>1. b = a /\ idx' = [idx EXCEPT ![a] = idx[a] + 1]
        BY <2>0, <3>2, <3>4, <3>8
      <4>2. StreamOf(w) > idx[a]
        BY <3>1, <3>6, <3>8, <4>1 DEF Streams
      <4>3. wpc[w] = "none"
        <5>1. StreamOf(w) >= idx[a]
          BY <3>1, <3>6, <4>2 DEF Streams
        <5>2. QED
          BY <3>2, <3>8, <4>1, <5>1
      <4>4. w # s
        BY <3>1, <3>6, <4>2 DEF CurrentWorker, StreamOf, Streams
      <4>5. QED
        BY <2>0, <3>2, <4>3, <4>4
    <3>9. SlotsFree'
      BY <3>7, <3>8 DEF DriverOf, StreamOf
    <3>10. QED
      BY <3>5, <3>9
  <2>3. ASSUME NEW a \in Apps, RpcOpenBegin(a) PROVE OwnersInv'
    BY <2>0, <2>3 DEF RpcOpenBegin
  <2>4. ASSUME NEW a \in Apps, RpcOpenEnd(a) PROVE OwnersInv'
    BY <2>0, <2>4 DEF RpcOpenEnd
  <2>5. ASSUME NEW a \in Apps, NEW d \in Drivers, CloseBegin(a, d) PROVE OwnersInv'
    BY <2>0, <2>5 DEF CloseBegin
  <2>6. ASSUME NEW a \in Apps, StopWorkers(a) PROVE OwnersInv'
    BY <2>0, <2>6 DEF StopWorkers
  <2>7. ASSUME NEW a \in Apps, JoinWorker(a) PROVE OwnersInv'
    BY <2>0, <2>7 DEF JoinWorker
  <2>8. ASSUME NEW a \in Apps, ApiCall(a) \/ ApiReturn(a) PROVE OwnersInv'
    BY <2>0, <2>8 DEF ApiCall, ApiReturn
  <2>9. ASSUME NEW a \in Apps, NEW d \in Drivers, NEW o \in Observers,
               ObserverRegister(a, d, o) \/ ObserverUnregister(a, d, o)
        PROVE  OwnersInv'
    BY <2>9 DEF ObserverRegister, ObserverUnregister
  <2>10. ASSUME NEW d \in Drivers, NEW k \in Streams, Enqueue(d, k) PROVE OwnersInv'
    BY <2>10 DEF Enqueue
  <2>11. ASSUME NEW w \in Workers, WorkerStep(w) PROVE OwnersInv'
    <3>1. CASE CheckRun(w) \/ Get(w) \/ GetEmpty(w)
      BY <2>0, <3>1 DEF CheckRun, Get, GetEmpty
    <3>2. CASE DispatchBegin(w)
      BY <2>0, <3>2 DEF DispatchBegin
    <3>3. CASE CallbackReturns(w) \/ CallbackCalls(w)
      BY <2>0, <3>3 DEF CallbackReturns, CallbackCalls, AtObserver
    <3>4. CASE CallbackLocksApi(w)
      BY <2>0, <3>4 DEF CallbackLocksApi
    <3>5. CASE CallbackApiReturns(w)
      BY <2>0, <3>5 DEF CallbackApiReturns
    <3>6. CASE CallbackRaises(w) \/ DispatchEnd(w)
      BY <2>0, <3>6 DEF CallbackRaises, DispatchEnd, AtObserver
    <3>7. QED
      BY <2>11, <3>1, <3>2, <3>3, <3>4, <3>5, <3>6 DEF WorkerStep, WorkerRuns
  <2>12. CASE UNCHANGED driverVars
    BY <2>12 DEF driverVars
  <2>13. QED
    BY <2>1, <2>2, <2>3, <2>4, <2>5, <2>6, <2>7, <2>8, <2>9, <2>10, <2>11, <2>12
       DEF Next, AppStep, AppCall
<1>3. QED
  BY <1>1, <1>2, TypeCorrect, PTL DEF Spec

(* In the whole process at most one API call and one callback are in        *)
(* progress: the locks are held by the threads that are inside them.        *)
THEOREM LocksOwned == Spec => []LockOwners
  BY OwnersInvariant, PTL DEF OwnersInv

-----------------------------------------------------------------------------
Alive(w) == wpc[w] \notin {"none", "exited"}

\* Close has not joined w yet.
BeingJoined(w) ==
  \E a \in Apps : pc[a] = "joining" /\ cur[a] = DriverOf(w) /\ idx[a] <= StreamOf(w)

\* Only the workers of the last session are alive, and only while the driver
\* runs or close has still to join them.
AliveInv ==
  /\ \A w \in Workers :
       Alive(w) => /\ w[3] = gen[DriverOf(w)]
                   /\ run[DriverOf(w)] \/ BeingJoined(w)
  /\ \A a \in Apps : pc[a] \in {"starting", "registering_ctx"} => run[cur[a]]
  /\ \A a \in Apps : pc[a] = "joining" => ~run[cur[a]]

\* When a driver is not opened again before it is closed, AliveInv holds.
LEMMA AliveInvariant ==
  ASSUME ReopenRunning = FALSE PROVE Spec => []AliveInv
<1>1. Init => AliveInv
  BY DEF Init, AliveInv, Alive
<1>2. TypeOK /\ TypeOK' /\ OwnersInv /\ AliveInv /\ [Next]_driverVars => AliveInv'
  <2> SUFFICES ASSUME TypeOK, TypeOK', OwnersInv, AliveInv, [Next]_driverVars PROVE AliveInv'
    OBVIOUS
  <2>0. /\ pc \in [Apps -> AppStates] /\ cur \in [Apps -> Drivers] /\ idx \in [Apps -> Streams]
        /\ wpc \in [Workers -> WorkerStates]
        /\ gen \in [Drivers -> 0..MaxOpens] /\ run \in [Drivers -> BOOLEAN]
    BY DEF TypeOK
  <2>1. ASSUME NEW w \in Workers
        PROVE  /\ DriverOf(w) \in Drivers /\ StreamOf(w) \in Streams /\ w[3] \in Nat
               /\ w = <<DriverOf(w), StreamOf(w), w[3]>>
    BY DEF Workers, DriverOf, StreamOf
  <2>2. \A a, b \in Apps : (pc[a] # "idle" /\ pc[b] # "idle") => a = b
    BY DEF OwnersInv, LockOwners
  <2>4. ASSUME UNCHANGED <<wpc, gen, run, appVars>> PROVE AliveInv'
    BY <2>4 DEF AliveInv, Alive, BeingJoined, appVars
  <2>5. ASSUME NEW a \in Apps, NEW d \in Drivers, OpenBegin(a, d) PROVE AliveInv'
    <3>1. /\ run' = [run EXCEPT ![d] = TRUE] /\ ~run[d]
          /\ gen' = [gen EXCEPT ![d] = gen[d] + 1]
          /\ pc' = [pc EXCEPT ![a] = "starting"]
          /\ cur' = [cur EXCEPT ![a] = d]
          /\ wpc' = wpc
      BY <2>5 DEF OpenBegin, workerVars
    <3>2. \A b \in Apps : pc[b] = "idle"
      BY <2>5, FreeAssumption DEF FreeAssumption, Threads, OpenBegin, OwnersInv, LockOwners
    <3>3. ASSUME NEW w \in Workers, Alive(w)'
          PROVE  w[3] = gen'[DriverOf(w)] /\ run'[DriverOf(w)]
      <4>1. w[3] = gen[DriverOf(w)] /\ run[DriverOf(w)]
        BY <3>1, <3>2, <3>3 DEF AliveInv, Alive, BeingJoined
      <4>2. DriverOf(w) # d
        BY <3>1, <4>1
      <4>3. QED
        BY <2>0, <2>1, <3>1, <4>1, <4>2
    <3>4. \A b \in Apps : pc'[b] # "idle" => b = a
      BY <2>0, <3>1, <3>2
    <3>5. run'[cur'[a]] /\ pc'[a] = "starting"
      BY <2>0, <3>1
    <3>6. QED
      BY <3>3, <3>4, <3>5 DEF AliveInv, Alive, BeingJoined, DriverOf
  <2>6. ASSUME NEW a \in Apps, StartWorker(a) PROVE AliveInv'
    <3> DEFINE s == CurrentWorker(cur[a], idx[a])
    <3>1. /\ pc[a] = "starting" /\ run[cur[a]]
          /\ wpc' = [wpc EXCEPT ![s] = "checking"]
          /\ pc' = pc \/ pc' = [pc EXCEPT ![a] = "registering_ctx"]
          /\ UNCHANGED <<run, gen, cur>>
      BY <2>6 DEF StartWorker, AliveInv
    <3>2. \A b \in Apps : pc[b] # "joining" /\ pc'[b] # "joining"
      BY <2>0, <2>2, <3>1
    <3>3. ASSUME NEW w \in Workers, Alive(w)'
          PROVE  w[3] = gen'[DriverOf(w)] /\ run'[DriverOf(w)]
      <4>1. CASE w = s
        BY <3>1, <4>1 DEF CurrentWorker, DriverOf
      <4>2. CASE w # s
        <5>1. Alive(w)
          BY <2>0, <3>1, <3>3, <4>2 DEF Alive
        <5>2. QED
          BY <3>1, <3>2, <5>1 DEF AliveInv, BeingJoined
      <4>3. QED
        BY <4>1, <4>2
    <3>4. \A b \in Apps : pc'[b] \in {"starting", "registering_ctx"} => run'[cur'[b]]
      BY <2>0, <2>2, <3>1
    <3>5. QED
      BY <3>2, <3>3, <3>4 DEF AliveInv, Alive, BeingJoined, DriverOf
  <2>7. ASSUME NEW a \in Apps, StopWorkers(a) PROVE AliveInv'
    <3>1. /\ pc[a] = "rpc_closing"
          /\ run' = [run EXCEPT ![cur[a]] = FALSE]
          /\ pc' = [pc EXCEPT ![a] = "joining"]
          /\ idx' = [idx EXCEPT ![a] = 1]
          /\ UNCHANGED <<gen, cur, wpc>>
      BY <2>7 DEF StopWorkers, workerVars
    <3>2. \A b \in Apps : b # a => pc'[b] = "idle"
      BY <2>0, <2>2, <3>1
    <3>3. ~run'[cur'[a]] /\ pc'[a] = "joining"
      BY <2>0, <3>1
    <3>4. ASSUME NEW w \in Workers, Alive(w)'
          PROVE  w[3] = gen'[DriverOf(w)] /\ (run'[DriverOf(w)] \/ BeingJoined(w)')
      <4>1. w[3] = gen[DriverOf(w)] /\ run[DriverOf(w)]
        BY <2>2, <3>1, <3>4 DEF AliveInv, Alive, BeingJoined
      <4>2. CASE DriverOf(w) = cur[a]
        <5>1. idx'[a] <= StreamOf(w)
          BY <2>0, <2>1, <3>1 DEF Streams
        <5>2. QED
          BY <3>1, <3>3, <4>1, <4>2, <5>1 DEF BeingJoined, DriverOf, StreamOf
      <4>3. CASE DriverOf(w) # cur[a]
        BY <2>0, <2>1, <3>1, <4>1, <4>3
      <4>4. QED
        BY <4>2, <4>3
    <3>5. QED
      BY <3>2, <3>3, <3>4 DEF AliveInv, Alive, DriverOf
  <2>8. ASSUME NEW a \in Apps, JoinWorker(a) PROVE AliveInv'
    <3> DEFINE s == CurrentWorker(cur[a], idx[a])
    <3>1. /\ pc[a] = "joining" /\ wpc[s] = "exited"
          /\ \/ /\ idx[a] < NumStreams
                /\ idx' = [idx EXCEPT ![a] = idx[a] + 1]
                /\ pc' = pc
             \/ /\ ~(idx[a] < NumStreams)
                /\ pc' = [pc EXCEPT ![a] = "idle"]
                /\ idx' = idx
          /\ UNCHANGED <<run, gen, cur, wpc>>
      BY <2>8 DEF JoinWorker, workerVars
    <3>2. \A b \in Apps : b # a => pc[b] = "idle" /\ pc'[b] = "idle"
      BY <2>0, <2>2, <3>1
    <3>3. ASSUME NEW w \in Workers, Alive(w)'
          PROVE  w[3] = gen'[DriverOf(w)] /\ (run'[DriverOf(w)] \/ BeingJoined(w)')
      <4>1. w[3] = gen[DriverOf(w)] /\ (run[DriverOf(w)] \/ BeingJoined(w))
        BY <3>1, <3>3 DEF AliveInv, Alive
      <4>2. CASE run[DriverOf(w)]
        BY <3>1, <4>1, <4>2
      <4>3. CASE BeingJoined(w)
        <5>1. cur[a] = DriverOf(w) /\ idx[a] <= StreamOf(w)
          BY <3>2, <4>3 DEF BeingJoined
        <5>2. StreamOf(w) # idx[a]
          BY <2>1, <3>1, <3>3, <4>1, <5>1 DEF CurrentWorker, Alive
        <5>3. idx[a] < StreamOf(w) /\ StreamOf(w) <= NumStreams
          BY <2>0, <2>1, <5>1, <5>2, BoundsAssumption DEF Streams, BoundsAssumption
        <5>4. idx[a] < NumStreams
          BY <2>0, <2>1, <5>3, BoundsAssumption DEF Streams, BoundsAssumption
        <5>5. pc'[a] = "joining" /\ idx'[a] <= StreamOf(w) /\ cur'[a] = DriverOf(w)
          BY <2>0, <2>1, <3>1, <5>1, <5>3, <5>4 DEF Streams
        <5>6. QED
          BY <3>1, <4>1, <5>5 DEF BeingJoined, DriverOf, StreamOf
      <4>4. QED
        BY <4>1, <4>2, <4>3
    <3>4. /\ pc'[a] \in {"joining", "idle"}
          /\ pc'[a] = "joining" => ~run'[cur'[a]]
      BY <2>0, <3>1 DEF AliveInv
    <3>5. QED
      BY <3>2, <3>3, <3>4 DEF AliveInv, Alive, DriverOf
  <2>9. ASSUME NEW w \in Workers, WorkerStep(w) PROVE AliveInv'
    <3>1. /\ wpc[w] \notin {"none", "exited"}
          /\ \A v \in Workers : v # w => wpc'[v] = wpc[v]
          /\ UNCHANGED <<run, gen, appVars>>
      <4>1. CASE CheckRun(w) \/ Get(w) \/ GetEmpty(w) \/ DispatchBegin(w)
        BY <2>0, <4>1 DEF CheckRun, Get, GetEmpty, DispatchBegin
      <4>2. CASE CallbackReturns(w) \/ CallbackCalls(w) \/ CallbackLocksApi(w)
        BY <2>0, <4>2 DEF CallbackReturns, CallbackCalls, CallbackLocksApi, AtObserver
      <4>3. CASE CallbackApiReturns(w) \/ CallbackRaises(w) \/ DispatchEnd(w)
        BY <2>0, <4>3 DEF CallbackApiReturns, CallbackRaises, DispatchEnd, AtObserver
      <4>4. QED
        BY <2>9, <4>1, <4>2, <4>3 DEF WorkerStep, WorkerRuns
    <3>2. \A v \in Workers : Alive(v)' => Alive(v)
      BY <3>1 DEF Alive
    <3>3. QED
      BY <3>1, <3>2 DEF AliveInv, BeingJoined, appVars, DriverOf, StreamOf
  <2>10. ASSUME NEW a \in Apps, RpcOpenBegin(a) \/ RpcOpenEnd(a) PROVE AliveInv'
    BY <2>0, <2>10 DEF RpcOpenBegin, RpcOpenEnd, AliveInv, Alive, BeingJoined, workerVars
  <2>11. ASSUME NEW a \in Apps, NEW d \in Drivers, CloseBegin(a, d) PROVE AliveInv'
    BY <2>0, <2>11 DEF CloseBegin, AliveInv, Alive, BeingJoined, workerVars
  <2>12. ASSUME NEW a \in Apps, ApiCall(a) \/ ApiReturn(a) PROVE AliveInv'
    BY <2>0, <2>12 DEF ApiCall, ApiReturn, AliveInv, Alive, BeingJoined, workerVars
  <2>13. ASSUME NEW a \in Apps, NEW d \in Drivers, NEW o \in Observers,
                ObserverRegister(a, d, o) \/ ObserverUnregister(a, d, o)
         PROVE  AliveInv'
    BY <2>4, <2>13 DEF ObserverRegister, ObserverUnregister, workerVars
  <2>14. ASSUME NEW d \in Drivers, NEW k \in Streams, Enqueue(d, k) PROVE AliveInv'
    BY <2>4, <2>14 DEF Enqueue, workerVars
  <2>15. CASE UNCHANGED driverVars
    BY <2>4, <2>15 DEF driverVars, workerVars
  <2>16. QED
    BY <2>5, <2>6, <2>7, <2>8, <2>9, <2>10, <2>11, <2>12, <2>13, <2>14, <2>15
       DEF Next, AppStep, AppCall
<1>3. QED
  BY <1>1, <1>2, TypeCorrect, OwnersInvariant, PTL DEF Spec

(* Once close has returned, and until the next open, no worker of the       *)
(* driver is alive, provided a failed open is not retried without a close.  *)
THEOREM ClosedDriverIsQuiet ==
  ASSUME ReopenRunning = FALSE PROVE Spec => []QuietWhenClosed
<1>1. TypeOK /\ AliveInv => QuietWhenClosed
  BY DEF AliveInv, Alive, BeingJoined, QuietWhenClosed, ClosingNow
<1>2. QED
  BY <1>1, TypeCorrect, AliveInvariant, PTL

-----------------------------------------------------------------------------
\* All the items of a queue were put in it in session n.
AllOf(s, n) == \A i \in 1..Len(s) : s[i].session = n

\* Putting in and taking out items of one session keeps a queue one of it.
LEMMA QueueOfSession ==
  ASSUME NEW s \in Seq(Items), NEW n, AllOf(s, n)
  PROVE  /\ \A x \in Items : x.session = n => AllOf(Append(s, x), n)
         /\ s # <<>> => Head(s).session = n /\ AllOf(Tail(s), n)
  BY DEF AllOf

\* Close has not emptied the queue of stream k of d yet.
ToBeEmptied(d, k) ==
  \E a \in Apps : pc[a] = "joining" /\ cur[a] = d /\ idx[a] <= k

\* What is queued or in hand belongs to the session that runs or, until close
\* has joined its workers and emptied its queues, to the one that ends.
SessionInv ==
  /\ \A d \in Drivers, k \in Streams :
       /\ AllOf(queue[d][k], gen[d])
       /\ queue[d][k] # <<>> => run[d] \/ ToBeEmptied(d, k)
  /\ \A d \in Drivers : link[d] => run[d]
  /\ \A w \in Workers :
       wpc[w] \in {"locking", "dispatching", "cb_locking", "cb_calling"} =>
         item[w].session = w[3]

\* When a driver is not opened again before it is closed, SessionInv holds.
LEMMA SessionInvariant ==
  ASSUME ReopenRunning = FALSE PROVE Spec => []SessionInv
<1>1. Init => SessionInv
  BY DEF Init, SessionInv, AllOf
<1>2. TypeOK /\ OwnersInv /\ AliveInv /\ SessionInv /\ [Next]_driverVars => SessionInv'
  <2> SUFFICES ASSUME TypeOK, OwnersInv, AliveInv, SessionInv, [Next]_driverVars
               PROVE SessionInv'
    OBVIOUS
  <2>0. /\ pc \in [Apps -> AppStates] /\ cur \in [Apps -> Drivers] /\ idx \in [Apps -> Streams]
        /\ wpc \in [Workers -> WorkerStates] /\ item \in [Workers -> Items]
        /\ queue \in [Drivers -> [Streams -> Seq(Items)]]
        /\ gen \in [Drivers -> 0..MaxOpens] /\ run \in [Drivers -> BOOLEAN]
        /\ link \in [Drivers -> BOOLEAN] /\ made \in [Drivers -> [Streams -> Nat]]
    BY DEF TypeOK
  <2>1. \A w \in Workers : DriverOf(w) \in Drivers /\ StreamOf(w) \in Streams
    BY DEF Workers, DriverOf, StreamOf
  <2>2. \A a, b \in Apps : (pc[a] # "idle" /\ pc[b] # "idle") => a = b
    BY DEF OwnersInv, LockOwners
  <2>3. ASSUME UNCHANGED <<queue, gen, run, link, wpc, item, appVars>> PROVE SessionInv'
    BY <2>3 DEF SessionInv, ToBeEmptied, appVars
  <2>4. ASSUME NEW a \in Apps, NEW d \in Drivers, OpenBegin(a, d) PROVE SessionInv'
    <3>1. /\ ~run[d] /\ run' = [run EXCEPT ![d] = TRUE]
          /\ gen' = [gen EXCEPT ![d] = gen[d] + 1]
          /\ UNCHANGED <<queue, link, wpc, item>>
      BY <2>4 DEF OpenBegin, workerVars
    <3>2. \A b \in Apps : pc[b] = "idle"
      BY <2>4, FreeAssumption DEF FreeAssumption, Threads, OpenBegin, OwnersInv, LockOwners
    <3>3. \A k \in Streams : queue[d][k] = <<>>
      BY <3>1, <3>2 DEF SessionInv, ToBeEmptied
    <3>4. ASSUME NEW e \in Drivers, NEW k \in Streams
          PROVE  /\ AllOf(queue'[e][k], gen'[e])
                 /\ queue'[e][k] # <<>> => run'[e]
      <4>1. CASE e = d
        BY <3>1, <3>3, <4>1 DEF AllOf
      <4>2. CASE e # d
        BY <2>0, <3>1, <3>2, <4>2 DEF SessionInv, ToBeEmptied
      <4>3. QED
        BY <4>1, <4>2
    <3>5. \A e \in Drivers : link'[e] => run'[e]
      BY <2>0, <3>1 DEF SessionInv
    <3>6. QED
      BY <3>1, <3>4, <3>5 DEF SessionInv
  <2>5. ASSUME NEW a \in Apps, StartWorker(a) PROVE SessionInv'
    <3>1. /\ pc[a] = "starting"
          /\ wpc' = [wpc EXCEPT ![CurrentWorker(cur[a], idx[a])] = "checking"]
          /\ UNCHANGED <<queue, gen, run, link, item>>
      BY <2>5 DEF StartWorker
    <3>2. \A b \in Apps : pc[b] # "joining"
      BY <2>2, <3>1
    <3>3. \A w \in Workers : wpc'[w] = wpc[w] \/ wpc'[w] = "checking"
      BY <2>0, <3>1
    <3>4. QED
      BY <3>1, <3>2, <3>3 DEF SessionInv, ToBeEmptied
  <2>6. ASSUME NEW a \in Apps, RpcOpenBegin(a) PROVE SessionInv'
    <3>1. /\ pc[a] = "registering_ctx" /\ run[cur[a]]
          /\ link' = link \/ link' = [link EXCEPT ![cur[a]] = TRUE]
          /\ UNCHANGED <<queue, gen, run, wpc, item>>
      BY <2>6 DEF RpcOpenBegin, AliveInv, workerVars
    <3>2. \A b \in Apps : pc[b] # "joining"
      BY <2>2, <3>1
    <3>3. \A d \in Drivers : link'[d] => run'[d]
      BY <2>0, <3>1 DEF SessionInv
    <3>4. QED
      BY <3>1, <3>2, <3>3 DEF SessionInv, ToBeEmptied
  <2>7. ASSUME NEW a \in Apps, RpcOpenEnd(a) PROVE SessionInv'
    <3>1. /\ pc[a] = "rpc_opening"
          /\ link' = link \/ link' = [link EXCEPT ![cur[a]] = FALSE]
          /\ UNCHANGED <<queue, gen, run, wpc, item>>
      BY <2>7 DEF RpcOpenEnd, workerVars
    <3>2. \A b \in Apps : pc[b] # "joining"
      BY <2>2, <3>1
    <3>3. \A d \in Drivers : link'[d] => run'[d]
      BY <2>0, <3>1 DEF SessionInv
    <3>4. QED
      BY <3>1, <3>2, <3>3 DEF SessionInv, ToBeEmptied
  <2>8. ASSUME NEW a \in Apps, NEW d \in Drivers, CloseBegin(a, d) PROVE SessionInv'
    <3>1. /\ \A b \in Apps : pc[b] = "idle"
          /\ UNCHANGED <<queue, gen, run, link, wpc, item>>
      BY <2>8, FreeAssumption
         DEF FreeAssumption, Threads, CloseBegin, OwnersInv, LockOwners, workerVars
    <3>2. QED
      BY <3>1 DEF SessionInv, ToBeEmptied
  <2>9. ASSUME NEW a \in Apps, StopWorkers(a) PROVE SessionInv'
    <3>1. /\ pc[a] = "rpc_closing"
          /\ run' = [run EXCEPT ![cur[a]] = FALSE]
          /\ link' = [link EXCEPT ![cur[a]] = FALSE]
          /\ pc' = [pc EXCEPT ![a] = "joining"]
          /\ idx' = [idx EXCEPT ![a] = 1]
          /\ UNCHANGED <<queue, gen, cur, wpc, item>>
      BY <2>9 DEF StopWorkers, workerVars
    <3>2. \A b \in Apps : pc[b] # "joining"
      BY <2>2, <3>1
    <3>3. \A k \in Streams : ToBeEmptied(cur[a], k)'
      BY <2>0, <3>1 DEF ToBeEmptied, Streams
    <3>4. \A d \in Drivers : d # cur[a] => run'[d] = run[d] /\ link'[d] = link[d]
      BY <2>0, <3>1
    <3>5. ASSUME NEW d \in Drivers, NEW k \in Streams, queue'[d][k] # <<>>
          PROVE  run'[d] \/ ToBeEmptied(d, k)'
      BY <3>1, <3>2, <3>3, <3>4, <3>5 DEF SessionInv, ToBeEmptied
    <3>6. \A d \in Drivers : link'[d] => run'[d]
      BY <2>0, <3>1, <3>4 DEF SessionInv
    <3>7. QED
      BY <3>1, <3>5, <3>6 DEF SessionInv
  <2>10. ASSUME NEW a \in Apps, JoinWorker(a) PROVE SessionInv'
    <3>1. /\ pc[a] = "joining"
          /\ queue' = [queue EXCEPT ![cur[a]][idx[a]] = <<>>]
          /\ \/ /\ idx[a] < NumStreams
                /\ idx' = [idx EXCEPT ![a] = idx[a] + 1]
                /\ pc' = pc
             \/ /\ ~(idx[a] < NumStreams)
                /\ pc' = [pc EXCEPT ![a] = "idle"]
                /\ idx' = idx
          /\ UNCHANGED <<gen, run, link, cur, wpc, item>>
      BY <2>10 DEF JoinWorker, workerVars
    <3>2. \A b \in Apps : b # a => pc[b] = "idle"
      BY <2>2, <3>1
    <3>3. ASSUME NEW d \in Drivers, NEW k \in Streams
          PROVE  queue'[d][k] = <<>> \/ (queue'[d][k] = queue[d][k] /\ ~(d = cur[a] /\ k = idx[a]))
      BY <2>0, <3>1
    <3>4. ASSUME NEW d \in Drivers, NEW k \in Streams PROVE AllOf(queue'[d][k], gen'[d])
      BY <3>1, <3>3 DEF SessionInv, AllOf
    <3>5. ASSUME NEW d \in Drivers, NEW k \in Streams, queue'[d][k] # <<>>
          PROVE  run'[d] \/ ToBeEmptied(d, k)'
      <4>1. queue[d][k] # <<>> /\ ~(d = cur[a] /\ k = idx[a])
        BY <3>3, <3>5
      <4>2. CASE run[d]
        BY <3>1, <4>2
      <4>3. CASE ToBeEmptied(d, k)
        <5>0. cur[a] = d /\ idx[a] <= k
          BY <3>2, <4>3 DEF ToBeEmptied
        <5>1. cur[a] = d /\ idx[a] < k
          BY <2>0, <4>1, <5>0, BoundsAssumption DEF Streams, BoundsAssumption
        <5>2. idx[a] < NumStreams /\ idx[a] + 1 <= k
          BY <2>0, <5>1, BoundsAssumption DEF Streams, BoundsAssumption
        <5>3. pc'[a] = "joining" /\ cur'[a] = d /\ idx'[a] <= k
          BY <2>0, <3>1, <5>1, <5>2
        <5>4. QED
          BY <5>3 DEF ToBeEmptied
      <4>4. QED
        BY <4>1, <4>2, <4>3 DEF SessionInv
    <3>6. QED
      BY <3>1, <3>4, <3>5 DEF SessionInv
  <2>11. ASSUME NEW a \in Apps, ApiCall(a) \/ ApiReturn(a) PROVE SessionInv'
    <3>1. /\ UNCHANGED <<queue, gen, run, link, wpc, item, cur, idx>>
          /\ \A b \in Apps : pc[b] = "joining" <=> pc'[b] = "joining"
      BY <2>0, <2>11 DEF ApiCall, ApiReturn, workerVars
    <3>2. QED
      BY <3>1 DEF SessionInv, ToBeEmptied
  <2>12. ASSUME NEW a \in Apps, NEW d \in Drivers, NEW o \in Observers,
                ObserverRegister(a, d, o) \/ ObserverUnregister(a, d, o)
         PROVE  SessionInv'
    BY <2>3, <2>12 DEF ObserverRegister, ObserverUnregister, workerVars
  <2>13. ASSUME NEW d \in Drivers, NEW k \in Streams, Enqueue(d, k) PROVE SessionInv'
    <3> DEFINE x == [num |-> made[d][k] + 1, session |-> gen[d]]
    <3>1. /\ run[d]
          /\ queue' = [queue EXCEPT ![d][k] = Append(queue[d][k], x)]
          /\ UNCHANGED <<gen, run, link, wpc, item, appVars>>
      BY <2>13 DEF Enqueue, SessionInv, workerVars
    <3>2. x \in Items /\ x.session = gen[d]
      BY <2>0 DEF Items
    <3>3. AllOf(Append(queue[d][k], x), gen[d])
      BY <2>0, <3>2, QueueOfSession DEF SessionInv
    <3>4. ASSUME NEW e \in Drivers, NEW j \in Streams
          PROVE  AllOf(queue'[e][j], gen'[e])
                 /\ (queue'[e][j] # <<>> => run'[e] \/ ToBeEmptied(e, j)')
      <4>1. CASE e = d /\ j = k
        BY <2>0, <3>1, <3>3, <4>1
      <4>2. CASE ~(e = d /\ j = k)
        <5>1. queue'[e][j] = queue[e][j]
          BY <2>0, <3>1, <4>2
        <5>2. QED
          BY <3>1, <5>1 DEF SessionInv, ToBeEmptied, appVars
      <4>3. QED
        BY <4>1, <4>2
    <3>5. QED
      BY <3>1, <3>4 DEF SessionInv
  <2>14. ASSUME NEW w \in Workers, Get(w) PROVE SessionInv'
    <3> DEFINE d == DriverOf(w)  k == StreamOf(w)
    <3>1. /\ wpc[w] = "getting" /\ queue[d][k] # <<>>
          /\ item' = [item EXCEPT ![w] = Head(queue[d][k])]
          /\ queue' = [queue EXCEPT ![d][k] = Tail(queue[d][k])]
          /\ wpc' = [wpc EXCEPT ![w] = "locking"]
          /\ UNCHANGED <<gen, run, link, appVars>>
      BY <2>14 DEF Get
    <3>2. w[3] = gen[d]
      BY <3>1 DEF AliveInv, Alive
    <3>3. Head(queue[d][k]).session = gen[d] /\ AllOf(Tail(queue[d][k]), gen[d])
      BY <2>0, <2>1, <3>1, QueueOfSession DEF SessionInv
    <3>4. ASSUME NEW e \in Drivers, NEW j \in Streams
          PROVE  /\ AllOf(queue'[e][j], gen'[e])
                 /\ queue'[e][j] # <<>> => queue[e][j] # <<>>
      <4>1. CASE e = d /\ j = k
        BY <2>0, <2>1, <3>1, <3>3, <4>1
      <4>2. CASE ~(e = d /\ j = k)
        <5>1. queue'[e][j] = queue[e][j]
          BY <2>0, <2>1, <3>1, <4>2
        <5>2. QED
          BY <3>1, <5>1 DEF SessionInv
      <4>3. QED
        BY <4>1, <4>2
    <3>5. \A v \in Workers : v # w => wpc'[v] = wpc[v] /\ item'[v] = item[v]
      BY <2>0, <3>1
    <3>6. item'[w].session = w[3]
      BY <2>0, <3>1, <3>2, <3>3
    <3>7. \A e \in Drivers, j \in Streams : ToBeEmptied(e, j)' <=> ToBeEmptied(e, j)
      BY <3>1 DEF ToBeEmptied, appVars
    <3>8. \A v \in Workers :
            wpc'[v] \in {"locking", "dispatching", "cb_locking", "cb_calling"} =>
              item'[v].session = v[3]
      BY <3>5, <3>6 DEF SessionInv
    <3>9. \A e \in Drivers, j \in Streams :
            /\ AllOf(queue'[e][j], gen'[e])
            /\ queue'[e][j] # <<>> => run'[e] \/ ToBeEmptied(e, j)'
      BY <3>1, <3>4, <3>7 DEF SessionInv
    <3>10. QED
      BY <3>1, <3>8, <3>9 DEF SessionInv
  <2>15. ASSUME NEW w \in Workers, WorkerStep(w), ~Get(w) PROVE SessionInv'
    <3>1. /\ UNCHANGED <<queue, gen, run, link, item, appVars>>
          /\ \A v \in Workers :
               wpc'[v] \in {"locking", "dispatching", "cb_locking", "cb_calling"} =>
                 wpc[v] \in {"locking", "dispatching", "cb_locking", "cb_calling"}
      <4>1. CASE CheckRun(w) \/ GetEmpty(w) \/ DispatchBegin(w)
        BY <2>0, <4>1 DEF CheckRun, GetEmpty, DispatchBegin
      <4>2. CASE CallbackReturns(w) \/ CallbackCalls(w) \/ CallbackLocksApi(w)
        BY <2>0, <4>2 DEF CallbackReturns, CallbackCalls, CallbackLocksApi, AtObserver
      <4>3. CASE CallbackApiReturns(w) \/ CallbackRaises(w) \/ DispatchEnd(w)
        BY <2>0, <4>3 DEF CallbackApiReturns, CallbackRaises, DispatchEnd, AtObserver
      <4>4. QED
        BY <2>15, <4>1, <4>2, <4>3 DEF WorkerStep, WorkerRuns
    <3>2. QED
      BY <3>1 DEF SessionInv, ToBeEmptied, appVars
  <2>16. CASE UNCHANGED driverVars
    BY <2>3, <2>16 DEF driverVars, workerVars
  <2>17. QED
    BY <2>4, <2>5, <2>6, <2>7, <2>8, <2>9, <2>10, <2>11, <2>12, <2>13, <2>14, <2>15, <2>16
       DEF Next, AppStep, AppCall
<1>3. QED
  BY <1>1, <1>2, TypeCorrect, OwnersInvariant, AliveInvariant, PTL DEF Spec

(* A worker only dispatches items of the session it was started in, and     *)
(* that is the driver's last one: what close left undelivered is never      *)
(* dispatched after a later open, provided a failed open is not retried     *)
(* without a close.                                                         *)
THEOREM SessionsAreIsolated ==
  ASSUME ReopenRunning = FALSE PROVE Spec => []SessionIsolation
<1>1. TypeOK /\ AliveInv /\ SessionInv => SessionIsolation
  BY DEF AliveInv, Alive, SessionInv, SessionIsolation
<1>2. QED
  BY <1>1, TypeCorrect, AliveInvariant, SessionInvariant, PTL

-----------------------------------------------------------------------------
(* While a worker runs callbacks the list of observers of its driver does   *)
(* not change: who registers or unregisters needs the lock it holds.        *)
THEOREM ObserversAreStable == Spec => ObserversStableInDispatch
<1> USE FreeAssumption DEF FreeAssumption, Threads
<1>1. LockOwners /\ [Next]_driverVars
        => [\A w \in Workers :
              (obsLock = w /\ obsLock' = w) => UNCHANGED observers[DriverOf(w)]]_driverVars
  <2> SUFFICES ASSUME LockOwners, Next,
                      NEW w \in Workers, obsLock = w, obsLock' = w
               PROVE  UNCHANGED observers
    BY DEF driverVars
  <2>1. ASSUME NEW a \in Apps, AppStep(a) PROVE UNCHANGED observers
    BY <2>1 DEF AppStep, StartWorker, RpcOpenBegin, RpcOpenEnd, StopWorkers, JoinWorker, ApiReturn
  <2>2. ASSUME NEW a \in Apps, AppCall(a) PROVE UNCHANGED observers
    BY <2>2 DEF AppCall, OpenBegin, CloseBegin, ApiCall, ObserverRegister, ObserverUnregister
  <2>3. ASSUME NEW d \in Drivers, NEW k \in Streams, Enqueue(d, k) PROVE UNCHANGED observers
    BY <2>3 DEF Enqueue
  <2>4. ASSUME NEW v \in Workers, WorkerStep(v) PROVE UNCHANGED observers
    BY <2>4 DEF WorkerStep, WorkerRuns, CheckRun, Get, GetEmpty, DispatchBegin, CallbackReturns,
                CallbackCalls, CallbackLocksApi, CallbackApiReturns, CallbackRaises, DispatchEnd
  <2>5. QED
    BY <2>1, <2>2, <2>3, <2>4 DEF Next
<1>2. QED
  BY <1>1, LocksOwned, PTL DEF Spec, ObserversStableInDispatch

-----------------------------------------------------------------------------
(* The refinement of EventChannel.                                          *)

\* The numbers of the items of a queue, as the queue grows and shrinks.
LEMMA NumsOf ==
  ASSUME NEW s \in Seq(Items)
  PROVE  /\ Nums(s) \in Seq(Nat)
         /\ \A x \in Items : Nums(Append(s, x)) = Append(Nums(s), x.num)
         /\ s # <<>> => Nums(s) = <<Head(s).num>> \o Nums(Tail(s))
<1>1. Nums(s) \in Seq(Nat)
  <2>1. \A i \in 1..Len(s) : s[i] \in Items
    OBVIOUS
  <2>2. Nums(s) \in [1..Len(s) -> Nat] /\ Len(s) \in Nat
    BY <2>1 DEF Nums, Items
  <2>3. QED
    BY <2>2
<1>2. ASSUME NEW x \in Items PROVE Nums(Append(s, x)) = Append(Nums(s), x.num)
  BY DEF Nums, Items
<1>3. ASSUME s # <<>> PROVE Nums(s) = <<Head(s).num>> \o Nums(Tail(s))
  BY <1>3 DEF Nums, Items
<1>4. QED
  BY <1>1, <1>2, <1>3

LEMMA NumsOfEmpty == Nums(<<>>) = <<>>
  BY DEF Nums

\* The oldest item of a channel that holds n before t.
LEMMA FirstOf ==
  ASSUME NEW n \in Nat, NEW t \in Seq(Nat)
  PROVE  /\ <<n>> \o t # <<>> /\ Head(<<n>> \o t) = n /\ Tail(<<n>> \o t) = t
         /\ \A m \in Nat : <<n>> \o Append(t, m) = Append(<<n>> \o t, m)
  OBVIOUS

\* Of the workers of one stream at most one is alive.
LEMMA OneAlive ==
  ASSUME TypeOK, AliveInv,
         NEW w \in Workers, NEW v \in Workers, Alive(w), Alive(v),
         DriverOf(w) = DriverOf(v), StreamOf(w) = StreamOf(v)
  PROVE  w = v
  BY DEF AliveInv, Workers, DriverOf, StreamOf

\* What a step that leaves its queue and what its worker has in hand alone
\* keeps of a channel.
LEMMA PendingKept ==
  ASSUME NEW d \in Drivers, NEW k \in Streams,
         InHand(d, k)' = InHand(d, k),
         \A w \in InHand(d, k) : item'[w] = item[w],
         queue'[d][k] = queue[d][k]
  PROVE  Pending(d, k)' = Pending(d, k)
<1>1. CASE InHand(d, k) = {}
  BY <1>1 DEF Pending
<1>2. CASE InHand(d, k) # {}
  <2>1. PICK w \in InHand(d, k) : w = CHOOSE v \in InHand(d, k) : TRUE
    BY <1>2
  <2>2. Pending(d, k) = <<item[w].num>> \o Nums(queue[d][k])
    BY <1>2, <2>1 DEF Pending
  <2>3. Pending(d, k)' = <<item'[w].num>> \o Nums(queue'[d][k])
    BY <1>2, <2>1 DEF Pending
  <2>4. QED
    BY <2>2, <2>3
<1>3. QED
  BY <1>1, <1>2

\* A step that touches neither the queues nor what workers have in hand, and
\* begins no dispatch, is none of the channel.
LEMMA ChannelStutters ==
  ASSUME UNCHANGED <<queue, made, handed>>,
         \A w \in Workers :
           /\ wpc'[w] = "locking" <=> wpc[w] = "locking"
           /\ wpc[w] = "locking" => item'[w] = item[w]
  PROVE  UNCHANGED Channel!channelVars
<1>1. ASSUME NEW d \in Drivers, NEW k \in Streams PROVE Pending(d, k)' = Pending(d, k)
  <2>1. InHand(d, k)' = InHand(d, k)
    BY DEF InHand, DriverOf, StreamOf
  <2>2. \A w \in InHand(d, k) : item'[w] = item[w]
    BY DEF InHand
  <2>3. QED
    BY <2>1, <2>2, PendingKept
<1>2. QED
  BY <1>1 DEF Channel!channelVars

(* The queues, the workers and the locks implement the channel: nothing is  *)
(* reordered, repeated or invented between the native callback and the      *)
(* observers, and only close drops items, provided a failed open is not     *)
(* retried without a close.                                                 *)
THEOREM ChannelImplemented ==
  ASSUME ReopenRunning = FALSE PROVE Spec => ImplementsChannel
<1>1. Init => Channel!Init
  <2> SUFFICES ASSUME Init PROVE Channel!Init
    OBVIOUS
  <2>1. ASSUME NEW d \in Drivers, NEW k \in Streams
        PROVE  Pending(d, k) = <<>> /\ made[d][k] = 0 /\ Nums(handed[d][k]) = <<>>
    <3>1. InHand(d, k) = {}
      BY DEF Init, InHand
    <3>2. QED
      BY <3>1, NumsOfEmpty DEF Init, Pending
  <2>2. QED
    BY <2>1 DEF Channel!Init
<1>2. /\ TypeOK /\ TypeOK'
      /\ OwnersInv /\ AliveInv /\ AliveInv'
      /\ [Next]_driverVars
      => [Channel!Next]_(Channel!channelVars)
  <2> SUFFICES ASSUME TypeOK, TypeOK', OwnersInv, AliveInv, AliveInv', [Next]_driverVars
               PROVE  Channel!Next \/ UNCHANGED Channel!channelVars
    OBVIOUS
  <2>0. /\ pc \in [Apps -> AppStates] /\ cur \in [Apps -> Drivers] /\ idx \in [Apps -> Streams]
        /\ wpc \in [Workers -> WorkerStates] /\ item \in [Workers -> Items]
        /\ queue \in [Drivers -> [Streams -> Seq(Items)]]
        /\ handed \in [Drivers -> [Streams -> Seq(Items)]]
        /\ gen \in [Drivers -> 0..MaxOpens] /\ made \in [Drivers -> [Streams -> Nat]]
    BY DEF TypeOK
  <2>1. \A w \in Workers : DriverOf(w) \in Drivers /\ StreamOf(w) \in Streams
    BY DEF Workers, DriverOf, StreamOf
  <2>2. ASSUME UNCHANGED <<queue, made, handed, workerVars>>
        PROVE  UNCHANGED Channel!channelVars
    BY <2>2, ChannelStutters DEF workerVars
  <2>3. ASSUME NEW a \in Apps, NEW d \in Drivers, OpenBegin(a, d) \/ CloseBegin(a, d)
        PROVE  UNCHANGED Channel!channelVars
    BY <2>2, <2>3 DEF OpenBegin, CloseBegin
  <2>4. ASSUME NEW a \in Apps, StartWorker(a) PROVE UNCHANGED Channel!channelVars
    <3> DEFINE s == CurrentWorker(cur[a], idx[a])
    <3>1. /\ pc[a] = "starting"
          /\ wpc' = [wpc EXCEPT ![s] = "checking"]
          /\ UNCHANGED <<queue, made, handed, item>>
      BY <2>4 DEF StartWorker
    <3>2. ASSUME s \in Workers PROVE wpc[s] = "none"
      <4>1. /\ DriverOf(s) = cur[a] /\ StreamOf(s) = idx[a] /\ s[3] = gen[cur[a]]
        BY DEF CurrentWorker, DriverOf, StreamOf
      <4>2. idx[a] >= idx[a]
        BY <2>0 DEF Streams
      <4>3. QED
        BY <3>1, <3>2, <4>1, <4>2 DEF OwnersInv, SlotsFree
    <3>3. \A w \in Workers : wpc'[w] = "locking" <=> wpc[w] = "locking"
      BY <2>0, <3>1, <3>2
    <3>4. QED
      BY <3>1, <3>3, ChannelStutters
  <2>5. ASSUME NEW a \in Apps, RpcOpenBegin(a) \/ RpcOpenEnd(a) \/ StopWorkers(a)
        PROVE  UNCHANGED Channel!channelVars
    BY <2>2, <2>5 DEF RpcOpenBegin, RpcOpenEnd, StopWorkers
  <2>6. ASSUME NEW a \in Apps, JoinWorker(a) PROVE Channel!Next
    <3> DEFINE s == CurrentWorker(cur[a], idx[a])
    <3>1. PICK d \in Drivers, k \in Streams : d = cur[a] /\ k = idx[a]
      BY <2>0
    <3>2. /\ wpc[<<d, k, gen[d]>>] = "exited"
          /\ queue' = [queue EXCEPT ![d][k] = <<>>]
          /\ UNCHANGED <<made, handed, wpc, item>>
      BY <2>6, <3>1 DEF JoinWorker, CurrentWorker, workerVars
    <3>3. InHand(d, k) = {}
      <4> SUFFICES ASSUME NEW w \in InHand(d, k) PROVE FALSE
        OBVIOUS
      <4>1. w \in Workers /\ Alive(w) /\ DriverOf(w) = d /\ StreamOf(w) = k
        BY DEF InHand, Alive
      <4>2. w = <<d, k, gen[d]>>
        BY <4>1 DEF AliveInv, Workers, DriverOf, StreamOf
      <4>3. QED
        BY <3>2, <4>1, <4>2 DEF Alive
    <3>4. \A e \in Drivers, j \in Streams : InHand(e, j)' = InHand(e, j)
      BY <3>2 DEF InHand, DriverOf, StreamOf
    <3>5. ASSUME NEW e \in Drivers, NEW j \in Streams
          PROVE  Pending(e, j)' = IF e = d /\ j = k THEN <<>> ELSE Pending(e, j)
      <4>1. CASE e = d /\ j = k
        <5>1. queue'[d][k] = <<>>
          BY <2>0, <3>2
        <5>2. Pending(d, k)' = <<>>
          BY <3>3, <3>4, <5>1, NumsOfEmpty DEF Pending
        <5>3. QED
          BY <4>1, <5>2
      <4>2. CASE ~(e = d /\ j = k)
        <5>1. queue'[e][j] = queue[e][j]
          BY <2>0, <3>2, <4>2
        <5>2. Pending(e, j)' = Pending(e, j)
          BY <3>2, <3>4, <5>1, PendingKept
        <5>3. QED
          BY <4>2, <5>2
      <4>3. QED
        BY <4>1, <4>2
    <3>6. Channel!Drop(<<d, k>>)
      <4>1. <<d, k>> \in Drivers \X Streams
        OBVIOUS
      <4>2. ASSUME NEW c \in Drivers \X Streams
            PROVE  Pending(c[1], c[2])' = IF c = <<d, k>> THEN <<>> ELSE Pending(c[1], c[2])
        BY <3>5
      <4>3. QED
        BY <3>2, <4>1, <4>2 DEF Channel!Drop
    <3>7. QED
      BY <3>6 DEF Channel!Next
  <2>7. ASSUME NEW a \in Apps, ApiCall(a) \/ ApiReturn(a) PROVE UNCHANGED Channel!channelVars
    BY <2>2, <2>7 DEF ApiCall, ApiReturn
  <2>8. ASSUME NEW a \in Apps, NEW d \in Drivers, NEW o \in Observers,
               ObserverRegister(a, d, o) \/ ObserverUnregister(a, d, o)
        PROVE  UNCHANGED Channel!channelVars
    BY <2>2, <2>8 DEF ObserverRegister, ObserverUnregister
  <2>9. ASSUME NEW d \in Drivers, NEW k \in Streams, Enqueue(d, k) PROVE Channel!Next
    <3>0. made[d][k] \in Nat /\ gen[d] \in Nat
      BY <2>0
    <3>1. PICK x \in Items : x = [num |-> made[d][k] + 1, session |-> gen[d]]
      <4>1. [num |-> made[d][k] + 1, session |-> gen[d]] \in Items
        BY <3>0 DEF Items
      <4>2. QED
        BY <4>1
    <3>2. /\ made' = [made EXCEPT ![d][k] = made[d][k] + 1]
          /\ queue' = [queue EXCEPT ![d][k] = Append(queue[d][k], x)]
          /\ UNCHANGED <<handed, wpc, item>>
      BY <2>9, <3>1 DEF Enqueue, workerVars
    <3>3. \A e \in Drivers, j \in Streams : InHand(e, j)' = InHand(e, j)
      BY <3>2 DEF InHand, DriverOf, StreamOf
    <3>4. Nums(queue'[d][k]) = Append(Nums(queue[d][k]), made[d][k] + 1)
      BY <2>0, <3>1, <3>2, NumsOf
    <3>5. Pending(d, k)' = Append(Pending(d, k), made[d][k] + 1)
      <4>1. CASE InHand(d, k) = {}
        BY <3>3, <3>4, <4>1 DEF Pending
      <4>2. CASE InHand(d, k) # {}
        <5>1. PICK w \in Workers : w = CHOOSE v \in InHand(d, k) : TRUE
          BY <4>2 DEF InHand
        <5>2. Pending(d, k) = <<item[w].num>> \o Nums(queue[d][k])
          BY <4>2, <5>1 DEF Pending
        <5>3. Pending(d, k)' = <<item[w].num>> \o Append(Nums(queue[d][k]), made[d][k] + 1)
          BY <3>2, <3>3, <3>4, <4>2, <5>1 DEF Pending
        <5>4. /\ item[w].num \in Nat /\ made[d][k] + 1 \in Nat
              /\ Nums(queue[d][k]) \in Seq(Nat)
          <6>1. item[w] \in Items /\ queue[d][k] \in Seq(Items)
            BY <2>0
          <6>2. item[w].num \in Nat
            BY <6>1 DEF Items
          <6>3. Nums(queue[d][k]) \in Seq(Nat)
            BY <6>1, NumsOf
          <6>4. made[d][k] + 1 \in Nat
            BY <3>0
          <6>5. QED
            BY <6>2, <6>3, <6>4
        <5>5. QED
          BY <5>2, <5>3, <5>4, FirstOf
      <4>3. QED
        BY <4>1, <4>2
    <3>6. ASSUME NEW e \in Drivers, NEW j \in Streams, ~(e = d /\ j = k)
          PROVE  Pending(e, j)' = Pending(e, j) /\ made'[e][j] = made[e][j]
      <4>1. queue'[e][j] = queue[e][j]
        BY <2>0, <3>2, <3>6
      <4>2. made'[e][j] = made[e][j]
        BY <2>0, <3>2, <3>6
      <4>3. Pending(e, j)' = Pending(e, j)
        BY <3>2, <3>3, <4>1, PendingKept
      <4>4. QED
        BY <4>2, <4>3
    <3>7. made'[d][k] = made[d][k] + 1
      BY <2>0, <3>2
    <3>8. Channel!Accept(<<d, k>>)
      <4>1. <<d, k>> \in Drivers \X Streams
        OBVIOUS
      <4>2. ASSUME NEW c \in Drivers \X Streams
            PROVE  /\ Pending(c[1], c[2])' = IF c = <<d, k>>
                                               THEN Append(Pending(c[1], c[2]), made[d][k] + 1)
                                               ELSE Pending(c[1], c[2])
                   /\ made'[c[1]][c[2]] = IF c = <<d, k>> THEN made[d][k] + 1 ELSE made[c[1]][c[2]]
        BY <3>5, <3>6, <3>7
      <4>3. QED
        BY <3>2, <4>1, <4>2 DEF Channel!Accept
    <3>9. QED
      BY <3>8 DEF Channel!Next
  <2>10. ASSUME NEW w \in Workers, Get(w) PROVE UNCHANGED Channel!channelVars
    <3>1. PICK d \in Drivers, k \in Streams : d = DriverOf(w) /\ k = StreamOf(w)
      BY <2>1
    <3>2. /\ wpc[w] = "getting" /\ queue[d][k] # <<>>
          /\ item' = [item EXCEPT ![w] = Head(queue[d][k])]
          /\ queue' = [queue EXCEPT ![d][k] = Tail(queue[d][k])]
          /\ wpc' = [wpc EXCEPT ![w] = "locking"]
          /\ UNCHANGED <<made, handed>>
      BY <2>10, <3>1 DEF Get
    <3>3. InHand(d, k) = {}
      <4> SUFFICES ASSUME NEW v \in InHand(d, k) PROVE FALSE
        OBVIOUS
      <4>1. v \in Workers /\ wpc[v] = "locking" /\ DriverOf(v) = d /\ StreamOf(v) = k
        BY DEF InHand
      <4>2. Alive(v) /\ Alive(w)
        BY <3>2, <4>1 DEF Alive
      <4>3. QED
        BY <3>1, <3>2, <4>1, <4>2, OneAlive
    <3>4. InHand(d, k)' = {w}
      <4>1. \A v \in Workers : v # w => wpc'[v] = wpc[v]
        BY <2>0, <3>2
      <4>2. wpc'[w] = "locking"
        BY <2>0, <3>2
      <4>3. QED
        BY <3>1, <3>3, <4>1, <4>2 DEF InHand, DriverOf, StreamOf
    <3>5. Pending(d, k)' = Pending(d, k)
      <4>1. Pending(d, k)' = <<item'[w].num>> \o Nums(queue'[d][k])
        BY <3>4 DEF Pending
      <4>2. item'[w] = Head(queue[d][k]) /\ queue'[d][k] = Tail(queue[d][k])
        BY <2>0, <3>2
      <4>3. Nums(queue[d][k]) = <<Head(queue[d][k]).num>> \o Nums(Tail(queue[d][k]))
        BY <2>0, <3>2, NumsOf
      <4>4. QED
        BY <3>3, <4>1, <4>2, <4>3 DEF Pending
    <3>6. ASSUME NEW e \in Drivers, NEW j \in Streams, ~(e = d /\ j = k)
          PROVE  Pending(e, j)' = Pending(e, j)
      <4>1. \A v \in InHand(e, j) \cup InHand(e, j)' : v # w /\ item'[v] = item[v] /\ wpc'[v] = wpc[v]
        BY <2>0, <3>1, <3>2, <3>6 DEF InHand, DriverOf, StreamOf
      <4>2. InHand(e, j)' = InHand(e, j)
        BY <4>1 DEF InHand, DriverOf, StreamOf
      <4>3. queue'[e][j] = queue[e][j]
        BY <2>0, <3>2, <3>6
      <4>4. QED
        BY <4>1, <4>2, <4>3, PendingKept
    <3>7. QED
      BY <3>2, <3>5, <3>6 DEF Channel!channelVars
  <2>11. ASSUME NEW w \in Workers, DispatchBegin(w) PROVE Channel!Next
    <3>1. PICK d \in Drivers, k \in Streams : d = DriverOf(w) /\ k = StreamOf(w)
      BY <2>1
    <3>2. /\ wpc[w] = "locking"
          /\ handed' = [handed EXCEPT ![d][k] = Append(handed[d][k], item[w])]
          /\ wpc' = [wpc EXCEPT ![w] = "dispatching"]
          /\ UNCHANGED <<made, queue, item>>
      BY <2>11, <3>1 DEF DispatchBegin
    <3>3. InHand(d, k) = {w}
      <4>1. w \in InHand(d, k)
        BY <3>1, <3>2 DEF InHand
      <4>2. ASSUME NEW v \in InHand(d, k) PROVE v = w
        <5>1. v \in Workers /\ wpc[v] = "locking" /\ DriverOf(v) = d /\ StreamOf(v) = k
          BY <4>2 DEF InHand
        <5>2. Alive(v) /\ Alive(w)
          BY <3>2, <5>1 DEF Alive
        <5>3. QED
          BY <3>1, <5>1, <5>2, OneAlive
      <4>3. QED
        BY <4>1, <4>2
    <3>4. \A v \in Workers : v # w => wpc'[v] = wpc[v]
      BY <2>0, <3>2
    <3>5. InHand(d, k)' = {}
      <4>1. wpc'[w] = "dispatching"
        BY <2>0, <3>2
      <4>2. QED
        BY <3>3, <3>4, <4>1 DEF InHand, DriverOf, StreamOf
    <3>6. /\ Pending(d, k) = <<item[w].num>> \o Nums(queue[d][k])
          /\ Pending(d, k)' = Nums(queue[d][k])
      BY <3>2, <3>3, <3>5 DEF Pending
    <3>7. item[w].num \in Nat /\ Nums(queue[d][k]) \in Seq(Nat)
      BY <2>0, NumsOf DEF Items
    <3>8. /\ Pending(d, k) # <<>> /\ Head(Pending(d, k)) = item[w].num
          /\ Pending(d, k)' = Tail(Pending(d, k))
      BY <3>6, <3>7, FirstOf
    <3>9. Nums(handed'[d][k]) = Append(Nums(handed[d][k]), item[w].num)
      BY <2>0, <3>2, NumsOf
    <3>10. ASSUME NEW e \in Drivers, NEW j \in Streams, ~(e = d /\ j = k)
           PROVE  Pending(e, j)' = Pending(e, j) /\ handed'[e][j] = handed[e][j]
      <4>1. InHand(e, j)' = InHand(e, j)
        BY <3>1, <3>2, <3>4, <3>10 DEF InHand, DriverOf, StreamOf
      <4>2. handed'[e][j] = handed[e][j]
        BY <2>0, <3>2, <3>10
      <4>3. QED
        BY <3>2, <4>1, <4>2, PendingKept
    <3>11. Channel!HandOver(<<d, k>>)
      <4>1. <<d, k>> \in Drivers \X Streams
        OBVIOUS
      <4>2. ASSUME NEW c \in Drivers \X Streams
            PROVE  Pending(c[1], c[2])' = IF c = <<d, k>> THEN Tail(Pending(d, k))
                                                          ELSE Pending(c[1], c[2])
        BY <3>8, <3>10
      <4>3. ASSUME NEW c \in Drivers \X Streams
            PROVE  Nums(handed'[c[1]][c[2]]) =
                     IF c = <<d, k>> THEN Append(Nums(handed[d][k]), Head(Pending(d, k)))
                                     ELSE Nums(handed[c[1]][c[2]])
        <5>1. CASE c = <<d, k>>
          BY <3>8, <3>9, <5>1
        <5>2. CASE c # <<d, k>>
          <6>1. ~(c[1] = d /\ c[2] = k)
            BY <5>2
          <6>2. handed'[c[1]][c[2]] = handed[c[1]][c[2]]
            BY <3>10, <6>1
          <6>3. QED
            BY <5>2, <6>2
        <5>3. QED
          BY <5>1, <5>2
      <4>4. QED
        BY <3>2, <3>8, <4>1, <4>2, <4>3 DEF Channel!HandOver
    <3>12. QED
      BY <3>11 DEF Channel!Next
  <2>12. ASSUME NEW w \in Workers, WorkerStep(w), ~Get(w), ~DispatchBegin(w)
         PROVE  UNCHANGED Channel!channelVars
    <3>1. /\ UNCHANGED <<queue, made, handed, item>>
          /\ \A v \in Workers : wpc'[v] = "locking" <=> wpc[v] = "locking"
      <4>1. CASE CheckRun(w) \/ GetEmpty(w)
        BY <2>0, <4>1 DEF CheckRun, GetEmpty
      <4>2. CASE CallbackReturns(w) \/ CallbackCalls(w) \/ CallbackLocksApi(w)
        BY <2>0, <4>2 DEF CallbackReturns, CallbackCalls, CallbackLocksApi, AtObserver
      <4>3. CASE CallbackApiReturns(w) \/ CallbackRaises(w) \/ DispatchEnd(w)
        BY <2>0, <4>3 DEF CallbackApiReturns, CallbackRaises, DispatchEnd, AtObserver
      <4>4. QED
        BY <2>12, <4>1, <4>2, <4>3 DEF WorkerStep, WorkerRuns
    <3>2. QED
      BY <3>1, ChannelStutters
  <2>13. CASE UNCHANGED driverVars
    BY <2>2, <2>13 DEF driverVars
  <2>14. QED
    BY <2>3, <2>4, <2>5, <2>6, <2>7, <2>8, <2>9, <2>10, <2>11, <2>12, <2>13
       DEF Next, AppStep, AppCall
<1>3. QED
  BY <1>1, <1>2, TypeCorrect, OwnersInvariant, AliveInvariant, PTL
     DEF Spec, Channel!Spec, ImplementsChannel

ChannelFacts == INSTANCE EventChannelProofs WITH
  Channels <- Drivers \X Streams,
  accepted <- [c \in Drivers \X Streams |-> made[c[1]][c[2]]],
  pending <- [c \in Drivers \X Streams |-> Pending(c[1], c[2])],
  handed <- [c \in Drivers \X Streams |-> Nums(handed[c[1]][c[2]])]

(* Observers get the items of every stream of a driver in the order in      *)
(* which the native library delivered them, none twice, over all sessions.  *)
THEOREM ObserversGetItemsInOrder ==
  ASSUME ReopenRunning = FALSE PROVE Spec => []Channel!InOrder
<1> USE DEF Channel!channelVars, ChannelFacts!channelVars
<1>1. Channel!Init <=> ChannelFacts!Init
  BY DEF Channel!Init, ChannelFacts!Init
<1>2. [Channel!Next]_(Channel!channelVars) <=> [ChannelFacts!Next]_(ChannelFacts!channelVars)
  BY DEF Channel!Next, Channel!Accept, Channel!HandOver, Channel!Drop,
         ChannelFacts!Next, ChannelFacts!Accept, ChannelFacts!HandOver, ChannelFacts!Drop
<1>3. Channel!InOrder <=> ChannelFacts!InOrder
  BY DEF Channel!InOrder, Channel!Increasing, ChannelFacts!InOrder, ChannelFacts!Increasing
<1>4. QED
  BY <1>1, <1>2, <1>3, ChannelImplemented, ChannelFacts!HandedOverInOrder, PTL
     DEF ImplementsChannel, Channel!Spec, ChannelFacts!Spec
=============================================================================
