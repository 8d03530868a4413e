------------------------------- MODULE EvtSync -------------------------------
(***************************************************************************)
(* The class EvtSync of ble_adapter.py: the rendezvous between application *)
(* threads that wait for the event answering a request, and the event      *)
(* worker that hands such events over.  An object has one condition        *)
(* variable (a Condition over a Lock) for every event id and ONE slot,     *)
(* `data', that all its event ids share; BLEAdapter keeps one object for   *)
(* every connection.                                                       *)
(*                                                                         *)
(* threading.Condition.wait is modelled by what it does: the waiter is     *)
(* registered and the lock released in one step (nobody else can register, *)
(* wake or remove a waiter without that lock), it wakes by notify_all or   *)
(* by its timeout, and it holds the lock again before it returns.  A       *)
(* waiter whose timeout has expired stays registered until it has the      *)
(* lock back.                                                              *)
(***************************************************************************)
EXTENDS Integers

CONSTANTS
  Callers,    \* application threads inside a blocking BLEAdapter call
  Objects,    \* EvtSync objects, one per connection
  Events,     \* the event ids that are waited for
  Values,     \* what an event carries, as far as callers tell it apart
  Notifier,   \* the event worker thread
  Free,       \* the owner of a lock nobody holds
  NoEvent, NoValue,   \* the fields of Python's None
  MaxNotify   \* bound: notifications in a behaviour

ASSUME ThreadsAssumption == /\ Notifier \notin Callers
                            /\ Free \notin Callers
                            /\ Free # Notifier
ASSUME NoEventAssumption == NoEvent \notin Events
ASSUME MaxNotifyAssumption == MaxNotify \in Nat

VARIABLES
  data,     \* data[o]: the slot of object o
  lock,     \* lock[o][e]: owner of the lock of o's condition for event e
  waiters,  \* waiters[o][e]: the callers registered with that condition
  pc,       \* where each caller is in wait
  obj, want,  \* the object and the event of the call it is in
  gotit,    \* whether notify_all, and not the timeout, ended its wait
  result,   \* what its last wait returned
  since,    \* history: the number of notifications when its wait began
  disturbed, \* history: another wait on its object began during its own
  npc, nobj, nevt,  \* the notification the event worker is in
  seq       \* history: how many answers have been published

callerVars == <<pc, obj, want, gotit, result, since, disturbed>>
notifierVars == <<npc, nobj, nevt, seq>>
esVars == <<data, lock, waiters, callerVars, notifierVars>>

None == [evt |-> NoEvent, seq |-> 0, val |-> NoValue]
Answer == [evt : Events, seq : Nat \ {0}, val : Values]

CallerStates == {"idle", "entering", "waiting", "waking", "reading"}

TypeOK ==
  /\ data \in [Objects -> Answer \cup {None}]
  /\ lock \in [Objects -> [Events -> Callers \cup {Notifier, Free}]]
  /\ waiters \in [Objects -> [Events -> SUBSET Callers]]
  /\ pc \in [Callers -> CallerStates]
  /\ obj \in [Callers -> Objects]
  /\ want \in [Callers -> Events]
  /\ gotit \in [Callers -> BOOLEAN]
  /\ result \in [Callers -> Answer \cup {None}]
  /\ since \in [Callers -> Nat]
  /\ disturbed \in [Callers -> BOOLEAN]
  /\ npc \in {"idle", "publishing"}
  /\ nobj \in Objects
  /\ nevt \in Events
  /\ seq \in Nat

Init ==
  /\ data = [o \in Objects |-> None]
  /\ lock = [o \in Objects |-> [e \in Events |-> Free]]
  /\ waiters = [o \in Objects |-> [e \in Events |-> {}]]
  /\ pc = [c \in Callers |-> "idle"]
  /\ obj \in [Callers -> Objects]
  /\ want \in [Callers -> Events]
  /\ gotit = [c \in Callers |-> FALSE]
  /\ result = [c \in Callers |-> None]
  /\ since = [c \in Callers |-> 0]
  /\ disturbed = [c \in Callers |-> FALSE]
  /\ npc = "idle"
  /\ nobj \in Objects
  /\ nevt \in Events
  /\ seq = 0

-----------------------------------------------------------------------------
(* wait(evt, timeout) *)

\* Mutant of Wait: the slot is not cleared.
WaitWithoutClear(c, o, e) ==
  /\ pc[c] = "idle"
  /\ pc' = [pc EXCEPT ![c] = "entering"]
  /\ obj' = [obj EXCEPT ![c] = o]
  /\ want' = [want EXCEPT ![c] = e]
  /\ gotit' = [gotit EXCEPT ![c] = FALSE]
  /\ result' = [result EXCEPT ![c] = None]
  /\ since' = [since EXCEPT ![c] = seq]
  /\ disturbed' = [b \in Callers |-> IF b = c THEN FALSE
                                   ELSE disturbed[b] \/ (pc[b] # "idle" /\ obj[b] = o)]
  /\ UNCHANGED <<data, lock, waiters, notifierVars>>

\* self.data = None, before any lock is taken.
Wait(c, o, e) ==
  /\ pc[c] = "idle"
  /\ data' = [data EXCEPT ![o] = None]
  /\ pc' = [pc EXCEPT ![c] = "entering"]
  /\ obj' = [obj EXCEPT ![c] = o]
  /\ want' = [want EXCEPT ![c] = e]
  /\ gotit' = [gotit EXCEPT ![c] = FALSE]
  /\ result' = [result EXCEPT ![c] = None]
  /\ since' = [since EXCEPT ![c] = seq]
  /\ disturbed' = [b \in Callers |-> IF b = c THEN FALSE
                                   ELSE disturbed[b] \/ (pc[b] # "idle" /\ obj[b] = o)]
  /\ UNCHANGED <<lock, waiters, notifierVars>>

\* with self.conds[evt]: self.conds[evt].wait(...) up to the release.
Register(c) ==
  LET o == obj[c]  e == want[c] IN
  /\ pc[c] = "entering"
  /\ lock[o][e] = Free
  /\ waiters' = [waiters EXCEPT ![o][e] = @ \cup {c}]
  /\ pc' = [pc EXCEPT ![c] = "waiting"]
  /\ UNCHANGED <<data, lock, obj, want, gotit, result, since, disturbed, notifierVars>>

\* The timeout expires; the caller now wants the lock back.
Timeout(c) ==
  /\ pc[c] = "waiting"
  /\ pc' = [pc EXCEPT ![c] = "waking"]
  /\ UNCHANGED <<data, lock, waiters, obj, want, gotit, result, since, disturbed, notifierVars>>

\* Mutant of Reacquire: a waiter that timed out stays registered.
ReacquireRegistered(c) ==
  LET o == obj[c]  e == want[c] IN
  /\ pc[c] = "waking"
  /\ lock[o][e] = Free
  /\ lock' = [lock EXCEPT ![o][e] = c]
  /\ pc' = [pc EXCEPT ![c] = "reading"]
  /\ UNCHANGED <<data, waiters, obj, want, gotit, result, since, disturbed, notifierVars>>

\* The caller, woken or timed out, has the lock again and is no longer
\* registered.
Reacquire(c) ==
  LET o == obj[c]  e == want[c] IN
  /\ pc[c] = "waking"
  /\ lock[o][e] = Free
  /\ lock' = [lock EXCEPT ![o][e] = c]
  /\ waiters' = [waiters EXCEPT ![o][e] = @ \ {c}]
  /\ pc' = [pc EXCEPT ![c] = "reading"]
  /\ UNCHANGED <<data, obj, want, gotit, result, since, disturbed, notifierVars>>

\* return self.data, and the release of the lock.
Return(c) ==
  LET o == obj[c]  e == want[c] IN
  /\ pc[c] = "reading"
  /\ result' = [result EXCEPT ![c] = data[o]]
  /\ lock' = [lock EXCEPT ![o][e] = Free]
  /\ pc' = [pc EXCEPT ![c] = "idle"]
  /\ UNCHANGED <<data, waiters, obj, want, gotit, since, disturbed, notifierVars>>

(* notify(evt, data) *)

\* Mutant of Publish: the payload argument is left at its default.
PublishDefault(o, e, v) ==
  /\ npc = "idle"
  /\ seq < MaxNotify
  /\ lock[o][e] = Free
  /\ lock' = [lock EXCEPT ![o][e] = Notifier]
  /\ data' = [data EXCEPT ![o] = [None EXCEPT !.evt = e]]
  /\ npc' = "publishing"
  /\ nobj' = o
  /\ nevt' = e
  /\ seq' = seq + 1
  /\ UNCHANGED <<waiters, callerVars>>

\* Mutant of Publish: the waiters are woken without the slot being written.
PublishNothing(o, e, v) ==
  /\ npc = "idle"
  /\ seq < MaxNotify
  /\ lock[o][e] = Free
  /\ lock' = [lock EXCEPT ![o][e] = Notifier]
  /\ npc' = "publishing"
  /\ nobj' = o
  /\ nevt' = e
  /\ seq' = seq + 1
  /\ UNCHANGED <<data, waiters, callerVars>>

\* with self.conds[evt]: self.data = data
Publish(o, e, v) ==
  /\ npc = "idle"
  /\ seq < MaxNotify
  /\ lock[o][e] = Free
  /\ lock' = [lock EXCEPT ![o][e] = Notifier]
  /\ data' = [data EXCEPT ![o] = [evt |-> e, seq |-> seq + 1, val |-> v]]
  /\ npc' = "publishing"
  /\ nobj' = o
  /\ nevt' = e
  /\ seq' = seq + 1
  /\ UNCHANGED <<waiters, callerVars>>

\* Mutant of NotifyAll: notify() wakes one waiter.
NotifyOne ==
  LET all == {c \in waiters[nobj][nevt] : pc[c] = "waiting"}
      woken == IF all = {} THEN {} ELSE {CHOOSE c \in all : TRUE} IN
  /\ npc = "publishing"
  /\ waiters' = [waiters EXCEPT ![nobj][nevt] = @ \ woken]
  /\ pc' = [c \in Callers |-> IF c \in woken THEN "waking" ELSE pc[c]]
  /\ gotit' = [c \in Callers |-> (c \in woken) \/ gotit[c]]
  /\ lock' = [lock EXCEPT ![nobj][nevt] = Free]
  /\ npc' = "idle"
  /\ UNCHANGED <<data, obj, want, result, since, disturbed, nobj, nevt, seq>>

\* self.conds[evt].notify_all(), and the release of the lock.
NotifyAll ==
  LET woken == {c \in waiters[nobj][nevt] : pc[c] = "waiting"} IN
  /\ npc = "publishing"
  /\ waiters' = [waiters EXCEPT ![nobj][nevt] = {}]
  /\ pc' = [c \in Callers |-> IF c \in woken THEN "waking" ELSE pc[c]]
  /\ gotit' = [c \in Callers |-> (c \in woken) \/ gotit[c]]
  /\ lock' = [lock EXCEPT ![nobj][nevt] = Free]
  /\ npc' = "idle"
  /\ UNCHANGED <<data, obj, want, result, since, disturbed, nobj, nevt, seq>>

-----------------------------------------------------------------------------
CallerStep(c) == Register(c) \/ Timeout(c) \/ Reacquire(c) \/ Return(c)

Next ==
  \/ \E c \in Callers, o \in Objects, e \in Events : Wait(c, o, e)
  \/ \E c \in Callers : CallerStep(c)
  \/ \E o \in Objects, e \in Events, v \in Values : Publish(o, e, v)
  \/ NotifyAll

Spec == Init /\ [][Next]_esVars

(* A thread inside wait or notify is scheduled again and again, a timeout   *)
(* expires, and a lock that is released again and again is obtained (the   *)
(* platform's semaphores do not starve a thread for ever).  Nothing forces *)
(* a new wait or a new notification.                                       *)
Fairness ==
  /\ WF_esVars(NotifyAll)
  /\ \A c \in Callers :
       /\ SF_esVars(Register(c))
       /\ WF_esVars(Timeout(c))
       /\ SF_esVars(Reacquire(c))
       /\ WF_esVars(Return(c))

FairSpec == Spec /\ Fairness

-----------------------------------------------------------------------------
(* A wait never returns an answer that was published before it began: what  *)
(* an earlier exchange left in the slot is cleared by line 154, and no      *)
(* interleaving of the unlocked clear with notifications and other waits    *)
(* brings it back.                                                          *)
FreshAnswer ==
  \A c \in Callers : (pc[c] = "idle" /\ result[c] # None) => result[c].seq > since[c]

(* A call that was woken by notify_all returns an answer and not None,      *)
(* unless another thread began to wait on the same object meanwhile: only   *)
(* the unlocked clear of another call can empty the slot between the        *)
(* notification and the read.                                               *)
WokenCallReturnsAnswer ==
  \A c \in Callers : (pc[c] = "idle" /\ gotit[c] /\ ~disturbed[c]) => result[c] # None

(* The lock of a condition is held exactly by the caller that reads the     *)
(* slot, or by the event worker that publishes.                             *)
LockOwners ==
  \A o \in Objects, e \in Events :
    /\ \A c \in Callers :
         lock[o][e] = c <=> (pc[c] = "reading" /\ obj[c] = o /\ want[c] = e)
    /\ lock[o][e] = Notifier <=> (npc = "publishing" /\ nobj = o /\ nevt = e)

(* Nobody is registered with a condition it is not waiting for, and a       *)
(* caller that is waiting is registered: notify_all cannot miss it.         *)
WaitersRegistered ==
  \A c \in Callers, o \in Objects, e \in Events :
    /\ c \in waiters[o][e] => /\ pc[c] \in {"waiting", "waking"}
                              /\ obj[c] = o
                              /\ want[c] = e
    /\ (pc[c] = "waiting" /\ obj[c] = o /\ want[c] = e) => c \in waiters[o][e]

(* The TODO at ble_adapter.py:653-654 calls it a bug that a wait returns    *)
(* the data of another event than the one it waited for.                    *)
WaitReturnsOwnEvent ==
  \A c \in Callers : (pc[c] = "idle" /\ result[c] # None) => result[c].evt = want[c]

-----------------------------------------------------------------------------
(* The refinement: without the numbers of the answers; a caller that the    *)
(* notification under way has found registered is as good as awake.         *)
Unnumbered(a) == [evt |-> a.evt, val |-> a.val]

BeingWoken(c) == npc = "publishing" /\ pc[c] = "waiting" /\ c \in waiters[nobj][nevt]

AbstractPc(c) == IF pc[c] = "reading" \/ BeingWoken(c) THEN "waking" ELSE pc[c]

Promise == INSTANCE Rendezvous WITH
  data <- [o \in Objects |-> Unnumbered(data[o])],
  pc <- [c \in Callers |-> AbstractPc(c)],
  result <- [c \in Callers |-> Unnumbered(result[c])]

(* Locks, condition variables and the slot together are a rendezvous: a     *)
(* notification reaches every registered waiter of its event at once, none  *)
(* is lost between the release of the lock and the wait, and every call     *)
(* goes on to its end.                                                      *)
ImplementsRendezvous == Promise!FairSpec
=============================================================================
