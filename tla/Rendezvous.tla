----------------------------- MODULE Rendezvous -----------------------------
(***************************************************************************)
(* What the class EvtSync promises to its users, without its locks and     *)
(* condition variables: an object has one slot; a call empties the slot,   *)
(* becomes a waiter a moment later, wakes by a notification of its event   *)
(* or by its timeout, and returns what the slot then holds.                *)
(* EvtSync implements it (EvtSync!ImplementsRendezvous), and the modules   *)
(* that compose longer procedures use it in EvtSync's place.               *)
(***************************************************************************)

CONSTANTS
  Callers, Objects, Events, Values, NoEvent, NoValue   \* see EvtSync

VARIABLES
  data,      \* data[o]: the slot of object o
  pc,        \* where each caller is in wait
  obj, want, \* the object and the event of its call
  result     \* what its last wait returned

rvVars == <<data, pc, obj, want, result>>

None == [evt |-> NoEvent, val |-> NoValue]
Answer == [evt : Events, val : Values]

TypeOK ==
  /\ data \in [Objects -> Answer \cup {None}]
  /\ pc \in [Callers -> {"idle", "entering", "waiting", "waking"}]
  /\ obj \in [Callers -> Objects]
  /\ want \in [Callers -> Events]
  /\ result \in [Callers -> Answer \cup {None}]

Init ==
  /\ data = [o \in Objects |-> None]
  /\ pc = [c \in Callers |-> "idle"]
  /\ obj \in [Callers -> Objects]
  /\ want \in [Callers -> Events]
  /\ result = [c \in Callers |-> None]

-----------------------------------------------------------------------------
Wait(c, o, e) ==
  /\ pc[c] = "idle"
  /\ data' = [data EXCEPT ![o] = None]
  /\ pc' = [pc EXCEPT ![c] = "entering"]
  /\ obj' = [obj EXCEPT ![c] = o]
  /\ want' = [want EXCEPT ![c] = e]
  /\ result' = [result EXCEPT ![c] = None]

Register(c) ==
  /\ pc[c] = "entering"
  /\ pc' = [pc EXCEPT ![c] = "waiting"]
  /\ UNCHANGED <<data, obj, want, result>>

Timeout(c) ==
  /\ pc[c] = "waiting"
  /\ pc' = [pc EXCEPT ![c] = "waking"]
  /\ UNCHANGED <<data, obj, want, result>>

\* The slot is shared by all events of the object.
Return(c) ==
  /\ pc[c] = "waking"
  /\ pc' = [pc EXCEPT ![c] = "idle"]
  /\ result' = [result EXCEPT ![c] = data[obj[c]]]
  /\ UNCHANGED <<data, obj, want>>

Notify(o, e, v) ==
  /\ data' = [data EXCEPT ![o] = [evt |-> e, val |-> v]]
  /\ pc' = [c \in Callers |->
             IF pc[c] = "waiting" /\ obj[c] = o /\ want[c] = e THEN "waking" ELSE pc[c]]
  /\ UNCHANGED <<obj, want, result>>

-----------------------------------------------------------------------------
CallerStep(c) == Register(c) \/ Timeout(c) \/ Return(c)

Next ==
  \/ \E c \in Callers, o \in Objects, e \in Events : Wait(c, o, e)
  \/ \E c \in Callers : CallerStep(c)
  \/ \E o \in Objects, e \in Events, v \in Values : Notify(o, e, v)

Spec == Init /\ [][Next]_rvVars

(* A call that has begun goes on to its end.                                *)
Fairness == \A c \in Callers : WF_rvVars(CallerStep(c))

FairSpec == Spec /\ Fairness
=============================================================================
