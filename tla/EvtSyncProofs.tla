---------------------------- MODULE EvtSyncProofs ----------------------------
(***************************************************************************)
(* What the waits and notifications of EvtSync guarantee, for any number   *)
(* of callers, objects and event ids.                                      *)
(***************************************************************************)
EXTENDS EvtSync, TLAPS

\* Every step keeps every variable within its type.
LEMMA TypeStep == TypeOK /\ [Next]_esVars => TypeOK'
<1> USE ThreadsAssumption, NoEventAssumption
<1> SUFFICES ASSUME TypeOK, [Next]_esVars PROVE TypeOK'
  OBVIOUS
<1> USE DEF TypeOK, CallerStates, callerVars, notifierVars
<1>1. ASSUME NEW c \in Callers, NEW o \in Objects, NEW e \in Events, Wait(c, o, e)
      PROVE  TypeOK'
  BY <1>1 DEF Wait
<1>2. ASSUME NEW c \in Callers, Register(c) PROVE TypeOK'
  BY <1>2 DEF Register
<1>3. ASSUME NEW c \in Callers, Timeout(c) PROVE TypeOK'
  BY <1>3 DEF Timeout
<1>4. ASSUME NEW c \in Callers, Reacquire(c) PROVE TypeOK'
  BY <1>4 DEF Reacquire
<1>5. ASSUME NEW c \in Callers, Return(c) PROVE TypeOK'
  BY <1>5 DEF Return
<1>6. ASSUME NEW o \in Objects, NEW e \in Events, NEW v \in Values, Publish(o, e, v)
      PROVE  TypeOK'
  <2>1. [evt |-> e, seq |-> seq + 1, val |-> v] \in Answer
    BY <1>6 DEF Answer
  <2>2. data' \in [Objects -> Answer \cup {None}]
    BY <1>6, <2>1 DEF Publish
  <2>3. QED
    BY <1>6, <2>2 DEF Publish
<1>7. ASSUME NotifyAll PROVE TypeOK'
  BY <1>7 DEF NotifyAll
<1>8. CASE UNCHANGED esVars
  BY <1>8 DEF esVars
<1>9. QED
  BY <1>1, <1>2, <1>3, <1>4, <1>5, <1>6, <1>7, <1>8 DEF Next, CallerStep

(* Every variable stays within its type.                                   *)
THEOREM TypeCorrect == Spec => []TypeOK
<1>1. Init => TypeOK
  BY ThreadsAssumption DEF Init, TypeOK, CallerStates
<1>2. QED
  BY <1>1, TypeStep, PTL DEF Spec

-----------------------------------------------------------------------------
(* What makes FreshAnswer inductive: no call began after the notifications  *)
(* made so far, and for a call in progress the slot it will read is empty   *)
(* or newer than the call.                                                  *)
SlotFresh ==
  \A c \in Callers :
    /\ since[c] <= seq
    /\ (pc[c] # "idle" /\ data[obj[c]] # None) => data[obj[c]].seq > since[c]

FreshInv == SlotFresh /\ FreshAnswer

(* A wait never returns an answer published before it began.               *)
THEOREM WaitsReturnFreshAnswers == Spec => []FreshAnswer
<1>1. Init => FreshInv
  BY DEF Init, FreshInv, SlotFresh, FreshAnswer
<1>2. TypeOK /\ TypeOK' /\ FreshInv /\ [Next]_esVars => FreshInv'
  <2> SUFFICES ASSUME TypeOK, TypeOK', FreshInv, [Next]_esVars PROVE FreshInv'
    OBVIOUS
  <2> USE DEF TypeOK, FreshInv, SlotFresh, FreshAnswer, callerVars, notifierVars
  <2>1. ASSUME NEW c \in Callers, NEW o \in Objects, NEW e \in Events, Wait(c, o, e)
        PROVE  FreshInv'
    BY <2>1 DEF Wait
  <2>2. ASSUME NEW c \in Callers, Register(c) PROVE FreshInv'
    BY <2>2 DEF Register
  <2>3. ASSUME NEW c \in Callers, Timeout(c) PROVE FreshInv'
    BY <2>3 DEF Timeout
  <2>4. ASSUME NEW c \in Callers, Reacquire(c) PROVE FreshInv'
    BY <2>4 DEF Reacquire
  <2>5. ASSUME NEW c \in Callers, Return(c) PROVE FreshInv'
    BY <2>5 DEF Return
  <2>6. ASSUME NEW o \in Objects, NEW e \in Events, NEW v \in Values, Publish(o, e, v)
        PROVE  FreshInv'
    BY <2>6 DEF Publish
  <2>7. ASSUME NotifyAll PROVE FreshInv'
    BY <2>7 DEF NotifyAll
  <2>8. CASE UNCHANGED esVars
    BY <2>8 DEF esVars
  <2>9. QED
    BY <2>1, <2>2, <2>3, <2>4, <2>5, <2>6, <2>7, <2>8 DEF Next, CallerStep
<1>3. QED
  BY <1>1, <1>2, TypeCorrect, PTL DEF Spec, FreshInv

-----------------------------------------------------------------------------
(* The lock of a condition is held by the caller that reads the slot or by  *)
(* the event worker that publishes, and by nobody else.                     *)
LEMMA LocksOwned == Spec => []LockOwners
<1> USE ThreadsAssumption
<1>1. Init => LockOwners
  BY DEF Init, LockOwners
<1>2. TypeOK /\ LockOwners /\ [Next]_esVars => LockOwners'
  <2> SUFFICES ASSUME TypeOK, LockOwners, [Next]_esVars PROVE LockOwners'
    OBVIOUS
  <2> USE DEF TypeOK, LockOwners, callerVars, notifierVars
  <2>1. ASSUME NEW c \in Callers, NEW o \in Objects, NEW e \in Events, Wait(c, o, e)
        PROVE  LockOwners'
    BY <2>1 DEF Wait
  <2>2. ASSUME NEW c \in Callers, Register(c) PROVE LockOwners'
    BY <2>2 DEF Register
  <2>3. ASSUME NEW c \in Callers, Timeout(c) PROVE LockOwners'
    BY <2>3 DEF Timeout
  <2>4. ASSUME NEW c \in Callers, Reacquire(c) PROVE LockOwners'
    BY <2>4 DEF Reacquire
  <2>5. ASSUME NEW c \in Callers, Return(c) PROVE LockOwners'
    BY <2>5 DEF Return
  <2>6. ASSUME NEW o \in Objects, NEW e \in Events, NEW v \in Values, Publish(o, e, v)
        PROVE  LockOwners'
    BY <2>6 DEF Publish
  <2>7. ASSUME NotifyAll PROVE LockOwners'
    BY <2>7 DEF NotifyAll
  <2>8. CASE UNCHANGED esVars
    BY <2>8 DEF esVars
  <2>9. QED
    BY <2>1, <2>2, <2>3, <2>4, <2>5, <2>6, <2>7, <2>8 DEF Next, CallerStep
<1>3. QED
  BY <1>1, <1>2, TypeCorrect, PTL DEF Spec

(* A caller that waits is registered with the condition of its own event,   *)
(* so that no notification of that event can miss it, and nobody else is.   *)
THEOREM WaitersAreRegistered == Spec => []WaitersRegistered
<1>1. Init => WaitersRegistered
  BY DEF Init, WaitersRegistered
<1>2. TypeOK /\ WaitersRegistered /\ [Next]_esVars => WaitersRegistered'
  <2> SUFFICES ASSUME TypeOK, WaitersRegistered, [Next]_esVars
               PROVE  WaitersRegistered'
    OBVIOUS
  <2> USE DEF TypeOK, WaitersRegistered, callerVars, notifierVars
  <2>1. ASSUME NEW c \in Callers, NEW o \in Objects, NEW e \in Events, Wait(c, o, e)
        PROVE  WaitersRegistered'
    BY <2>1 DEF Wait
  <2>2. ASSUME NEW c \in Callers, Register(c) PROVE WaitersRegistered'
    BY <2>2 DEF Register
  <2>3. ASSUME NEW c \in Callers, Timeout(c) PROVE WaitersRegistered'
    BY <2>3 DEF Timeout
  <2>4. ASSUME NEW c \in Callers, Reacquire(c) PROVE WaitersRegistered'
    BY <2>4 DEF Reacquire
  <2>5. ASSUME NEW c \in Callers, Return(c) PROVE WaitersRegistered'
    BY <2>5 DEF Return
  <2>6. ASSUME NEW o \in Objects, NEW e \in Events, NEW v \in Values, Publish(o, e, v)
        PROVE  WaitersRegistered'
    BY <2>6 DEF Publish
  <2>7. ASSUME NotifyAll PROVE WaitersRegistered'
    BY <2>7 DEF NotifyAll
  <2>8. CASE UNCHANGED esVars
    BY <2>8 DEF esVars
  <2>9. QED
    BY <2>1, <2>2, <2>3, <2>4, <2>5, <2>6, <2>7, <2>8 DEF Next, CallerStep
<1>3. QED
  BY <1>1, <1>2, TypeCorrect, PTL DEF Spec

-----------------------------------------------------------------------------
(* What makes WokenCallReturnsAnswer inductive.  From the moment notify_all *)
(* has woken an undisturbed caller until it has read the slot, the slot is  *)
(* not empty; nor is it between Publish and NotifyAll, if an undisturbed    *)
(* caller is registered with the condition that is being notified.          *)
SlotKept ==
  /\ \A c \in Callers :
       (pc[c] \in {"waking", "reading"} /\ gotit[c] /\ ~disturbed[c]) => data[obj[c]] # None
  /\ \A c \in Callers :
       (npc = "publishing" /\ c \in waiters[nobj][nevt] /\ ~disturbed[c]) => data[nobj] # None
  /\ \A c \in Callers : pc[c] \in {"entering", "waiting"} => ~gotit[c]

WokenInv == SlotKept /\ WokenCallReturnsAnswer

(* A call that notify_all has woken returns an answer and not None, unless  *)
(* another thread began to wait on the same object meanwhile.               *)
THEOREM WokenCallsReturnAnswers == Spec => []WokenCallReturnsAnswer
<1> USE ThreadsAssumption
<1>1. Init => WokenInv
  BY DEF Init, WokenInv, SlotKept, WokenCallReturnsAnswer
<1>2. /\ TypeOK /\ TypeOK'
      /\ LockOwners /\ WaitersRegistered
      /\ WokenInv
      /\ [Next]_esVars
      => WokenInv'
  <2> SUFFICES ASSUME TypeOK, TypeOK', LockOwners, WaitersRegistered, WokenInv, [Next]_esVars
               PROVE  WokenInv'
    OBVIOUS
  <2> USE DEF TypeOK, WokenInv, SlotKept, WokenCallReturnsAnswer,
              callerVars, notifierVars, CallerStates
  <2>1. ASSUME NEW c \in Callers, NEW o \in Objects, NEW e \in Events, Wait(c, o, e)
        PROVE  WokenInv'
    <3>1. c \notin waiters[nobj][nevt]
      BY <2>1 DEF Wait, WaitersRegistered
    <3>2. \A b \in Callers :
            b \in waiters[nobj][nevt] => pc[b] # "idle" /\ obj[b] = nobj
      BY DEF WaitersRegistered
    <3>3. QED
      BY <2>1, <3>1, <3>2 DEF Wait
  <2>2. ASSUME NEW c \in Callers, Register(c) PROVE WokenInv'
    <3>1. npc = "publishing" => ~(obj[c] = nobj /\ want[c] = nevt)
      BY <2>2 DEF Register, LockOwners
    <3>2. QED
      BY <2>2, <3>1 DEF Register
  <2>3. ASSUME NEW c \in Callers, Timeout(c) PROVE WokenInv'
    BY <2>3 DEF Timeout
  <2>4. ASSUME NEW c \in Callers, Reacquire(c) PROVE WokenInv'
    BY <2>4 DEF Reacquire
  <2>5. ASSUME NEW c \in Callers, Return(c) PROVE WokenInv'
    BY <2>5 DEF Return
  <2>6. ASSUME NEW o \in Objects, NEW e \in Events, NEW v \in Values, Publish(o, e, v)
        PROVE  WokenInv'
    <3>1. [evt |-> e, seq |-> seq + 1, val |-> v] # None
      BY <2>6 DEF None
    <3>2. QED
      BY <2>6, <3>1 DEF Publish
  <2>7. ASSUME NotifyAll PROVE WokenInv'
    <3>1. ASSUME NEW c \in waiters[nobj][nevt], ~disturbed[c]
          PROVE  obj[c] = nobj /\ data[nobj] # None
      BY <2>7, <3>1 DEF NotifyAll, WaitersRegistered
    <3>2. QED
      BY <2>7, <3>1 DEF NotifyAll
  <2>8. CASE UNCHANGED esVars
    BY <2>8 DEF esVars
  <2>9. QED
    BY <2>1, <2>2, <2>3, <2>4, <2>5, <2>6, <2>7, <2>8 DEF Next, CallerStep
<1>3. QED
  BY <1>1, <1>2, TypeCorrect, LocksOwned, WaitersAreRegistered, PTL DEF Spec, WokenInv

-----------------------------------------------------------------------------
(* Which step of the rendezvous a step of a caller is.  A timeout, or a     *)
(* reacquisition, of a caller that counts as awake already is none.         *)
LEMMA CallerRefines ==
  ASSUME NEW c \in Callers,
         TypeOK, LockOwners, WaitersRegistered,
         CallerStep(c)
  PROVE  Promise!CallerStep(c) \/ UNCHANGED Promise!rvVars
<1> USE ThreadsAssumption
<1> USE DEF TypeOK, CallerStates, callerVars, notifierVars, AbstractPc, BeingWoken, Unnumbered
<1>1. CASE Register(c)
  <2>1. ~(npc = "publishing" /\ nobj = obj[c] /\ nevt = want[c])
    BY <1>1 DEF Register, LockOwners
  <2>2. \A b \in Callers : BeingWoken(b)' <=> BeingWoken(b)
    BY <1>1, <2>1 DEF Register, WaitersRegistered
  <2>3. Promise!Register(c)
    BY <1>1, <2>1, <2>2 DEF Register, Promise!Register
  <2>4. QED
    BY <2>3 DEF Promise!CallerStep
<1>2. CASE Timeout(c)
  <2>1. CASE BeingWoken(c)
    BY <1>2, <2>1 DEF Timeout, Promise!rvVars
  <2>2. CASE ~BeingWoken(c)
    <3>1. Promise!Timeout(c)
      BY <1>2, <2>2 DEF Timeout, Promise!Timeout
    <3>2. QED
      BY <3>1 DEF Promise!CallerStep
  <2>3. QED
    BY <2>1, <2>2
<1>3. CASE Reacquire(c)
  BY <1>3 DEF Reacquire, Promise!rvVars
<1>4. CASE Return(c)
  <2>1. Promise!Return(c)
    BY <1>4 DEF Return, Promise!Return
  <2>2. QED
    BY <2>1 DEF Promise!CallerStep
<1>5. QED
  BY <1>1, <1>2, <1>3, <1>4 DEF CallerStep

(* The locks, the conditions and the slot implement the rendezvous: whatever *)
(* the interleaving, what callers see is a slot and notifications that      *)
(* reach at once every caller that waits for their event.                   *)
THEOREM RendezvousImplemented == Spec => Promise!Spec
<1> USE ThreadsAssumption
<1> USE DEF TypeOK, CallerStates, callerVars, notifierVars, AbstractPc, BeingWoken, Unnumbered
<1>1. Init => Promise!Init
  BY DEF Init, None, Promise!Init, Promise!None
<1>2. /\ TypeOK /\ TypeOK'
      /\ LockOwners /\ WaitersRegistered
      /\ [Next]_esVars
      => [Promise!Next]_(Promise!rvVars)
  <2> SUFFICES ASSUME TypeOK, TypeOK', LockOwners, WaitersRegistered, [Next]_esVars
               PROVE  Promise!Next \/ UNCHANGED Promise!rvVars
    OBVIOUS
  <2>1. ASSUME NEW c \in Callers, NEW o \in Objects, NEW e \in Events, Wait(c, o, e)
        PROVE  Promise!Next
    <3>1. \A b \in Callers :
            BeingWoken(b)' = BeingWoken(b) /\ AbstractPc(b)' = IF b = c THEN "entering" ELSE AbstractPc(b)
      BY <2>1 DEF Wait, WaitersRegistered
    <3>2. \A x \in Objects : Unnumbered(data[x])' = IF x = o THEN Promise!None ELSE Unnumbered(data[x])
      BY <2>1 DEF Wait, None, Promise!None
    <3>3. \A b \in Callers : Unnumbered(result[b])' = IF b = c THEN Promise!None ELSE Unnumbered(result[b])
      BY <2>1 DEF Wait, None, Promise!None
    <3>4. AbstractPc(c) = "idle" /\ obj' = [obj EXCEPT ![c] = o] /\ want' = [want EXCEPT ![c] = e]
      BY <2>1 DEF Wait
    <3>5. Promise!Wait(c, o, e)
      <4> HIDE DEF AbstractPc, Unnumbered, TypeOK
      <4>1. QED
        BY <3>1, <3>2, <3>3, <3>4 DEF Promise!Wait
    <3>6. QED
      BY <3>5 DEF Promise!Next
  <2>2. ASSUME NEW c \in Callers, CallerStep(c)
        PROVE  Promise!Next \/ UNCHANGED Promise!rvVars
    BY <2>2, CallerRefines DEF Promise!Next
  <2>3. ASSUME NEW o \in Objects, NEW e \in Events, NEW v \in Values, Publish(o, e, v)
        PROVE  Promise!Next
    <3>1. \A c \in Callers :
            AbstractPc(c)' = IF AbstractPc(c) = "waiting" /\ obj[c] = o /\ want[c] = e
                              THEN "waking" ELSE AbstractPc(c)
      BY <2>3 DEF Publish, WaitersRegistered
    <3>2. \A x \in Objects :
            Unnumbered(data[x])' = IF x = o THEN [evt |-> e, val |-> v] ELSE Unnumbered(data[x])
      BY <2>3 DEF Publish
    <3>3. UNCHANGED <<obj, want, result>>
      BY <2>3 DEF Publish
    <3>4. Promise!Notify(o, e, v)
      <4> HIDE DEF AbstractPc, TypeOK
      <4>1. QED
        BY <3>1, <3>2, <3>3 DEF Promise!Notify
    <3>5. QED
      BY <3>4 DEF Promise!Next
  <2>4. CASE NotifyAll
    BY <2>4 DEF NotifyAll, Promise!rvVars
  <2>5. CASE UNCHANGED esVars
    BY <2>5 DEF esVars, Promise!rvVars
  <2>6. QED
    BY <2>1, <2>2, <2>3, <2>4, <2>5 DEF Next
<1>3. QED
  BY <1>1, <1>2, TypeCorrect, LocksOwned, WaitersAreRegistered, PTL DEF Spec, Promise!Spec
=============================================================================
