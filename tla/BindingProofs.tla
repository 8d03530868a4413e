---------------------------- MODULE BindingProofs ----------------------------
(***************************************************************************)
(* What the locks, the map of contexts and the reference counts of the     *)
(* native binding guarantee, for any number of application threads, native *)
(* threads, adapters and contexts.                                         *)
(***************************************************************************)
EXTENDS Binding, TLAPS

\* Where an application thread may have a GILStateWrapper.
InPython == {"add", "result", "convert", "release"}

(* Every thread is where its kind of thread can be, and every lock is held  *)
(* by the thread that is between its acquisition and its release.           *)
LockInv ==
  /\ \A t \in Apps : /\ pc[t] \in AppStates
                     /\ apiLock = t <=> pc[t] # "out"
                     /\ scope[t] # "none" => pc[t] \in InPython
  /\ \A n \in Natives : /\ pc[n] \in NativeStates
                        /\ scope[n] # "none" <=> pc[n] \in {"call", "resumed"}
                        /\ pc[n] \in {"check", "lock", "call", "resumed"} => context[n] # NoContext
  /\ \A p \in Threads : /\ gilMutex = p <=> scope[p] \in {"want_gil", "in"}
                        /\ gil = p <=> scope[p] = "in"
  /\ \A p \in Threads, x \in Contexts :
       mutex[x] = p <=> pc[p] \in {"release", "call", "resumed"} /\ context[p] = x

Registered(x) == \E a \in Adapters : contexts[a] = x
Unreferenced(x) == \E t \in Apps : pc[t] = "incref" /\ context[t] = x

(* A context belongs to one adapter and has its references from Incref on   *)
(* until it is released; open and close work on the registered one.         *)
RefInv ==
  /\ \A a, b \in Adapters : (contexts[a] = contexts[b] /\ contexts[a] # NoContext) => a = b
  /\ \A a \in Adapters : contexts[a] <= made
  /\ \A t \in Apps : pc[t] = "add" => made < MaxContexts
  /\ \A t \in Apps : pc[t] \in {"incref", "set", "lock_close", "release"} =>
       context[t] # NoContext /\ context[t] = contexts[adapter[t]]
  /\ \A x \in Contexts : refs[x] = IF Registered(x) /\ ~Unreferenced(x) THEN 1 ELSE 0

(* When callbacks may start, those of the adapter's context are set, and a  *)
(* lookup that no write of the map overlaps finds such a context.           *)
DeliverInv ==
  /\ \A a \in live : contexts[a] \in isSet
  /\ \A n \in Natives : (known[n] /\ ~raced[n]) =>
       /\ pc[n] = "find" => contexts[AdapterOf[n]] \in isSet
       /\ pc[n] = "check" => context[n] \in isSet
       /\ pc[n] # "dropped"

(* No callback starts while open has not set the callbacks, and none after  *)
(* sd_rpc_close has begun; of an adapter whose close waits for its threads, *)
(* no callback is under way then or without a context, and one that has     *)
(* found a context works on the registered one.                             *)
JoinInv ==
  /\ \A t \in Apps :
       pc[t] \in {"incref", "set", "rpc_join", "find_close", "lock_close", "release"} =>
         adapter[t] \notin live
  /\ \A n \in Natives : AdapterOf[n] \in Joined =>
       /\ \A t \in Apps :
            (/\ pc[t] \in {"incref", "set", "find_close", "lock_close", "release"}
             /\ adapter[t] = AdapterOf[n]) => pc[n] = "out"
       /\ contexts[AdapterOf[n]] = NoContext => pc[n] = "out"
       /\ pc[n] \in {"check", "lock", "call", "resumed"} => context[n] = contexts[AdapterOf[n]]

Inv == TypeOK /\ LockInv /\ RefInv /\ DeliverInv /\ JoinInv

-----------------------------------------------------------------------------
\* A step keeps the types: open makes a context only while there are numbers
\* left, and the count that close lowers is 1.
LEMMA TypeStep ==
  ASSUME TypeOK, LockInv, RefInv, [Next]_vars PROVE TypeOK'
<1> USE ThreadsAssumption, AdaptersAssumption, MaxContextsAssumption
<1> USE DEF Threads, contextVars, threadVars, lockVars, Go, GoToScope, InScope,
            LeaveScope, WriteMap, Leave
<1> USE DEF TypeOK, AppStates, NativeStates, Contexts, NoContext
<1>1. ASSUME NEW p \in Threads, TakeGilMutex(p) PROVE TypeOK'
  BY <1>1 DEF TakeGilMutex
<1>2. ASSUME NEW p \in Threads, TakeGil(p) PROVE TypeOK'
  BY <1>2 DEF TakeGil
<1>3. ASSUME NEW t \in Apps, NEW a \in Adapters, OpenEnter(t, a) \/ CloseEnter(t, a) PROVE TypeOK'
  <2>1. PICK label \in {"add", "convert"} : Enter(t, a, label)
    BY <1>3 DEF OpenEnter, CloseEnter
  <2>2. QED
    BY <2>1 DEF Enter
<1>4. ASSUME NEW t \in Apps, AddContext(t) PROVE TypeOK'
  <2>1. made + 1 \in Contexts /\ made + 1 \in 0..MaxContexts
    BY <1>4 DEF AddContext, RefInv
  <2>2. /\ pc' \in [Threads -> AppStates \cup NativeStates]
        /\ scope' \in [Threads -> {"none", "want_mutex", "want_gil", "in"}]
    BY <1>4 DEF AddContext
  <2>3. CASE contexts[adapter[t]] # NoContext
    BY <1>4, <2>2, <2>3 DEF AddContext
  <2>4. CASE contexts[adapter[t]] = NoContext
    <3>1. raced' = [n \in Natives |-> raced[n] \/ pc[n] = "find"]
      BY <1>4, <2>4 DEF AddContext
    <3>2. raced' \in [Natives -> BOOLEAN]
      BY <3>1
    <3>3. /\ contexts' = [contexts EXCEPT ![adapter[t]] = made + 1]
          /\ context' = [context EXCEPT ![t] = made + 1]
          /\ made' = made + 1
      BY <1>4, <2>4 DEF AddContext
    <3>4. /\ contexts' \in [Adapters -> Contexts \cup {NoContext}]
          /\ made' \in 0..MaxContexts /\ context' \in [Threads -> Contexts \cup {NoContext}]
      BY <2>1, <3>3
    <3>5. QED
      BY <1>4, <2>2, <3>2, <3>4 DEF AddContext
  <2>5. QED
    BY <2>3, <2>4
<1>5. ASSUME NEW t \in Apps, Incref(t) PROVE TypeOK'
  <2>1. context[t] \in Contexts /\ refs[context[t]] + 1 \in Nat
    BY <1>5 DEF Incref, RefInv
  <2>2. refs' \in [Contexts -> Nat]
    BY <1>5, <2>1 DEF Incref
  <2>3. QED
    BY <1>5, <2>2 DEF Incref
<1>6. ASSUME NEW t \in Apps, SetCallbacks(t) PROVE TypeOK'
  <2>1. context[t] \in Contexts /\ adapter[t] \in Adapters
    BY <1>6 DEF SetCallbacks, RefInv
  <2>2. QED
    BY <1>6, <2>1 DEF SetCallbacks
<1>7. ASSUME NEW t \in Apps, NEW ok \in BOOLEAN, RpcOpenReturns(t, ok) PROVE TypeOK'
  BY <1>7 DEF RpcOpenReturns
<1>8. ASSUME NEW t \in Apps, OpenResult(t) PROVE TypeOK'
  BY <1>8 DEF OpenResult
<1>9. ASSUME NEW t \in Apps, Return(t) PROVE TypeOK'
  BY <1>9 DEF Return
<1>10. ASSUME NEW t \in Apps, Convert(t) PROVE TypeOK'
  BY <1>10 DEF Convert
<1>11. ASSUME NEW t \in Apps, RpcClose(t) PROVE TypeOK'
  BY <1>11 DEF RpcClose
<1>12. ASSUME NEW t \in Apps, RpcJoin(t) PROVE TypeOK'
  BY <1>12 DEF RpcJoin
<1>13. ASSUME NEW t \in Apps, FindToClose(t) PROVE TypeOK'
  BY <1>13 DEF FindToClose
<1>14. ASSUME NEW t \in Apps, LockToClose(t) PROVE TypeOK'
  BY <1>14 DEF LockToClose
<1>15. ASSUME NEW t \in Apps, Release(t) PROVE TypeOK'
  <2>1. context[t] \in Contexts /\ refs[context[t]] = 1
    <3>0. pc[t] = "release" /\ adapter[t] \in Adapters
      BY <1>15 DEF Release, InScope
    <3>1. context[t] # NoContext /\ context[t] = contexts[adapter[t]]
      BY <3>0 DEF RefInv
    <3>2. context[t] \in Contexts
      BY <3>0, <3>1
    <3>3. \A s \in Apps : pc[s] # "incref"
      BY <3>0, <1>15 DEF LockInv, Release
    <3>4. Registered(context[t]) /\ ~Unreferenced(context[t])
      BY <3>0, <3>1, <3>3 DEF Registered, Unreferenced
    <3>5. QED
      BY <3>2, <3>4 DEF RefInv
  <2>2. refs' \in [Contexts -> Nat]
    BY <1>15, <2>1 DEF Release
  <2>3. contexts' \in [Adapters -> Contexts \cup {NoContext}] /\ raced' \in [Natives -> BOOLEAN]
    BY <1>15 DEF Release
  <2>4. mutex' \in [Contexts -> Threads \cup {Free}]
    BY <1>15 DEF Release
  <2>5. /\ pc' \in [Threads -> AppStates \cup NativeStates]
        /\ scope' \in [Threads -> {"none", "want_mutex", "want_gil", "in"}]
    BY <1>15 DEF Release
  <2>6. QED
    BY <1>15, <2>2, <2>3, <2>4, <2>5 DEF Release
<1>16. ASSUME NEW n \in Natives, CallbackBegin(n) PROVE TypeOK'
  BY <1>16 DEF CallbackBegin
<1>17. ASSUME NEW n \in Natives, Find(n) PROVE TypeOK'
  <2>1. \E l \in {"check", "dropped"} : pc' = [pc EXCEPT ![n] = l]
    BY <1>17 DEF Find
  <2>2. pc' \in [Threads -> AppStates \cup NativeStates]
    BY <2>1
  <2>3. contexts[AdapterOf[n]] \in Contexts \cup {NoContext}
    OBVIOUS
  <2>4. context' \in [Threads -> Contexts \cup {NoContext}]
    BY <1>17, <2>3 DEF Find
  <2>5. UNCHANGED <<lockVars, contextVars, live, adapter, scope, raced, known>>
    BY <1>17 DEF Find
  <2>6. QED
    BY <2>2, <2>4, <2>5
<1>18. ASSUME NEW n \in Natives, Check(n) PROVE TypeOK'
  BY <1>18 DEF Check
<1>19. ASSUME NEW n \in Natives, LockContext(n) PROVE TypeOK'
  BY <1>19 DEF LockContext
<1>20. ASSUME NEW n \in Natives, Switch(n) PROVE TypeOK'
  BY <1>20 DEF Switch
<1>21. ASSUME NEW n \in Natives, CallEnd(n) PROVE TypeOK'
  BY <1>21 DEF CallEnd
<1>22. ASSUME NEW n \in Natives, LeaveDropped(n) PROVE TypeOK'
  BY <1>22 DEF LeaveDropped
<1>23. CASE UNCHANGED vars
  BY <1>23 DEF vars, lockVars, contextVars, threadVars
<1> HIDE DEF TypeOK, AppStates, NativeStates
<1>24. QED
  BY <1>1, <1>2, <1>3, <1>4, <1>5, <1>6, <1>7, <1>8, <1>9, <1>10, <1>11, <1>12, <1>13, <1>14,
     <1>15, <1>16, <1>17, <1>18, <1>19, <1>20, <1>21, <1>22, <1>23
     DEF Next, AppStep, NativeStep, Threads
\* A step keeps who holds which lock.
LEMMA LockStep ==
  ASSUME TypeOK, LockInv, [Next]_vars PROVE LockInv'
<1> USE ThreadsAssumption, AdaptersAssumption, MaxContextsAssumption
<1> USE DEF Threads, contextVars, threadVars, lockVars, Go, GoToScope, InScope,
            LeaveScope, WriteMap, Leave
<1> USE DEF TypeOK, LockInv, InPython, AppStates, NativeStates
<1>1. ASSUME NEW p \in Threads, TakeGilMutex(p) PROVE LockInv'
  BY <1>1 DEF TakeGilMutex
<1>2. ASSUME NEW p \in Threads, TakeGil(p) PROVE LockInv'
  BY <1>2 DEF TakeGil
<1>3. ASSUME NEW t \in Apps, NEW a \in Adapters, OpenEnter(t, a) \/ CloseEnter(t, a)
      PROVE  LockInv'
  BY <1>3 DEF OpenEnter, CloseEnter, Enter
<1>4. ASSUME NEW t \in Apps, AddContext(t) PROVE LockInv'
  BY <1>4 DEF AddContext
<1>5. ASSUME NEW t \in Apps, Incref(t) PROVE LockInv'
  BY <1>5 DEF Incref
<1>6. ASSUME NEW t \in Apps, SetCallbacks(t) PROVE LockInv'
  BY <1>6 DEF SetCallbacks
<1>7. ASSUME NEW t \in Apps, NEW ok \in BOOLEAN, RpcOpenReturns(t, ok) PROVE LockInv'
  BY <1>7 DEF RpcOpenReturns
<1>8. ASSUME NEW t \in Apps, OpenResult(t) PROVE LockInv'
  BY <1>8 DEF OpenResult
<1>9. ASSUME NEW t \in Apps, Return(t) PROVE LockInv'
  BY <1>9 DEF Return
<1>10. ASSUME NEW t \in Apps, Convert(t) PROVE LockInv'
  BY <1>10 DEF Convert
<1>11. ASSUME NEW t \in Apps, RpcClose(t) PROVE LockInv'
  BY <1>11 DEF RpcClose
<1>12. ASSUME NEW t \in Apps, RpcJoin(t) PROVE LockInv'
  BY <1>12 DEF RpcJoin
<1>13. ASSUME NEW t \in Apps, FindToClose(t) PROVE LockInv'
  BY <1>13 DEF FindToClose
<1>14. ASSUME NEW t \in Apps, LockToClose(t) PROVE LockInv'
  BY <1>14 DEF LockToClose
<1>15. ASSUME NEW t \in Apps, Release(t) PROVE LockInv'
  BY <1>15 DEF Release
<1>16. ASSUME NEW n \in Natives, CallbackBegin(n) PROVE LockInv'
  BY <1>16 DEF CallbackBegin
<1>17. ASSUME NEW n \in Natives, Find(n) PROVE LockInv'
  BY <1>17 DEF Find
<1>18. ASSUME NEW n \in Natives, Check(n) PROVE LockInv'
  BY <1>18 DEF Check
<1>19. ASSUME NEW n \in Natives, LockContext(n) PROVE LockInv'
  BY <1>19 DEF LockContext
<1>20. ASSUME NEW n \in Natives, Switch(n) PROVE LockInv'
  BY <1>20 DEF Switch
<1>21. ASSUME NEW n \in Natives, CallEnd(n) PROVE LockInv'
  BY <1>21 DEF CallEnd
<1>22. ASSUME NEW n \in Natives, LeaveDropped(n) PROVE LockInv'
  BY <1>22 DEF LeaveDropped
<1>23. CASE UNCHANGED vars
  BY <1>23 DEF vars, lockVars, contextVars, threadVars
<1> HIDE DEF TypeOK, LockInv, InPython, AppStates, NativeStates
<1>24. QED
  BY <1>1, <1>2, <1>3, <1>4, <1>5, <1>6, <1>7, <1>8, <1>9, <1>10, <1>11, <1>12, <1>13, <1>14,
     <1>15, <1>16, <1>17, <1>18, <1>19, <1>20, <1>21, <1>22, <1>23
     DEF Next, AppStep, NativeStep, Threads
\* A step keeps the counts: only the holder of api_lock writes the map or a
\* count, and it writes both.
LEMMA RefStep ==
  ASSUME TypeOK, LockInv, RefInv, [Next]_vars PROVE RefInv'
<1> USE ThreadsAssumption, AdaptersAssumption, MaxContextsAssumption
<1> USE DEF Threads, contextVars, threadVars, lockVars, Go, GoToScope, InScope,
            LeaveScope, WriteMap, Leave
<1> USE DEF TypeOK, LockInv, RefInv, Registered, Unreferenced
<1>1. ASSUME NEW p \in Threads, TakeGilMutex(p) PROVE RefInv'
  BY <1>1 DEF TakeGilMutex
<1>2. ASSUME NEW p \in Threads, TakeGil(p) PROVE RefInv'
  BY <1>2 DEF TakeGil
<1>3. ASSUME NEW t \in Apps, NEW a \in Adapters, OpenEnter(t, a) \/ CloseEnter(t, a) PROVE RefInv'
  <2>1. PICK label \in {"add", "convert"} :
          Enter(t, a, label) /\ (label = "add" => made < MaxContexts)
    BY <1>3 DEF OpenEnter, CloseEnter
  <2>2. \A s \in Apps : pc[s] = "out"
    BY <2>1 DEF Enter
  <2>3. \A s \in Apps : pc'[s] = IF s = t THEN label ELSE "out"
    BY <2>1, <2>2 DEF Enter
  <2>4. UNCHANGED <<contexts, made, refs>>
    BY <2>1 DEF Enter
  <2>5. \A x \in Contexts : ~Unreferenced(x) /\ ~Unreferenced(x)'
    BY <2>2, <2>3
  <2>6. QED
    BY <2>1, <2>3, <2>4, <2>5
<1>4. ASSUME NEW t \in Apps, AddContext(t) PROVE RefInv'
  <2>1. \A s \in Apps : s # t => pc[s] = "out" /\ pc'[s] = "out"
    BY <1>4 DEF AddContext
  <2>2. \A x \in Contexts : ~Unreferenced(x)
    BY <1>4, <2>1 DEF AddContext
  <2>3. CASE contexts[adapter[t]] # NoContext
    <3>1. /\ UNCHANGED <<contexts, made, refs, context, adapter>>
          /\ pc'[t] = "return"
      BY <1>4, <2>3 DEF AddContext
    <3>2. \A x \in Contexts : ~Unreferenced(x)'
      BY <2>1, <3>1
    <3>3. QED
      BY <2>1, <2>2, <3>1, <3>2
  <2>4. CASE contexts[adapter[t]] = NoContext
    <3>0. PICK x \in Contexts : x = made + 1
      BY <1>4 DEF AddContext, Contexts
    <3>1. /\ contexts' = [contexts EXCEPT ![adapter[t]] = x]
          /\ made' = x /\ context' = [context EXCEPT ![t] = x]
          /\ pc'[t] = "incref"
          /\ UNCHANGED <<refs, adapter>>
      BY <1>4, <2>4, <3>0 DEF AddContext
    <3>2. x \in Contexts /\ \A a \in Adapters : contexts[a] # x /\ contexts[a] <= x
      <4>1. made \in Nat /\ made < MaxContexts
        BY <1>4 DEF AddContext
      <4>2. \A a \in Adapters : contexts[a] <= made /\ contexts[a] \in Nat
        BY DEF Contexts, NoContext
      <4>3. QED
        BY <3>0, <4>1, <4>2 DEF Contexts
    <3>3. ~Registered(x) /\ Registered(x)' /\ Unreferenced(x)'
      <4>1. contexts'[adapter[t]] = x /\ context'[t] = x /\ adapter[t] \in Adapters
        BY <3>1
      <4>2. QED
        BY <3>1, <3>2, <4>1
    <3>4. ASSUME NEW y \in Contexts, y # x
          PROVE  (Registered(y)' <=> Registered(y)) /\ ~Unreferenced(y)'
      BY <2>1, <2>4, <3>1, <3>4 DEF Contexts, NoContext
    <3>5. \A y \in Contexts : refs'[y] = IF Registered(y)' /\ ~Unreferenced(y)' THEN 1 ELSE 0
      BY <2>2, <3>1, <3>2, <3>3, <3>4
    <3>6. \A s \in Apps : pc'[s] \in {"incref", "set", "lock_close", "release"} =>
            context'[s] # NoContext /\ context'[s] = contexts'[adapter'[s]]
      BY <2>1, <3>1, <3>2 DEF Contexts, NoContext
    <3>7. \A a, b \in Adapters :
            (contexts'[a] = contexts'[b] /\ contexts'[a] # NoContext) => a = b
      BY <3>1, <3>2
    <3>8. \A a \in Adapters : contexts'[a] <= made'
      BY <3>0, <3>1, <3>2 DEF Contexts
    <3>9. QED
      BY <2>1, <3>1, <3>5, <3>6, <3>7, <3>8
  <2>5. QED
    BY <2>3, <2>4
<1>5. ASSUME NEW t \in Apps, Incref(t) PROVE RefInv'
  BY <1>5 DEF Incref
<1>6. ASSUME NEW t \in Apps, SetCallbacks(t) PROVE RefInv'
  BY <1>6 DEF SetCallbacks
<1>7. ASSUME NEW t \in Apps, NEW ok \in BOOLEAN, RpcOpenReturns(t, ok) PROVE RefInv'
  BY <1>7 DEF RpcOpenReturns
<1>8. ASSUME NEW t \in Apps, OpenResult(t) PROVE RefInv'
  BY <1>8 DEF OpenResult
<1>9. ASSUME NEW t \in Apps, Return(t) PROVE RefInv'
  BY <1>9 DEF Return
<1>10. ASSUME NEW t \in Apps, Convert(t) PROVE RefInv'
  BY <1>10 DEF Convert
<1>11. ASSUME NEW t \in Apps, RpcClose(t) PROVE RefInv'
  BY <1>11 DEF RpcClose
<1>12. ASSUME NEW t \in Apps, RpcJoin(t) PROVE RefInv'
  BY <1>12 DEF RpcJoin
<1>13. ASSUME NEW t \in Apps, FindToClose(t) PROVE RefInv'
  BY <1>13 DEF FindToClose
<1>14. ASSUME NEW t \in Apps, LockToClose(t) PROVE RefInv'
  BY <1>14 DEF LockToClose
<1>15. ASSUME NEW t \in Apps, Release(t) PROVE RefInv'
  <2>0. PICK x \in Contexts : x = context[t]
    BY <1>15 DEF Release, Contexts, NoContext
  <2>1. \A s \in Apps : s # t => pc[s] = "out" /\ pc'[s] = "out"
    BY <1>15 DEF Release
  <2>2. \A y \in Contexts : ~Unreferenced(y) /\ ~Unreferenced(y)'
    BY <1>15, <2>1 DEF Release
  <2>3. /\ x = contexts[adapter[t]] /\ x # NoContext /\ x \in Contexts
        /\ contexts' = [contexts EXCEPT ![adapter[t]] = NoContext]
        /\ refs' = [refs EXCEPT ![x] = refs[x] - 1]
        /\ pc'[t] = "return"
        /\ made' = made
    BY <1>15, <2>0 DEF Release
  <2>4. Registered(x) /\ ~Registered(x)'
    <3>1. adapter[t] \in Adapters /\ contexts'[adapter[t]] # x
      BY <2>3
    <3>2. \A a \in Adapters : contexts'[a] # x
      BY <2>3, <3>1
    <3>3. QED
      BY <2>3, <3>1, <3>2
  <2>5. ASSUME NEW y \in Contexts, y # x PROVE Registered(y)' <=> Registered(y)
    BY <2>3, <2>5 DEF Contexts, NoContext
  <2>6. \A y \in Contexts : refs'[y] = IF Registered(y)' /\ ~Unreferenced(y)' THEN 1 ELSE 0
    <3>1. refs[x] = 1 /\ refs'[x] = 0 /\ \A y \in Contexts : y # x => refs'[y] = refs[y]
      BY <2>2, <2>3, <2>4
    <3> HIDE DEF Registered, Unreferenced
    <3>2. QED
      BY <2>2, <2>4, <2>5, <3>1 DEF RefInv
  <2>7. \A a, b \in Adapters : (contexts'[a] = contexts'[b] /\ contexts'[a] # NoContext) => a = b
    BY <2>3
  <2>8. \A a \in Adapters : contexts'[a] <= made'
    BY <2>3 DEF NoContext
  <2>9. QED
    BY <2>1, <2>3, <2>6, <2>7, <2>8
<1>16. ASSUME NEW n \in Natives, CallbackBegin(n) PROVE RefInv'
  BY <1>16 DEF CallbackBegin
<1>17. ASSUME NEW n \in Natives, Find(n) PROVE RefInv'
  <2>1. \A t \in Apps : pc'[t] = pc[t] /\ context'[t] = context[t]
    BY <1>17 DEF Find
  <2>2. UNCHANGED <<contextVars, adapter>>
    BY <1>17 DEF Find
  <2>3. QED
    BY <2>1, <2>2
<1>18. ASSUME NEW n \in Natives, Check(n) PROVE RefInv'
  BY <1>18 DEF Check
<1>19. ASSUME NEW n \in Natives, LockContext(n) PROVE RefInv'
  BY <1>19 DEF LockContext
<1>20. ASSUME NEW n \in Natives, Switch(n) PROVE RefInv'
  BY <1>20 DEF Switch
<1>21. ASSUME NEW n \in Natives, CallEnd(n) PROVE RefInv'
  BY <1>21 DEF CallEnd
<1>22. ASSUME NEW n \in Natives, LeaveDropped(n) PROVE RefInv'
  BY <1>22 DEF LeaveDropped
<1>23. CASE UNCHANGED vars
  BY <1>23 DEF vars, lockVars, contextVars, threadVars
<1>24. QED
  BY <1>1, <1>2, <1>3, <1>4, <1>5, <1>6, <1>7, <1>8, <1>9, <1>10, <1>11, <1>12, <1>13, <1>14,
     <1>15, <1>16, <1>17, <1>18, <1>19, <1>20, <1>21, <1>22, <1>23
     DEF Next, AppStep, NativeStep, Threads
\* A step keeps what a callback will find.
LEMMA DeliverStep ==
  ASSUME TypeOK, LockInv, RefInv, JoinInv, DeliverInv, [Next]_vars PROVE DeliverInv'
<1> USE ThreadsAssumption, AdaptersAssumption, MaxContextsAssumption
<1> USE DEF Threads, contextVars, threadVars, lockVars, Go, GoToScope, InScope,
            LeaveScope, WriteMap, Leave
<1> USE DEF TypeOK, LockInv, RefInv, DeliverInv, AppStates, NativeStates
<1>1. ASSUME NEW p \in Threads, TakeGilMutex(p) PROVE DeliverInv'
  BY <1>1 DEF TakeGilMutex
<1>2. ASSUME NEW p \in Threads, TakeGil(p) PROVE DeliverInv'
  BY <1>2 DEF TakeGil
<1>3. ASSUME NEW t \in Apps, NEW a \in Adapters, OpenEnter(t, a) \/ CloseEnter(t, a)
      PROVE  DeliverInv'
  BY <1>3 DEF OpenEnter, CloseEnter, Enter
<1>4. ASSUME NEW t \in Apps, AddContext(t) PROVE DeliverInv'
  <2>1. CASE contexts[adapter[t]] # NoContext
    BY <1>4, <2>1 DEF AddContext
  <2>2. CASE contexts[adapter[t]] = NoContext
    <3>1. adapter[t] \notin live
      BY <2>2 DEF Contexts, NoContext
    <3>2. /\ contexts' = [contexts EXCEPT ![adapter[t]] = made + 1]
          /\ \A n \in Natives : pc'[n] = pc[n] /\ context'[n] = context[n]
          /\ UNCHANGED <<live, isSet, known>>
      BY <1>4, <2>2 DEF AddContext
    <3>3. \A n \in Natives : ~raced'[n] => ~raced[n] /\ pc[n] # "find"
      <4>1. raced' = [n \in Natives |-> raced[n] \/ pc[n] = "find"]
        BY <1>4, <2>2 DEF AddContext
      <4>2. QED
        BY <4>1
    <3>4. QED
      BY <3>1, <3>2, <3>3
  <2>3. QED
    BY <2>1, <2>2
<1>5. ASSUME NEW t \in Apps, Incref(t) PROVE DeliverInv'
  BY <1>5 DEF Incref
<1>6. ASSUME NEW t \in Apps, SetCallbacks(t) PROVE DeliverInv'
  BY <1>6 DEF SetCallbacks
<1>7. ASSUME NEW t \in Apps, NEW ok \in BOOLEAN, RpcOpenReturns(t, ok) PROVE DeliverInv'
  BY <1>7 DEF RpcOpenReturns
<1>8. ASSUME NEW t \in Apps, OpenResult(t) PROVE DeliverInv'
  BY <1>8 DEF OpenResult
<1>9. ASSUME NEW t \in Apps, Return(t) PROVE DeliverInv'
  BY <1>9 DEF Return
<1>10. ASSUME NEW t \in Apps, Convert(t) PROVE DeliverInv'
  BY <1>10 DEF Convert
<1>11. ASSUME NEW t \in Apps, RpcClose(t) PROVE DeliverInv'
  BY <1>11 DEF RpcClose
<1>12. ASSUME NEW t \in Apps, RpcJoin(t) PROVE DeliverInv'
  BY <1>12 DEF RpcJoin
<1>13. ASSUME NEW t \in Apps, FindToClose(t) PROVE DeliverInv'
  BY <1>13 DEF FindToClose
<1>14. ASSUME NEW t \in Apps, LockToClose(t) PROVE DeliverInv'
  BY <1>14 DEF LockToClose
<1>15. ASSUME NEW t \in Apps, Release(t) PROVE DeliverInv'
  <2>1. adapter[t] \notin live
    BY <1>15 DEF Release, JoinInv
  <2>2. /\ contexts' = [contexts EXCEPT ![adapter[t]] = NoContext]
        /\ \A n \in Natives : pc'[n] = pc[n] /\ context'[n] = context[n]
        /\ UNCHANGED <<live, isSet, known>>
    BY <1>15 DEF Release
  <2>3. \A n \in Natives : ~raced'[n] => ~raced[n] /\ pc[n] # "find"
    BY <1>15 DEF Release
  <2>4. QED
    BY <2>1, <2>2, <2>3
<1>16. ASSUME NEW n \in Natives, CallbackBegin(n) PROVE DeliverInv'
  BY <1>16 DEF CallbackBegin
<1>17. ASSUME NEW n \in Natives, Find(n) PROVE DeliverInv'
  <2>1. UNCHANGED <<contexts, live, isSet, known, raced>>
    BY <1>17 DEF Find
  <2>2. \A m \in Natives : m # n => pc'[m] = pc[m] /\ context'[m] = context[m]
    BY <1>17 DEF Find
  <2>3. ASSUME known[n], ~raced[n] PROVE pc'[n] = "check" /\ context'[n] \in isSet
    <3>1. contexts[AdapterOf[n]] # NoContext /\ contexts[AdapterOf[n]] \in isSet
      BY <1>17, <2>3 DEF Find, Contexts, NoContext
    <3>2. QED
      BY <1>17, <2>3, <3>1 DEF Find
  <2>4. QED
    BY <2>1, <2>2, <2>3
<1>18. ASSUME NEW n \in Natives, Check(n) PROVE DeliverInv'
  BY <1>18 DEF Check
<1>19. ASSUME NEW n \in Natives, LockContext(n) PROVE DeliverInv'
  BY <1>19 DEF LockContext
<1>20. ASSUME NEW n \in Natives, Switch(n) PROVE DeliverInv'
  BY <1>20 DEF Switch
<1>21. ASSUME NEW n \in Natives, CallEnd(n) PROVE DeliverInv'
  BY <1>21 DEF CallEnd
<1>22. ASSUME NEW n \in Natives, LeaveDropped(n) PROVE DeliverInv'
  BY <1>22 DEF LeaveDropped
<1>23. CASE UNCHANGED vars
  BY <1>23 DEF vars, lockVars, contextVars, threadVars
<1>24. QED
  BY <1>1, <1>2, <1>3, <1>4, <1>5, <1>6, <1>7, <1>8, <1>9, <1>10, <1>11, <1>12, <1>13, <1>14,
     <1>15, <1>16, <1>17, <1>18, <1>19, <1>20, <1>21, <1>22, <1>23
     DEF Next, AppStep, NativeStep, Threads
\* A step keeps what the join of sd_rpc_close guarantees.
LEMMA JoinStep ==
  ASSUME TypeOK, LockInv, RefInv, DeliverInv, JoinInv, [Next]_vars PROVE JoinInv'
<1> USE ThreadsAssumption, AdaptersAssumption, MaxContextsAssumption
<1> USE DEF Threads, contextVars, threadVars, lockVars, Go, GoToScope, InScope,
            LeaveScope, WriteMap, Leave
<1> USE DEF TypeOK, LockInv, RefInv, DeliverInv, JoinInv, AppStates, NativeStates
<1>1. ASSUME NEW p \in Threads, TakeGilMutex(p) PROVE JoinInv'
  BY <1>1 DEF TakeGilMutex
<1>2. ASSUME NEW p \in Threads, TakeGil(p) PROVE JoinInv'
  BY <1>2 DEF TakeGil
<1>3. ASSUME NEW t \in Apps, NEW a \in Adapters, OpenEnter(t, a) \/ CloseEnter(t, a)
      PROVE  JoinInv'
  BY <1>3 DEF OpenEnter, CloseEnter, Enter
<1>4. ASSUME NEW t \in Apps, AddContext(t) PROVE JoinInv'
  <2>1. CASE contexts[adapter[t]] # NoContext
    BY <1>4, <2>1 DEF AddContext
  <2>2. CASE contexts[adapter[t]] = NoContext
    <3>1. adapter[t] \notin live
      BY <2>2 DEF Contexts, NoContext
    <3>2. /\ contexts' = [contexts EXCEPT ![adapter[t]] = made + 1]
          /\ \A n \in Natives : pc'[n] = pc[n] /\ context'[n] = context[n]
          /\ \A s \in Apps : s # t => pc'[s] = "out"
          /\ UNCHANGED <<live, adapter>>
      BY <1>4, <2>2 DEF AddContext
    <3>3. \A n \in Natives : (AdapterOf[n] \in Joined /\ AdapterOf[n] = adapter[t]) => pc[n] = "out"
      BY <2>2
    <3>4. \A n \in Natives : AdapterOf[n] # adapter[t] => contexts'[AdapterOf[n]] = contexts[AdapterOf[n]]
      BY <3>2
    <3>5. ASSUME NEW n \in Natives, AdapterOf[n] \in Joined, AdapterOf[n] = adapter[t]
          PROVE  pc'[n] = "out"
      BY <3>2, <3>3, <3>5
    <3>6. ASSUME NEW s \in Apps, pc'[s] # "out" PROVE s = t /\ adapter'[s] = adapter[t]
      BY <3>2, <3>6
    <3>7. ASSUME NEW n \in Natives, AdapterOf[n] \in Joined, AdapterOf[n] # adapter[t],
                 contexts'[AdapterOf[n]] = NoContext
          PROVE  pc'[n] = "out"
      BY <3>2, <3>4, <3>7
    <3>8. ASSUME NEW n \in Natives, AdapterOf[n] \in Joined,
                 pc'[n] \in {"check", "lock", "call", "resumed"}
          PROVE  context'[n] = contexts'[AdapterOf[n]]
      BY <3>2, <3>3, <3>4, <3>8
    <3>9. \A s \in Apps : pc'[s] # "out" => adapter'[s] \notin live'
      BY <3>1, <3>2, <3>6
    <3> HIDE DEF TypeOK, LockInv, RefInv, DeliverInv
    <3>10. QED
      BY <3>5, <3>6, <3>7, <3>8, <3>9
  <2>3. QED
    BY <2>1, <2>2
<1>5. ASSUME NEW t \in Apps, Incref(t) PROVE JoinInv'
  BY <1>5 DEF Incref
<1>6. ASSUME NEW t \in Apps, SetCallbacks(t) PROVE JoinInv'
  BY <1>6 DEF SetCallbacks
<1>7. ASSUME NEW t \in Apps, NEW ok \in BOOLEAN, RpcOpenReturns(t, ok) PROVE JoinInv'
  BY <1>7 DEF RpcOpenReturns
<1>8. ASSUME NEW t \in Apps, OpenResult(t) PROVE JoinInv'
  BY <1>8 DEF OpenResult
<1>9. ASSUME NEW t \in Apps, Return(t) PROVE JoinInv'
  BY <1>9 DEF Return
<1>10. ASSUME NEW t \in Apps, Convert(t) PROVE JoinInv'
  BY <1>10 DEF Convert
<1>11. ASSUME NEW t \in Apps, RpcClose(t) PROVE JoinInv'
  BY <1>11 DEF RpcClose
<1>12. ASSUME NEW t \in Apps, RpcJoin(t) PROVE JoinInv'
  BY <1>12 DEF RpcJoin
<1>13. ASSUME NEW t \in Apps, FindToClose(t) PROVE JoinInv'
  BY <1>13 DEF FindToClose
<1>14. ASSUME NEW t \in Apps, LockToClose(t) PROVE JoinInv'
  BY <1>14 DEF LockToClose
<1>15. ASSUME NEW t \in Apps, Release(t) PROVE JoinInv'
  BY <1>15 DEF Release
<1>16. ASSUME NEW n \in Natives, CallbackBegin(n) PROVE JoinInv'
  <2>1. AdapterOf[n] \in live /\ contexts[AdapterOf[n]] # NoContext
    BY <1>16 DEF CallbackBegin, Contexts, NoContext
  <2>2. /\ \A t \in Apps : pc'[t] = pc[t]
        /\ \A m \in Natives : m # n => pc'[m] = pc[m]
        /\ pc'[n] = "find"
        /\ UNCHANGED <<contexts, live, adapter, context>>
    BY <1>16 DEF CallbackBegin
  <2>3. QED
    BY <2>1, <2>2
<1>17. ASSUME NEW n \in Natives, Find(n) PROVE JoinInv'
  BY <1>17 DEF Find
<1>18. ASSUME NEW n \in Natives, Check(n) PROVE JoinInv'
  BY <1>18 DEF Check
<1>19. ASSUME NEW n \in Natives, LockContext(n) PROVE JoinInv'
  BY <1>19 DEF LockContext
<1>20. ASSUME NEW n \in Natives, Switch(n) PROVE JoinInv'
  BY <1>20 DEF Switch
<1>21. ASSUME NEW n \in Natives, CallEnd(n) PROVE JoinInv'
  BY <1>21 DEF CallEnd
<1>22. ASSUME NEW n \in Natives, LeaveDropped(n) PROVE JoinInv'
  BY <1>22 DEF LeaveDropped
<1>23. CASE UNCHANGED vars
  BY <1>23 DEF vars, lockVars, contextVars, threadVars
<1>24. QED
  BY <1>1, <1>2, <1>3, <1>4, <1>5, <1>6, <1>7, <1>8, <1>9, <1>10, <1>11, <1>12, <1>13, <1>14,
     <1>15, <1>16, <1>17, <1>18, <1>19, <1>20, <1>21, <1>22, <1>23
     DEF Next, AppStep, NativeStep, Threads
\* At the beginning nobody holds or calls anything.
LEMMA InitInv == Init => Inv
<1> SUFFICES ASSUME Init PROVE Inv
  OBVIOUS
<1>1. TypeOK
  BY ThreadsAssumption, AdaptersAssumption, MaxContextsAssumption
     DEF Init, TypeOK, Threads, Contexts, AppStates, NativeStates, NoContext
<1>2. LockInv
  BY ThreadsAssumption DEF Init, LockInv, Threads, AppStates, NativeStates
<1>3. RefInv
  BY MaxContextsAssumption
     DEF Init, RefInv, Registered, Unreferenced, Contexts, NoContext, Threads
<1>4. DeliverInv /\ JoinInv
  BY DEF Init, DeliverInv, JoinInv, Threads
<1>5. QED
  BY <1>1, <1>2, <1>3, <1>4 DEF Inv

\* Inv is an invariant.
LEMMA Invariance == Spec => []Inv
<1>1. Inv /\ [Next]_vars => Inv'
  BY TypeStep, LockStep, RefStep, DeliverStep, JoinStep DEF Inv
<1>2. QED
  BY <1>1, InitInv, PTL DEF Spec

(* Every variable stays within its type: no reference count falls below 0. *)
THEOREM TypeCorrect == Spec => []TypeOK
BY Invariance, PTL DEF Inv

(* Between the calls of open and close, exactly the registered contexts     *)
(* hold references to their callbacks, once each.                           *)
THEOREM ReferencesAreBalanced == Spec => []ReferencesBalanced
<1>1. Inv => ReferencesBalanced
  BY ThreadsAssumption
     DEF Inv, TypeOK, LockInv, RefInv, Registered, Unreferenced, ReferencesBalanced, Threads
<1>2. QED
  BY <1>1, Invariance, PTL

(* No callback that began with a registered context is dropped, unless the  *)
(* map was written during its lookup.                                       *)
THEOREM CallbacksDeliver == Spec => []RegisteredCallbacksDeliver
<1>1. Inv => RegisteredCallbacksDeliver
  BY DEF Inv, TypeOK, DeliverInv, RegisteredCallbacksDeliver
<1>2. QED
  BY <1>1, Invariance, PTL

(* A callback that runs has its references, on an adapter whose native      *)
(* threads end before sd_rpc_close returns.                                 *)
THEOREM CallsHaveReferences == Spec => []CallsUseLiveReferences
<1>1. Inv => CallsUseLiveReferences
  <2> SUFFICES ASSUME Inv, NEW n \in Natives, Running(n), AdapterOf[n] \in Joined
               PROVE  refs[context[n]] > 0
    BY DEF CallsUseLiveReferences
  <2> USE DEF Inv
  <2>1. pc[n] \in {"call", "resumed"}
    BY DEF Running, InScope
  <2>2. /\ context[n] \in Contexts
        /\ context[n] = contexts[AdapterOf[n]] /\ AdapterOf[n] \in Adapters
    BY <2>1, AdaptersAssumption DEF LockInv, JoinInv, TypeOK, Threads
  <2>3. ASSUME NEW t \in Apps, pc[t] = "incref", context[t] = context[n] PROVE FALSE
    <3>1. adapter[t] = AdapterOf[n]
      BY <2>2, <2>3 DEF RefInv, TypeOK, Threads
    <3>2. QED
      BY <2>1, <2>3, <3>1 DEF JoinInv
  <2>4. QED
    BY <2>2, <2>3 DEF RefInv, Registered, Unreferenced
<1>2. QED
  BY <1>1, Invariance, PTL

\* Only two steps of open and of close change how often a context has references.
LEMMA ReferenceSteps ==
  ASSUME [Next]_vars PROVE refs' = refs \/ \E t \in Apps : Incref(t) \/ Release(t)
BY DEF Next, AppStep, NativeStep, vars, contextVars, TakeGilMutex, TakeGil, OpenEnter, CloseEnter,
       Enter, AddContext, SetCallbacks, RpcOpenReturns, OpenResult, Return, Convert, RpcClose,
       RpcJoin, FindToClose, LockToClose, CallbackBegin, Find, Check, LockContext, Switch, CallEnd,
       LeaveDropped

(* No step drops the references of a context while one of its callbacks     *)
(* runs, on any adapter: the callback_mutex excludes it.                    *)
THEOREM ReleasesExcludeCalls == Spec => ReleaseExcludesCalls
<1>1. Inv /\ [Next]_vars =>
        [\A n \in Natives : Running(n) => refs'[context[n]] >= refs[context[n]]]_vars
  <2> SUFFICES ASSUME Inv, [Next]_vars, NEW n \in Natives, Running(n)
               PROVE  refs'[context[n]] >= refs[context[n]]
    OBVIOUS
  <2> USE DEF Inv
  <2>1. /\ pc[n] \in {"call", "resumed"} /\ context[n] \in Contexts
        /\ mutex[context[n]] = n /\ refs[context[n]] \in Nat
    BY DEF Running, InScope, LockInv, TypeOK, Threads
  <2>2. ASSUME NEW t \in Apps, Incref(t) PROVE refs'[context[n]] >= refs[context[n]]
    BY <2>1, <2>2 DEF Incref, TypeOK
  <2>3. ASSUME NEW t \in Apps, Release(t) PROVE refs'[context[n]] = refs[context[n]]
    <3>1. context[t] # context[n]
      BY <2>1, <2>3, ThreadsAssumption DEF Release, InScope, LockInv, TypeOK, Threads
    <3>2. QED
      BY <2>1, <2>3, <3>1 DEF Release, TypeOK
  <2>4. QED
    BY <2>1, <2>2, <2>3, ReferenceSteps
<1>2. QED
  BY <1>1, Invariance, PTL DEF Spec, ReleaseExcludesCalls

=============================================================================
