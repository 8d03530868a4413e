------------------------------ MODULE Binding ------------------------------
(***************************************************************************)
(* The native binding (swig/pc_ble_driver.i.in): sd_rpc_open_py and        *)
(* sd_rpc_close_py, which application threads call from BLEDriver.open and *)
(* BLEDriver.close, and the callbacks that native threads run meanwhile.   *)
(*                                                                         *)
(* A callback needs, in this order, the callback_mutex of its context,     *)
(* GIL_MUTEX and the interpreter's lock (GIL), and may give the GIL to     *)
(* other threads while it runs Python.  The map of contexts has no lock:   *)
(* what a lookup returns that overlaps a write is undefined, and it is     *)
(* modelled as found or not found.                                         *)
(*                                                                         *)
(* Of the three kinds of callback one is modelled, since a context sets    *)
(* and drops all three together.                                           *)
(***************************************************************************)
EXTENDS Integers

CONSTANTS
  Apps,        \* application threads
  Natives,     \* threads of the native library that run callbacks
  Adapters,
  AdapterOf,   \* the adapter each native thread belongs to
  Joined,      \* the adapters whose native threads end before sd_rpc_close does
  Free,        \* the owner of a lock that nobody holds
  MaxContexts  \* bound: contexts

Threads == Apps \cup Natives

ASSUME ThreadsAssumption == Apps \cap Natives = {} /\ Free \notin Threads
ASSUME AdaptersAssumption ==
  Adapters # {} /\ AdapterOf \in [Natives -> Adapters] /\ Joined \subseteq Adapters
ASSUME MaxContextsAssumption == MaxContexts \in Nat

\* A context gets the next number.
Contexts == 1..MaxContexts
NoContext == 0

VARIABLES
  apiLock,     \* BLEDriver.api_lock
  gilMutex,    \* GILStateWrapper::GIL_MUTEX
  gil,         \* the GIL, as far as native code holds it
  mutex,       \* mutex[x]: the callback_mutex of context x
  contexts,    \* adapter_contexts
  made,        \* how many contexts have been made
  refs,        \* refs[x]: how often x holds references to its callbacks
  isSet,       \* the contexts whose callbacks are set
  live,        \* the adapters whose native threads may start callbacks
  pc, adapter, \* where each thread is, and the adapter of its call
  context,     \* the context it has found or made
  scope,       \* where it is with its GILStateWrapper
  raced,       \* whether the map was written during its lookup
  known        \* history: its callback began with a context registered

lockVars == <<apiLock, gilMutex, gil, mutex>>
contextVars == <<contexts, made, refs, isSet>>
threadVars == <<pc, adapter, context, scope, raced, known>>
vars == <<lockVars, contextVars, live, threadVars>>

AppStates == {"out", "add", "incref", "set", "rpc_open", "result", "convert", "rpc_close", "rpc_join",
              "find_close", "lock_close", "release", "return"}
NativeStates == {"out", "find", "check", "lock", "call", "resumed", "dropped"}

TypeOK ==
  /\ apiLock \in Apps \cup {Free}
  /\ {gilMutex, gil} \subseteq Threads \cup {Free}
  /\ mutex \in [Contexts -> Threads \cup {Free}]
  /\ contexts \in [Adapters -> Contexts \cup {NoContext}]
  /\ made \in 0..MaxContexts
  /\ refs \in [Contexts -> Nat]
  /\ isSet \subseteq Contexts
  /\ live \subseteq Adapters
  /\ pc \in [Threads -> AppStates \cup NativeStates]
  /\ adapter \in [Threads -> Adapters]
  /\ context \in [Threads -> Contexts \cup {NoContext}]
  /\ scope \in [Threads -> {"none", "want_mutex", "want_gil", "in"}]
  /\ raced \in [Natives -> BOOLEAN]
  /\ known \in [Natives -> BOOLEAN]

Init ==
  /\ apiLock = Free /\ gilMutex = Free /\ gil = Free
  /\ mutex = [x \in Contexts |-> Free]
  /\ contexts = [a \in Adapters |-> NoContext]
  /\ made = 0
  /\ refs = [x \in Contexts |-> 0]
  /\ isSet = {} /\ live = {}
  /\ pc = [p \in Threads |-> "out"]
  /\ adapter = [p \in Threads |-> IF p \in Natives THEN AdapterOf[p] ELSE CHOOSE a \in Adapters : TRUE]
  /\ context = [p \in Threads |-> NoContext]
  /\ scope = [p \in Threads |-> "none"]
  /\ raced = [n \in Natives |-> FALSE]
  /\ known = [n \in Natives |-> FALSE]

-----------------------------------------------------------------------------
Go(p, label) == pc' = [pc EXCEPT ![p] = label]

\* p goes on to label, where it constructs a GILStateWrapper.
GoToScope(p, label) == Go(p, label) /\ scope' = [scope EXCEPT ![p] = "want_mutex"]

InScope(p, label) == pc[p] = label /\ scope[p] = "in"

\* The end of the GILStateWrapper's scope.
LeaveScope(p) ==
  /\ gil' = Free /\ gilMutex' = Free
  /\ scope' = [scope EXCEPT ![p] = "none"]

\* The wrapper's lock_guard.
TakeGilMutex(p) ==
  /\ scope[p] = "want_mutex"
  /\ gilMutex = Free
  /\ gilMutex' = p
  /\ scope' = [scope EXCEPT ![p] = "want_gil"]
  /\ UNCHANGED <<apiLock, gil, mutex, contextVars, live, pc, adapter, context, raced, known>>

\* PyGILState_Ensure
TakeGil(p) ==
  /\ scope[p] = "want_gil"
  /\ gil = Free
  /\ gil' = p
  /\ scope' = [scope EXCEPT ![p] = "in"]
  /\ UNCHANGED <<apiLock, gilMutex, mutex, contextVars, live, pc, adapter, context, raced, known>>

\* A write to the map, or to its entry for a.
WriteMap(a, x) ==
  /\ contexts' = [contexts EXCEPT ![a] = x]
  /\ raced' = [n \in Natives |-> raced[n] \/ pc[n] = "find"]

-----------------------------------------------------------------------------
(* BLEDriver.open and sd_rpc_open_py                                        *)

\* Mutant of Enter: the GIL is kept during the native call.
EnterWithGil(t, a, label) ==
  /\ pc[t] = "out"
  /\ apiLock = Free /\ gil = Free
  /\ apiLock' = t /\ gil' = t
  /\ adapter' = [adapter EXCEPT ![t] = a]
  /\ GoToScope(t, label)
  /\ UNCHANGED <<gilMutex, mutex, contextVars, live, context, raced, known>>

\* A thread that runs Python takes api_lock; the wrapper of a native function
\* releases the GIL (SWIG's option -threads).
Enter(t, a, label) ==
  /\ pc[t] = "out"
  /\ apiLock = Free /\ gil = Free
  /\ apiLock' = t
  /\ adapter' = [adapter EXCEPT ![t] = a]
  /\ GoToScope(t, label)
  /\ UNCHANGED <<gilMutex, gil, mutex, contextVars, live, context, raced, known>>

OpenEnter(t, a) == made < MaxContexts /\ Enter(t, a, "add")
CloseEnter(t, a) == Enter(t, a, "convert")

\* adapter_context_add; an adapter that has a context gives ValueError.
AddContext(t) ==
  LET a == adapter[t] IN
  /\ InScope(t, "add")
  /\ LeaveScope(t)
  /\ IF contexts[a] # NoContext
       THEN Go(t, "return") /\ UNCHANGED <<contexts, made, context, raced>>
       ELSE /\ made' = made + 1
            /\ WriteMap(a, made + 1)
            /\ context' = [context EXCEPT ![t] = made + 1]
            /\ Go(t, "incref")
  /\ UNCHANGED <<apiLock, mutex, refs, isSet, live, adapter, known>>

\* Py_XINCREF of the three callbacks.  It runs without the GIL and is one step
\* here: the callbacks are bound methods made for this call, and no other thread
\* counts references of theirs before SetCallbacks.
Incref(t) ==
  /\ pc[t] = "incref"
  /\ refs' = [refs EXCEPT ![context[t]] = @ + 1]
  /\ Go(t, "set")
  /\ UNCHANGED <<lockVars, contexts, made, isSet, live, adapter, context, scope, raced, known>>

\* Mutant of SetCallbacks: sd_rpc_open begins before the callbacks are set.
SetCallbacksLate(t) ==
  /\ \/ pc[t] = "set" /\ adapter[t] \notin live
        /\ live' = live \cup {adapter[t]}
        /\ UNCHANGED <<isSet, pc>>
     \/ pc[t] = "set" /\ adapter[t] \in live
        /\ isSet' = isSet \cup {context[t]}
        /\ Go(t, "rpc_open")
        /\ UNCHANGED live
  /\ UNCHANGED <<lockVars, contexts, made, refs, adapter, context, scope, raced, known>>

\* The fields of the context, and the beginning of sd_rpc_open.
SetCallbacks(t) ==
  /\ pc[t] = "set"
  /\ isSet' = isSet \cup {context[t]}
  /\ live' = live \cup {adapter[t]}
  /\ Go(t, "rpc_open")
  /\ UNCHANGED <<lockVars, contexts, made, refs, adapter, context, scope, raced, known>>

\* Mutant of RpcOpenReturns: after a failure the context is removed, and its
\* references are forgotten.
RpcOpenReturnsForgets(t, ok) ==
  /\ pc[t] = "rpc_open"
  /\ GoToScope(t, "result")
  /\ IF ok THEN UNCHANGED <<contexts, raced, live>>
     ELSE WriteMap(adapter[t], NoContext) /\ live' = live \ {adapter[t]}
  /\ UNCHANGED <<lockVars, made, refs, isSet, adapter, context, known>>

\* sd_rpc_open returns.  When it fails the context stays, and the native
\* threads may go on or not.
RpcOpenReturns(t, ok) ==
  /\ pc[t] = "rpc_open"
  /\ GoToScope(t, "result")
  /\ \/ UNCHANGED live
     \/ ~ok /\ live' = live \ {adapter[t]}
  /\ UNCHANGED <<lockVars, contextVars, adapter, context, raced, known>>

\* The result object.
OpenResult(t) ==
  /\ InScope(t, "result")
  /\ LeaveScope(t)
  /\ Go(t, "return")
  /\ UNCHANGED <<apiLock, mutex, contextVars, live, adapter, context, raced, known>>

\* The wrapper takes the GIL back, and BLEDriver releases api_lock.
Return(t) ==
  /\ pc[t] = "return"
  /\ gil = Free
  /\ apiLock' = Free
  /\ Go(t, "out")
  /\ context' = [context EXCEPT ![t] = NoContext]
  /\ UNCHANGED <<gilMutex, gil, mutex, contextVars, live, adapter, scope, raced, known>>

-----------------------------------------------------------------------------
(* BLEDriver.close and sd_rpc_close_py                                      *)

\* The conversion of the argument.
Convert(t) ==
  /\ InScope(t, "convert")
  /\ LeaveScope(t)
  /\ Go(t, "rpc_close")
  /\ UNCHANGED <<apiLock, mutex, contextVars, live, adapter, context, raced, known>>

\* sd_rpc_close: no callback starts any more.
RpcClose(t) ==
  /\ pc[t] = "rpc_close"
  /\ live' = live \ {adapter[t]}
  /\ Go(t, "rpc_join")
  /\ UNCHANGED <<lockVars, contextVars, adapter, context, scope, raced, known>>

\* Mutant of RpcJoin: the context is released before sd_rpc_close has returned.
RpcJoinAfter(t) ==
  /\ pc[t] = "rpc_join"
  /\ Go(t, "find_close")
  /\ UNCHANGED <<lockVars, contextVars, live, adapter, context, scope, raced, known>>

\* Its return; for some adapters not before their threads have ended.
RpcJoin(t) ==
  LET a == adapter[t] IN
  /\ pc[t] = "rpc_join"
  /\ a \in Joined => \A n \in Natives : AdapterOf[n] = a => pc[n] = "out"
  /\ Go(t, "find_close")
  /\ UNCHANGED <<lockVars, contextVars, live, adapter, context, scope, raced, known>>

\* adapter_context_find: without a context ValueError.
FindToClose(t) ==
  LET x == contexts[adapter[t]] IN
  /\ pc[t] = "find_close"
  /\ context' = [context EXCEPT ![t] = x]
  /\ Go(t, IF x = NoContext THEN "return" ELSE "lock_close")
  /\ UNCHANGED <<lockVars, contextVars, live, adapter, scope, raced, known>>

\* Mutant of LockToClose: only the GIL is taken, neither of the mutexes.
LockToCloseGilOnly(t) ==
  /\ pc[t] = "lock_close"
  /\ Go(t, "release")
  /\ scope' = [scope EXCEPT ![t] = "want_gil"]
  /\ UNCHANGED <<lockVars, contextVars, live, adapter, context, raced, known>>

LockToClose(t) ==
  /\ pc[t] = "lock_close"
  /\ mutex[context[t]] = Free
  /\ mutex' = [mutex EXCEPT ![context[t]] = t]
  /\ GoToScope(t, "release")
  /\ UNCHANGED <<apiLock, gilMutex, gil, contextVars, live, adapter, context, raced, known>>

\* Mutant of Release: adapter_context_remove is left out.
ReleaseKeepsContext(t) ==
  LET x == context[t] IN
  /\ InScope(t, "release")
  /\ refs' = [refs EXCEPT ![x] = @ - 1]
  /\ LeaveScope(t)
  /\ mutex' = [mutex EXCEPT ![x] = Free]
  /\ Go(t, "return")
  /\ UNCHANGED <<apiLock, contexts, made, isSet, live, adapter, context, raced, known>>

\* Py_XDECREF of the callbacks, adapter_context_remove, and the locks in reverse
\* order.  The fields of the context keep their values.
Release(t) ==
  LET x == context[t] IN
  /\ InScope(t, "release")
  /\ refs' = [refs EXCEPT ![x] = @ - 1]
  /\ WriteMap(adapter[t], NoContext)
  /\ LeaveScope(t)
  /\ mutex' = [mutex EXCEPT ![x] = Free]
  /\ Go(t, "return")
  /\ UNCHANGED <<apiLock, made, isSet, live, adapter, context, known>>

-----------------------------------------------------------------------------
(* PythonEvtCallBack, PythonStatusCallBack, PythonLogCallBack               *)

CallbackBegin(n) ==
  /\ pc[n] = "out" /\ AdapterOf[n] \in live
  /\ Go(n, "find")
  /\ known' = [known EXCEPT ![n] = contexts[AdapterOf[n]] # NoContext]
  /\ UNCHANGED <<lockVars, contextVars, live, adapter, context, scope, raced>>

\* adapter_context_find
Find(n) ==
  LET x == contexts[AdapterOf[n]] IN
  /\ pc[n] = "find"
  /\ \/ x # NoContext /\ Go(n, "check") /\ context' = [context EXCEPT ![n] = x]
     \/ (x = NoContext \/ raced[n]) /\ Go(n, "dropped") /\ UNCHANGED context
  /\ UNCHANGED <<lockVars, contextVars, live, adapter, scope, raced, known>>

\* A callback that is null in the context is not called.
Check(n) ==
  /\ pc[n] = "check"
  /\ Go(n, IF context[n] \in isSet THEN "lock" ELSE "dropped")
  /\ UNCHANGED <<lockVars, contextVars, live, adapter, context, scope, raced, known>>

LockContext(n) ==
  /\ pc[n] = "lock"
  /\ mutex[context[n]] = Free
  /\ mutex' = [mutex EXCEPT ![context[n]] = n]
  /\ GoToScope(n, "call")
  /\ UNCHANGED <<apiLock, gilMutex, gil, contextVars, live, adapter, context, raced, known>>

\* The interpreter lets another thread run, once in a callback; GIL_MUTEX stays
\* locked.
Switch(n) ==
  /\ InScope(n, "call")
  /\ gil' = Free
  /\ scope' = [scope EXCEPT ![n] = "want_gil"]
  /\ Go(n, "resumed")
  /\ UNCHANGED <<apiLock, gilMutex, mutex, contextVars, live, adapter, context, raced, known>>

\* The callback returns; its local variables, and the histories, end.
Leave(n) ==
  /\ Go(n, "out")
  /\ context' = [context EXCEPT ![n] = NoContext]
  /\ raced' = [raced EXCEPT ![n] = FALSE]
  /\ known' = [known EXCEPT ![n] = FALSE]

\* PyObject_Call has returned.
CallEnd(n) ==
  /\ InScope(n, "call") \/ InScope(n, "resumed")
  /\ LeaveScope(n)
  /\ mutex' = [mutex EXCEPT ![context[n]] = Free]
  /\ Leave(n)
  /\ UNCHANGED <<apiLock, contextVars, live, adapter>>

LeaveDropped(n) ==
  /\ pc[n] = "dropped"
  /\ Leave(n)
  /\ UNCHANGED <<lockVars, contextVars, live, adapter, scope>>

-----------------------------------------------------------------------------
AppStep(t) ==
  \/ TakeGilMutex(t) \/ TakeGil(t)
  \/ AddContext(t) \/ Incref(t) \/ SetCallbacks(t) \/ OpenResult(t) \/ Return(t)
  \/ \E ok \in BOOLEAN : RpcOpenReturns(t, ok)
  \/ Convert(t) \/ RpcClose(t) \/ RpcJoin(t) \/ FindToClose(t) \/ LockToClose(t) \/ Release(t)

NativeStep(n) ==
  \/ TakeGilMutex(n) \/ TakeGil(n) \/ Find(n) \/ Check(n) \/ LockContext(n) \/ CallEnd(n)
    \/ LeaveDropped(n)

Next ==
  \/ \E t \in Apps : AppStep(t) \/ \E a \in Adapters : OpenEnter(t, a) \/ CloseEnter(t, a)
  \/ \E n \in Natives : NativeStep(n) \/ CallbackBegin(n) \/ Switch(n)

Spec == Init /\ [][Next]_vars

(* Threads keep running, a lock that is released again and again is         *)
(* obtained, and a callback that runs Python, which only puts an item into  *)
(* a queue, ends.                                                           *)
Fairness ==
  /\ \A t \in Apps : SF_vars(AppStep(t))
  /\ \A n \in Natives : SF_vars(NativeStep(n))

FairSpec == Spec /\ Fairness

-----------------------------------------------------------------------------
\* n runs Python code in a callback, though another thread may have the GIL.
Running(n) == InScope(n, "call") \/ pc[n] = "resumed"

(* The references to the callbacks are never dropped while a callback of    *)
(* the same context runs, on any adapter: what the comment in               *)
(* sd_rpc_close_py asks for ("Make sure that callbacks are not running      *)
(* before decrementing the callback reference count").                      *)
ReleaseExcludesCalls ==
  [][\A n \in Natives : Running(n) => refs'[context[n]] >= refs[context[n]]]_vars

(* A callback that runs has its references, if sd_rpc_close waits for the   *)
(* native threads of its adapter: then no thread is left between the lookup *)
(* of its context and the lock of it when the references are dropped.       *)
CallsUseLiveReferences ==
  \A n \in Natives : (Running(n) /\ AdapterOf[n] \in Joined) => refs[context[n]] > 0

(* Between the calls of open and close, failed ones included, exactly the   *)
(* registered contexts hold references, once each.                          *)
ReferencesBalanced ==
  apiLock = Free =>
    \A x \in Contexts : refs[x] = IF \E a \in Adapters : contexts[a] = x THEN 1 ELSE 0

(* A callback reaches Python if its adapter had a context when it began and *)
(* the map was not written while it looked: from the first moment of        *)
(* sd_rpc_open on, no event, status or log message is lost in the binding.  *)
RegisteredCallbacksDeliver ==
  \A n \in Natives : pc[n] = "dropped" => ~known[n] \/ raced[n]

(* Every open, every close and every callback ends, whatever the order in   *)
(* which threads come to the four kinds of lock.                            *)
EveryCallEnds == \A p \in Threads : []<>(pc[p] = "out")
=============================================================================
