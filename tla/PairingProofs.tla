---------------------------- MODULE PairingProofs ----------------------------
(***************************************************************************)
(* What an authenticate returns, which keys it keeps and how the           *)
(* SoftDevice's requests are answered, for any number of threads,          *)
(* connections, pairings and faults.  It rests on what WriteCmdProofs      *)
(* shows of the composed procedures, write_cmd included.                   *)
(***************************************************************************)
EXTENDS WriteCmdProofs

-----------------------------------------------------------------------------
(* Where events are, and the numbers of pairings.                           *)

LEMMA QueueTail ==
  ASSUME queue \in Seq(QueueEvents), queue # <<>>
  PROVE  /\ 1 \in DOMAIN queue /\ Head(queue) = queue[1]
         /\ \A i \in DOMAIN Tail(queue) :
              i + 1 \in DOMAIN queue /\ Tail(queue)[i] = queue[i + 1] /\ i \in Nat
         /\ \A j \in DOMAIN queue :
              j # 1 => j - 1 \in DOMAIN Tail(queue) /\ Tail(queue)[j - 1] = queue[j]
  OBVIOUS

LEMMA QueueAppend ==
  ASSUME queue \in Seq(QueueEvents), NEW x \in QueueEvents
  PROVE  /\ DOMAIN Append(queue, x) = DOMAIN queue \cup {Len(queue) + 1}
         /\ Append(queue, x)[Len(queue) + 1] = x
         /\ \A i \in DOMAIN queue : Append(queue, x)[i] = queue[i] /\ i < Len(queue) + 1 /\ i \in Nat
  OBVIOUS

\* An event, wherever it is, without its connection: in the queue, in the slot of
\* an object or in a thread's result.
Copy(x) == [evt |-> x.evt, val |-> x.val]
Copies ==
  {Copy(queue[i]) : i \in DOMAIN queue} \cup {data[g] : g \in Conns} \cup {result[c] : c \in Callers}

\* What the event worker does with the queue.
LEMMA HandlerQueue ==
  ASSUME WriteTypeOK, HandlerMoves
  PROVE  /\ queue # <<>> /\ queue \in Seq(QueueEvents)
         /\ queue' = queue \/ queue' = Tail(queue)
         /\ UNCHANGED <<up, npairings, faults, appVars, kept, authVars, obj, want, result, used, tries, accepted>>
  BY DEF HandlerMoves, Handler, OnDisconnected, OnNotify, OnParamsCallback, OnDhKeyCallback, Handling,
         EndCallback, Sync!Notify, syncVars, deviceVars, keyVars, writeVars, WriteTypeOK, TypeOK

\* A notification puts the first event of the queue into the slot of its connection.
LEMMA HandlerSlot ==
  ASSUME WriteTypeOK, HandlerMoves, NEW g \in Conns
  PROVE  \/ data'[g] = data[g]
         \/ /\ data'[g] = Copy(Head(queue)) /\ g = Head(queue).conn /\ Head(queue).evt \in Events
            /\ OnNotify /\ g \in known /\ worker = "idle"
<1>1. data \in [Conns -> Sync!Answer \cup {Sync!None}]
  BY DEF WriteTypeOK, TypeOK, Sync!TypeOK
<1>2. CASE OnNotify
  <2>1. CASE Sync!Notify(Head(queue).conn, Head(queue).evt, Head(queue).val)
    BY <1>1, <1>2, <2>1 DEF OnNotify, Handling, Sync!Notify, Copy, syncVars
  <2>2. CASE UNCHANGED syncVars
    BY <2>2 DEF syncVars
  <2>3. QED
    BY <1>2, <2>1, <2>2 DEF OnNotify
<1>3. CASE OnDisconnected \/ OnParamsCallback \/ OnDhKeyCallback
  BY <1>3 DEF OnDisconnected, OnParamsCallback, OnDhKeyCallback, syncVars
<1>4. QED
  BY <1>2, <1>3 DEF HandlerMoves, Handler

LEMMA CopiesAfterDevice ==
  ASSUME WriteTypeOK, DeviceMoves, NEW g \in Conns, NEW x \in QueueEvents, NEW r \in PairingRecord,
         DeviceChange(g, x, r)
  PROVE  Copies' = Copies \cup {Copy(x)}
<1>1. UNCHANGED syncVars
  BY DeviceChanges
<1>2. queue \in Seq(QueueEvents) /\ queue' = Append(queue, x)
  BY DEF WriteTypeOK, TypeOK, DeviceChange
<1>3. {Copy(queue'[i]) : i \in DOMAIN queue'} = {Copy(queue[i]) : i \in DOMAIN queue} \cup {Copy(x)}
  BY <1>2, QueueAppend
<1>4. QED
  BY <1>1, <1>3 DEF Copies, Copy, syncVars

LEMMA CopiesAfterHandler ==
  ASSUME WriteTypeOK, HandlerMoves
  PROVE  Copies' \subseteq Copies
<1>1. /\ queue # <<>> /\ queue \in Seq(QueueEvents) /\ result' = result
      /\ queue' = queue \/ queue' = Tail(queue)
  BY HandlerQueue
<1>2. \A i \in DOMAIN queue' : Copy(queue'[i]) \in Copies
  <2>1. \A i \in DOMAIN Tail(queue) : i + 1 \in DOMAIN queue /\ Tail(queue)[i] = queue[i + 1]
    BY <1>1, QueueTail
  <2>2. \A i \in DOMAIN queue : Copy(queue[i]) \in Copies
    BY DEF Copies
  <2>3. QED
    BY <1>1, <2>1, <2>2
<1>3. Copy(Head(queue)) \in Copies
  <2>1. 1 \in DOMAIN queue /\ Head(queue) = queue[1]
    BY <1>1, QueueTail
  <2>2. QED
    BY <2>1 DEF Copies
<1>4. \A g \in Conns : data'[g] \in Copies
  BY <1>3, HandlerSlot DEF Copies
<1>5. \A c \in Callers : result'[c] \in Copies
  BY <1>1 DEF Copies
<1>6. QED
  BY <1>2, <1>4, <1>5 DEF Copies, Copy

LEMMA CopiesAfterCall ==
  ASSUME WriteTypeOK, NEW c \in Callers, CallMoves(c)
  PROVE  /\ Copies' \subseteq Copies \cup {Sync!None}
         /\ \A g \in Conns : data'[g] = data[g] \/ data'[g] = Sync!None
<1>1. queue' = queue
  BY CallChanges
<1>2. /\ data \in [Conns -> Sync!Answer \cup {Sync!None}]
      /\ result \in [Callers -> Sync!Answer \cup {Sync!None}]
      /\ obj[c] \in Conns
  BY DEF WriteTypeOK, TypeOK, Sync!TypeOK
<1>3. \A g \in Conns : data'[g] = data[g] \/ data'[g] = Sync!None
  BY <1>2 DEF CallMoves, CallStep, BeginWait, WaitStep, AuthStep, GotParams, GotDhKey, GotStatus,
              Send, GotTxComplete, BeginWrite, Authenticate, Sync!Wait, Sync!Register, Sync!Return,
              Sync!Timeout, syncVars
<1>4. result'[c] = result[c] \/ result'[c] = Sync!None \/ result'[c] = data[obj[c]]
  BY <1>2 DEF CallMoves, CallStep, BeginWait, WaitStep, AuthStep, GotParams, GotDhKey, GotStatus,
              Send, GotTxComplete, BeginWrite, Authenticate, Sync!Wait, Sync!Register, Sync!Return,
              Sync!Timeout, syncVars
<1>5. \A d \in Callers : d # c => result'[d] = result[d]
  BY OthersUntouched DEF Untouched
<1>6. \A d \in Callers : result'[d] \in Copies \cup {Sync!None}
  BY <1>2, <1>4, <1>5 DEF Copies
<1>7. \A g \in Conns : data'[g] \in Copies \cup {Sync!None}
  BY <1>3 DEF Copies
<1>8. QED
  BY <1>1, <1>3, <1>6, <1>7 DEF Copies, Copy

-----------------------------------------------------------------------------
(* What the steps do to pairings and to the calls of authenticate.          *)

\* The same pairing, perhaps with an answer to its request.
SamePairing(h) ==
  /\ pairing'[h].id = pairing[h].id /\ pairing'[h].peerLesc = pairing[h].peerLesc
  /\ \/ pairing'[h] = pairing[h]
     \/ Paired(h, "asked") /\ pairing'[h].state = "replied"
     \/ Paired(h, "dh_asked") /\ pairing'[h].state = "dh_replied"

\* c has started a pairing on g.
StartsOn(c, g) ==
  /\ stage[c] = "idle" /\ stage'[c] = "sec_params_request" /\ conn'[c] = g
  /\ mine'[c] = npairings + 1 /\ npairings' = npairings + 1
  /\ heard'[c] = FALSE /\ inWait'[c] = FALSE /\ orderly'[c] = TRUE
  /\ g \in up /\ Paired(g, "none")
  /\ \A h \in Conns : h # g => pairing'[h] = pairing[h]
  /\ pairing'[g].id = npairings + 1 /\ pairing'[g].state = "started"
  /\ crossed' = crossed \cup Others(g) \cup (IF Others(g) = {} THEN {} ELSE {npairings + 1})
  /\ todo[c] # <<>> /\ Head(todo[c]) = <<"authenticate", g>> /\ todo' = [todo EXCEPT ![c] = Tail(@)]
  /\ UNCHANGED syncVars

\* c enters a wait or takes a step inside it.
Waits(c) ==
  /\ stage'[c] = stage[c] /\ conn'[c] = conn[c] /\ mine'[c] = mine[c] /\ heard'[c] = heard[c]
  /\ conn[c] \in Conns /\ inWait'[c] = TRUE
  /\ \/ ~inWait[c] /\ conn[c] \in known /\ Sync!Wait(c, conn[c], stage[c])
     \/ inWait[c] /\ obj[c] = conn[c] /\ (Sync!Register(c) \/ Sync!Return(c) \/ Sync!Timeout(c))
  /\ UNCHANGED <<todo, pairing>>

\* c has waited for the first event and goes on: the callback replies, or it does
\* itself; or it has waited for the second.
Continues(c) ==
  /\ conn'[c] = conn[c] /\ mine'[c] = mine[c] /\ inWait[c] /\ pc[c] = "idle" /\ inWait'[c] = FALSE
  /\ \/ /\ stage[c] = "sec_params_request"
        /\ heard'[c] = (result[c].evt = "sec_params_request" /\ result[c].val.id = mine[c])
        /\ \/ /\ stage'[c] = "lesc_dhkey_request" /\ UNCHANGED pairing
              /\ lescOn[conn[c]] /\ result[c].evt = "sec_params_request" /\ result[c].val.lesc
           \/ /\ stage'[c] = "auth_status"
              /\ lescOn[conn[c]] => result[c].evt = "sec_params_request" /\ ~result[c].val.lesc
              /\ Paired(conn[c], "asked") /\ pairing' = Replied(conn[c], keyset.own)
     \/ /\ stage[c] = "lesc_dhkey_request" /\ stage'[c] = "auth_status" /\ heard'[c] = heard[c]
        /\ UNCHANGED pairing
  /\ UNCHANGED <<syncVars, todo>>

\* c makes another step, after which it is not in a call of authenticate.
Leaves(c) ==
  /\ stage'[c] \notin AuthEvents
  /\ UNCHANGED pairing
  /\ \/ conn'[c] = conn[c] /\ mine'[c] = mine[c] /\ UNCHANGED todo
     \/ mine'[c] = NoPairing /\ stage[c] = "idle" /\ todo' = [todo EXCEPT ![c] = Tail(@)] /\ todo[c] # <<>>
  /\ \/ UNCHANGED syncVars
     \/ stage[c] = TxComplete /\ \/ Sync!Wait(c, conn[c], stage[c])
                                 \/ Sync!Register(c) \/ Sync!Return(c) \/ Sync!Timeout(c)

\* The kinds of steps of a thread.
CallKinds(c) ==
  \/ \E g \in Conns : StartsOn(c, g)
  \/ UNCHANGED <<npairings, crossed>> /\ (Waits(c) \/ Continues(c) \/ Leaves(c))

LEMMA AuthenticateKinds ==
  ASSUME Typed, NEW c \in Callers, NEW g \in Conns, Authenticate(c, g)
  PROVE  CallKinds(c)
<1>1. DeviceTypes /\ CallTypes /\ CallOk(c) /\ npairings + 1 \in Ids
  BY TypeGroups DEF Typed, DeviceTypes, Ids
<1>2. /\ stage[c] = "idle" /\ inWait[c] = FALSE
  BY <1>1, NamesDiffer DEF Authenticate, Begins, CallOk, CallTypes
<1>3. /\ todo[c] # <<>> /\ Head(todo[c]) = <<"authenticate", g>> /\ todo' = [todo EXCEPT ![c] = Tail(@)]
      /\ conn'[c] = g /\ heard'[c] = FALSE /\ orderly'[c] = TRUE /\ UNCHANGED <<inWait, syncVars>>
  BY <1>1 DEF Authenticate, Begins, CallTypes
<1>4. CASE g \in up /\ Paired(g, "none")
  <2>1. /\ npairings' = npairings + 1 /\ mine' = [mine EXCEPT ![c] = npairings + 1]
        /\ pairing' = Started(g, npairings + 1)
        /\ stage' = [stage EXCEPT ![c] = "sec_params_request"]
        /\ crossed' = crossed \cup Others(g) \cup (IF Others(g) = {} THEN {} ELSE {npairings + 1})
    BY <1>4 DEF Authenticate, Started
  <2>2. /\ \A h \in Conns : h # g => pairing'[h] = pairing[h]
        /\ pairing'[g].id = npairings + 1 /\ pairing'[g].state = "started"
    BY <1>1, <2>1, Starts
  <2>3. mine'[c] = npairings + 1 /\ stage'[c] = "sec_params_request"
    BY <1>1, <2>1 DEF CallTypes
  <2>4. StartsOn(c, g)
    BY <1>2, <1>3, <1>4, <2>1, <2>2, <2>3 DEF StartsOn
  <2>5. QED
    BY <2>4 DEF CallKinds
<1>5. CASE ~(g \in up /\ Paired(g, "none"))
  <2>1. /\ stage' = [stage EXCEPT ![c] = "idle"] /\ mine' = [mine EXCEPT ![c] = NoPairing]
        /\ UNCHANGED <<npairings, pairing, crossed>>
    BY <1>5 DEF Authenticate, EndCall
  <2>2. stage'[c] = "idle" /\ mine'[c] = NoPairing
    BY <1>1, <2>1 DEF CallTypes
  <2>3. Leaves(c)
    BY <1>2, <1>3, <2>1, <2>2, NamesDiffer DEF Leaves
  <2>4. QED
    BY <2>1, <2>3 DEF CallKinds
<1>6. QED
  BY <1>4, <1>5

LEMMA WritesKinds ==
  ASSUME Typed, NEW c \in Callers,
         Send(c) \/ GotTxComplete(c) \/ \E g \in Conns : BeginWrite(c, g)
  PROVE  CallKinds(c)
<1>1. CallTypes
  BY TypeGroups DEF Typed
<1>2. UNCHANGED <<syncVars, pairing, npairings, crossed>>
  BY DEF Send, GotTxComplete, BeginWrite, deviceVars
<1>3. CASE Send(c) \/ GotTxComplete(c)
  <2>1. UNCHANGED <<conn, mine, todo>>
    BY <1>3 DEF Send, GotTxComplete, appVars
  <2>2. \E s \in {"idle", "write", TxComplete} : stage' = [stage EXCEPT ![c] = s]
    BY <1>3 DEF Send, GotTxComplete, EndCall, NextStage
  <2>3. stage'[c] \notin AuthEvents
    BY <1>1, <2>2, NamesDiffer, CallUpdates
  <2>4. QED
    BY <1>2, <2>1, <2>3 DEF CallKinds, Leaves
<1>4. ASSUME NEW g \in Conns, BeginWrite(c, g)
      PROVE  CallKinds(c)
  <2>1. /\ stage[c] = "idle" /\ todo' = [todo EXCEPT ![c] = Tail(@)] /\ todo[c] # <<>>
        /\ mine' = [mine EXCEPT ![c] = NoPairing]
    BY <1>4 DEF BeginWrite, Begins
  <2>2. \E s \in {"idle", "write"} : stage' = [stage EXCEPT ![c] = s]
    BY <1>4 DEF BeginWrite, EndCall
  <2>3. stage'[c] \notin AuthEvents
    BY <1>1, <2>2, NamesDiffer, CallUpdates
  <2>4. mine'[c] = NoPairing
    BY <1>1, <2>1 DEF CallTypes
  <2>5. QED
    BY <1>2, <2>1, <2>3, <2>4 DEF CallKinds, Leaves
<1>5. QED
  BY <1>3, <1>4

LEMMA WaitsKinds ==
  ASSUME Typed, NEW c \in Callers, BeginWait(c) \/ WaitStep(c)
  PROVE  CallKinds(c)
<1>1. CallTypes /\ CallOk(c) /\ conn[c] \in Conns
  BY TypeGroups DEF Typed, CallTypes
<1>2. UNCHANGED <<pairing, npairings, crossed, conn, mine, heard, todo>>
  BY DEF BeginWait, WaitStep, deviceVars, authVars, appVars
<1>3. stage[c] \in AuthEvents \cup {TxComplete}
  BY <1>1, NamesDiffer
     DEF BeginWait, WaitStep, Sync!Register, Sync!Return, Sync!Timeout, CallOk
<1>4. CASE BeginWait(c) /\ conn[c] \notin known
  <2>1. stage' = [stage EXCEPT ![c] = "idle"] /\ UNCHANGED syncVars
    BY <1>4 DEF BeginWait, EndCall
  <2>2. stage'[c] = "idle"
    BY <1>1, <2>1 DEF CallTypes
  <2>3. QED
    BY <1>2, <2>1, <2>2, NamesDiffer DEF CallKinds, Leaves
<1>5. CASE BeginWait(c) /\ conn[c] \in known
  <2>1. /\ Sync!Wait(c, conn[c], stage[c]) /\ stage' = stage /\ inWait[c] = FALSE
        /\ inWait'[c] = TRUE
    BY <1>1, <1>5 DEF BeginWait, CallTypes
  <2>2. CASE stage[c] = TxComplete
    BY <1>2, <2>1, <2>2, NamesDiffer DEF CallKinds, Leaves
  <2>3. CASE stage[c] \in AuthEvents
    BY <1>1, <1>2, <1>5, <2>1 DEF CallKinds, Waits
  <2>4. QED
    BY <1>3, <2>2, <2>3
<1>6. CASE WaitStep(c)
  <2>1. /\ Sync!Register(c) \/ Sync!Return(c) \/ Sync!Timeout(c)
        /\ stage' = stage /\ inWait' = inWait /\ pc[c] # "idle"
    BY <1>6 DEF WaitStep, authVars, Sync!Register, Sync!Return, Sync!Timeout
  <2>2. inWait[c] = TRUE /\ obj[c] = conn[c]
    BY <1>1, <2>1 DEF CallOk, CallTypes
  <2>3. CASE stage[c] = TxComplete
    BY <1>2, <2>1, <2>3, NamesDiffer DEF CallKinds, Leaves
  <2>4. CASE stage[c] \in AuthEvents
    BY <1>1, <1>2, <2>1, <2>2 DEF CallKinds, Waits
  <2>5. QED
    BY <1>3, <2>3, <2>4
<1>7. QED
  BY <1>4, <1>5, <1>6

LEMMA AuthKinds ==
  ASSUME Typed, NEW c \in Callers, AuthStep(c)
  PROVE  CallKinds(c)
<1>1. CallTypes /\ conn[c] \in Conns
  BY TypeGroups DEF Typed, CallTypes
<1>2. /\ UNCHANGED <<syncVars, npairings, crossed, conn, mine, todo>>
      /\ inWait[c] = TRUE /\ pc[c] = "idle" /\ inWait'[c] = FALSE
  BY <1>1 DEF AuthStep, GotParams, GotDhKey, GotStatus, WaitedFor, deviceVars, appVars, CallTypes
<1>3. ASSUME NEW o, EndCall(c, o), UNCHANGED pairing
      PROVE  CallKinds(c)
  <2>1. stage'[c] = "idle"
    BY <1>1, <1>3 DEF EndCall, CallTypes
  <2>2. QED
    BY <1>2, <1>3, <2>1, NamesDiffer DEF CallKinds, Leaves
<1>4. CASE GotParams(c)
  <2>1. /\ stage[c] = "sec_params_request"
        /\ heard'[c] = (result[c].evt = "sec_params_request" /\ result[c].val.id = mine[c])
    BY <1>1, <1>4, Zenon DEF GotParams, WaitedFor, CallTypes
  <2>2. CASE NextStage(c, "lesc_dhkey_request")
    <3>1. stage'[c] = "lesc_dhkey_request" /\ stage'[c] # "auth_status"
      BY <1>1, <2>2 DEF NextStage, CallTypes
    <3>2. /\ UNCHANGED pairing
          /\ lescOn[conn[c]] /\ result[c].evt = "sec_params_request" /\ result[c].val.lesc
      <4>1. \A o : EndCall(c, o) => stage'[c] = "idle"
        BY <1>1 DEF EndCall, CallTypes
      <4>2. NextStage(c, "auth_status") => stage'[c] = "auth_status"
        BY <1>1 DEF NextStage, CallTypes
      <4>3. QED
        BY <1>4, <3>1, <4>1, <4>2 DEF GotParams, ReplyParams
    <3>3. Continues(c)
      BY <1>2, <2>1, <3>1, <3>2 DEF Continues
    <3>4. QED
      BY <1>2, <3>3 DEF CallKinds
  <2>3. CASE /\ ReplyParams(c, conn[c] \notin Central)
             /\ lescOn[conn[c]] => result[c].evt = "sec_params_request" /\ ~result[c].val.lesc
    <3>1. CASE \E o : EndCall(c, o) /\ UNCHANGED pairing
      BY <1>3, <3>1
    <3>2. CASE /\ Paired(conn[c], "asked") /\ NextStage(c, "auth_status")
               /\ pairing' = Replied(conn[c], keyset.own)
      <4>1. stage'[c] = "auth_status"
        BY <1>1, <3>2 DEF NextStage, CallTypes
      <4>2. Continues(c)
        BY <1>2, <2>1, <2>3, <3>2, <4>1 DEF Continues
      <4>3. QED
        BY <1>2, <4>2 DEF CallKinds
    <3>3. QED
      BY <2>3, <3>1, <3>2 DEF ReplyParams, DeviceTakesParams, Replied
  <2>4. CASE \E o : EndCall(c, o) /\ UNCHANGED pairing
    BY <1>3, <2>4
  <2>5. QED
    BY <1>4, <2>2, <2>3, <2>4 DEF GotParams
<1>5. CASE GotDhKey(c)
  <2>1. /\ stage[c] = "lesc_dhkey_request" /\ stage'[c] = "auth_status" /\ heard'[c] = heard[c]
        /\ UNCHANGED pairing
    BY <1>1, <1>5 DEF GotDhKey, WaitedFor, NextStage, deviceVars, CallTypes
  <2>2. QED
    BY <1>2, <2>1 DEF CallKinds, Continues
<1>6. CASE GotStatus(c)
  <2>1. \E o : EndCall(c, o) /\ UNCHANGED pairing
    BY <1>6 DEF GotStatus, deviceVars
  <2>2. QED
    BY <1>3, <2>1
<1>7. QED
  BY <1>4, <1>5, <1>6 DEF AuthStep

LEMMA Kinds ==
  ASSUME Typed, NEW c \in Callers, CallMoves(c)
  PROVE  CallKinds(c)
BY AuthenticateKinds, WritesKinds, WaitsKinds, AuthKinds DEF CallMoves, CallStep

\* The event worker's callbacks answer requests.
LEMMA HandlerPairings ==
  ASSUME Typed, HandlerMoves
  PROVE  \A h \in Conns : SamePairing(h)
<1>1. /\ DeviceTypes /\ KeyTypes /\ queue # <<>>
  BY HandlerQueue, TypeGroups DEF Typed
<1>2. /\ Head(queue).conn \in Conns /\ Head(queue).val.id \in Ids /\ privateKey \in Ids
  BY <1>1, HeadTypes DEF Typed, KeyTypes
<1>3. CASE UNCHANGED pairing
  BY <1>3 DEF SamePairing
<1> DEFINE g == Head(queue).conn
<1>4. CASE Paired(g, "asked") /\ pairing' = Replied(g, Head(queue).val.id)
  <2>1. /\ \A h \in Conns \ {g} : pairing'[h] = pairing[h]
        /\ \A h \in Conns : pairing'[h].id = pairing[h].id /\ pairing'[h].peerLesc = pairing[h].peerLesc
        /\ pairing'[g].state = "replied"
    BY <1>1, <1>2, <1>4, Replies
  <2>2. QED
    BY <1>4, <2>1 DEF SamePairing
<1>5. CASE Paired(g, "dh_asked") /\ pairing' = DhReplied(g, privateKey)
  <2>1. /\ \A h \in Conns \ {g} : pairing'[h] = pairing[h]
        /\ \A h \in Conns : pairing'[h].id = pairing[h].id /\ pairing'[h].peerLesc = pairing[h].peerLesc
        /\ pairing'[g].state = "dh_replied"
    BY <1>1, <1>2, <1>5, Replies
  <2>2. QED
    BY <1>5, <2>1 DEF SamePairing
<1>6. QED
  BY <1>3, <1>4, <1>5
     DEF HandlerMoves, Handler, OnDisconnected, OnNotify, OnParamsCallback, OnDhKeyCallback,
         DeviceTakesParams, Replied, DhReplied, deviceVars

\* A thread answers a request, or starts a pairing where there is none.
LEMMA CallPairings ==
  ASSUME Typed, NEW c \in Callers, CallMoves(c)
  PROVE  \/ \E g \in Conns : StartsOn(c, g)
         \/ /\ \A h \in Conns : SamePairing(h)
            /\ UNCHANGED <<npairings, crossed>>
            /\ Waits(c) \/ Continues(c) \/ Leaves(c)
<1>1. DeviceTypes /\ conn[c] \in Conns /\ keyset.own \in Ids
  BY TypeGroups DEF Typed, CallTypes, KeyTypes, Keyset
<1>2. CASE UNCHANGED pairing
  BY <1>2, Kinds DEF SamePairing, CallKinds
<1>3. CASE Paired(conn[c], "asked") /\ pairing' = Replied(conn[c], keyset.own)
  <2>1. /\ \A h \in Conns \ {conn[c]} : pairing'[h] = pairing[h]
        /\ \A h \in Conns : pairing'[h].id = pairing[h].id /\ pairing'[h].peerLesc = pairing[h].peerLesc
        /\ pairing'[conn[c]].state = "replied"
    BY <1>1, <1>3, Replies
  <2>2. \A h \in Conns : SamePairing(h)
    BY <1>3, <2>1 DEF SamePairing
  <2>3. QED
    BY <2>2, Kinds DEF CallKinds
<1>4. QED
  BY <1>2, <1>3, Kinds DEF CallKinds, Waits, Continues, Leaves

LEMMA DevicePairings ==
  ASSUME Typed, NEW g \in Conns, NEW x \in QueueEvents, NEW r \in PairingRecord, DeviceChange(g, x, r)
  PROVE  pairing'[g] = r /\ \A h \in Conns : h # g => pairing'[h] = pairing[h]
  BY DEF Typed, WriteTypeOK, TypeOK, DeviceChange

\* Pairings have different numbers, none higher than the last, and every event
\* and every call belongs to a pairing that there has been.
IdInv ==
  /\ \A g \in Conns : pairing[g].id <= npairings
  /\ \A g, h \in Conns :
       (pairing[g].id = pairing[h].id /\ pairing[g].id # NoPairing) => g = h
  /\ \A x \in Copies : Auth(x) => x.val.id \in 1..npairings
  /\ \A i \in DOMAIN queue : queue[i].val.id <= npairings
  /\ \A c \in Callers : mine[c] <= npairings
  /\ crossed \subseteq 1..npairings

\* The request of a pairing says what the pairing now has.
RequestInv ==
  \A x \in Copies, g \in Conns :
    (x.evt = "sec_params_request" /\ x.val.id = pairing[g].id) =>
      pairing[g].state # "started" /\ x.val.lesc = pairing[g].peerLesc

LEMMA CopiesOfQueue ==
  /\ \A i \in DOMAIN queue : /\ Copy(queue[i]) \in Copies
                             /\ Copy(queue[i]).evt = queue[i].evt /\ Copy(queue[i]).val = queue[i].val
  /\ \A g \in Conns : data[g] \in Copies
  /\ \A c \in Callers : result[c] \in Copies
  BY DEF Copies, Copy

LEMMA NoneIsNoEvent == ~Auth(Sync!None) /\ Sync!None.evt \notin Events
  BY NamesDiffer DEF Auth

LEMMA IdAfterDevice ==
  ASSUME Typed, IdInv, RequestInv, DeviceMoves
  PROVE  IdInv' /\ RequestInv'
<1>1. PICK g \in Conns, x \in QueueEvents, r \in PairingRecord : DeviceChange(g, x, r)
  BY DeviceChanges DEF Typed
<1>2. UNCHANGED <<npairings, mine, crossed>>
  BY DeviceChanges DEF Typed, authVars
<1>3. pairing'[g] = r /\ \A h \in Conns : h # g => pairing'[h] = pairing[h]
  BY <1>1, DevicePairings
<1>4. /\ r.id \in {NoPairing, pairing[g].id} /\ x.val.id \in {NoPairing, pairing[g].id}
      /\ Auth(x) => x.val.id = pairing[g].id /\ x.val.id # NoPairing
  BY <1>1, DeviceResults, TypeGroups DEF Typed
<1>5. /\ Copies' = Copies \cup {Copy(x)} /\ Copy(x).evt = x.evt /\ Copy(x).val = x.val
  BY <1>1, CopiesAfterDevice DEF Typed, Copy
<1>6. npairings \in Nat /\ \A h \in Conns : pairing[h].id \in Nat
  BY DEF Typed, WriteTypeOK, TypeOK, PairingRecord, Ids
<1>7. /\ \A h \in Conns : pairing'[h].id <= npairings
      /\ \A h \in Conns : pairing'[h].id \in {NoPairing, pairing[h].id}
  BY <1>3, <1>4, <1>6 DEF IdInv, NoPairing
<1>8. \A h, k \in Conns : (pairing'[h].id = pairing'[k].id /\ pairing'[h].id # NoPairing) => h = k
  BY <1>7 DEF IdInv
<1>9. \A y \in Copies' : Auth(y) => y.val.id \in 1..npairings
  <2>1. Auth(Copy(x)) => x.val.id \in 1..npairings
    BY <1>4, <1>5, <1>6 DEF Auth, IdInv, NoPairing
  <2>2. QED
    BY <1>5, <2>1 DEF IdInv
<1>10. \A i \in DOMAIN queue' : queue'[i].val.id <= npairings
  <2>1. x.val.id <= npairings
    BY <1>4, <1>6 DEF IdInv, NoPairing
  <2>2. queue' = Append(queue, x) /\ queue \in Seq(QueueEvents)
    BY <1>1 DEF DeviceChange, Typed, WriteTypeOK, TypeOK
  <2>3. QED
    BY <2>1, <2>2, QueueAppend DEF IdInv
<1>11. IdInv'
  BY <1>2, <1>7, <1>8, <1>9, <1>10 DEF IdInv, Auth
<1>12. RequestInv'
  <2> SUFFICES ASSUME NEW y \in Copies', NEW h \in Conns,
                      y.evt = "sec_params_request", y.val.id = pairing'[h].id
               PROVE  pairing'[h].state # "started" /\ y.val.lesc = pairing'[h].peerLesc
    BY DEF RequestInv
  <2>1. y.val.id # NoPairing /\ y.val.id = pairing[h].id
    <3>1. Auth(y)
      BY DEF Auth, AuthEvents
    <3>2. y.val.id \in 1..npairings
      BY <1>9, <3>1
    <3>3. QED
      BY <1>6, <1>7, <3>2 DEF NoPairing
  <2>2. CASE y \in Copies
    <3>1. pairing[h].state # "started" /\ y.val.lesc = pairing[h].peerLesc
      BY <2>1, <2>2 DEF RequestInv
    <3>2. CASE h # g
      BY <1>3, <3>1, <3>2
    <3>3. CASE h = g
      <4>1. pairing[g] \in PairingRecord
        BY DEF Typed, WriteTypeOK, TypeOK
      <4>2. r.id # NoPairing /\ ~Paired(g, "started")
        BY <1>3, <2>1, <3>1, <3>3 DEF Paired
      <4>3. r # Unpaired
        BY <4>2 DEF Unpaired
      <4>4. r = [pairing[g] EXCEPT !.state = "dh_asked"] \/ r = pairing[g]
        BY <1>1, <4>2, <4>3 DEF DeviceChange
      <4>5. r.state # "started" /\ r.peerLesc = pairing[g].peerLesc
        BY <3>1, <3>3, <4>1, <4>4 DEF PairingRecord
      <4>6. QED
        BY <1>3, <3>1, <3>3, <4>5
    <3>4. QED
      BY <3>2, <3>3
  <2>3. CASE y = Copy(x)
    <3>1. x.evt = "sec_params_request" /\ Auth(x)
      BY <1>5, <2>3 DEF Auth, AuthEvents
    <3>2. h = g
      BY <1>4, <1>5, <2>1, <2>3, <3>1 DEF IdInv
    <3>3. /\ r = [pairing[g] EXCEPT !.state = "asked", !.peerLesc = x.val.lesc]
          /\ pairing[g] \in PairingRecord
      BY <1>1, <3>1, NamesDiffer DEF DeviceChange, AuthEvents, Typed, WriteTypeOK, TypeOK
    <3>4. QED
      BY <1>3, <1>5, <2>3, <3>2, <3>3 DEF PairingRecord
  <2>4. QED
    BY <1>5, <2>2, <2>3
<1>13. QED
  BY <1>11, <1>12

LEMMA IdAfterHandler ==
  ASSUME Typed, IdInv, RequestInv, HandlerMoves
  PROVE  IdInv' /\ RequestInv'
<1>1. Copies' \subseteq Copies /\ \A h \in Conns : SamePairing(h)
  BY CopiesAfterHandler, HandlerPairings DEF Typed
<1>2. /\ queue # <<>> /\ queue \in Seq(QueueEvents) /\ UNCHANGED <<npairings, mine, crossed>>
      /\ queue' = queue \/ queue' = Tail(queue)
  BY HandlerQueue DEF Typed, authVars
<1>3. \A i \in DOMAIN queue' : queue'[i].val.id <= npairings
  BY <1>2, QueueTail DEF IdInv
<1>4. \A h \in Conns : pairing'[h].id = pairing[h].id
  BY <1>1 DEF SamePairing
<1>5. IdInv'
  BY <1>1, <1>2, <1>3, <1>4 DEF IdInv, Auth
<1>6. \A h \in Conns : /\ pairing'[h].peerLesc = pairing[h].peerLesc
                       /\ pairing[h].state # "started" => pairing'[h].state # "started"
  BY <1>1 DEF SamePairing
<1>7. RequestInv'
  BY <1>1, <1>4, <1>6 DEF RequestInv
<1>8. QED
  BY <1>5, <1>7

LEMMA IdAfterCall ==
  ASSUME Typed, IdInv, RequestInv, NEW c \in Callers, CallMoves(c)
  PROVE  IdInv' /\ RequestInv'
<1>1. Copies' \subseteq Copies \cup {Sync!None} /\ queue' = queue
  BY CopiesAfterCall, CallChanges DEF Typed
<1>2. \A d \in Callers : d # c => mine'[d] = mine[d]
  BY OthersUntouched DEF Typed, Untouched
<1>3. /\ npairings \in Nat /\ \A h \in Conns : pairing[h].id \in Nat
      /\ \A d \in Callers : mine[d] \in Nat
      /\ \A i \in DOMAIN queue : queue[i].val.id \in Nat
  <2>1. \A i \in DOMAIN queue : queue[i] \in QueueEvents
    BY DEF Typed, WriteTypeOK, TypeOK
  <2>2. QED
    BY <2>1 DEF Typed, WriteTypeOK, TypeOK, PairingRecord, Ids, QueueEvents, Values
<1>4. CASE /\ \A h \in Conns : SamePairing(h)
           /\ UNCHANGED <<npairings, crossed>>
           /\ Waits(c) \/ Continues(c) \/ Leaves(c)
  <2>1. mine'[c] \in {mine[c], NoPairing}
    BY <1>4 DEF Waits, Continues, Leaves
  <2>2. \A d \in Callers : mine'[d] <= npairings
    BY <1>2, <1>3, <2>1 DEF IdInv, NoPairing
  <2>3. \A h \in Conns : /\ pairing'[h].peerLesc = pairing[h].peerLesc
                         /\ pairing'[h].id = pairing[h].id
                         /\ pairing[h].state # "started" => pairing'[h].state # "started"
    BY <1>4 DEF SamePairing
  <2>4. IdInv'
    BY <1>1, <1>4, <2>2, <2>3, NoneIsNoEvent DEF IdInv, Auth
  <2>5. RequestInv'
    BY <1>1, <2>3, NamesDiffer, NoneIsNoEvent DEF RequestInv
  <2>6. QED
    BY <2>4, <2>5
<1>5. ASSUME NEW g \in Conns, StartsOn(c, g)
      PROVE  IdInv' /\ RequestInv'
  <2> DEFINE id == npairings + 1
  <2>1. /\ npairings' = id /\ mine'[c] = id /\ pairing'[g].id = id
        /\ \A h \in Conns : h # g => pairing'[h] = pairing[h]
        /\ crossed' \subseteq crossed \cup Others(g) \cup {id}
    BY <1>5 DEF StartsOn
  <2>2. \A d \in Callers : mine'[d] <= id
    BY <1>2, <1>3, <2>1 DEF IdInv
  <2>3. \A h \in Conns : pairing'[h].id <= id /\ (pairing'[h].id = id => h = g)
    BY <1>3, <2>1 DEF IdInv
  <2>4. \A h, k \in Conns : (pairing'[h].id = pairing'[k].id /\ pairing'[h].id # NoPairing) => h = k
    BY <2>1, <2>3 DEF IdInv
  <2>5. \A x \in Copies' : Auth(x) => x.val.id \in 1..id /\ x.val.id # id
    BY <1>1, <1>3, NoneIsNoEvent DEF IdInv
  <2>6. \A i \in DOMAIN queue' : queue'[i].val.id <= id
    BY <1>1, <1>3 DEF IdInv
  <2>7. crossed' \subseteq 1..id
    <3>1. Others(g) \subseteq 1..npairings
      <4>1. \A h \in Conns : ~Paired(h, "none") => pairing[h].id \in 1..npairings
        BY <1>3 DEF Typed, PairedInv, IdInv, NoPairing
      <4>2. \A d \in Callers : mine[d] # NoPairing => mine[d] \in 1..npairings
        BY <1>3 DEF IdInv, NoPairing
      <4>3. \A i \in DOMAIN queue : queue[i].val.id # NoPairing => queue[i].val.id \in 1..npairings
        BY <1>3 DEF IdInv, NoPairing
      <4>4. QED
        BY <4>1, <4>2, <4>3 DEF Others
    <3>2. crossed \subseteq 1..npairings
      BY DEF IdInv
    <3>3. QED
      BY <1>3, <2>1, <3>1, <3>2
  <2>8. IdInv'
    BY <2>1, <2>2, <2>3, <2>4, <2>5, <2>6, <2>7 DEF IdInv, Auth
  <2>9. RequestInv'
    <3> SUFFICES ASSUME NEW y \in Copies', NEW h \in Conns,
                        y.evt = "sec_params_request", y.val.id = pairing'[h].id
                 PROVE  pairing'[h].state # "started" /\ y.val.lesc = pairing'[h].peerLesc
      BY DEF RequestInv
    <3>1. y \in Copies /\ y.val.id # id
      BY <1>1, <2>5, NamesDiffer, NoneIsNoEvent DEF Auth, AuthEvents
    <3>2. h # g
      BY <2>1, <3>1
    <3>3. QED
      BY <2>1, <3>1, <3>2 DEF RequestInv
  <2>10. QED
    BY <2>8, <2>9
<1>6. QED
  BY <1>4, <1>5, CallPairings

\* Nothing has happened yet.
LEMMA Beginning ==
  ASSUME WriteInit
  PROVE  /\ queue = <<>> /\ DOMAIN queue = {} /\ worker = "idle" /\ known = Conns /\ up = Conns
         /\ \A g \in Conns : /\ pairing[g].state = "none" /\ pairing[g].id = NoPairing
                             /\ data[g] = Sync!None
         /\ \A c \in Callers : /\ stage[c] = "idle" /\ mine[c] = NoPairing /\ pc[c] = "idle"
                               /\ inWait[c] = FALSE /\ heard[c] = FALSE /\ outcome[c] = "none_yet"
                               /\ result[c] = Sync!None
         /\ \A x \in Copies : x = Sync!None
         /\ npairings = 0 /\ crossed = {} /\ keyset = NoKeys /\ privateKey = NoPairing
<1>1. PICK p \in Programs : Init(p)
  BY DEF WriteInit
<1>2. /\ queue = <<>> /\ worker = "idle" /\ known = Conns /\ up = Conns
      /\ pairing = [h \in Conns |-> Unpaired] /\ data = [g \in Conns |-> Sync!None]
      /\ npairings = 0 /\ crossed = {} /\ keyset = NoKeys /\ privateKey = NoPairing
  BY <1>1 DEF Init, Sync!Init
<1>3. /\ stage = [c \in Callers |-> "idle"] /\ inWait = [c \in Callers |-> FALSE]
      /\ mine = [c \in Callers |-> NoPairing] /\ outcome = [c \in Callers |-> "none_yet"]
      /\ heard = [c \in Callers |-> FALSE]
      /\ pc = [c \in Callers |-> "idle"] /\ result = [c \in Callers |-> Sync!None]
  BY <1>1 DEF Init, Sync!Init
<1>4. DOMAIN queue = {}
  BY <1>2
<1>5. \A x \in Copies : x = Sync!None
  BY <1>2, <1>3, <1>4 DEF Copies
<1>6. QED
  BY <1>2, <1>3, <1>4, <1>5 DEF Unpaired

LEMMA IdInit ==
  ASSUME WriteInit
  PROVE  IdInv /\ RequestInv
<1>1. IdInv
  <2>1. /\ npairings = 0 /\ crossed = {} /\ DOMAIN queue = {}
        /\ \A g \in Conns : pairing[g].id = 0
        /\ \A c \in Callers : mine[c] = 0
    BY Beginning DEF NoPairing
  <2>2. \A x \in Copies : ~Auth(x)
    BY Beginning, NoneIsNoEvent
  <2>3. QED
    BY <2>1, <2>2 DEF IdInv, NoPairing
<1>2. RequestInv
  BY Beginning, NoneIsNoEvent, NamesDiffer DEF RequestInv
<1>3. QED
  BY <1>1, <1>2

\* A step that changes nothing keeps everything.
LEMMA Stutter ==
  ASSUME UNCHANGED vars
  PROVE  /\ UNCHANGED <<data, pc, obj, want, result, known, queue, worker, up, pairing, npairings,
                        faults, todo, lescOn, privateKey, keyset, kept>>
         /\ UNCHANGED <<stage, inWait, conn, mine, outcome, heard, crossed, orderly, used, tries, accepted>>
  BY DEF vars, pairingVars, syncVars, deviceVars, appVars, keyVars, authVars, writeVars

Numbered == Typed /\ IdInv /\ RequestInv

LEMMA NumberedAlways == Spec => []Numbered
<1>1. WriteInit => Numbered
  BY TypedInit, IdInit DEF Numbered
<1>2. Numbered /\ [Next]_vars => Numbered'
  <2> SUFFICES ASSUME Numbered, [Next]_vars
               PROVE  Numbered'
    OBVIOUS
  <2>1. Typed' /\ Typed /\ IdInv /\ RequestInv
    BY TypedStep DEF Numbered
  <2>2. IdInv' /\ RequestInv'
    <3>1. CASE UNCHANGED vars
      <4>1. Copies' = Copies
        BY <3>1, Stutter DEF Copies, Copy
      <4>2. UNCHANGED <<npairings, pairing, queue, mine, crossed>>
        BY <3>1, Stutter
      <4>3. IdInv'
        BY <2>1, <4>1, <4>2 DEF IdInv, Auth
      <4>4. RequestInv'
        BY <2>1, <4>1, <4>2 DEF RequestInv
      <4>5. QED
        BY <4>3, <4>4
    <3>2. QED
      BY <2>1, <3>1, Moves, IdAfterDevice, IdAfterHandler, IdAfterCall
  <2>3. QED
    BY <2>1, <2>2 DEF Numbered
<1>3. QED
  BY <1>1, <1>2, PTL DEF Spec

-----------------------------------------------------------------------------
(* The SoftDevice's request for parameters.                                 *)

\* Its request is on its way as long as it has asked and the callback will reply;
\* and a call that heard the request leaves it only to the callback.
Asked(g) ==
  (Paired(g, "asked") /\ pairing[g].peerLesc /\ lescOn[g] /\ g \in known) =>
    \E i \in DOMAIN queue : /\ queue[i].conn = g /\ queue[i].evt = "sec_params_request"
                            /\ queue[i].val.id = pairing[g].id

PassedRequest(c) ==
  LET g == conn[c] IN
  (/\ heard[c] /\ stage[c] \in {"lesc_dhkey_request", "auth_status"}
   /\ pairing[g].id = mine[c]) =>
    /\ ~Paired(g, "started")
    /\ Paired(g, "asked") => lescOn[g] /\ pairing[g].peerLesc

ParamsInv == (\A g \in Conns : Asked(g)) /\ (\A c \in Callers : PassedRequest(c))

LEMMA ParamsAfterDevice ==
  ASSUME Numbered, ParamsInv, DeviceMoves
  PROVE  ParamsInv'
<1>1. PICK g \in Conns, x \in QueueEvents, r \in PairingRecord : DeviceChange(g, x, r)
  BY DeviceChanges DEF Numbered, Typed
<1>2. UNCHANGED <<known, lescOn, stage, conn, mine, heard>>
  BY DeviceChanges DEF Numbered, Typed, authVars, appVars
<1>3. pairing'[g] = r /\ \A h \in Conns : h # g => pairing'[h] = pairing[h]
  BY <1>1, DevicePairings DEF Numbered
<1>4. /\ queue' = Append(queue, x) /\ queue \in Seq(QueueEvents) /\ pairing[g] \in PairingRecord
      /\ x.conn = g
  BY <1>1 DEF DeviceChange, Numbered, Typed, WriteTypeOK, TypeOK
<1>5. /\ \A i \in DOMAIN queue : i \in DOMAIN queue' /\ queue'[i] = queue[i]
      /\ Len(queue) + 1 \in DOMAIN queue' /\ queue'[Len(queue) + 1] = x
  BY <1>4, QueueAppend
<1>6. CASE x.evt = "sec_params_request"
  <2>1. /\ r = [pairing[g] EXCEPT !.state = "asked", !.peerLesc = x.val.lesc]
        /\ Paired(g, "started") /\ x.val.id = pairing[g].id
    BY <1>1, <1>6, NamesDiffer DEF DeviceChange, AuthEvents
  <2>2. r.id = pairing[g].id /\ r.state = "asked"
    BY <1>4, <2>1 DEF PairingRecord
  <2>3. Asked(g)'
    BY <1>3, <1>4, <1>5, <1>6, <2>1, <2>2 DEF Asked
  <2>4. \A h \in Conns : h # g => Asked(h)'
    BY <1>2, <1>3, <1>5 DEF ParamsInv, Asked, Paired
  <2>5. \A c \in Callers : PassedRequest(c)'
    <3> SUFFICES ASSUME NEW c \in Callers, heard[c], stage[c] \in {"lesc_dhkey_request", "auth_status"},
                        pairing'[conn[c]].id = mine[c]
                 PROVE  /\ pairing'[conn[c]].state # "started"
                        /\ pairing'[conn[c]].state = "asked" =>
                             lescOn[conn[c]] /\ pairing'[conn[c]].peerLesc
      BY <1>2 DEF PassedRequest, Paired
    <3>1. conn[c] \in Conns
      BY DEF Numbered, Typed, WriteTypeOK, TypeOK
    <3>2. pairing[conn[c]].id = mine[c]
      BY <1>3, <2>2, <3>1
    <3>3. /\ ~Paired(conn[c], "started")
          /\ Paired(conn[c], "asked") => lescOn[conn[c]] /\ pairing[conn[c]].peerLesc
      BY <3>2 DEF ParamsInv, PassedRequest
    <3>4. conn[c] # g
      BY <2>1, <3>3
    <3>5. QED
      BY <1>3, <3>1, <3>3, <3>4 DEF Paired
  <2>6. QED
    BY <2>3, <2>4, <2>5 DEF ParamsInv
<1>7. CASE x.evt # "sec_params_request"
  <2>1. r = pairing[g] \/ r = Unpaired \/ r = [pairing[g] EXCEPT !.state = "dh_asked"]
    BY <1>1, <1>7 DEF DeviceChange
  <2>2. r = pairing[g] \/ r.state \in {"none", "dh_asked"}
    BY <1>4, <2>1 DEF Unpaired, PairingRecord
  <2>3. \A h \in Conns : Asked(h)'
    BY <1>2, <1>3, <1>5, <2>2 DEF ParamsInv, Asked, Paired
  <2>4. \A c \in Callers : PassedRequest(c)'
    <3>1. \A c \in Callers : conn[c] \in Conns
      BY DEF Numbered, Typed, WriteTypeOK, TypeOK
    <3>2. QED
      BY <1>2, <1>3, <2>2, <3>1 DEF ParamsInv, PassedRequest, Paired
  <2>5. QED
    BY <2>3, <2>4 DEF ParamsInv
<1>8. QED
  BY <1>6, <1>7

LEMMA ParamsAfterHandler ==
  ASSUME Numbered, ParamsInv, HandlerMoves
  PROVE  ParamsInv'
<1>1. /\ queue # <<>> /\ queue \in Seq(QueueEvents)
      /\ UNCHANGED <<lescOn, stage, conn, mine, heard>>
      /\ queue' = queue \/ queue' = Tail(queue)
  BY HandlerQueue DEF Numbered, Typed, appVars, authVars
<1>2. \A h \in Conns : SamePairing(h)
  BY HandlerPairings DEF Numbered
<1>3. \A c \in Callers : PassedRequest(c)'
  <2>1. \A c \in Callers : conn[c] \in Conns
    BY DEF Numbered, Typed, WriteTypeOK, TypeOK
  <2>2. QED
    BY <1>1, <1>2, <2>1 DEF ParamsInv, PassedRequest, SamePairing, Paired
<1>4. ASSUME NEW h \in Conns
      PROVE  Asked(h)'
  <2> SUFFICES ASSUME pairing'[h].state = "asked", pairing'[h].peerLesc, lescOn[h], h \in known'
               PROVE  \E i \in DOMAIN queue' :
                        /\ queue'[i].conn = h /\ queue'[i].evt = "sec_params_request"
                        /\ queue'[i].val.id = pairing'[h].id
    BY <1>1 DEF Asked, Paired
  <2>1. known' \subseteq known
    BY DEF HandlerMoves, Handler, OnDisconnected, OnNotify, OnParamsCallback, OnDhKeyCallback
  <2>2. pairing'[h] = pairing[h] /\ Paired(h, "asked")
    BY <1>2 DEF SamePairing, Paired
  <2>3. PICK i \in DOMAIN queue : /\ queue[i].conn = h /\ queue[i].evt = "sec_params_request"
                                  /\ queue[i].val.id = pairing[h].id
    BY <2>1, <2>2 DEF ParamsInv, Asked
  <2>4. CASE queue' = queue
    BY <2>2, <2>3, <2>4
  <2>5. CASE queue' = Tail(queue) /\ i # 1
    <3>1. i - 1 \in DOMAIN Tail(queue) /\ Tail(queue)[i - 1] = queue[i]
      BY <1>1, <2>5, QueueTail
    <3>2. QED
      BY <2>2, <2>3, <2>5, <3>1
  <2>6. CASE queue' = Tail(queue) /\ queue' # queue /\ i = 1
    <3>1. Head(queue) = queue[1]
      BY <1>1, QueueTail
    <3>2. h \in known
      BY <2>1
    <3>3. OnParamsCallback
      BY <2>3, <2>6, <3>1, <3>2
         DEF HandlerMoves, Handler, OnDisconnected, OnNotify, OnDhKeyCallback, Handling
    <3>4. Head(queue).val.lesc = pairing[h].peerLesc
      BY <2>3, <2>6, <3>1, CopiesOfQueue DEF Numbered, RequestInv
    <3>5. pairing' = Replied(h, Head(queue).val.id)
      BY <2>2, <2>3, <2>6, <3>1, <3>3, <3>4 DEF OnParamsCallback, DeviceTakesParams, Replied
    <3>6. DeviceTypes /\ Head(queue).val.id \in Ids
      BY <1>1, HeadTypes, TypeGroups DEF Numbered, Typed
    <3>7. pairing'[h].state = "replied"
      BY <3>5, <3>6, Replies
    <3>8. QED
      BY <3>7
  <2>7. QED
    BY <1>1, <2>4, <2>5, <2>6
<1>5. QED
  BY <1>3, <1>4 DEF ParamsInv

LEMMA ParamsAfterCall ==
  ASSUME Numbered, ParamsInv, NEW c \in Callers, CallMoves(c)
  PROVE  ParamsInv'
<1>1. UNCHANGED <<known, queue, lescOn>> /\ \A d \in Callers : d # c => Untouched(d)
  BY CallChanges, OthersUntouched DEF Numbered, Typed
<1>2. \A d \in Callers : conn[d] \in Conns /\ mine[d] \in Nat
  BY DEF Numbered, Typed, WriteTypeOK, TypeOK, Ids
<1>3. CASE /\ \A h \in Conns : SamePairing(h)
           /\ Waits(c) \/ Continues(c) \/ Leaves(c)
  <2>1. \A h \in Conns : Asked(h)'
    BY <1>1, <1>3 DEF ParamsInv, Asked, SamePairing, Paired
  <2>2. \A d \in Callers : d # c => PassedRequest(d)'
    BY <1>1, <1>2, <1>3 DEF ParamsInv, PassedRequest, SamePairing, Paired, Untouched
  <2>3. PassedRequest(c)'
    <3>1. CASE Waits(c)
      BY <1>1, <1>2, <1>3, <3>1 DEF ParamsInv, PassedRequest, Waits, SamePairing, Paired
    <3>2. CASE Leaves(c)
      BY <3>2 DEF Leaves, PassedRequest, AuthEvents
    <3>3. CASE Continues(c)
      <4> DEFINE g == conn[c]
      <4> SUFFICES ASSUME heard'[c], pairing'[g].id = mine[c]
                   PROVE  /\ pairing'[g].state # "started"
                          /\ pairing'[g].state = "asked" => lescOn[g] /\ pairing'[g].peerLesc
        BY <1>1, <3>3 DEF PassedRequest, Paired, Continues
      <4>1. /\ pairing[g].id = mine[c] /\ pairing'[g].peerLesc = pairing[g].peerLesc
            /\ pairing'[g] = pairing[g] \/ pairing'[g].state \in {"replied", "dh_replied"}
        BY <1>2, <1>3 DEF SamePairing
      <4>2. CASE stage[c] = "sec_params_request"
        <5>1. result[c].evt = "sec_params_request" /\ result[c].val.id = mine[c]
          BY <3>3, <4>2 DEF Continues
        <5>2. pairing[g].state # "started" /\ result[c].val.lesc = pairing[g].peerLesc
          BY <1>2, <4>1, <5>1, CopiesOfQueue DEF Numbered, RequestInv
        <5>3. \/ lescOn[g] /\ result[c].val.lesc
              \/ pairing' = Replied(g, keyset.own)
          BY <3>3, <4>2 DEF Continues
        <5>4. CASE pairing' = Replied(g, keyset.own)
          <6>1. DeviceTypes /\ keyset.own \in Ids
            BY TypeGroups DEF Numbered, Typed, KeyTypes, Keyset
          <6>2. pairing'[g].state = "replied"
            BY <1>2, <5>4, <6>1, Replies
          <6>3. QED
            BY <6>2
        <5>5. QED
          BY <4>1, <5>2, <5>3, <5>4
      <4>3. CASE stage[c] = "lesc_dhkey_request"
        <5>1. heard[c] /\ pairing' = pairing
          BY <3>3, <4>3 DEF Continues
        <5>2. QED
          BY <4>1, <4>3, <5>1 DEF ParamsInv, PassedRequest, Paired
      <4>4. QED
        BY <3>3, <4>2, <4>3 DEF Continues
    <3>4. QED
      BY <1>3, <3>1, <3>2, <3>3
  <2>4. QED
    BY <2>1, <2>2, <2>3 DEF ParamsInv
<1>4. ASSUME NEW g \in Conns, StartsOn(c, g)
      PROVE  ParamsInv'
  <2>1. /\ \A h \in Conns : h # g => pairing'[h] = pairing[h]
        /\ pairing'[g].id = npairings + 1 /\ pairing'[g].state = "started"
        /\ stage'[c] = "sec_params_request"
    BY <1>4 DEF StartsOn
  <2>2. \A h \in Conns : Asked(h)'
    BY <1>1, <2>1 DEF ParamsInv, Asked, Paired
  <2>3. PassedRequest(c)'
    BY <2>1 DEF PassedRequest
  <2>4. \A d \in Callers : d # c => PassedRequest(d)'
    <3>1. \A d \in Callers : mine[d] # npairings + 1
      <4>1. npairings \in Nat /\ \A d \in Callers : mine[d] <= npairings
        BY DEF Numbered, IdInv, Typed, WriteTypeOK, TypeOK, Ids
      <4>2. ASSUME NEW d \in Callers
            PROVE  mine[d] # npairings + 1
        <5>1. mine[d] \in Nat /\ mine[d] <= npairings /\ npairings \in Nat
          BY <1>2, <4>1
        <5>2. QED
          BY <5>1
      <4>3. QED
        BY <4>2
    <3>2. QED
      BY <1>1, <1>2, <2>1, <3>1 DEF ParamsInv, PassedRequest, Paired, Untouched
  <2>5. QED
    BY <2>2, <2>3, <2>4 DEF ParamsInv
<1>5. QED
  BY <1>3, <1>4, CallPairings DEF Numbered

(* The SoftDevice's request for parameters is answered by exactly one of    *)
(* authenticate and the application's callback: a call that heard it leaves *)
(* it open only where the callback will reply, and the callback replies     *)
(* when it has the request, which is in the queue until then.               *)
THEOREM RequestsAnswered == Spec => []ParamsAnswered
<1>1. WriteInit => ParamsInv
  BY Beginning DEF ParamsInv, Asked, PassedRequest, Paired
<1>2. Numbered /\ ParamsInv /\ [Next]_vars => ParamsInv'
  <2> SUFFICES ASSUME Numbered, ParamsInv, [Next]_vars
               PROVE  ParamsInv'
    OBVIOUS
  <2>1. CASE UNCHANGED vars
    BY <2>1, Stutter DEF ParamsInv, Asked, PassedRequest, Paired
  <2>2. QED
    BY <2>1, Moves, ParamsAfterDevice, ParamsAfterHandler, ParamsAfterCall
<1>3. Numbered /\ ParamsInv => ParamsAnswered
  <2> SUFFICES ASSUME Numbered, ParamsInv, NEW c \in Callers,
                      heard[c], stage[c] \in {"lesc_dhkey_request", "auth_status"},
                      pairing[conn[c]].id = mine[c], conn[c] \in known, queue = <<>>,
                      Paired(conn[c], "asked")
               PROVE  FALSE
    BY DEF ParamsAnswered
  <2>1. conn[c] \in Conns /\ DOMAIN queue = {}
    BY DEF Numbered, Typed, WriteTypeOK, TypeOK
  <2>2. lescOn[conn[c]] /\ pairing[conn[c]].peerLesc
    BY DEF ParamsInv, PassedRequest
  <2>3. QED
    BY <2>1, <2>2 DEF ParamsInv, Asked
<1>4. QED
  BY <1>1, <1>2, <1>3, NumberedAlways, PTL DEF Spec

-----------------------------------------------------------------------------
(* Events of one connection come in the order of its pairings.              *)

OfConn(g) == {i \in DOMAIN queue : queue[i].conn = g /\ Auth(queue[i])}

\* The event x, which has left the queue of g, is of no later pairing than those
\* that are still to come.
Before(x, g) ==
  Auth(x) => /\ \A i \in OfConn(g) : x.val.id <= queue[i].val.id
             /\ ~Paired(g, "none") => x.val.id <= pairing[g].id

Ordered(g) ==
  /\ \A i, j \in OfConn(g) : i < j => queue[i].val.id <= queue[j].val.id
  /\ ~Paired(g, "none") => \A i \in OfConn(g) : queue[i].val.id <= pairing[g].id

OrderInv ==
  /\ \A g \in Conns : Ordered(g) /\ Before(data[g], g)
  /\ \A c \in Callers : Before(result[c], obj[c])

\* What leaves the queue and the pairings as they are keeps the order.
LEMMA OrderKept ==
  ASSUME NEW g \in Conns, Ordered(g), UNCHANGED queue,
         pairing'[g] = pairing[g] \/ SamePairing(g)
  PROVE  Ordered(g)' /\ \A x : Before(x, g) => Before(x, g)'
<1>1. pairing'[g].id = pairing[g].id /\ (pairing[g].state = "none" => pairing'[g].state = "none")
  BY DEF SamePairing, Paired
<1>2. OfConn(g)' = OfConn(g)
  BY DEF OfConn, Auth
<1>3. Ordered(g)'
  BY <1>1, <1>2 DEF Ordered, Paired
<1>4. \A x : Before(x, g) => Before(x, g)'
  BY <1>1, <1>2 DEF Before, Auth, Paired
<1>5. QED
  BY <1>3, <1>4

LEMMA OrderAfterDevice ==
  ASSUME Numbered, OrderInv, DeviceMoves
  PROVE  OrderInv'
<1>1. PICK g \in Conns, x \in QueueEvents, r \in PairingRecord : DeviceChange(g, x, r)
  BY DeviceChanges DEF Numbered, Typed
<1>2. UNCHANGED <<data, obj, result>>
  BY DeviceChanges DEF Numbered, Typed, syncVars
<1>3. pairing'[g] = r /\ \A h \in Conns : h # g => pairing'[h] = pairing[h]
  BY <1>1, DevicePairings DEF Numbered
<1>4. /\ queue' = Append(queue, x) /\ queue \in Seq(QueueEvents) /\ x.conn = g
      /\ \A c \in Callers : obj[c] \in Conns
  BY <1>1 DEF DeviceChange, Numbered, Typed, WriteTypeOK, TypeOK, Sync!TypeOK
<1>5. /\ DOMAIN queue' = DOMAIN queue \cup {Len(queue) + 1} /\ queue'[Len(queue) + 1] = x
      /\ \A i \in DOMAIN queue : queue'[i] = queue[i] /\ i < Len(queue) + 1 /\ i \in Nat
      /\ Len(queue) \in Nat
  BY <1>4, QueueAppend
<1>6. /\ r.id \in {NoPairing, pairing[g].id} /\ (r.state = "none" <=> r.id = NoPairing)
      /\ Auth(x) => x.val.id = pairing[g].id /\ x.val.id # NoPairing
  BY <1>1, DeviceResults, TypeGroups DEF Numbered, Typed
<1>7. (pairing[g].id = NoPairing <=> Paired(g, "none"))
  BY DEF Numbered, Typed, PairedInv
<1>8. \A h \in Conns : h # g => OfConn(h)' = OfConn(h)
  BY <1>4, <1>5 DEF OfConn, Auth
<1>9. /\ OfConn(g) \subseteq DOMAIN queue
      /\ OfConn(g)' = OfConn(g) \cup (IF Auth(x) THEN {Len(queue) + 1} ELSE {})
  BY <1>4, <1>5 DEF OfConn, Auth
<1>10. Auth(x) => \A i \in OfConn(g) : queue[i].val.id <= x.val.id
  BY <1>6, <1>7 DEF OrderInv, Ordered
<1>11. (r.state # "none") => r.id = pairing[g].id /\ ~Paired(g, "none")
  BY <1>6, <1>7
<1>12. x.val.id \in Nat
  BY DEF QueueEvents, Values, Ids
<1>13. ASSUME NEW y, NEW h \in Conns, Before(y, h)
       PROVE  Before(y, h)'
  <2>1. CASE h # g
    BY <1>3, <1>5, <1>8, <1>13, <2>1 DEF Before, Auth, Paired, OfConn
  <2>2. CASE h = g
    <3> SUFFICES ASSUME Auth(y)
                 PROVE  /\ \A i \in OfConn(g)' : y.val.id <= queue'[i].val.id
                        /\ r.state # "none" => y.val.id <= r.id
      BY <1>3, <2>2 DEF Before, Auth, Paired
    <3>1. /\ \A i \in OfConn(g) : y.val.id <= queue[i].val.id
          /\ ~Paired(g, "none") => y.val.id <= pairing[g].id
      BY <1>13, <2>2 DEF Before
    <3>2. Auth(x) => y.val.id <= x.val.id
      BY <1>6, <1>7, <3>1
    <3>3. \A i \in OfConn(g)' : y.val.id <= queue'[i].val.id
      BY <1>5, <1>9, <3>1, <3>2
    <3>4. QED
      BY <1>11, <3>1, <3>3
  <2>3. QED
    BY <2>1, <2>2
<1>14. ASSUME NEW h \in Conns
       PROVE  Ordered(h)'
  <2>1. CASE h # g
    <3>1. Ordered(h)
      BY DEF OrderInv
    <3>2. OfConn(h)' = OfConn(h) /\ \A i \in OfConn(h) : queue'[i] = queue[i]
      BY <1>5, <1>8, <2>1 DEF OfConn
    <3>3. QED
      BY <1>3, <2>1, <3>1, <3>2 DEF Ordered, Paired
  <2>2. CASE h = g
    <3>1. Ordered(g)
      BY DEF OrderInv
    <3>2. \A i, j \in OfConn(g)' : i < j => queue'[i].val.id <= queue'[j].val.id
      <4> SUFFICES ASSUME NEW i \in OfConn(g)', NEW j \in OfConn(g)', i < j
                   PROVE  queue'[i].val.id <= queue'[j].val.id
        OBVIOUS
      <4>1. i \in OfConn(g) /\ i \in DOMAIN queue
        BY <1>5, <1>9
      <4>2. CASE j \in OfConn(g)
        BY <1>5, <1>9, <3>1, <4>1, <4>2 DEF Ordered
      <4>3. CASE j = Len(queue) + 1 /\ Auth(x)
        BY <1>5, <1>10, <4>1, <4>3
      <4>4. QED
        BY <1>9, <4>2, <4>3
    <3>3. r.state # "none" => \A i \in OfConn(g)' : queue'[i].val.id <= r.id
      BY <1>5, <1>6, <1>9, <1>11, <1>12, <3>1 DEF Ordered
    <3>4. QED
      BY <1>3, <2>2, <3>2, <3>3 DEF Ordered, Paired
  <2>3. QED
    BY <2>1, <2>2
<1>15. QED
  BY <1>2, <1>4, <1>13, <1>14 DEF OrderInv

LEMMA OrderAfterHandler ==
  ASSUME Numbered, OrderInv, HandlerMoves
  PROVE  OrderInv'
<1>1. /\ queue # <<>> /\ queue \in Seq(QueueEvents) /\ UNCHANGED <<obj, result>>
      /\ queue' = queue \/ queue' = Tail(queue)
  BY HandlerQueue DEF Numbered, Typed
<1>2. \A h \in Conns : SamePairing(h)
  BY HandlerPairings DEF Numbered
<1>3. \A c \in Callers : obj[c] \in Conns
  BY DEF Numbered, Typed, WriteTypeOK, TypeOK, Sync!TypeOK
<1>4. \A h \in Conns : /\ pairing'[h].id = pairing[h].id
                       /\ pairing'[h].state = "none" => pairing[h].state = "none"
                       /\ pairing[h].state = "none" => pairing'[h].state = "none"
  BY <1>2 DEF SamePairing, Paired
<1>5. CASE queue' = queue
  <2>1. \A h \in Conns : Ordered(h)' /\ \A x : Before(x, h) => Before(x, h)'
    BY <1>2, <1>5, OrderKept DEF OrderInv
  <2>2. \A h \in Conns : Before(data'[h], h)
    <3> SUFFICES ASSUME NEW h \in Conns
                 PROVE  Before(data'[h], h)
      OBVIOUS
    <3>1. CASE data'[h] = data[h]
      BY <3>1 DEF OrderInv
    <3>2. CASE data'[h] = Copy(Head(queue)) /\ h = Head(queue).conn
      <4>1. 1 \in DOMAIN queue /\ Head(queue) = queue[1] /\ \A i \in DOMAIN queue : i \in Nat /\ i >= 1
        BY <1>1
      <4> SUFFICES ASSUME Auth(data'[h])
                   PROVE  /\ \A i \in OfConn(h) : data'[h].val.id <= queue[i].val.id
                          /\ ~Paired(h, "none") => data'[h].val.id <= pairing[h].id
        BY DEF Before
      <4>2. 1 \in OfConn(h) /\ data'[h].val = queue[1].val
        BY <3>2, <4>1 DEF Auth, OfConn, Copy
      <4>3. queue[1].val.id \in Nat
        BY <1>1, <4>1, HeadTypes DEF Numbered, Typed, Ids
      <4>4. Ordered(h)
        BY DEF OrderInv
      <4>5. \A i \in OfConn(h) : i = 1 \/ 1 < i
        BY <4>1 DEF OfConn
      <4>6. QED
        BY <4>2, <4>3, <4>4, <4>5 DEF Ordered
    <3>3. QED
      BY <3>1, <3>2, HandlerSlot DEF Numbered, Typed
  <2>3. QED
    BY <1>1, <1>3, <2>1, <2>2 DEF OrderInv
<1>6. CASE queue' = Tail(queue)
  <2>1. \A i \in DOMAIN queue' : i + 1 \in DOMAIN queue /\ queue'[i] = queue[i + 1] /\ i \in Nat
    BY <1>1, <1>6, QueueTail
  <2>2. \A h \in Conns : \A i \in OfConn(h)' :
          i + 1 \in OfConn(h) /\ queue'[i] = queue[i + 1] /\ i \in Nat
    BY <2>1 DEF OfConn, Auth
  <2>3. ASSUME NEW h \in Conns
        PROVE  Ordered(h)'
    <3>1. Ordered(h)
      BY DEF OrderInv
    <3>2. \A i, j \in OfConn(h)' : i < j => queue'[i].val.id <= queue'[j].val.id
      <4> SUFFICES ASSUME NEW i \in OfConn(h)', NEW j \in OfConn(h)', i < j
                   PROVE  queue'[i].val.id <= queue'[j].val.id
        OBVIOUS
      <4>1. i + 1 < j + 1 /\ i + 1 \in OfConn(h) /\ j + 1 \in OfConn(h)
        BY <2>2
      <4>2. QED
        BY <2>2, <3>1, <4>1 DEF Ordered
    <3>3. QED
      BY <1>4, <2>2, <3>1, <3>2 DEF Ordered, Paired
  <2>4. ASSUME NEW x, NEW h \in Conns, Before(x, h)
        PROVE  Before(x, h)'
    BY <1>4, <2>2, <2>4 DEF Before, Auth, Paired
  <2>5. \A h \in Conns : Before(data[h], h)'
    <3> SUFFICES ASSUME NEW h \in Conns
                 PROVE  Before(data[h], h)'
      OBVIOUS
    <3>1. CASE data'[h] = data[h]
      <4>1. Before(data[h], h)
        BY DEF OrderInv
      <4>2. QED
        BY <2>4, <3>1, <4>1 DEF Before, Auth, Paired
    <3>2. CASE data'[h] = Copy(Head(queue)) /\ h = Head(queue).conn
      <4>1. 1 \in DOMAIN queue /\ Head(queue) = queue[1] /\ \A i \in DOMAIN queue : i \in Nat /\ i >= 1
        BY <1>1
      <4> SUFFICES ASSUME Auth(data'[h])
                   PROVE  Before(data[h], h)'
        BY DEF Before, Auth
      <4>2. 1 \in OfConn(h) /\ data'[h].val = queue[1].val
        BY <3>2, <4>1 DEF Auth, OfConn, Copy
      <4>3. queue[1].val.id \in Nat
        BY <1>1, <4>1, HeadTypes DEF Numbered, Typed, Ids
      <4>4. Ordered(h)
        BY DEF OrderInv
      <4>5. \A i \in OfConn(h) : i = 1 \/ 1 < i
        BY <4>1 DEF OfConn
      <4>6. Before(data'[h], h)
        BY <4>2, <4>3, <4>4, <4>5 DEF Ordered, Before
      <4>7. QED
        BY <2>4, <4>6 DEF Before, Auth, Paired
    <3>3. QED
      BY <3>1, <3>2, HandlerSlot DEF Numbered, Typed
  <2>6. QED
    BY <1>1, <1>3, <2>3, <2>4, <2>5 DEF OrderInv
<1>7. QED
  BY <1>1, <1>5, <1>6

LEMMA OrderAfterCall ==
  ASSUME Numbered, OrderInv, NEW c \in Callers, CallMoves(c)
  PROVE  OrderInv'
<1>1. /\ UNCHANGED queue /\ \A d \in Callers : d # c => Untouched(d)
      /\ \A g \in Conns : data'[g] = data[g] \/ data'[g] = Sync!None
  BY CallChanges, OthersUntouched, CopiesAfterCall DEF Numbered, Typed
<1>2. \A d \in Callers : obj[d] \in Conns
  BY DEF Numbered, Typed, WriteTypeOK, TypeOK, Sync!TypeOK
<1>3. \A g \in Conns : Ordered(g)' /\ \A x \in Copies : Before(x, g) => Before(x, g)'
  <2>1. CASE \A h \in Conns : SamePairing(h)
    BY <1>1, <2>1, OrderKept DEF OrderInv
  <2>2. ASSUME NEW h \in Conns, StartsOn(c, h)
        PROVE  \A g \in Conns : Ordered(g)' /\ \A x \in Copies : Before(x, g) => Before(x, g)'
    <3>1. /\ \A g \in Conns : g # h => pairing'[g] = pairing[g]
          /\ pairing'[h].id = npairings + 1
      BY <2>2 DEF StartsOn
    <3>2. \A g \in Conns : g # h => Ordered(g)' /\ \A x : Before(x, g) => Before(x, g)'
      BY <1>1, <3>1, OrderKept DEF OrderInv
    <3>3. npairings \in Nat /\ \A i \in DOMAIN queue : queue[i].val.id \in Nat
      <4>1. \A i \in DOMAIN queue : queue[i] \in QueueEvents
        BY DEF Numbered, Typed, WriteTypeOK, TypeOK
      <4>2. QED
        BY <4>1 DEF Numbered, Typed, WriteTypeOK, TypeOK, Ids, QueueEvents, Values
    <3>4. OfConn(h)' = OfConn(h) /\ OfConn(h) \subseteq DOMAIN queue
      BY <1>1 DEF OfConn, Auth
    <3>5. Ordered(h)'
      <4>1. \A i \in OfConn(h) : queue[i].val.id <= npairings + 1
        BY <3>3, <3>4 DEF Numbered, IdInv
      <4>2. \A i, j \in OfConn(h) : i < j => queue[i].val.id <= queue[j].val.id
        BY DEF OrderInv, Ordered
      <4>3. QED
        BY <1>1, <3>1, <3>4, <4>1, <4>2 DEF Ordered
    <3>6. ASSUME NEW x \in Copies, Before(x, h)
          PROVE  Before(x, h)'
      <4>1. Auth(x) => x.val.id \in 1..npairings
        BY DEF Numbered, IdInv
      <4>2. Auth(x) => x.val.id <= npairings + 1
        BY <3>3, <4>1
      <4>3. QED
        BY <1>1, <3>1, <3>4, <3>6, <4>2 DEF Before, Auth
    <3>7. QED
      BY <3>2, <3>5, <3>6
  <2>3. QED
    BY <2>1, <2>2, CallPairings DEF Numbered
<1>4. ASSUME NEW g \in Conns
      PROVE  Before(data[g], g)'
  <2>1. Before(data[g], g) /\ data[g] \in Copies
    BY CopiesOfQueue DEF OrderInv
  <2>2. CASE data'[g] = data[g]
    BY <1>3, <2>1, <2>2 DEF Before, Auth, Paired
  <2>3. CASE data'[g] = Sync!None
    BY <2>3, NoneIsNoEvent DEF Before, Auth
  <2>4. QED
    BY <1>1, <2>2, <2>3
<1>5. ASSUME NEW d \in Callers, d # c
      PROVE  Before(result[d], obj[d])'
  <2>1. Before(result[d], obj[d]) /\ result[d] \in Copies /\ obj[d] \in Conns
    BY <1>2, CopiesOfQueue DEF OrderInv
  <2>2. result'[d] = result[d] /\ obj'[d] = obj[d]
    BY <1>1, <1>5 DEF Untouched
  <2>3. QED
    BY <1>3, <2>1, <2>2 DEF Before, Auth, Paired
<1>6. Before(result[c], obj[c])'
  <2>1. \/ result'[c] = Sync!None
        \/ result'[c] = result[c] /\ obj'[c] = obj[c]
        \/ result'[c] = data[obj[c]] /\ obj'[c] = obj[c]
    <3>1. result \in [Callers -> Sync!Answer \cup {Sync!None}] /\ obj \in [Callers -> Conns]
      BY DEF Numbered, Typed, WriteTypeOK, TypeOK, Sync!TypeOK
    <3>2. \/ UNCHANGED syncVars \/ Sync!Register(c) \/ Sync!Return(c) \/ Sync!Timeout(c)
          \/ \E g \in Conns : Sync!Wait(c, g, stage[c])
      BY Kinds DEF Numbered, CallKinds, StartsOn, Waits, Continues, Leaves, Typed, WriteTypeOK, TypeOK
    <3>3. QED
      BY <3>1, <3>2 DEF syncVars, Sync!Register, Sync!Return, Sync!Timeout, Sync!Wait
  <2>2. /\ Before(result[c], obj[c]) /\ result[c] \in Copies /\ obj[c] \in Conns
        /\ Before(data[obj[c]], obj[c]) /\ data[obj[c]] \in Copies
    BY <1>2, CopiesOfQueue DEF OrderInv
  <2>3. CASE result'[c] = Sync!None
    BY <2>3, NoneIsNoEvent DEF Before, Auth
  <2>4. CASE result'[c] = result[c] /\ obj'[c] = obj[c]
    BY <1>3, <2>2, <2>4 DEF Before, Auth, Paired
  <2>5. CASE result'[c] = data[obj[c]] /\ obj'[c] = obj[c]
    BY <1>3, <2>2, <2>5 DEF Before, Auth, Paired
  <2>6. QED
    BY <2>1, <2>3, <2>4, <2>5
<1>7. QED
  BY <1>3, <1>4, <1>5, <1>6 DEF OrderInv

-----------------------------------------------------------------------------
(* The status of its own pairing.                                           *)

\* The application pairs on a connection from one thread only.  Two threads that
\* pair on one connection share its EvtSync object and its slot: either may then
\* be given the status of the other's pairing.
Asks(calls, g) == \E i \in DOMAIN calls : calls[i] = <<"authenticate", g>>

PairsAlone ==
  \A p \in Programs : \A c, d \in Callers, g \in Conns :
    Asks(p.calls[c], g) /\ Asks(p.calls[d], g) => c = d

MayPair(c, g) == Asks(todo[c], g) \/ (mine[c] # NoPairing /\ conn[c] = g)
AloneInv == \A c, d \in Callers, g \in Conns : MayPair(c, g) /\ MayPair(d, g) => c = d

LEMMA FewerCalls ==
  ASSUME NEW s \in Seq(Calls), s # <<>>
  PROVE  /\ \A g \in Conns : Asks(Tail(s), g) => Asks(s, g)
         /\ \A g \in Conns : Head(s) = <<"authenticate", g>> => Asks(s, g)
<1>1. /\ 1 \in DOMAIN s /\ Head(s) = s[1]
      /\ \A i \in DOMAIN Tail(s) : i + 1 \in DOMAIN s /\ Tail(s)[i] = s[i + 1]
  OBVIOUS
<1>2. QED
  BY <1>1 DEF Asks

LEMMA AloneInit ==
  ASSUME PairsAlone, WriteInit
  PROVE  AloneInv
<1>1. PICK p \in Programs : todo = p.calls
  BY DEF WriteInit, Init
<1>2. \A c \in Callers : mine[c] = NoPairing
  BY Beginning
<1>3. QED
  BY <1>1, <1>2 DEF AloneInv, MayPair, PairsAlone

LEMMA AloneStep ==
  ASSUME Typed, AloneInv, [Next]_vars
  PROVE  AloneInv'
<1>1. CASE UNCHANGED <<todo, mine, conn>>
  BY <1>1 DEF AloneInv, MayPair
<1>2. DeviceMoves \/ HandlerMoves \/ UNCHANGED vars => UNCHANGED <<todo, mine, conn>>
  BY DeviceChanges, HandlerQueue, Stutter DEF Typed, appVars, authVars
<1>3. ASSUME NEW c \in Callers, CallMoves(c)
      PROVE  AloneInv'
  <2>1. /\ \A d \in Callers : d # c => Untouched(d)
        /\ todo \in [Callers -> Seq(Calls)]
    BY <1>3, OthersUntouched DEF Typed, WriteTypeOK, TypeOK
  <2>2. ASSUME NEW g \in Conns, MayPair(c, g)'
        PROVE  MayPair(c, g)
    <3>1. CASE conn'[c] = conn[c] /\ mine'[c] = mine[c] /\ UNCHANGED todo
      BY <2>2, <3>1 DEF MayPair
    <3>2. CASE mine'[c] = NoPairing /\ todo' = [todo EXCEPT ![c] = Tail(@)] /\ todo[c] # <<>>
      <4>1. Asks(Tail(todo[c]), g)
        BY <2>1, <2>2, <3>2 DEF MayPair
      <4>2. QED
        BY <2>1, <3>2, <4>1, FewerCalls DEF MayPair
    <3>3. ASSUME NEW h \in Conns, StartsOn(c, h)
          PROVE  MayPair(c, g)
      <4>1. /\ todo[c] # <<>> /\ Head(todo[c]) = <<"authenticate", h>> /\ conn'[c] = h
            /\ todo' = [todo EXCEPT ![c] = Tail(@)]
        BY <3>3 DEF StartsOn
      <4>2. Asks(Tail(todo[c]), g) \/ h = g
        BY <2>1, <2>2, <4>1 DEF MayPair
      <4>3. QED
        BY <2>1, <4>1, <4>2, FewerCalls DEF MayPair
    <3>4. QED
      BY <1>3, <3>1, <3>2, <3>3, Kinds DEF CallKinds, Waits, Continues, Leaves
  <2>3. \A d \in Callers, g \in Conns : MayPair(d, g)' => MayPair(d, g)
    BY <2>1, <2>2 DEF MayPair, Untouched
  <2>4. QED
    BY <2>3 DEF AloneInv
<1>4. QED
  BY <1>1, <1>2, <1>3, Moves

\* What a call of authenticate may rely on.  In its last wait, once it has heard
\* its request, the status it finds is its own.
StatusOk(c) ==
  LET g == conn[c] IN
  stage[c] \in AuthEvents =>
    /\ Paired(g, "none") \/ pairing[g].id = mine[c]
    /\ \A i \in OfConn(g) : queue[i].val.id <= mine[c]
    /\ heard[c] => \A i \in OfConn(g) : queue[i].val.id >= mine[c]
    /\ (heard[c] /\ stage[c] = "auth_status" /\ inWait[c]) =>
         LET r == IF pc[c] = "idle" THEN result[c] ELSE data[g] IN
         Auth(r) => r.val.id = mine[c]

Returned(c) == (outcome[c] \in {"success", "refused"} /\ heard[c]) => result[c].val.id = mine[c]

StatusInv == \A c \in Callers : StatusOk(c) /\ Returned(c)

\* Only its last step makes authenticate return success or the peer's refusal.
LEMMA Ends ==
  ASSUME Typed, NEW c \in Callers, CallMoves(c), outcome'[c] \in {"success", "refused"}
  PROVE  /\ GotStatus(c) /\ stage[c] = "auth_status" /\ inWait[c] /\ pc[c] = "idle"
         /\ result[c].evt = "auth_status" /\ result[c].val.ok = (outcome'[c] = "success")
         /\ UNCHANGED <<result, conn, mine, heard, crossed>>
         /\ kept' = IF outcome'[c] = "success" THEN [kept EXCEPT ![conn[c]] = keyset] ELSE kept
<1>1. CallOk(c) /\ CallTypes
  BY TypeGroups DEF Typed
<1>2. \A o : outcome' = [outcome EXCEPT ![c] = o] => outcome'[c] = o
  BY <1>1, CallUpdates
<1>3. stage[c] # "idle" => outcome[c] \notin {"success", "refused"}
  BY <1>1 DEF CallOk
<1>4. ~BeginWait(c) /\ ~WaitStep(c)
  <2>1. BeginWait(c) => stage[c] # "idle"
    BY NamesDiffer DEF BeginWait
  <2>2. WaitStep(c) => stage[c] # "idle" /\ outcome' = outcome
    BY <1>1, NamesDiffer DEF WaitStep, Sync!Register, Sync!Return, Sync!Timeout, authVars, CallOk
  <2>3. BeginWait(c) => outcome' = outcome \/ outcome'[c] = "key_error"
    BY <1>2 DEF BeginWait, EndCall
  <2>4. QED
    BY <1>3, <2>1, <2>2, <2>3
<1>5. ~GotParams(c) /\ ~GotDhKey(c) /\ ~Send(c) /\ ~GotTxComplete(c)
  <2>1. GotParams(c) \/ GotDhKey(c) \/ Send(c) \/ GotTxComplete(c) => stage[c] # "idle"
    BY NamesDiffer DEF GotParams, GotDhKey, Send, GotTxComplete, WaitedFor
  <2>2. GotParams(c) =>
          outcome' = outcome \/ \E o \in {"type_error", "key_error", "error"} : EndCall(c, o)
    BY DEF GotParams, ReplyParams, NextStage
  <2>3. GotDhKey(c) \/ Send(c) \/ GotTxComplete(c) =>
          outcome' = outcome \/ \E o \in {"sent", "error", "exhausted"} : EndCall(c, o)
    BY DEF GotDhKey, Send, GotTxComplete, NextStage
  <2>4. QED
    BY <1>2, <1>3, <2>1, <2>2, <2>3 DEF EndCall
<1>6. \A g \in Conns : ~BeginWrite(c, g) /\ ~Authenticate(c, g)
  <2> SUFFICES ASSUME NEW g \in Conns, BeginWrite(c, g) \/ Authenticate(c, g)
               PROVE  FALSE
    OBVIOUS
  <2>1. \E o \in {"error", "key_error", "none_yet"} : outcome' = [outcome EXCEPT ![c] = o]
    BY DEF BeginWrite, Authenticate, EndCall
  <2>2. QED
    BY <1>2, <2>1
<1>7. GotStatus(c)
  BY <1>4, <1>5, <1>6 DEF CallMoves, CallStep, AuthStep
<1>8. /\ stage[c] = "auth_status" /\ inWait[c] /\ pc[c] = "idle"
      /\ UNCHANGED <<result, conn, mine, heard, crossed>>
      /\ kept' = IF outcome'[c] = "success" THEN [kept EXCEPT ![conn[c]] = keyset] ELSE kept
  BY <1>7 DEF GotStatus, WaitedFor, syncVars
<1>9. result[c].evt = "auth_status" /\ result[c].val.ok = (outcome'[c] = "success")
  <2>1. outcome'[c] = IF result[c] = Sync!None THEN "type_error"
                      ELSE IF result[c].evt # "auth_status" THEN "no_status"
                      ELSE IF ~result[c].val.ok THEN "refused"
                      ELSE IF conn[c] \notin known THEN "key_error"
                      ELSE "success"
    BY <1>2, <1>7 DEF GotStatus, EndCall
  <2>2. result[c].evt = "auth_status" /\ result[c] # Sync!None
    BY <2>1
  <2>3. result[c].val.ok \in BOOLEAN
    <3>1. result[c] \in Sync!Answer
      BY <2>2 DEF Typed, WriteTypeOK, TypeOK, Sync!TypeOK
    <3>2. QED
      BY <3>1 DEF Sync!Answer, Values
  <2>4. QED
    BY <2>1, <2>2, <2>3
<1>10. QED
  BY <1>7, <1>8, <1>9

LEMMA StatusAfterDevice ==
  ASSUME Numbered, StatusInv, DeviceMoves
  PROVE  StatusInv'
<1>1. PICK g \in Conns, x \in QueueEvents, r \in PairingRecord : DeviceChange(g, x, r)
  BY DeviceChanges DEF Numbered, Typed
<1>2. UNCHANGED <<data, pc, obj, result, stage, inWait, conn, mine, outcome, heard>>
  BY DeviceChanges DEF Numbered, Typed, syncVars, authVars
<1>3. pairing'[g] = r /\ \A h \in Conns : h # g => pairing'[h] = pairing[h]
  BY <1>1, DevicePairings DEF Numbered
<1>4. queue' = Append(queue, x) /\ queue \in Seq(QueueEvents) /\ x.conn = g
  BY <1>1 DEF DeviceChange, Numbered, Typed, WriteTypeOK, TypeOK
<1>5. /\ DOMAIN queue' = DOMAIN queue \cup {Len(queue) + 1} /\ queue'[Len(queue) + 1] = x
      /\ \A i \in DOMAIN queue : queue'[i] = queue[i]
  BY <1>4, QueueAppend
<1>6. /\ r.id \in {NoPairing, pairing[g].id} /\ (r.state = "none" <=> r.id = NoPairing)
      /\ Auth(x) => x.val.id = pairing[g].id /\ x.val.id # NoPairing
      /\ pairing[g].id = NoPairing <=> Paired(g, "none")
  BY <1>1, DeviceResults, TypeGroups DEF Numbered, Typed, PairedInv
<1>7. x.val.id \in Nat
  BY DEF QueueEvents, Values, Ids
<1>8. \A h \in Conns : \A i \in OfConn(h)' :
        \/ i \in OfConn(h) /\ queue'[i] = queue[i]
        \/ h = g /\ Auth(x) /\ queue'[i] = x
  BY <1>4, <1>5 DEF OfConn, Auth
<1>9. ASSUME NEW c \in Callers
      PROVE  StatusOk(c)'
  <2>0. PICK h \in Conns : h = conn[c]
    BY DEF Numbered, Typed, WriteTypeOK, TypeOK
  <2> SUFFICES ASSUME stage[c] \in AuthEvents
               PROVE  StatusOk(c)'
    BY <1>2 DEF StatusOk
  <2>1. /\ Paired(h, "none") \/ pairing[h].id = mine[c]
        /\ \A i \in OfConn(h) : queue[i].val.id <= mine[c]
        /\ heard[c] => \A i \in OfConn(h) : queue[i].val.id >= mine[c]
        /\ (heard[c] /\ stage[c] = "auth_status" /\ inWait[c]) =>
             LET s == IF pc[c] = "idle" THEN result[c] ELSE data[h] IN
             Auth(s) => s.val.id = mine[c]
    BY <2>0 DEF StatusInv, StatusOk
  <2>2. h \in Conns
    OBVIOUS
  <2>3. pairing'[h].state = "none" \/ pairing'[h].id = mine[c]
    BY <1>3, <1>6, <2>1, <2>2 DEF Paired
  <2>4. h = g /\ Auth(x) => x.val.id = mine[c]
    BY <1>6, <2>1
  <2>5. /\ \A i \in OfConn(h)' : queue'[i].val.id <= mine[c]
        /\ heard[c] => \A i \in OfConn(h)' : queue'[i].val.id >= mine[c]
    <3> SUFFICES ASSUME NEW i \in OfConn(h)'
                 PROVE  queue'[i].val.id <= mine[c] /\ (heard[c] => queue'[i].val.id >= mine[c])
      OBVIOUS
    <3>1. CASE i \in OfConn(h) /\ queue'[i] = queue[i]
      BY <2>1, <3>1
    <3>2. CASE h = g /\ Auth(x) /\ queue'[i] = x
      BY <1>7, <2>4, <3>2
    <3>3. QED
      BY <1>8, <2>2, <3>1, <3>2
  <2>6. QED
    BY <1>2, <2>0, <2>1, <2>3, <2>5 DEF StatusOk, Paired, Auth
<1>10. \A c \in Callers : Returned(c)'
  BY <1>2 DEF StatusInv, Returned
<1>11. QED
  BY <1>9, <1>10 DEF StatusInv

LEMMA StatusAfterHandler ==
  ASSUME Numbered, StatusInv, HandlerMoves
  PROVE  StatusInv'
<1>1. /\ queue # <<>> /\ queue \in Seq(QueueEvents)
      /\ UNCHANGED <<obj, result, stage, inWait, conn, mine, outcome, heard>>
      /\ queue' = queue \/ queue' = Tail(queue)
  BY HandlerQueue DEF Numbered, Typed, authVars
<1>2. \A h \in Conns : SamePairing(h)
  BY HandlerPairings DEF Numbered
<1>3. /\ 1 \in DOMAIN queue /\ Head(queue) = queue[1]
      /\ \A i \in DOMAIN Tail(queue) : i + 1 \in DOMAIN queue /\ Tail(queue)[i] = queue[i + 1]
  BY <1>1, QueueTail
<1>4. \A h \in Conns : \A i \in OfConn(h)' : \E j \in OfConn(h) : queue'[i] = queue[j]
  BY <1>1, <1>3 DEF OfConn, Auth
<1>5. ASSUME NEW c \in Callers
      PROVE  StatusOk(c)'
  <2>0. PICK h \in Conns : h = conn[c]
    BY DEF Numbered, Typed, WriteTypeOK, TypeOK
  <2> SUFFICES ASSUME stage[c] \in AuthEvents
               PROVE  StatusOk(c)'
    BY <1>1 DEF StatusOk
  <2>1. /\ Paired(h, "none") \/ pairing[h].id = mine[c]
        /\ \A i \in OfConn(h) : queue[i].val.id <= mine[c]
        /\ heard[c] => \A i \in OfConn(h) : queue[i].val.id >= mine[c]
        /\ (heard[c] /\ stage[c] = "auth_status" /\ inWait[c]) =>
             LET s == IF pc[c] = "idle" THEN result[c] ELSE data[h] IN
             Auth(s) => s.val.id = mine[c]
    BY <2>0 DEF StatusInv, StatusOk
  <2>2. h \in Conns /\ mine[c] \in Nat
    BY DEF Numbered, Typed, WriteTypeOK, TypeOK, Ids
  <2>3. pairing'[h].state = "none" \/ pairing'[h].id = mine[c]
    BY <1>2, <2>1, <2>2 DEF Paired, SamePairing
  <2>4. /\ \A i \in OfConn(h)' : queue'[i].val.id <= mine[c]
        /\ heard[c] => \A i \in OfConn(h)' : queue'[i].val.id >= mine[c]
    <3> SUFFICES ASSUME NEW i \in OfConn(h)'
                 PROVE  queue'[i].val.id <= mine[c] /\ (heard[c] => queue'[i].val.id >= mine[c])
      OBVIOUS
    <3>1. PICK j \in OfConn(h) : queue'[i] = queue[j]
      BY <1>4, <2>2
    <3>2. QED
      BY <2>1, <3>1
  <2>5. pc'[c] = "idle" <=> pc[c] = "idle"
    BY HandlersWake DEF Numbered, Typed, AtMostWoken
  <2>6. ASSUME heard[c], stage[c] = "auth_status", inWait[c], pc[c] # "idle", Auth(data'[h])
        PROVE  data'[h].val.id = mine[c]
    <3>1. CASE data'[h] = data[h]
      BY <2>1, <2>6, <3>1
    <3>2. CASE data'[h] = Copy(Head(queue)) /\ h = Head(queue).conn
      <4>1. 1 \in OfConn(h) /\ data'[h].val = queue[1].val
        BY <1>3, <2>6, <3>2 DEF OfConn, Auth, Copy
      <4>2. queue[1].val.id \in Nat
        BY <1>1, <1>3, HeadTypes DEF Numbered, Typed, Ids
      <4>3. queue[1].val.id <= mine[c] /\ queue[1].val.id >= mine[c]
        BY <2>1, <2>6, <4>1
      <4>4. QED
        BY <2>2, <4>1, <4>2, <4>3
    <3>3. QED
      BY <2>2, <3>1, <3>2, HandlerSlot DEF Numbered, Typed
  <2>7. (heard[c] /\ stage[c] = "auth_status" /\ inWait[c]) =>
          LET s == IF pc'[c] = "idle" THEN result[c] ELSE data'[h] IN
          Auth(s) => s.val.id = mine[c]
    BY <2>1, <2>5, <2>6
  <2>8. QED
    BY <1>1, <2>0, <2>3, <2>4, <2>7 DEF StatusOk, Paired, Auth
<1>6. \A c \in Callers : Returned(c)'
  BY <1>1 DEF StatusInv, Returned
<1>7. QED
  BY <1>5, <1>6 DEF StatusInv

LEMMA StatusAfterCall ==
  ASSUME Numbered, OrderInv, AloneInv, StatusInv, NEW c \in Callers, CallMoves(c)
  PROVE  StatusInv'
<1>1. /\ UNCHANGED queue /\ \A d \in Callers : d # c => Untouched(d)
      /\ \A g \in Conns : data'[g] = data[g] \/ data'[g] = Sync!None
  BY CallChanges, OthersUntouched, CopiesAfterCall DEF Numbered, Typed
<1>2. \A g \in Conns : OfConn(g)' = OfConn(g) /\ OfConn(g) \subseteq DOMAIN queue
  BY <1>1 DEF OfConn, Auth
<1>3. ASSUME NEW d \in Callers, d # c
      PROVE  StatusOk(d)' /\ Returned(d)'
  <2>0. PICK h \in Conns : h = conn[d]
    BY DEF Numbered, Typed, WriteTypeOK, TypeOK
  <2>1. Untouched(d) /\ StatusOk(d) /\ Returned(d)
    BY <1>1, <1>3 DEF StatusInv
  <2>2. Returned(d)'
    BY <2>1 DEF Returned, Untouched
  <2>3. ASSUME stage[d] \in AuthEvents
        PROVE  StatusOk(d)'
    <3>1. /\ Paired(h, "none") \/ pairing[h].id = mine[d]
          /\ \A i \in OfConn(h) : queue[i].val.id <= mine[d]
          /\ heard[d] => \A i \in OfConn(h) : queue[i].val.id >= mine[d]
          /\ (heard[d] /\ stage[d] = "auth_status" /\ inWait[d]) =>
               LET s == IF pc[d] = "idle" THEN result[d] ELSE data[h] IN
               Auth(s) => s.val.id = mine[d]
      BY <2>0, <2>1, <2>3 DEF StatusOk
    <3>2. pairing'[h].state = "none" \/ pairing'[h].id = mine[d]
      <4>1. CASE SamePairing(h)
        BY <3>1, <4>1 DEF SamePairing, Paired
      <4>2. ASSUME NEW g \in Conns, StartsOn(c, g)
            PROVE  pairing'[h].state = "none" \/ pairing'[h].id = mine[d]
        <5>1. MayPair(d, h)
          BY <2>0, <2>3 DEF MayPair, Numbered, Typed, CallOk
        <5>2. MayPair(c, g)
          <6>1. todo[c] # <<>> /\ Head(todo[c]) = <<"authenticate", g>> /\ todo[c] \in Seq(Calls)
            BY <4>2 DEF StartsOn, Numbered, Typed, WriteTypeOK, TypeOK
          <6>2. QED
            BY <6>1, FewerCalls DEF MayPair
        <5>3. g # h
          BY <1>3, <5>1, <5>2 DEF AloneInv
        <5>4. QED
          BY <3>1, <4>2, <5>3 DEF StartsOn, Paired
      <4>3. QED
        BY <4>1, <4>2, CallPairings DEF Numbered
    <3>3. /\ \A i \in OfConn(h)' : queue'[i].val.id <= mine[d]
          /\ heard[d] => \A i \in OfConn(h)' : queue'[i].val.id >= mine[d]
      BY <1>1, <1>2, <3>1
    <3>4. (heard[d] /\ stage[d] = "auth_status" /\ inWait[d]) =>
            LET s == IF pc[d] = "idle" THEN result[d] ELSE data'[h] IN
            Auth(s) => s.val.id = mine[d]
      BY <1>1, <3>1, NoneIsNoEvent
    <3>5. QED
      BY <2>0, <2>1, <3>2, <3>3, <3>4 DEF StatusOk, Untouched, Paired, Auth
  <2>4. stage[d] \notin AuthEvents => StatusOk(d)'
    BY <2>1 DEF StatusOk, Untouched
  <2>5. QED
    BY <2>2, <2>3, <2>4
<1>4. StatusOk(c)'
  <2>1. CASE Leaves(c)
    BY <2>1 DEF Leaves, StatusOk
  <2>2. ASSUME NEW g \in Conns, StartsOn(c, g)
        PROVE  StatusOk(c)'
    <3>1. /\ conn'[c] = g /\ mine'[c] = npairings + 1 /\ pairing'[g].id = npairings + 1
          /\ heard'[c] = FALSE
      BY <2>2 DEF StartsOn
    <3>2. \A i \in OfConn(g)' : queue'[i].val.id <= mine'[c]
      <4>1. npairings \in Nat /\ \A i \in DOMAIN queue : queue[i] \in QueueEvents
        BY DEF Numbered, Typed, WriteTypeOK, TypeOK, Ids
      <4>2. \A i \in DOMAIN queue : queue[i].val.id \in Nat /\ queue[i].val.id <= npairings
        BY <4>1 DEF QueueEvents, Values, Ids, Numbered, IdInv
      <4>3. \A i \in DOMAIN queue : queue[i].val.id <= npairings + 1
        BY <4>1, <4>2
      <4>4. QED
        BY <1>1, <1>2, <3>1, <4>3
    <3>3. QED
      BY <3>1, <3>2 DEF StatusOk
  <2>3. ASSUME Waits(c) \/ Continues(c), stage[c] \in AuthEvents, \A h \in Conns : SamePairing(h)
        PROVE  StatusOk(c)'
    <3>0. PICK h \in Conns : h = conn[c]
      BY DEF Numbered, Typed, WriteTypeOK, TypeOK
    <3>1. /\ Paired(h, "none") \/ pairing[h].id = mine[c]
          /\ \A i \in OfConn(h) : queue[i].val.id <= mine[c]
          /\ heard[c] => \A i \in OfConn(h) : queue[i].val.id >= mine[c]
          /\ (heard[c] /\ stage[c] = "auth_status" /\ inWait[c]) =>
               LET s == IF pc[c] = "idle" THEN result[c] ELSE data[h] IN
               Auth(s) => s.val.id = mine[c]
      BY <2>3, <3>0 DEF StatusInv, StatusOk
    <3>2. pairing'[h].state = "none" \/ pairing'[h].id = mine[c]
      BY <2>3, <3>1 DEF SamePairing, Paired
    <3>3. conn'[c] = h /\ mine'[c] = mine[c]
      BY <2>3, <3>0 DEF Waits, Continues
    <3>4. heard'[c] => \A i \in OfConn(h) : queue[i].val.id >= mine[c]
      <4>1. CASE heard'[c] = heard[c]
        BY <3>1, <4>1
      <4>2. CASE Continues(c) /\ stage[c] = "sec_params_request"
        <5> SUFFICES ASSUME heard'[c]
                     PROVE  \A i \in OfConn(h) : queue[i].val.id >= mine[c]
          OBVIOUS
        <5>1. result[c].evt = "sec_params_request" /\ result[c].val.id = mine[c] /\ inWait[c]
          BY <4>2 DEF Continues
        <5>2. obj[c] = h
          BY <3>0, <5>1 DEF Numbered, Typed, CallOk
        <5>3. \A i \in OfConn(h) : mine[c] <= queue[i].val.id
          BY <5>1, <5>2 DEF OrderInv, Before, Auth, AuthEvents
        <5>4. mine[c] \in Nat /\ \A i \in DOMAIN queue : queue[i] \in QueueEvents
          BY DEF Numbered, Typed, WriteTypeOK, TypeOK, Ids
        <5>5. \A i \in DOMAIN queue : queue[i].val.id \in Nat
          BY <5>4 DEF QueueEvents, Values, Ids
        <5>6. QED
          BY <1>2, <5>3, <5>4, <5>5
      <4>3. QED
        BY <2>3, <4>1, <4>2 DEF Waits, Continues
    <3>5. /\ \A i \in OfConn(h)' : queue'[i].val.id <= mine[c]
          /\ heard'[c] => \A i \in OfConn(h)' : queue'[i].val.id >= mine[c]
      BY <1>1, <1>2, <3>1, <3>4
    <3>6. (heard'[c] /\ stage'[c] = "auth_status" /\ inWait'[c]) =>
            LET s == IF pc'[c] = "idle" THEN result'[c] ELSE data'[h] IN
            Auth(s) => s.val.id = mine[c]
      <4>1. CASE Continues(c)
        BY <4>1 DEF Continues
      <4>2. CASE Waits(c)
        <5>1. /\ data \in [Conns -> Sync!Answer \cup {Sync!None}]
              /\ pc \in [Callers -> {"idle", "entering", "waiting", "waking"}]
              /\ result \in [Callers -> Sync!Answer \cup {Sync!None}]
          BY DEF Numbered, Typed, WriteTypeOK, TypeOK, Sync!TypeOK
        <5>2. heard'[c] = heard[c] /\ stage'[c] = stage[c]
          BY <4>2 DEF Waits
        <5>3. CASE ~inWait[c] /\ Sync!Wait(c, h, stage[c])
          <6>1. data'[h] = Sync!None /\ pc'[c] = "entering"
            BY <5>1, <5>3 DEF Sync!Wait
          <6>2. QED
            BY <6>1, NoneIsNoEvent
        <5>4. CASE inWait[c] /\ obj[c] = h /\ (Sync!Register(c) \/ Sync!Timeout(c))
          <6>1. pc'[c] # "idle" /\ pc[c] # "idle" /\ data' = data
            BY <5>1, <5>4 DEF Sync!Register, Sync!Timeout
          <6>2. QED
            BY <3>1, <5>2, <5>4, <6>1
        <5>5. CASE inWait[c] /\ obj[c] = h /\ Sync!Return(c)
          <6>1. pc'[c] = "idle" /\ pc[c] # "idle" /\ result'[c] = data[h]
            BY <5>1, <5>5 DEF Sync!Return
          <6>2. QED
            BY <3>1, <5>2, <5>5, <6>1
        <5>6. QED
          BY <3>0, <4>2, <5>3, <5>4, <5>5 DEF Waits
      <4>3. QED
        BY <2>3, <4>1, <4>2
    <3>7. QED
      BY <3>2, <3>3, <3>5, <3>6 DEF StatusOk, Paired, Auth
  <2>4. (Waits(c) \/ Continues(c)) /\ stage[c] \notin AuthEvents => StatusOk(c)'
    BY DEF Waits, Continues, StatusOk, AuthEvents
  <2>5. QED
    BY <2>1, <2>2, <2>3, <2>4, CallPairings DEF Numbered
<1>5. Returned(c)'
  <2> SUFFICES ASSUME outcome'[c] \in {"success", "refused"}, heard'[c]
               PROVE  result'[c].val.id = mine'[c]
    BY DEF Returned
  <2>1. /\ stage[c] = "auth_status" /\ inWait[c] /\ pc[c] = "idle" /\ result[c].evt = "auth_status"
        /\ UNCHANGED <<result, mine, heard>>
    BY Ends DEF Numbered
  <2>2. Auth(result[c]) => result[c].val.id = mine[c]
    BY <2>1 DEF StatusInv, StatusOk, AuthEvents
  <2>3. QED
    BY <2>1, <2>2 DEF Auth, AuthEvents
<1>6. QED
  BY <1>3, <1>4, <1>5 DEF StatusInv

\* The facts about a call of authenticate that has its connection for itself.
Own == Numbered /\ OrderInv /\ AloneInv /\ StatusInv

LEMMA OwnAlways ==
  ASSUME PairsAlone
  PROVE  Spec => []Own
<1>1. WriteInit => Own
  <2> SUFFICES ASSUME WriteInit
               PROVE  Own
    OBVIOUS
  <2>1. Numbered
    BY TypedInit, IdInit DEF Numbered
  <2>2. \A g \in Conns : OfConn(g) = {}
    BY Beginning DEF OfConn
  <2>3. OrderInv
    BY <2>2, Beginning, NoneIsNoEvent DEF OrderInv, Ordered, Before
  <2>4. StatusInv
    BY Beginning, NamesDiffer DEF StatusInv, StatusOk, Returned
  <2>5. QED
    BY <2>1, <2>3, <2>4, AloneInit DEF Own
<1>2. Own /\ Numbered' /\ [Next]_vars => Own'
  <2> SUFFICES ASSUME Own, Numbered', [Next]_vars
               PROVE  Own'
    OBVIOUS
  <2>1. Numbered /\ OrderInv /\ AloneInv /\ StatusInv
    BY DEF Own
  <2>2. CASE UNCHANGED vars
    <3>1. OrderInv'
      BY <2>1, <2>2, Stutter DEF OrderInv, Ordered, Before, OfConn, Paired, Auth
    <3>2. StatusInv'
      BY <2>1, <2>2, Stutter DEF StatusInv, StatusOk, Returned, OfConn, Paired, Auth
    <3>3. QED
      BY <2>1, <3>1, <3>2, AloneStep DEF Own, Numbered
  <2>3. CASE DeviceMoves \/ HandlerMoves \/ \E c \in Callers : CallMoves(c)
    <3>1. OrderInv' /\ StatusInv'
      BY <2>1, <2>3, OrderAfterDevice, OrderAfterHandler, OrderAfterCall, StatusAfterDevice,
         StatusAfterHandler, StatusAfterCall
    <3>2. QED
      BY <2>1, <3>1, AloneStep DEF Own, Numbered
  <2>4. QED
    BY <2>2, <2>3, Moves
<1>3. QED
  BY <1>1, <1>2, NumberedAlways, PTL DEF Spec

(* authenticate returns success or a refusal only for the pairing it        *)
(* started, if its first wait returned the request of that pairing and no   *)
(* other thread pairs on its connection: events of one connection come in   *)
(* the order of its pairings, so that what comes after the request is of    *)
(* the same pairing until the call has ended.                               *)
THEOREM OwnStatusReturned ==
  ASSUME PairsAlone
  PROVE  Spec => []StatusOfOwnPairing
<1>1. Own => StatusOfOwnPairing
  BY DEF Own, StatusInv, Returned, StatusOfOwnPairing
<1>2. QED
  BY <1>1, OwnAlways, PTL

-----------------------------------------------------------------------------
(* A call to which every event comes while it waits for it.                 *)

\* A connection that is up has its entries, and its end is not on the way; a
\* request of a pairing that has ended is followed by the pairing's status.
UpInv ==
  /\ \A g \in up : /\ g \in known
                   /\ \A i \in DOMAIN queue : queue[i].conn = g => queue[i].evt # "disconnected"
  /\ \A i \in DOMAIN queue :
       (queue[i].evt = "sec_params_request" /\ queue[i].conn \in up) =>
         \/ pairing[queue[i].conn].id = queue[i].val.id
         \/ \E j \in DOMAIN queue : /\ j > i /\ queue[j].conn = queue[i].conn
                                    /\ queue[j].evt = "auth_status"
                                    /\ queue[j].val.id = queue[i].val.id

LEMMA UpAfterDevice ==
  ASSUME Numbered, UpInv, DeviceMoves
  PROVE  UpInv'
<1>1. PICK g \in Conns, x \in QueueEvents, r \in PairingRecord : DeviceChange(g, x, r)
  BY DeviceChanges DEF Numbered, Typed
<1>2. known' = known /\ up' = IF x.evt = "disconnected" THEN up \ {g} ELSE up
  BY <1>1, DeviceChanges DEF Numbered, Typed, DeviceChange
<1>3. pairing'[g] = r /\ \A h \in Conns : h # g => pairing'[h] = pairing[h]
  BY <1>1, DevicePairings DEF Numbered
<1>4. /\ queue' = Append(queue, x) /\ queue \in Seq(QueueEvents) /\ x.conn = g
      /\ pairing[g] \in PairingRecord
  BY <1>1 DEF DeviceChange, Numbered, Typed, WriteTypeOK, TypeOK
<1>5. /\ DOMAIN queue' = DOMAIN queue \cup {Len(queue) + 1} /\ queue'[Len(queue) + 1] = x
      /\ \A i \in DOMAIN queue : queue'[i] = queue[i] /\ Len(queue) + 1 > i
  BY <1>4, QueueAppend
<1>6. \A h \in up' : /\ h \in known'
                     /\ \A i \in DOMAIN queue' : queue'[i].conn = h => queue'[i].evt # "disconnected"
  BY <1>2, <1>4, <1>5 DEF UpInv
<1>7. ASSUME NEW i \in DOMAIN queue', queue'[i].evt = "sec_params_request", queue'[i].conn \in up'
      PROVE  \/ pairing'[queue'[i].conn].id = queue'[i].val.id
             \/ \E j \in DOMAIN queue' : /\ j > i /\ queue'[j].conn = queue'[i].conn
                                         /\ queue'[j].evt = "auth_status"
                                         /\ queue'[j].val.id = queue'[i].val.id
  <2>1. CASE queue'[i] = x
    <3>1. x.val.id = pairing[g].id /\ r = [pairing[g] EXCEPT !.state = "asked", !.peerLesc = x.val.lesc]
      BY <1>1, <1>7, <2>1, NamesDiffer DEF DeviceChange, AuthEvents
    <3>2. r.id = pairing[g].id
      BY <1>4, <3>1 DEF PairingRecord
    <3>3. QED
      BY <1>3, <1>4, <2>1, <3>1, <3>2
  <2>2. CASE i \in DOMAIN queue /\ queue'[i] = queue[i]
    <3>0. queue[i].conn \in Conns /\ queue[i].conn \in up
      <4>1. queue[i] \in QueueEvents
        BY <1>4, <2>2
      <4>2. QED
        BY <1>2, <1>7, <2>2, <4>1 DEF QueueEvents
    <3>1. CASE \E j \in DOMAIN queue : /\ j > i /\ queue[j].conn = queue[i].conn
                                       /\ queue[j].evt = "auth_status"
                                       /\ queue[j].val.id = queue[i].val.id
      BY <1>5, <2>2, <3>1
    <3>2. CASE pairing[queue[i].conn].id = queue[i].val.id
      <4>1. CASE queue[i].conn # g
        BY <1>3, <2>2, <3>0, <3>2, <4>1
      <4>2. CASE queue[i].conn = g /\ r.id = pairing[g].id
        BY <1>3, <2>2, <3>2, <4>2
      <4>3. CASE queue[i].conn = g /\ r.id # pairing[g].id
        <5>1. x.evt = "auth_status" /\ x.val.id = pairing[g].id
          <6>1. x.evt # "disconnected"
            BY <1>2, <1>7, <2>2, <4>3
          <6>2. /\ r # [pairing[g] EXCEPT !.state = "asked", !.peerLesc = x.val.lesc]
                /\ r # [pairing[g] EXCEPT !.state = "dh_asked"] /\ r # pairing[g]
            BY <1>4, <4>3 DEF PairingRecord
          <6>3. QED
            BY <1>1, <6>1, <6>2 DEF DeviceChange
        <5>2. QED
          BY <1>4, <1>5, <2>2, <3>2, <4>3, <5>1
      <4>4. QED
        BY <4>1, <4>2, <4>3
    <3>3. QED
      BY <1>7, <2>2, <3>0, <3>1, <3>2 DEF UpInv
  <2>3. QED
    BY <1>5, <2>1, <2>2
<1>8. QED
  BY <1>6, <1>7 DEF UpInv

LEMMA UpAfterHandler ==
  ASSUME Numbered, UpInv, HandlerMoves
  PROVE  UpInv'
<1>1. /\ queue # <<>> /\ queue \in Seq(QueueEvents) /\ up' = up
      /\ queue' = queue \/ queue' = Tail(queue)
  BY HandlerQueue DEF Numbered, Typed
<1>2. \A h \in Conns : pairing'[h].id = pairing[h].id
  BY HandlerPairings DEF Numbered, SamePairing
<1>3. /\ 1 \in DOMAIN queue /\ Head(queue) = queue[1]
      /\ \A i \in DOMAIN Tail(queue) :
           i + 1 \in DOMAIN queue /\ Tail(queue)[i] = queue[i + 1] /\ i \in Nat
      /\ \A j \in DOMAIN queue : j # 1 => j - 1 \in DOMAIN Tail(queue) /\ Tail(queue)[j - 1] = queue[j]
      /\ \A j \in DOMAIN queue : j \in Nat
  BY <1>1, QueueTail
<1>4. \A h \in up : h \in known'
  <2>1. known' = known \/ (OnDisconnected /\ known' = known \ {Head(queue).conn})
    BY DEF HandlerMoves, Handler, OnDisconnected, OnNotify, OnParamsCallback, OnDhKeyCallback
  <2>2. OnDisconnected => queue[1].evt = "disconnected"
    BY <1>3 DEF OnDisconnected, Handling
  <2>3. QED
    BY <1>3, <2>1, <2>2 DEF UpInv
<1>5. ASSUME NEW i \in DOMAIN queue', queue'[i].evt = "sec_params_request", queue'[i].conn \in up
      PROVE  \/ pairing'[queue'[i].conn].id = queue'[i].val.id
             \/ \E j \in DOMAIN queue' : /\ j > i /\ queue'[j].conn = queue'[i].conn
                                         /\ queue'[j].evt = "auth_status"
                                         /\ queue'[j].val.id = queue'[i].val.id
  <2>0. \A k \in DOMAIN queue : queue[k].conn \in Conns
    <3>1. \A k \in DOMAIN queue : queue[k] \in QueueEvents
      BY <1>1
    <3>2. QED
      BY <3>1 DEF QueueEvents
  <2>1. CASE queue' = queue
    BY <1>2, <1>5, <2>0, <2>1 DEF UpInv
  <2>2. CASE queue' = Tail(queue)
    <3>1. i + 1 \in DOMAIN queue /\ queue'[i] = queue[i + 1] /\ i \in Nat
      BY <1>3, <2>2
    <3>2. CASE pairing[queue[i + 1].conn].id = queue[i + 1].val.id
      BY <1>2, <2>0, <3>1, <3>2
    <3>3. ASSUME NEW j \in DOMAIN queue, j > i + 1, queue[j].conn = queue[i + 1].conn,
                 queue[j].evt = "auth_status", queue[j].val.id = queue[i + 1].val.id
          PROVE  \E k \in DOMAIN queue' : /\ k > i /\ queue'[k].conn = queue'[i].conn
                                          /\ queue'[k].evt = "auth_status"
                                          /\ queue'[k].val.id = queue'[i].val.id
      <4>1. j # 1 /\ j - 1 > i
        BY <1>3, <3>1, <3>3
      <4>2. j - 1 \in DOMAIN queue' /\ queue'[j - 1] = queue[j]
        BY <1>3, <2>2, <4>1
      <4>3. QED
        BY <3>1, <3>3, <4>1, <4>2
    <3>4. QED
      BY <1>5, <3>1, <3>2, <3>3 DEF UpInv
  <2>3. QED
    BY <1>1, <2>1, <2>2
<1>6. QED
  BY <1>1, <1>3, <1>4, <1>5 DEF UpInv

LEMMA UpAfterCall ==
  ASSUME Numbered, UpInv, NEW c \in Callers, CallMoves(c)
  PROVE  UpInv'
<1>1. UNCHANGED <<queue, known, up>>
  BY CallChanges DEF Numbered, Typed
<1>2. \A i \in DOMAIN queue : queue[i].conn \in Conns
  <2>1. \A i \in DOMAIN queue : queue[i] \in QueueEvents
    BY DEF Numbered, Typed, WriteTypeOK, TypeOK
  <2>2. QED
    BY <2>1 DEF QueueEvents
<1>3. CASE \A h \in Conns : pairing'[h].id = pairing[h].id
  BY <1>1, <1>2, <1>3 DEF UpInv
<1>4. ASSUME NEW g \in Conns, StartsOn(c, g)
      PROVE  UpInv'
  <2>1. /\ pairing[g].id = NoPairing
        /\ \A h \in Conns : h # g => pairing'[h].id = pairing[h].id
    BY <1>4 DEF StartsOn, Numbered, Typed, PairedInv
  <2>2. \A i \in DOMAIN queue : queue[i].evt = "sec_params_request" => queue[i].val.id # NoPairing
    <3>1. \A i \in DOMAIN queue : Auth(Copy(queue[i])) => Copy(queue[i]).val.id \in 1..npairings
      BY CopiesOfQueue DEF Numbered, IdInv
    <3>2. npairings \in Nat
      BY DEF Numbered, Typed, WriteTypeOK, TypeOK, Ids
    <3>3. QED
      BY <3>1, <3>2 DEF Auth, AuthEvents, Copy, NoPairing
  <2>3. QED
    BY <1>1, <1>2, <2>1, <2>2 DEF UpInv
<1>5. QED
  BY <1>3, <1>4, CallPairings DEF Numbered, SamePairing

\* What keeps a call of authenticate orderly: no step of the SoftDevice against
\* it, a notification only if it waits for just that event, and nothing from the
\* other threads on its connection.
LEMMA DeviceOrderly ==
  ASSUME Numbered, NEW c \in Callers, NEW g \in Conns, NEW x \in QueueEvents,
         NEW r \in PairingRecord, DeviceChange(g, x, r), orderly'[c]
  PROVE  /\ orderly[c]
         /\ (stage[c] \in AuthEvents /\ conn[c] = g) =>
              /\ x.evt # "disconnected"
              /\ x.evt = "auth_status" => pairing[g].state \notin {"started", "asked"}
<1>1. Disorder(g) => orderly[c] /\ (stage[c] = "idle" \/ conn[c] # g)
  BY DEF Disorder
<1>2. orderly[c]
  BY <1>1 DEF DeviceChange
<1>3. ASSUME stage[c] \in AuthEvents, conn[c] = g
      PROVE  ~Disorder(g)
  BY <1>1, <1>3, NamesDiffer
<1>4. ASSUME stage[c] \in AuthEvents, conn[c] = g, x.evt = "auth_status"
      PROVE  pairing[g].state \notin {"started", "asked"}
  <2>1. /\ pairing[g].state \in {"started", "asked"} => x.val.ok
        /\ x.val.ok => Paired(g, "replied") \/ Paired(g, "dh_replied")
    BY <1>3, <1>4, NamesDiffer DEF DeviceChange, AuthEvents
  <2>2. QED
    BY <2>1 DEF Paired
<1>5. QED
  BY <1>2, <1>3, <1>4 DEF DeviceChange

LEMMA HandlerOrderly ==
  ASSUME Numbered, HandlerMoves, NEW c \in Callers, NEW g \in Conns, g = conn[c],
         stage[c] \in AuthEvents, orderly'[c]
  PROVE  /\ orderly[c]
         /\ \/ /\ pc'[c] = pc[c] /\ data'[g] = data[g]
               /\ ~(OnNotify /\ g = Head(queue).conn /\ g \in known)
            \/ /\ OnNotify /\ g = Head(queue).conn /\ g \in known
               /\ data'[g] = Copy(Head(queue)) /\ pc[c] = "waiting"
               /\ want[c] = Head(queue).evt /\ Head(queue).val.id = mine[c]
<1>1. /\ pc \in [Callers -> {"idle", "entering", "waiting", "waking"}]
      /\ data \in [Conns -> Sync!Answer \cup {Sync!None}] /\ CallOk(c)
      /\ Head(queue).conn \in Conns
  BY HandlerQueue, HeadTypes DEF Numbered, Typed, WriteTypeOK, TypeOK, Sync!TypeOK
<1>2. CASE OnNotify /\ Head(queue).conn \in known
  <2>1. /\ Sync!Notify(Head(queue).conn, Head(queue).evt, Head(queue).val)
        /\ orderly' = [d \in Callers |->
             orderly[d] /\ (conn[d] = Head(queue).conn /\ stage[d] # "idle" =>
               pc[d] = "waiting" /\ want[d] = Head(queue).evt /\ Head(queue).val.id = mine[d])]
    BY <1>2 DEF OnNotify
  <2>2. /\ orderly[c]
        /\ g = Head(queue).conn => pc[c] = "waiting" /\ want[c] = Head(queue).evt
                                   /\ Head(queue).val.id = mine[c]
    BY <2>1, NamesDiffer
  <2>3. CASE g = Head(queue).conn
    <3>1. data'[g] = Copy(Head(queue))
      BY <1>1, <2>1, <2>3 DEF Sync!Notify, Copy
    <3>2. QED
      BY <1>2, <2>2, <2>3, <3>1
  <2>4. CASE g # Head(queue).conn
    <3>1. data'[g] = data[g]
      BY <1>1, <2>1, <2>4 DEF Sync!Notify
    <3>2. pc[c] = "waiting" => obj[c] = g
      BY <1>1 DEF CallOk
    <3>3. pc'[c] = pc[c]
      BY <1>1, <2>1, <2>4, <3>2 DEF Sync!Notify
    <3>4. QED
      BY <2>2, <2>4, <3>1, <3>3
  <2>5. QED
    BY <2>3, <2>4
<1>3. CASE ~(OnNotify /\ Head(queue).conn \in known)
  <2>1. UNCHANGED <<syncVars, orderly>>
    BY <1>3 DEF HandlerMoves, Handler, OnDisconnected, OnNotify, OnParamsCallback, OnDhKeyCallback
  <2>2. QED
    BY <1>3, <2>1 DEF syncVars
<1>4. QED
  BY <1>2, <1>3

LEMMA CallOrderly ==
  ASSUME Numbered, NEW c \in Callers, CallMoves(c), NEW d \in Callers, orderly'[d]
  PROVE  /\ d # c => orderly[d]
         /\ (d # c /\ stage[d] # "idle") => data'[conn[d]] = data[conn[d]]
         /\ (d = c /\ Waits(c)) => orderly[c] /\ (inWait[c] => Sync!Register(c) \/ Sync!Return(c))
         /\ (d = c /\ stage[c] # "idle") => orderly[c]
<1>1. /\ orderly \in [Callers -> BOOLEAN] /\ data \in [Conns -> Sync!Answer \cup {Sync!None}]
      /\ CallOk(c) /\ conn[c] \in Conns /\ conn[d] \in Conns
      /\ inWait \in [Callers -> BOOLEAN]
  BY DEF Numbered, Typed, WriteTypeOK, TypeOK, Sync!TypeOK
<1>2. CASE BeginWait(c)
  <2>1. \/ UNCHANGED <<syncVars, orderly>>
        \/ /\ Sync!Wait(c, conn[c], stage[c])
           /\ orderly' = [e \in Callers |->
                orderly[e] /\ (e # c /\ stage[e] # "idle" => conn[e] # conn[c])]
    BY <1>2 DEF BeginWait
  <2>2. inWait[c] = FALSE
    BY <1>1, <1>2 DEF BeginWait
  <2>3. orderly[d]
    BY <2>1
  <2>4. (d # c /\ stage[d] # "idle") => data'[conn[d]] = data[conn[d]]
    BY <1>1, <2>1 DEF Sync!Wait, syncVars
  <2>5. QED
    BY <2>2, <2>3, <2>4
<1>3. CASE WaitStep(c)
  <2>1. /\ data' = data /\ pc[c] # "idle" /\ stage' = stage
        /\ \/ (Sync!Register(c) \/ Sync!Return(c)) /\ UNCHANGED orderly
           \/ Sync!Timeout(c) /\ orderly' = [orderly EXCEPT ![c] = FALSE]
    BY <1>3 DEF WaitStep, Sync!Register, Sync!Return, Sync!Timeout, authVars
  <2>2. d # c => orderly[d]
    BY <1>1, <2>1
  <2>3. d = c => orderly[c] /\ (Sync!Register(c) \/ Sync!Return(c))
    BY <1>1, <2>1
  <2>4. QED
    BY <2>1, <2>2, <2>3
<1>4. CASE AuthStep(c) \/ Send(c) \/ GotTxComplete(c) \/ \E g \in Conns : BeginWrite(c, g)
  <2>1. UNCHANGED <<syncVars, orderly>>
    BY <1>4 DEF AuthStep, GotParams, GotDhKey, GotStatus, Send, GotTxComplete, BeginWrite
  <2>2. (Waits(c) /\ inWait[c]) => Sync!Register(c) \/ Sync!Return(c)
    <3>1. ASSUME Waits(c), inWait[c]
          PROVE  FALSE
      <4>1. pc[c] # pc'[c]
        BY <1>1, <3>1 DEF Waits, Sync!Register, Sync!Return, Sync!Timeout, Numbered, Typed,
                          WriteTypeOK, TypeOK, Sync!TypeOK
      <4>2. QED
        BY <2>1, <4>1 DEF syncVars
    <3>2. QED
      BY <3>1
  <2>3. QED
    BY <2>1, <2>2 DEF syncVars
<1>5. ASSUME NEW g \in Conns, Authenticate(c, g)
      PROVE  /\ d # c => orderly[d]
             /\ (d # c /\ stage[d] # "idle") => data'[conn[d]] = data[conn[d]]
             /\ stage[c] = "idle" /\ ~Waits(c)
  <2>1. /\ orderly' = [orderly EXCEPT ![c] = TRUE] /\ data' = data /\ stage[c] = "idle"
        /\ inWait' = inWait
    BY <1>5 DEF Authenticate, Begins, syncVars
  <2>2. inWait[c] = FALSE
    BY <1>1, <2>1, NamesDiffer DEF CallOk
  <2>3. ~Waits(c)
    BY <2>1, <2>2 DEF Waits
  <2>4. QED
    BY <1>1, <2>1, <2>3
<1>6. QED
  BY <1>2, <1>3, <1>4, <1>5 DEF CallMoves, CallStep

\* Two threads are not in a call of authenticate on one connection.
LEMMA ConnectionsDiffer ==
  ASSUME Numbered, AloneInv, NEW c \in Callers, NEW d \in Callers, c # d, stage[c] \in AuthEvents
  PROVE  /\ stage[d] \in AuthEvents => conn[d] # conn[c]
         /\ \A g \in Conns : StartsOn(d, g) => g # conn[c]
<1>1. conn[c] \in Conns /\ todo[d] \in Seq(Calls) /\ MayPair(c, conn[c])
  BY DEF Numbered, Typed, CallOk, MayPair, WriteTypeOK, TypeOK
<1>2. stage[d] \in AuthEvents => MayPair(d, conn[d])
  BY DEF Numbered, Typed, CallOk, MayPair
<1>3. \A g \in Conns : StartsOn(d, g) => MayPair(d, g)
  BY <1>1, FewerCalls DEF StartsOn, MayPair
<1>4. QED
  BY <1>1, <1>2, <1>3 DEF AloneInv

\* Every request of the pairing m is one that the callback answers.
AllLesc(m) ==
  /\ \A x \in Copies : (x.evt = "sec_params_request" /\ x.val.id = m) => x.val.lesc
  /\ \A h \in Conns : pairing[h].id = m => ~Paired(h, "started")

\* Why authenticate can reply when it has heard the request of its pairing: the
\* request is still open, or the status of an earlier pairing comes first and ends
\* the order, or the reply is left to the callback.
Open(c, g) == pairing[g].id = mine[c] /\ pairing[g].state \in {"started", "asked"}
OldStatus(c, g) == \E i \in OfConn(g) : queue[i].evt = "auth_status" /\ queue[i].val.id < mine[c]
ByCallback(c, g) == lescOn[g] /\ AllLesc(mine[c])

MayReply(c) ==
  (orderly[c] /\ stage[c] = "sec_params_request") =>
    Open(c, conn[c]) \/ OldStatus(c, conn[c]) \/ ByCallback(c, conn[c])

\* The connection is up, and what the call was woken by and returns with is what
\* it waited for.
Served(c) ==
  /\ (orderly[c] /\ stage[c] \in AuthEvents) =>
       /\ conn[c] \in up
       /\ pc[c] = "waking" => data[conn[c]].evt = stage[c] /\ data[conn[c]].val.id = mine[c]
       /\ (inWait[c] /\ pc[c] = "idle") => result[c].evt = stage[c] /\ result[c].val.id = mine[c]
  /\ stage[c] \in {"write", TxComplete} => mine[c] = NoPairing

Failures == {"no_status", "type_error", "key_error", "error"}
NotFailed(c) == (mine[c] # NoPairing /\ orderly[c]) => outcome[c] \notin Failures

OrderlyInv == UpInv /\ \A c \in Callers : MayReply(c) /\ Served(c) /\ NotFailed(c)

LEMMA MayReplyAfterDevice ==
  ASSUME Own, DeviceMoves, NEW c \in Callers, MayReply(c)
  PROVE  MayReply(c)'
<1>1. PICK g \in Conns, x \in QueueEvents, r \in PairingRecord : DeviceChange(g, x, r)
  BY DeviceChanges DEF Own, Numbered, Typed
<1>2. UNCHANGED <<stage, conn, mine, lescOn>>
  BY DeviceChanges DEF Own, Numbered, Typed, authVars, appVars
<1>3. pairing'[g] = r /\ \A h \in Conns : h # g => pairing'[h] = pairing[h]
  BY <1>1, DevicePairings DEF Own, Numbered
<1>4. queue' = Append(queue, x) /\ queue \in Seq(QueueEvents) /\ pairing[g] \in PairingRecord
  BY <1>1 DEF DeviceChange, Own, Numbered, Typed, WriteTypeOK, TypeOK
<1>5. \A i \in DOMAIN queue : i \in DOMAIN queue' /\ queue'[i] = queue[i]
  BY <1>4, QueueAppend
<1>6. PICK h \in Conns : h = conn[c]
  BY DEF Own, Numbered, Typed, WriteTypeOK, TypeOK
<1> SUFFICES ASSUME orderly'[c], stage[c] = "sec_params_request"
             PROVE  Open(c, h)' \/ OldStatus(c, h)' \/ ByCallback(c, h)'
  BY <1>2, <1>6 DEF MayReply
<1>7. /\ orderly[c]
      /\ h = g => x.evt # "disconnected"
      /\ (h = g /\ x.evt = "auth_status") => pairing[g].state \notin {"started", "asked"}
  BY <1>1, <1>6, DeviceOrderly DEF Own, AuthEvents
<1>8. CASE Open(c, h)
  <2>1. CASE h # g
    BY <1>2, <1>3, <1>8, <2>1 DEF Open
  <2>2. CASE h = g
    <3>1. \/ x.evt = "sec_params_request"
             /\ r = [pairing[g] EXCEPT !.state = "asked", !.peerLesc = x.val.lesc]
          \/ r = pairing[g]
      BY <1>1, <1>7, <1>8, <2>2 DEF DeviceChange, Open, Paired
    <3>2. r.id = pairing[g].id /\ r.state \in {"started", "asked"}
      BY <1>4, <1>8, <2>2, <3>1 DEF PairingRecord, Open
    <3>3. QED
      BY <1>2, <1>3, <1>8, <2>2, <3>2 DEF Open
  <2>3. QED
    BY <2>1, <2>2
<1>9. CASE OldStatus(c, h)
  BY <1>2, <1>5, <1>9 DEF OldStatus, OfConn, Auth
<1>10. CASE ByCallback(c, h)
  <2>1. Copies' = Copies \cup {Copy(x)} /\ Copy(x).evt = x.evt /\ Copy(x).val = x.val
    BY <1>1, CopiesAfterDevice DEF Own, Numbered, Typed, Copy
  <2>2. mine[c] # NoPairing
    BY DEF Own, Numbered, Typed, CallOk, AuthEvents
  <2>3. (x.evt = "sec_params_request" /\ x.val.id = mine[c]) => x.val.lesc
    <3>1. x.evt = "sec_params_request" => Paired(g, "started") /\ x.val.id = pairing[g].id
      BY <1>1, NamesDiffer DEF DeviceChange, AuthEvents
    <3>2. QED
      BY <1>10, <3>1 DEF ByCallback, AllLesc
  <2>4. \A k \in Conns : pairing'[k].id = mine[c] => pairing'[k].state # "started"
    <3>1. r = Unpaired \/ (r.id = pairing[g].id /\ (r.state = "started" => Paired(g, "started")))
      <4>1. \/ r = Unpaired \/ r = pairing[g] \/ r = [pairing[g] EXCEPT !.state = "dh_asked"]
            \/ r = [pairing[g] EXCEPT !.state = "asked", !.peerLesc = x.val.lesc]
        BY <1>1 DEF DeviceChange
      <4>2. CASE r = pairing[g]
        BY <4>2 DEF Paired
      <4>3. CASE r = [pairing[g] EXCEPT !.state = "dh_asked"]
        <5>1. r.id = pairing[g].id /\ r.state = "dh_asked"
          BY <1>4, <4>3 DEF PairingRecord
        <5>2. QED
          BY <5>1
      <4>4. CASE r = [pairing[g] EXCEPT !.state = "asked", !.peerLesc = x.val.lesc]
        <5>1. r.id = pairing[g].id /\ r.state = "asked"
          BY <1>4, <4>4 DEF PairingRecord
        <5>2. QED
          BY <5>1
      <4>5. QED
        BY <4>1, <4>2, <4>3, <4>4
    <3>2. Unpaired.id = NoPairing
      BY DEF Unpaired
    <3>3. QED
      BY <1>3, <1>10, <2>2, <3>1, <3>2 DEF ByCallback, AllLesc, Paired
  <2>5. AllLesc(mine[c])'
    BY <1>2, <1>10, <2>1, <2>3, <2>4 DEF ByCallback, AllLesc, Paired
  <2>6. QED
    BY <1>2, <1>10, <2>5 DEF ByCallback
<1>11. QED
  BY <1>6, <1>7, <1>8, <1>9, <1>10 DEF MayReply

LEMMA MayReplyAfterHandler ==
  ASSUME Own, UpInv, HandlerMoves, NEW c \in Callers, MayReply(c), Served(c)
  PROVE  MayReply(c)'
<1>0. Numbered /\ OrderInv /\ StatusInv
  BY DEF Own
<1>1. /\ queue # <<>> /\ queue \in Seq(QueueEvents) /\ UNCHANGED <<stage, conn, mine, lescOn>>
      /\ queue' = queue \/ queue' = Tail(queue)
  BY <1>0, HandlerQueue DEF Numbered, Typed, authVars, appVars
<1>2. PICK h \in Conns : h = conn[c]
  BY <1>0 DEF Numbered, Typed, WriteTypeOK, TypeOK
<1> SUFFICES ASSUME orderly'[c], stage[c] = "sec_params_request"
             PROVE  Open(c, h)' \/ OldStatus(c, h)' \/ ByCallback(c, h)'
  BY <1>1, <1>2 DEF MayReply
<1>3. /\ orderly[c]
      /\ (OnNotify /\ h = Head(queue).conn /\ h \in known) => Head(queue).val.id = mine[c]
  BY <1>0, <1>2, HandlerOrderly DEF AuthEvents
<1>4. /\ 1 \in DOMAIN queue /\ Head(queue) = queue[1]
      /\ \A j \in DOMAIN queue : j # 1 => j - 1 \in DOMAIN Tail(queue) /\ Tail(queue)[j - 1] = queue[j]
  BY <1>1, QueueTail
<1>5. h \in up /\ h \in known /\ mine[c] \in Nat
  BY <1>0, <1>2, <1>3 DEF Served, UpInv, AuthEvents, Numbered, Typed, WriteTypeOK, TypeOK, Ids
<1>6. /\ \A k \in Conns : SamePairing(k)
      /\ Copies' \subseteq Copies
  BY <1>0, HandlerPairings, CopiesAfterHandler DEF Numbered, Typed
<1>7. AllLesc(mine[c]) => AllLesc(mine[c])'
  BY <1>1, <1>6 DEF AllLesc, SamePairing, Paired
<1>8. CASE Open(c, h)
  <2>1. CASE pairing'[h] = pairing[h]
    BY <1>1, <1>8, <2>1 DEF Open
  <2>2. CASE pairing'[h] # pairing[h]
    <3>1. Paired(h, "asked") /\ pairing[h].id = mine[c]
      BY <1>6, <1>8, <2>2 DEF SamePairing, Open, Paired
    <3>2. OnParamsCallback /\ h = Head(queue).conn /\ Head(queue).val.lesc /\ lescOn[h]
      <4>1. pairing \in [Conns -> PairingRecord]
        BY <1>0 DEF Numbered, Typed, WriteTypeOK, TypeOK
      <4>2. ~OnDisconnected /\ ~OnNotify
        BY <2>2 DEF OnDisconnected, OnNotify, deviceVars
      <4>3. ~OnDhKeyCallback
        BY <2>2, <3>1, <4>1 DEF OnDhKeyCallback, Paired
      <4>4. OnParamsCallback
        BY <4>2, <4>3 DEF HandlerMoves, Handler
      <4>5. QED
        BY <2>2, <4>1, <4>4 DEF OnParamsCallback
    <3>3. queue[1].evt = "sec_params_request" /\ queue[1].conn = h /\ queue[1].val.lesc
      BY <1>4, <3>2 DEF OnParamsCallback, Handling
    <3>4. CASE queue[1].val.id = mine[c]
      <4>1. /\ pairing[h].state # "started" /\ pairing[h].peerLesc
            /\ \A x \in Copies : (x.evt = "sec_params_request" /\ x.val.id = mine[c]) => x.val.lesc
        BY <1>0, <1>4, <3>1, <3>3, <3>4, CopiesOfQueue DEF Numbered, RequestInv
      <4>2. \A k \in Conns : pairing[k].id = mine[c] => k = h
        BY <1>0, <3>1 DEF Numbered, IdInv, Typed, CallOk, AuthEvents
      <4>3. AllLesc(mine[c])
        BY <4>1, <4>2 DEF AllLesc, Paired
      <4>4. QED
        BY <1>1, <1>7, <3>2, <4>3 DEF ByCallback
    <3>5. CASE queue[1].val.id # mine[c]
      <4>1. PICK j \in DOMAIN queue : /\ j > 1 /\ queue[j].conn = h /\ queue[j].evt = "auth_status"
                                      /\ queue[j].val.id = queue[1].val.id
        BY <1>4, <1>5, <3>1, <3>3, <3>5 DEF UpInv
      <4>2. 1 \in OfConn(h) /\ queue[1].val.id \in Nat
        BY <1>0, <1>1, <1>4, <3>3, HeadTypes DEF OfConn, Auth, AuthEvents, Numbered, Typed, Ids
      <4>3. queue[1].val.id <= mine[c]
        BY <1>0, <1>2, <4>2 DEF StatusInv, StatusOk, AuthEvents
      <4>4. queue[j].val.id < mine[c]
        BY <1>5, <3>5, <4>1, <4>2, <4>3
      <4>5. queue' = Tail(queue) /\ j # 1
        BY <3>2, <4>1 DEF OnParamsCallback, EndCallback
      <4>6. j - 1 \in OfConn(h)' /\ queue'[j - 1] = queue[j]
        BY <1>4, <4>1, <4>5 DEF OfConn, Auth, AuthEvents
      <4>7. QED
        BY <1>1, <4>1, <4>4, <4>6 DEF OldStatus
    <3>6. QED
      BY <3>4, <3>5
  <2>3. QED
    BY <2>1, <2>2
<1>9. CASE OldStatus(c, h)
  <2>1. PICK i \in OfConn(h) : queue[i].evt = "auth_status" /\ queue[i].val.id < mine[c]
    BY <1>9 DEF OldStatus
  <2>2. CASE queue' = queue
    BY <1>1, <2>1, <2>2 DEF OldStatus, OfConn, Auth
  <2>3. CASE queue' = Tail(queue) /\ i # 1
    <3>1. i \in DOMAIN queue /\ queue[i].conn = h
      BY <2>1 DEF OfConn
    <3>2. i - 1 \in OfConn(h)' /\ queue'[i - 1] = queue[i]
      BY <1>4, <2>1, <2>3, <3>1 DEF OfConn, Auth, AuthEvents
    <3>3. QED
      BY <1>1, <2>1, <3>2 DEF OldStatus
  <2>4. CASE queue' = Tail(queue) /\ queue' # queue /\ i = 1
    <3>1. Head(queue).evt = "auth_status" /\ Head(queue).conn = h /\ Head(queue).val.id < mine[c]
      BY <1>4, <2>1, <2>4 DEF OfConn
    <3>2. OnNotify
      BY <3>1 DEF HandlerMoves, Handler, OnDisconnected, OnParamsCallback, OnDhKeyCallback, Handling
    <3>3. Head(queue).val.id \in Nat
      BY <1>0, <1>1, HeadTypes DEF Numbered, Typed, Ids
    <3>4. QED
      BY <1>3, <1>5, <3>1, <3>2, <3>3
  <2>5. QED
    BY <1>1, <2>2, <2>3, <2>4
<1>10. CASE ByCallback(c, h)
  BY <1>1, <1>7, <1>10 DEF ByCallback
<1>11. QED
  BY <1>2, <1>3, <1>8, <1>9, <1>10 DEF MayReply

LEMMA MayReplyAfterCall ==
  ASSUME Own, NEW c \in Callers, MayReply(c), NEW d \in Callers, CallMoves(d)
  PROVE  MayReply(c)'
<1>0. Numbered /\ AloneInv
  BY DEF Own
<1>1. UNCHANGED <<queue, lescOn>> /\ (d # c => Untouched(c))
  BY <1>0, CallChanges, OthersUntouched DEF Numbered, Typed
<1>2. PICK h \in Conns : h = conn[c]
  BY <1>0 DEF Numbered, Typed, WriteTypeOK, TypeOK
<1>3. CASE d # c
  <2> SUFFICES ASSUME orderly'[c], stage[c] = "sec_params_request"
               PROVE  Open(c, h)' \/ OldStatus(c, h)' \/ ByCallback(c, h)'
    BY <1>1, <1>2, <1>3 DEF MayReply, Untouched
  <2>1. orderly[c] /\ mine'[c] = mine[c] /\ mine[c] <= npairings /\ stage[c] \in AuthEvents
    BY <1>0, <1>1, <1>3, CallOrderly DEF Untouched, Numbered, IdInv, AuthEvents
  <2>2. OldStatus(c, h) => OldStatus(c, h)'
    BY <1>1, <2>1 DEF OldStatus, OfConn, Auth
  <2>3. Open(c, h) => Open(c, h)'
    <3>1. pairing'[h] = pairing[h]
      <4>1. ASSUME NEW g \in Conns, StartsOn(d, g)
            PROVE  pairing'[h] = pairing[h]
        BY <1>0, <1>2, <1>3, <2>1, <4>1, ConnectionsDiffer DEF StartsOn
      <4>2. CASE Continues(d)
        <5>1. stage[d] \in AuthEvents
          BY <4>2 DEF Continues, AuthEvents
        <5>2. conn[d] # h /\ conn[d] \in Conns
          BY <1>0, <1>2, <1>3, <2>1, <5>1, ConnectionsDiffer
             DEF Numbered, Typed, WriteTypeOK, TypeOK
        <5>3. pairing' = pairing \/ pairing' = Replied(conn[d], keyset.own)
          BY <4>2 DEF Continues
        <5>4. DeviceTypes /\ keyset.own \in Ids
          BY <1>0, TypeGroups DEF Numbered, Typed, KeyTypes, Keyset
        <5>5. QED
          BY <5>2, <5>3, <5>4, Replies
      <4>3. QED
        BY <1>0, <4>1, <4>2, Kinds DEF CallKinds, Waits, Leaves, Numbered
    <3>2. QED
      BY <2>1, <3>1 DEF Open
  <2>4. ByCallback(c, h) => ByCallback(c, h)'
    <3> SUFFICES ASSUME ByCallback(c, h)
                 PROVE  AllLesc(mine[c])'
      BY <1>1, <2>1 DEF ByCallback, AllLesc
    <3>1. Copies' \subseteq Copies \cup {Sync!None} /\ Sync!None.evt # "sec_params_request"
      BY <1>0, CopiesAfterCall, NamesDiffer DEF Numbered, Typed
    <3>2. \A k \in Conns : pairing'[k].id = mine[c] => pairing'[k].state # "started"
      <4>1. CASE \A k \in Conns : SamePairing(k)
        BY <3>1, <4>1 DEF ByCallback, AllLesc, SamePairing, Paired
      <4>2. ASSUME NEW g \in Conns, StartsOn(d, g)
            PROVE  \A k \in Conns : pairing'[k].id = mine[c] => pairing'[k].state # "started"
        <5>1. npairings + 1 # mine[c]
          BY <1>0, <2>1 DEF Numbered, Typed, WriteTypeOK, TypeOK, Ids
        <5>2. QED
          BY <4>2, <5>1 DEF StartsOn, ByCallback, AllLesc, Paired
      <4>3. QED
        BY <1>0, <4>1, <4>2, CallPairings DEF Numbered
    <3>3. QED
      BY <2>1, <3>1, <3>2 DEF ByCallback, AllLesc, Paired
  <2>5. QED
    BY <1>2, <2>1, <2>2, <2>3, <2>4 DEF MayReply
<1>4. CASE d = c
  <2>1. CASE Leaves(c) \/ Continues(c)
    BY <2>1, NamesDiffer DEF Leaves, Continues, MayReply, AuthEvents
  <2>2. ASSUME NEW g \in Conns, StartsOn(c, g)
        PROVE  MayReply(c)'
    <3>1. conn'[c] = g /\ mine'[c] = npairings + 1 /\ pairing'[g].id = npairings + 1
          /\ pairing'[g].state = "started"
      BY <2>2 DEF StartsOn
    <3>2. Open(c, g)'
      BY <3>1 DEF Open
    <3>3. QED
      BY <3>1, <3>2 DEF MayReply, Open
  <2>3. CASE Waits(c)
    <3> SUFFICES ASSUME orderly'[c], stage[c] = "sec_params_request"
                 PROVE  Open(c, h)' \/ OldStatus(c, h)' \/ ByCallback(c, h)'
      BY <1>2, <2>3 DEF MayReply, Waits
    <3>1. orderly[c] /\ mine'[c] = mine[c] /\ pairing' = pairing
      BY <1>0, <1>4, <2>3, CallOrderly DEF Waits
    <3>2. Copies' \subseteq Copies \cup {Sync!None} /\ Sync!None.evt # "sec_params_request"
      BY <1>0, CopiesAfterCall, NamesDiffer DEF Numbered, Typed
    <3>3. OldStatus(c, h) => OldStatus(c, h)'
      BY <1>1, <3>1 DEF OldStatus, OfConn, Auth
    <3>4. AllLesc(mine[c]) => AllLesc(mine[c])'
      BY <3>1, <3>2 DEF AllLesc, Paired
    <3>5. QED
      BY <1>1, <1>2, <3>1, <3>3, <3>4 DEF MayReply, Open, ByCallback
  <2>4. QED
    BY <1>0, <1>4, <2>1, <2>2, <2>3, Kinds DEF CallKinds, Numbered
<1>5. QED
  BY <1>3, <1>4

LEMMA ServedAfterDevice ==
  ASSUME Own, DeviceMoves, NEW c \in Callers, Served(c), NotFailed(c)
  PROVE  Served(c)' /\ NotFailed(c)'
<1>1. PICK g \in Conns, x \in QueueEvents, r \in PairingRecord : DeviceChange(g, x, r)
  BY DeviceChanges DEF Own, Numbered, Typed
<1>2. UNCHANGED <<stage, conn, mine, inWait, outcome, pc, data, result>>
  BY DeviceChanges DEF Own, Numbered, Typed, authVars, syncVars
<1>3. orderly'[c] =>
        /\ orderly[c]
        /\ (stage[c] \in AuthEvents /\ conn[c] = g) => x.evt # "disconnected"
  BY <1>1, DeviceOrderly DEF Own
<1>4. up' = IF x.evt = "disconnected" THEN up \ {g} ELSE up
  BY <1>1 DEF DeviceChange
<1>5. QED
  BY <1>2, <1>3, <1>4 DEF Served, NotFailed

LEMMA ServedAfterHandler ==
  ASSUME Own, HandlerMoves, NEW c \in Callers, Served(c), NotFailed(c)
  PROVE  Served(c)' /\ NotFailed(c)'
<1>0. Numbered /\ CallOk(c)
  BY DEF Own, Numbered, Typed
<1>1. UNCHANGED <<up, stage, conn, mine, inWait, outcome, result>>
  BY <1>0, HandlerQueue DEF Numbered, Typed, authVars
<1>2. PICK h \in Conns : h = conn[c]
  BY <1>0 DEF Numbered, Typed, WriteTypeOK, TypeOK
<1>3. ASSUME orderly'[c], stage[c] \in AuthEvents
      PROVE  /\ orderly[c]
             /\ pc'[c] = "waking" => data'[h].evt = stage[c] /\ data'[h].val.id = mine[c]
             /\ pc'[c] = "idle" => pc[c] = "idle"
  <2>1. orderly[c]
    BY <1>0, <1>2, <1>3, HandlerOrderly
  <2>2. pc'[c] = "idle" => pc[c] = "idle"
    BY <1>0, HandlersWake DEF Numbered, Typed, AtMostWoken
  <2>3. CASE pc'[c] = pc[c] /\ data'[h] = data[h]
    BY <1>2, <1>3, <2>1, <2>3 DEF Served
  <2>4. CASE /\ data'[h] = Copy(Head(queue)) /\ pc[c] = "waiting"
             /\ want[c] = Head(queue).evt /\ Head(queue).val.id = mine[c]
    <3>1. want[c] = stage[c]
      BY <1>0, <2>4 DEF CallOk
    <3>2. QED
      BY <2>1, <2>2, <2>4, <3>1 DEF Copy
  <2>5. \/ pc'[c] = pc[c] /\ data'[h] = data[h]
        \/ /\ data'[h] = Copy(Head(queue)) /\ pc[c] = "waiting"
           /\ want[c] = Head(queue).evt /\ Head(queue).val.id = mine[c]
    BY <1>0, <1>2, <1>3, HandlerOrderly
  <2>6. QED
    BY <2>1, <2>2, <2>3, <2>4, <2>5
<1>4. Served(c)'
  BY <1>1, <1>2, <1>3 DEF Served
<1>5. NotFailed(c)'
  <2>1. orderly'[c] => orderly[c]
    BY DEF HandlerMoves, Handler, OnDisconnected, OnNotify, OnParamsCallback, OnDhKeyCallback
  <2>2. QED
    BY <1>1, <2>1 DEF NotFailed
<1>6. QED
  BY <1>4, <1>5

\* How a call of authenticate fails.
LEMMA Fails ==
  ASSUME Numbered, NEW c \in Callers, CallMoves(c), outcome'[c] \in Failures,
         mine'[c] # NoPairing, stage[c] \notin {"write", TxComplete}
  PROVE  /\ stage[c] \in AuthEvents /\ mine'[c] = mine[c] /\ orderly'[c] = orderly[c]
         /\ \/ conn[c] \notin known
            \/ /\ stage[c] = "sec_params_request" /\ inWait[c] /\ pc[c] = "idle"
               /\ \/ result[c].evt # "sec_params_request"
                  \/ ~(lescOn[conn[c]] /\ result[c].val.lesc) /\ ~Paired(conn[c], "asked")
            \/ /\ stage[c] = "auth_status" /\ inWait[c] /\ pc[c] = "idle"
               /\ result[c].evt # "auth_status"
<1>1. CallOk(c) /\ CallTypes
  BY TypeGroups DEF Numbered, Typed
<1>2. \A o : outcome' = [outcome EXCEPT ![c] = o] => outcome'[c] = o
  BY <1>1, CallUpdates
<1>3. stage[c] # "idle" => outcome[c] = "none_yet"
  BY <1>1 DEF CallOk
<1>4. "none_yet" \notin Failures /\ "success" \notin Failures /\ "refused" \notin Failures
  BY DEF Failures
<1>5. CASE BeginWait(c)
  <2>1. stage[c] # "idle" /\ UNCHANGED mine
    BY <1>5, NamesDiffer DEF BeginWait
  <2>2. conn[c] \notin known /\ UNCHANGED orderly
    BY <1>3, <1>4, <1>5, <2>1 DEF BeginWait
  <2>3. stage[c] \in AuthEvents
    BY <1>1, <2>1 DEF CallOk
  <2>4. QED
    BY <2>1, <2>2, <2>3
<1>6. CASE WaitStep(c)
  <2>1. stage[c] # "idle" /\ outcome' = outcome
    BY <1>1, <1>6, NamesDiffer
       DEF WaitStep, Sync!Register, Sync!Return, Sync!Timeout, authVars, CallOk
  <2>2. QED
    BY <1>3, <1>4, <2>1
<1>7. CASE GotParams(c)
  <2>1. /\ stage[c] = "sec_params_request" /\ inWait[c] /\ pc[c] = "idle"
        /\ UNCHANGED <<mine, orderly>>
    BY <1>7 DEF GotParams, WaitedFor
  <2>2. outcome' # outcome
    BY <1>3, <1>4, <2>1, NamesDiffer DEF AuthEvents
  <2>3. \/ lescOn[conn[c]] /\ result[c] = Sync!None
        \/ lescOn[conn[c]] /\ result[c].evt # "sec_params_request"
        \/ ~(lescOn[conn[c]] /\ result[c].val.lesc) /\ conn[c] \notin known
        \/ ~(lescOn[conn[c]] /\ result[c].val.lesc) /\ ~Paired(conn[c], "asked")
    BY <1>7, <2>2 DEF GotParams, ReplyParams, NextStage, DeviceTakesParams
  <2>4. Sync!None.evt # "sec_params_request"
    BY NamesDiffer
  <2>5. QED
    BY <2>1, <2>3, <2>4 DEF AuthEvents
<1>8. CASE GotDhKey(c)
  <2>1. stage[c] # "idle" /\ outcome' = outcome
    BY <1>8, NamesDiffer DEF GotDhKey, WaitedFor, NextStage
  <2>2. QED
    BY <1>3, <1>4, <2>1
<1>9. CASE GotStatus(c)
  <2>1. /\ stage[c] = "auth_status" /\ inWait[c] /\ pc[c] = "idle" /\ UNCHANGED <<mine, orderly>>
    BY <1>9 DEF GotStatus, WaitedFor
  <2>2. outcome'[c] = IF result[c] = Sync!None THEN "type_error"
                      ELSE IF result[c].evt # "auth_status" THEN "no_status"
                      ELSE IF ~result[c].val.ok THEN "refused"
                      ELSE IF conn[c] \notin known THEN "key_error"
                      ELSE "success"
    BY <1>2, <1>9 DEF GotStatus, EndCall
  <2>3. Sync!None.evt # "auth_status"
    BY NamesDiffer
  <2>4. result[c].evt # "auth_status" \/ conn[c] \notin known
    BY <1>4, <2>2, <2>3
  <2>5. QED
    BY <2>1, <2>4 DEF AuthEvents
<1>10. ~Send(c) /\ ~GotTxComplete(c)
  BY DEF Send, GotTxComplete, WaitedFor
<1>11. \A g \in Conns : ~BeginWrite(c, g)
  BY <1>1 DEF BeginWrite, CallTypes
<1>12. \A g \in Conns : ~Authenticate(c, g)
  <2> SUFFICES ASSUME NEW g \in Conns, Authenticate(c, g)
               PROVE  FALSE
    OBVIOUS
  <2>1. CASE g \in up /\ Paired(g, "none")
    <3>1. outcome'[c] = "none_yet"
      BY <1>2, <2>1 DEF Authenticate
    <3>2. QED
      BY <1>4, <3>1
  <2>2. CASE ~(g \in up /\ Paired(g, "none"))
    BY <1>1, <2>2 DEF Authenticate, CallTypes
  <2>3. QED
    BY <2>1, <2>2
<1>13. QED
  BY <1>5, <1>6, <1>7, <1>8, <1>9, <1>10, <1>11, <1>12 DEF CallMoves, CallStep, AuthStep

\* A write_cmd belongs to no pairing.
LEMMA WritesApart ==
  ASSUME Numbered, NEW c \in Callers, CallMoves(c), stage'[c] \in {"write", TxComplete},
         stage[c] \in {"write", TxComplete} => mine[c] = NoPairing
  PROVE  mine'[c] = NoPairing
<1>1. CallOk(c) /\ CallTypes
  BY TypeGroups DEF Numbered, Typed
<1>2. \A s : stage' = [stage EXCEPT ![c] = s] => stage'[c] = s
  BY <1>1, CallUpdates
<1>3. CASE BeginWait(c) \/ WaitStep(c)
  BY <1>2, <1>3, NamesDiffer DEF BeginWait, WaitStep, EndCall, authVars
<1>4. CASE AuthStep(c)
  <2>1. \E s \in AuthEvents \cup {"idle"} : stage' = [stage EXCEPT ![c] = s]
    BY <1>4 DEF AuthStep, GotParams, GotDhKey, GotStatus, ReplyParams, EndCall, NextStage, AuthEvents
  <2>2. QED
    BY <1>2, <2>1, NamesDiffer
<1>5. CASE Send(c) \/ GotTxComplete(c)
  BY <1>5 DEF Send, GotTxComplete, WaitedFor
<1>6. ASSUME NEW g \in Conns, BeginWrite(c, g)
      PROVE  mine'[c] = NoPairing
  BY <1>1, <1>6 DEF BeginWrite, CallTypes
<1>7. ASSUME NEW g \in Conns, Authenticate(c, g)
      PROVE  FALSE
  <2>1. \E s \in {"sec_params_request", "idle"} : stage' = [stage EXCEPT ![c] = s]
    BY <1>7 DEF Authenticate, EndCall
  <2>2. QED
    BY <1>2, <2>1, NamesDiffer DEF AuthEvents
<1>8. QED
  BY <1>3, <1>4, <1>5, <1>6, <1>7 DEF CallMoves, CallStep

LEMMA ServedAfterCall ==
  ASSUME Own, UpInv, NEW c \in Callers, MayReply(c), Served(c), NotFailed(c),
         NEW d \in Callers, CallMoves(d)
  PROVE  Served(c)' /\ NotFailed(c)'
<1>0. Numbered /\ AloneInv /\ OrderInv /\ CallOk(c)
  BY DEF Own, Numbered, Typed
<1>1. up' = up /\ (d # c => Untouched(c))
  BY <1>0, CallChanges, OthersUntouched DEF Numbered, Typed
<1>2. PICK h \in Conns : h = conn[c]
  BY <1>0 DEF Numbered, Typed, WriteTypeOK, TypeOK
<1>3. CASE d # c
  <2>1. orderly'[c] => orderly[c] /\ (stage[c] # "idle" => data'[h] = data[h])
    BY <1>0, <1>2, <1>3, CallOrderly
  <2>2. Served(c)'
    BY <1>1, <1>2, <1>3, <2>1, NamesDiffer DEF Served, Untouched
  <2>3. NotFailed(c)'
    BY <1>1, <1>3, <2>1 DEF NotFailed, Untouched
  <2>4. QED
    BY <2>2, <2>3
<1>4. CASE d = c
  <2>1. stage'[c] \in {"write", TxComplete} => mine'[c] = NoPairing
    BY <1>0, <1>4, WritesApart DEF Served
  <2>2. Served(c)'
    <3>1. CASE Leaves(c)
      BY <2>1, <3>1 DEF Leaves, Served
    <3>2. ASSUME NEW g \in Conns, StartsOn(c, g)
          PROVE  Served(c)'
      <4>1. /\ conn'[c] = g /\ g \in up /\ inWait'[c] = FALSE /\ pc'[c] = pc[c] /\ stage[c] = "idle"
        BY <3>2 DEF StartsOn, syncVars
      <4>2. pc[c] = "idle"
        BY <1>0, <4>1, NamesDiffer DEF CallOk
      <4>3. QED
        BY <1>1, <2>1, <4>1, <4>2 DEF Served
    <3>3. CASE Continues(c)
      <4>1. /\ conn'[c] = conn[c] /\ mine'[c] = mine[c] /\ stage[c] \in AuthEvents
            /\ inWait'[c] = FALSE /\ pc'[c] = "idle"
        BY <3>3 DEF Continues, syncVars, AuthEvents
      <4>2. orderly'[c] => orderly[c]
        BY <1>0, <1>4, <4>1, CallOrderly, NamesDiffer
      <4>3. QED
        BY <1>1, <2>1, <4>1, <4>2 DEF Served
    <3>4. CASE Waits(c)
      <4>1. /\ conn'[c] = h /\ mine'[c] = mine[c] /\ stage'[c] = stage[c]
        BY <1>2, <3>4 DEF Waits
      <4>2. /\ data \in [Conns -> Sync!Answer \cup {Sync!None}]
            /\ pc \in [Callers -> {"idle", "entering", "waiting", "waking"}]
            /\ result \in [Callers -> Sync!Answer \cup {Sync!None}]
        BY <1>0 DEF Numbered, Typed, WriteTypeOK, TypeOK, Sync!TypeOK
      <4>3. ASSUME orderly'[c], stage[c] \in AuthEvents
            PROVE  /\ pc'[c] = "waking" => data'[h].evt = stage[c] /\ data'[h].val.id = mine[c]
                   /\ pc'[c] = "idle" => result'[c].evt = stage[c] /\ result'[c].val.id = mine[c]
        <5>1. orderly[c] /\ (inWait[c] => Sync!Register(c) \/ Sync!Return(c))
          BY <1>0, <1>4, <3>4, <4>3, CallOrderly
        <5>2. CASE ~inWait[c]
          <6>1. pc'[c] = "entering"
            BY <3>4, <4>2, <5>2 DEF Waits, Sync!Wait
          <6>2. QED
            BY <6>1
        <5>3. CASE inWait[c] /\ Sync!Register(c)
          <6>1. pc'[c] = "waiting"
            BY <4>2, <5>3 DEF Sync!Register
          <6>2. QED
            BY <6>1
        <5>4. CASE inWait[c] /\ Sync!Return(c)
          <6>1. pc[c] = "waking" /\ pc'[c] = "idle" /\ result'[c] = data[obj[c]] /\ obj[c] = h
            BY <1>0, <1>2, <4>2, <5>4 DEF Sync!Return, CallOk
          <6>2. QED
            BY <1>2, <4>3, <5>1, <6>1 DEF Served
        <5>5. QED
          BY <5>1, <5>2, <5>3, <5>4
      <4>4. (orderly'[c] /\ stage[c] \in AuthEvents) => orderly[c]
        BY <1>0, <1>4, <3>4, CallOrderly
      <4>5. QED
        BY <1>1, <1>2, <2>1, <4>1, <4>3, <4>4 DEF Served
    <3>5. QED
      BY <1>0, <1>4, <3>1, <3>2, <3>3, <3>4, Kinds DEF CallKinds, Numbered
  <2>3. NotFailed(c)'
    <3> SUFFICES ASSUME mine'[c] # NoPairing, orderly'[c], outcome'[c] \in Failures
                 PROVE  FALSE
      BY DEF NotFailed
    <3>1. CASE stage[c] \in {"write", TxComplete}
      <4>1. mine[c] = NoPairing /\ mine'[c] = mine[c]
        <5>1. mine[c] = NoPairing /\ stage[c] # "idle" /\ stage[c] \notin AuthEvents
          BY <3>1, NamesDiffer DEF Served, AuthEvents
        <5>2. QED
          BY <1>0, <1>4, <5>1, Kinds
             DEF CallKinds, StartsOn, Waits, Continues, Leaves, AuthEvents, Numbered
      <4>2. QED
        BY <4>1
    <3>2. CASE stage[c] \notin {"write", TxComplete}
      <4>1. /\ stage[c] \in AuthEvents /\ orderly[c]
            /\ \/ h \notin known
               \/ /\ stage[c] = "sec_params_request" /\ inWait[c] /\ pc[c] = "idle"
                  /\ \/ result[c].evt # "sec_params_request"
                     \/ ~(lescOn[h] /\ result[c].val.lesc) /\ ~Paired(h, "asked")
               \/ /\ stage[c] = "auth_status" /\ inWait[c] /\ pc[c] = "idle"
                  /\ result[c].evt # "auth_status"
        BY <1>0, <1>2, <1>4, <3>2, Fails
      <4>2. h \in known
        BY <1>2, <4>1 DEF Served, UpInv
      <4>3. /\ stage[c] = "sec_params_request" /\ inWait[c] /\ pc[c] = "idle"
            /\ result[c].evt = "sec_params_request" /\ result[c].val.id = mine[c]
            /\ ~(lescOn[h] /\ result[c].val.lesc) /\ ~Paired(h, "asked")
        BY <4>1, <4>2 DEF Served
      <4>4. CASE Open(c, h)
        <5>1. pairing[h].state # "started"
          BY <1>0, <4>3, <4>4, CopiesOfQueue DEF Open, Numbered, RequestInv
        <5>2. QED
          BY <4>3, <4>4, <5>1 DEF Open, Paired
      <4>5. CASE OldStatus(c, h)
        <5>1. PICK i \in OfConn(h) : queue[i].val.id < mine[c]
          BY <4>5 DEF OldStatus
        <5>2. obj[c] = h
          BY <1>0, <1>2, <4>3 DEF CallOk
        <5>3. mine[c] <= queue[i].val.id
          BY <1>0, <4>3, <5>1, <5>2 DEF OrderInv, Before, Auth, AuthEvents
        <5>4. mine[c] \in Nat /\ queue[i] \in QueueEvents
          BY <1>0, <5>1 DEF OfConn, Numbered, Typed, WriteTypeOK, TypeOK, Ids
        <5>5. queue[i].val.id \in Nat
          BY <5>4 DEF QueueEvents, Values, Ids
        <5>6. QED
          BY <5>1, <5>3, <5>4, <5>5
      <4>6. CASE ByCallback(c, h)
        BY <4>3, <4>6, CopiesOfQueue DEF ByCallback, AllLesc
      <4>7. QED
        BY <1>2, <4>1, <4>3, <4>4, <4>5, <4>6 DEF MayReply
    <3>3. QED
      BY <3>1, <3>2
  <2>4. QED
    BY <2>2, <2>3
<1>5. QED
  BY <1>3, <1>4

(* If every event of the pairing came while it was waited for, and nothing  *)
(* else on that connection, authenticate returns success or the peer's      *)
(* refusal, in either role and with and without LESC on either side.        *)
THEOREM OrderlyCallsGetStatus ==
  ASSUME PairsAlone
  PROVE  Spec => []OrderlyCallGetsStatus
<1>1. WriteInit => OrderlyInv
  <2> SUFFICES ASSUME WriteInit
               PROVE  OrderlyInv
    OBVIOUS
  <2>1. UpInv
    BY Beginning DEF UpInv
  <2>2. \A c \in Callers : MayReply(c) /\ Served(c) /\ NotFailed(c)
    BY Beginning, NamesDiffer DEF MayReply, Served, NotFailed, AuthEvents
  <2>3. QED
    BY <2>1, <2>2 DEF OrderlyInv
<1>2. Own /\ OrderlyInv /\ [Next]_vars => OrderlyInv'
  <2> SUFFICES ASSUME Own, OrderlyInv, [Next]_vars
               PROVE  OrderlyInv'
    OBVIOUS
  <2>1. UpInv /\ Numbered /\ \A c \in Callers : MayReply(c) /\ Served(c) /\ NotFailed(c)
    BY DEF OrderlyInv, Own
  <2>2. CASE UNCHANGED vars
    <3>1. UpInv'
      BY <2>1, <2>2, Stutter DEF UpInv
    <3>2. Copies' = Copies
      BY <2>2, Stutter DEF Copies, Copy
    <3>3. \A c \in Callers : MayReply(c)'
      BY <2>1, <2>2, <3>2, Stutter
         DEF MayReply, Open, OldStatus, ByCallback, AllLesc, OfConn, Auth, Paired
    <3>4. \A c \in Callers : Served(c)' /\ NotFailed(c)'
      BY <2>1, <2>2, Stutter DEF Served, NotFailed
    <3>5. QED
      BY <3>1, <3>3, <3>4 DEF OrderlyInv
  <2>3. CASE DeviceMoves
    BY <2>1, <2>3, UpAfterDevice, MayReplyAfterDevice, ServedAfterDevice DEF OrderlyInv
  <2>4. CASE HandlerMoves
    BY <2>1, <2>4, UpAfterHandler, MayReplyAfterHandler, ServedAfterHandler DEF OrderlyInv
  <2>5. ASSUME NEW d \in Callers, CallMoves(d)
        PROVE  OrderlyInv'
    BY <2>1, <2>5, UpAfterCall, MayReplyAfterCall, ServedAfterCall DEF OrderlyInv
  <2>6. QED
    BY <2>2, <2>3, <2>4, <2>5, Moves
<1>3. OrderlyInv => OrderlyCallGetsStatus
  BY DEF OrderlyInv, NotFailed, Failures, OrderlyCallGetsStatus
<1>4. QED
  BY <1>1, <1>2, <1>3, OwnAlways, PTL DEF Spec

-----------------------------------------------------------------------------
(* A pairing that no other one overlaps.                                    *)

\* Of the pairings only m is under way, and only its events are on their way.
Only(m) ==
  /\ \A h \in Conns : pairing[h].id \in {NoPairing, m}
  /\ \A i \in DOMAIN queue : Auth(queue[i]) => queue[i].val.id = m

\* The pairing m is under way, or in a call.
Current(m) ==
  \/ \E g \in Conns : pairing[g].id = m
  \/ \E c \in Callers : stage[c] \in AuthEvents /\ mine[c] = m

OnlyInv == \A m \in Pairings \ crossed : Current(m) => Only(m)

\* What such a call is given is of its own pairing.
GivenOwn(c) ==
  (stage[c] \in AuthEvents /\ mine[c] \notin crossed /\ inWait[c]) =>
    LET r == IF pc[c] = "idle" THEN result[c] ELSE data[conn[c]] IN
    Auth(r) => r.val.id = mine[c]

LEMMA CurrentPairings ==
  ASSUME Numbered, OnlyInv
  PROVE  /\ \A g \in Conns : (~Paired(g, "none") /\ pairing[g].id \notin crossed) => Only(pairing[g].id)
         /\ \A c \in Callers : (stage[c] \in AuthEvents /\ mine[c] \notin crossed) => Only(mine[c])
<1>1. \A g \in Conns : ~Paired(g, "none") => pairing[g].id \in Pairings
  BY DEF Numbered, Typed, PairedInv, WriteTypeOK, TypeOK, PairingRecord, Pairings, Ids, NoPairing
<1>2. \A c \in Callers : stage[c] \in AuthEvents => mine[c] \in Pairings
  BY DEF Numbered, Typed, CallOk, WriteTypeOK, TypeOK, Pairings, Ids, NoPairing
<1>3. QED
  BY <1>1, <1>2 DEF OnlyInv, Current

LEMMA OnlyAfterDevice ==
  ASSUME Numbered, OnlyInv, DeviceMoves
  PROVE  OnlyInv'
<1>1. PICK g \in Conns, x \in QueueEvents, r \in PairingRecord : DeviceChange(g, x, r)
  BY DeviceChanges DEF Numbered, Typed
<1>2. UNCHANGED <<stage, mine, crossed>>
  BY DeviceChanges DEF Numbered, Typed, authVars
<1>3. pairing'[g] = r /\ \A h \in Conns : h # g => pairing'[h] = pairing[h]
  BY <1>1, DevicePairings DEF Numbered
<1>4. /\ r.id \in {NoPairing, pairing[g].id}
      /\ Auth(x) => x.val.id = pairing[g].id /\ x.val.id # NoPairing
  BY <1>1, DeviceResults, TypeGroups DEF Numbered, Typed
<1>5. queue' = Append(queue, x) /\ queue \in Seq(QueueEvents)
  BY <1>1 DEF DeviceChange, Numbered, Typed, WriteTypeOK, TypeOK
<1>6. \A i \in DOMAIN queue' : queue'[i] = x \/ (i \in DOMAIN queue /\ queue'[i] = queue[i])
  BY <1>5, QueueAppend
<1>7. ASSUME NEW m \in Pairings \ crossed, Current(m)'
      PROVE  Only(m)'
  <2>1. m # NoPairing
    BY DEF Pairings, NoPairing
  <2>2. \A h \in Conns : pairing'[h].id \in {NoPairing, pairing[h].id}
    BY <1>3, <1>4
  <2>3. Current(m)
    BY <1>2, <1>7, <2>1, <2>2 DEF Current
  <2>4. Only(m)
    BY <2>3 DEF OnlyInv
  <2>5. QED
    BY <1>4, <1>6, <2>2, <2>4 DEF Only, Auth
<1>8. QED
  BY <1>2, <1>7 DEF OnlyInv

LEMMA OnlyAfterHandler ==
  ASSUME Numbered, OnlyInv, HandlerMoves
  PROVE  OnlyInv'
<1>1. /\ queue # <<>> /\ queue \in Seq(QueueEvents) /\ UNCHANGED <<stage, mine, crossed>>
      /\ queue' = queue \/ queue' = Tail(queue)
  BY HandlerQueue DEF Numbered, Typed, authVars
<1>2. \A h \in Conns : pairing'[h].id = pairing[h].id
  BY HandlerPairings DEF Numbered, SamePairing
<1>3. \A i \in DOMAIN queue' : \E j \in DOMAIN queue : queue'[i] = queue[j]
  BY <1>1, QueueTail
<1>4. ASSUME NEW m \in Pairings \ crossed, Current(m)'
      PROVE  Only(m)'
  <2>1. Only(m)
    BY <1>1, <1>2, <1>4 DEF Current, OnlyInv
  <2>2. QED
    BY <1>2, <1>3, <2>1 DEF Only, Auth
<1>5. QED
  BY <1>1, <1>4 DEF OnlyInv

\* A pairing that begins crosses all that are current, and is crossed by them.
LEMMA OnlyAfterCall ==
  ASSUME Numbered, AloneInv, OnlyInv, NEW c \in Callers, CallMoves(c)
  PROVE  OnlyInv' /\ crossed \subseteq crossed'
<1>1. queue' = queue /\ \A d \in Callers : d # c => Untouched(d)
  BY CallChanges, OthersUntouched DEF Numbered, Typed
<1>2. CASE /\ \A h \in Conns : SamePairing(h)
           /\ UNCHANGED <<npairings, crossed>>
           /\ Waits(c) \/ Continues(c) \/ Leaves(c)
  <2>1. \A h \in Conns : pairing'[h].id = pairing[h].id
    BY <1>2 DEF SamePairing
  <2>2. stage'[c] \in AuthEvents => stage[c] \in AuthEvents /\ mine'[c] = mine[c]
    BY <1>2 DEF Waits, Continues, Leaves, AuthEvents
  <2>3. \A d \in Callers : stage'[d] \in AuthEvents => stage[d] \in AuthEvents /\ mine'[d] = mine[d]
    BY <1>1, <2>2 DEF Untouched
  <2>4. ASSUME NEW m \in Pairings \ crossed, Current(m)'
        PROVE  Only(m)'
    <3>1. Only(m)
      BY <2>1, <2>3, <2>4 DEF Current, OnlyInv
    <3>2. QED
      BY <1>1, <2>1, <3>1 DEF Only, Auth
  <2>5. QED
    BY <1>2, <2>4 DEF OnlyInv
<1>3. ASSUME NEW g \in Conns, StartsOn(c, g)
      PROVE  OnlyInv' /\ crossed \subseteq crossed'
  <2>0. PICK n \in Nat : n = npairings + 1
    BY DEF Numbered, Typed, WriteTypeOK, TypeOK, Ids
  <2>1. /\ stage[c] = "idle" /\ mine'[c] = n /\ Paired(g, "none")
        /\ \A h \in Conns : h # g => pairing'[h] = pairing[h]
        /\ pairing'[g].id = n
        /\ crossed' = crossed \cup Others(g) \cup (IF Others(g) = {} THEN {} ELSE {n})
    BY <1>3, <2>0 DEF StartsOn
  <2>2. ASSUME NEW m \in Pairings \ crossed', Current(m)'
        PROVE  m = n
    <3>1. m \notin Others(g) /\ m # NoPairing
      BY <2>1 DEF Pairings, NoPairing
    <3>2. ASSUME NEW h \in Conns, h # g, pairing'[h].id = m
          PROVE  FALSE
      <4>1. pairing[h].id = m /\ ~Paired(h, "none")
        BY <2>1, <3>1, <3>2 DEF Numbered, Typed, PairedInv
      <4>2. QED
        BY <3>1, <3>2, <4>1 DEF Others
    <3>3. ASSUME NEW d \in Callers, d # c, stage'[d] \in AuthEvents, mine'[d] = m
          PROVE  FALSE
      <4>1. stage[d] \in AuthEvents /\ mine[d] = m
        BY <1>1, <3>3 DEF Untouched
      <4>2. conn[d] # g
        BY <1>3, <3>3, <4>1, ConnectionsDiffer
      <4>3. QED
        BY <3>1, <4>1, <4>2, NamesDiffer DEF Others
    <3>4. QED
      BY <2>1, <2>2, <3>2, <3>3 DEF Current
  <2>3. ASSUME n \notin crossed'
        PROVE  Only(n)'
    <3>1. Others(g) = {}
      BY <2>1, <2>3
    <3>2. \A h \in Conns : pairing'[h].id \in {NoPairing, n}
      <4>1. \A h \in Conns : h # g => pairing[h].id = NoPairing
        BY <3>1 DEF Others, Numbered, Typed, PairedInv
      <4>2. QED
        BY <2>1, <4>1
    <3>3. \A i \in DOMAIN queue : ~Auth(queue[i])
      <4>1. \A i \in DOMAIN queue : queue[i].val.id = NoPairing
        BY <3>1 DEF Others
      <4>2. npairings \in Nat
        BY DEF Numbered, Typed, WriteTypeOK, TypeOK, Ids
      <4>3. \A i \in DOMAIN queue : Auth(queue[i]) => queue[i].val.id \in 1..npairings
        BY CopiesOfQueue DEF Numbered, IdInv, Auth
      <4>4. QED
        BY <4>1, <4>2, <4>3 DEF NoPairing
    <3>4. QED
      BY <1>1, <3>2, <3>3 DEF Only, Auth
  <2>4. QED
    BY <2>1, <2>2, <2>3 DEF OnlyInv
<1>4. QED
  BY <1>2, <1>3, CallPairings DEF Numbered

LEMMA GivenAfterDevice ==
  ASSUME Numbered, DeviceMoves, NEW c \in Callers, GivenOwn(c)
  PROVE  GivenOwn(c)'
<1>1. UNCHANGED <<data, pc, result, stage, inWait, conn, mine, crossed>>
  BY DeviceChanges DEF Numbered, Typed, syncVars, authVars
<1>2. QED
  BY <1>1 DEF GivenOwn, Auth

LEMMA GivenAfterHandler ==
  ASSUME Numbered, OnlyInv, HandlerMoves, NEW c \in Callers, GivenOwn(c)
  PROVE  GivenOwn(c)'
<1>1. /\ queue # <<>> /\ queue \in Seq(QueueEvents)
      /\ UNCHANGED <<result, stage, inWait, conn, mine, crossed>>
  BY HandlerQueue DEF Numbered, Typed, authVars
<1>2. PICK h \in Conns : h = conn[c]
  BY DEF Numbered, Typed, WriteTypeOK, TypeOK
<1>3. pc'[c] = "idle" <=> pc[c] = "idle"
  BY HandlersWake DEF Numbered, Typed, AtMostWoken
<1>4. ASSUME stage[c] \in AuthEvents, mine[c] \notin crossed, inWait[c], pc[c] # "idle", Auth(data'[h])
      PROVE  data'[h].val.id = mine[c]
  <2>1. CASE data'[h] = data[h]
    BY <1>2, <1>4, <2>1 DEF GivenOwn
  <2>2. CASE data'[h] = Copy(Head(queue))
    <3>1. 1 \in DOMAIN queue /\ Head(queue) = queue[1]
      BY <1>1, QueueTail
    <3>2. Only(mine[c])
      BY <1>4, CurrentPairings
    <3>3. data'[h].evt = queue[1].evt /\ data'[h].val = queue[1].val
      BY <2>2, <3>1 DEF Copy
    <3>4. QED
      BY <1>4, <3>1, <3>2, <3>3 DEF Only, Auth
  <2>3. QED
    BY <2>1, <2>2, HandlerSlot DEF Numbered, Typed
<1>5. QED
  BY <1>1, <1>2, <1>3, <1>4 DEF GivenOwn, Auth

LEMMA GivenAfterCall ==
  ASSUME Numbered, AloneInv, OnlyInv, NEW c \in Callers, CallMoves(c), NEW d \in Callers, GivenOwn(d)
  PROVE  GivenOwn(d)'
<1>0. PICK h \in Conns : h = conn[d]
  BY DEF Numbered, Typed, WriteTypeOK, TypeOK
<1>1. /\ crossed \subseteq crossed'
      /\ data'[h] = data[h] \/ data'[h] = Sync!None
  BY OnlyAfterCall, CopiesAfterCall DEF Numbered, Typed
<1>2. CASE d # c
  <2>1. Untouched(d)
    BY <1>2, OthersUntouched DEF Numbered, Typed
  <2>2. QED
    BY <1>0, <1>1, <2>1, NoneIsNoEvent DEF Untouched, GivenOwn, Auth
<1>3. CASE d = c /\ (Leaves(c) \/ Continues(c) \/ \E g \in Conns : StartsOn(c, g))
  <2>1. stage'[c] \notin AuthEvents \/ inWait'[c] = FALSE
    BY <1>3 DEF Leaves, Continues, StartsOn
  <2>2. QED
    BY <1>3, <2>1 DEF GivenOwn
<1>4. CASE d = c /\ Waits(c)
  <2>1. /\ data \in [Conns -> Sync!Answer \cup {Sync!None}]
        /\ pc \in [Callers -> {"idle", "entering", "waiting", "waking"}]
        /\ result \in [Callers -> Sync!Answer \cup {Sync!None}]
    BY DEF Numbered, Typed, WriteTypeOK, TypeOK, Sync!TypeOK
  <2>2. stage'[c] = stage[c] /\ mine'[c] = mine[c] /\ conn'[c] = h
    BY <1>0, <1>4 DEF Waits
  <2>3. ASSUME inWait[c]
        PROVE  (stage[c] \in AuthEvents /\ mine[c] \notin crossed) =>
                 LET r == IF pc[c] = "idle" THEN result[c] ELSE data[h] IN
                 Auth(r) => r.val.id = mine[c]
    BY <1>0, <1>4, <2>3 DEF GivenOwn
  <2>4. CASE ~inWait[c] /\ Sync!Wait(c, h, stage[c])
    <3>1. data'[h] = Sync!None /\ pc'[c] = "entering"
      BY <2>1, <2>4 DEF Sync!Wait
    <3>2. QED
      BY <1>4, <2>2, <3>1, NoneIsNoEvent DEF GivenOwn, Auth
  <2>5. CASE inWait[c] /\ obj[c] = h /\ (Sync!Register(c) \/ Sync!Timeout(c))
    <3>1. pc'[c] # "idle" /\ pc[c] # "idle" /\ data' = data
      BY <2>1, <2>5 DEF Sync!Register, Sync!Timeout
    <3>2. QED
      BY <1>1, <1>4, <2>2, <2>3, <2>5, <3>1 DEF GivenOwn, Auth
  <2>6. CASE inWait[c] /\ obj[c] = h /\ Sync!Return(c)
    <3>1. pc'[c] = "idle" /\ pc[c] # "idle" /\ result'[c] = data[h]
      BY <2>1, <2>6 DEF Sync!Return
    <3>2. QED
      BY <1>1, <1>4, <2>2, <2>3, <2>6, <3>1 DEF GivenOwn, Auth
  <2>7. QED
    BY <1>0, <1>4, <2>4, <2>5, <2>6 DEF Waits
<1>5. QED
  BY <1>2, <1>3, <1>4, CallPairings DEF Numbered

-----------------------------------------------------------------------------
(* The keys.                                                                *)

\* An LESC pairing that has its reply, and that no other one overlaps: the peer
\* has the public key that belongs to the driver's private key.
Agreed(g) ==
  /\ pairing[g].state \in {"replied", "dh_asked", "dh_replied"}
  /\ lescOn[g] /\ pairing[g].peerLesc /\ pairing[g].id \notin crossed

PairingKeys(g) ==
  Agreed(g) =>
    /\ pairing[g].pk = pairing[g].id /\ keyset.own = pairing[g].id
    /\ \A i \in DOMAIN queue : queue[i].evt # "sec_params_request"
    /\ Paired(g, "dh_replied") => pairing[g].dh = pairing[g].id /\ keyset.peerPk = pairing[g].id

\* The keyset holds what the status of such a pairing says it does.
StatusKeys(c) ==
  (stage[c] \in AuthEvents /\ mine[c] \notin crossed) =>
    \A x \in Copies :
      (x.evt = "auth_status" /\ x.val.id = mine[c] /\ x.val.ok) =>
        /\ keyset.peer = mine[c]
        /\ x.val.lesc => keyset.own = mine[c] /\ keyset.peerPk = mine[c]

\* The driver's keys belong together; the key of a request for the shared secret
\* has been taken when it is answered; only LESC pairings have such requests, and
\* each pairing asks for parameters once.
DriverKeys ==
  /\ keyset.own = privateKey
  /\ (worker = "callback" /\ Head(queue).evt = "lesc_dhkey_request") =>
       keyset.peerPk = Head(queue).val.id
  /\ \A g \in Conns :
       pairing[g].state \in {"dh_asked", "dh_replied"} => lescOn[g] /\ pairing[g].peerLesc
  /\ \A i, j \in DOMAIN queue :
       (queue[i].evt = "sec_params_request" /\ queue[j].evt = "sec_params_request" /\ i # j) =>
         queue[i].val.id # queue[j].val.id

\* What the event worker does to the keys and pairings.
TakesNoKey ==
  /\ UNCHANGED <<pairing, keyset, privateKey>>
  /\ worker' = "idle" \/ (queue' = queue /\ Head(queue).evt = "sec_params_request")

TakesPeerKey ==
  /\ Head(queue).evt = "lesc_dhkey_request" /\ UNCHANGED <<pairing, privateKey>>
  /\ keyset' = [keyset EXCEPT !.peerPk = Head(queue).val.id]
  /\ worker' = "idle" \/ queue' = queue

MakesKey ==
  LET e == Head(queue) IN
  /\ e.evt = "sec_params_request" /\ e.val.lesc /\ lescOn[e.conn]
  /\ queue' = Tail(queue) /\ worker' = "idle"
  /\ privateKey' = e.val.id /\ keyset' = [keyset EXCEPT !.own = e.val.id]
  /\ pairing' = pairing \/ (Paired(e.conn, "asked") /\ pairing' = Replied(e.conn, e.val.id))

GivesSecret ==
  LET e == Head(queue) IN
  /\ worker = "callback" /\ e.evt = "lesc_dhkey_request" /\ UNCHANGED <<keyset, privateKey>>
  /\ queue' = Tail(queue) /\ worker' = "idle"
  /\ Paired(e.conn, "dh_asked") /\ pairing' = DhReplied(e.conn, privateKey)

LEMMA HandlerKeys ==
  ASSUME Numbered, HandlerMoves
  PROVE  TakesNoKey \/ TakesPeerKey \/ MakesKey \/ GivesSecret
<1>1. CASE OnDisconnected
  BY <1>1 DEF OnDisconnected, TakesNoKey, deviceVars, keyVars
<1>2. CASE OnNotify
  <2>1. /\ worker = "idle" /\ UNCHANGED <<pairing, privateKey>>
        /\ \/ queue' = Tail(queue) /\ UNCHANGED worker
           \/ LET called == Head(queue).evt \in {"sec_params_request", "lesc_dhkey_request"} IN
              /\ worker' = IF called THEN "callback" ELSE "idle"
              /\ queue' = IF called THEN queue ELSE Tail(queue)
        /\ keyset' = IF Head(queue).evt = "lesc_dhkey_request"
                       THEN [keyset EXCEPT !.peerPk = Head(queue).val.id] ELSE keyset
    BY <1>2 DEF OnNotify, deviceVars
  <2>2. QED
    BY <2>1 DEF TakesNoKey, TakesPeerKey
<1>3. CASE OnParamsCallback
  <2>1. /\ queue' = Tail(queue) /\ worker' = "idle" /\ Head(queue).evt = "sec_params_request"
    BY <1>3 DEF OnParamsCallback, EndCallback, Handling
  <2>2. CASE UNCHANGED <<pairing, privateKey, keyset>>
    BY <2>1, <2>2 DEF TakesNoKey
  <2>3. CASE ~UNCHANGED <<pairing, privateKey, keyset>>
    BY <1>3, <2>1, <2>3 DEF OnParamsCallback, MakesKey, DeviceTakesParams, Replied
  <2>4. QED
    BY <2>2, <2>3
<1>4. CASE OnDhKeyCallback
  <2>1. /\ worker = "callback" /\ Head(queue).evt = "lesc_dhkey_request" /\ UNCHANGED <<keyset, privateKey>>
        /\ queue' = Tail(queue) /\ worker' = "idle"
    BY <1>4 DEF OnDhKeyCallback, EndCallback, Handling, keyVars
  <2>2. \/ pairing' = pairing
        \/ /\ Paired(Head(queue).conn, "dh_asked")
           /\ pairing' = DhReplied(Head(queue).conn, privateKey)
    BY <1>4 DEF OnDhKeyCallback, DhReplied
  <2>3. QED
    BY <2>1, <2>2 DEF TakesNoKey, GivesSecret
<1>5. QED
  BY <1>1, <1>2, <1>3, <1>4 DEF HandlerMoves, Handler

LEMMA KeptChanges ==
  ASSUME Numbered, NEW c \in Callers, CallMoves(c)
  PROVE  kept' = kept \/ outcome'[c] = "success"
<1>1. CASE BeginWait(c) \/ WaitStep(c) \/ GotParams(c) \/ GotDhKey(c) \/ Send(c) \/ GotTxComplete(c)
  BY <1>1 DEF BeginWait, WaitStep, GotParams, GotDhKey, Send, GotTxComplete, keyVars
<1>2. CASE GotStatus(c)
  BY <1>2 DEF GotStatus
<1>3. ASSUME NEW g \in Conns, BeginWrite(c, g) \/ Authenticate(c, g)
      PROVE  kept' = kept
  BY <1>3 DEF BeginWrite, Authenticate, keyVars
<1>4. QED
  BY <1>1, <1>2, <1>3 DEF CallMoves, CallStep, AuthStep

LEMMA DriverKeysAfterDevice ==
  ASSUME Numbered, DriverKeys, DeviceMoves
  PROVE  DriverKeys'
<1>1. PICK g \in Conns, x \in QueueEvents, r \in PairingRecord : DeviceChange(g, x, r)
  BY DeviceChanges DEF Numbered, Typed
<1>2. UNCHANGED <<worker, privateKey, lescOn>>
  BY DeviceChanges DEF Numbered, Typed, appVars
<1>3. pairing'[g] = r /\ \A h \in Conns : h # g => pairing'[h] = pairing[h]
  BY <1>1, DevicePairings DEF Numbered
<1>4. /\ queue' = Append(queue, x) /\ queue \in Seq(QueueEvents)
      /\ keyset \in Keyset /\ pairing[g] \in PairingRecord
  BY <1>1 DEF DeviceChange, Numbered, Typed, WriteTypeOK, TypeOK
<1>5. /\ DOMAIN queue' = DOMAIN queue \cup {Len(queue) + 1} /\ queue'[Len(queue) + 1] = x
      /\ \A i \in DOMAIN queue : queue'[i] = queue[i]
  BY <1>4, QueueAppend
<1>6. keyset'.own = keyset.own /\ keyset'.peerPk = keyset.peerPk
  BY <1>1, <1>4 DEF DeviceChange, Keyset
<1>7. (worker' = "callback" /\ Head(queue').evt = "lesc_dhkey_request") =>
        keyset'.peerPk = Head(queue').val.id
  <2>1. worker = "callback" => Head(queue') = Head(queue)
    BY <1>4 DEF Numbered, Typed, WorkerOk
  <2>2. QED
    BY <1>2, <1>6, <2>1 DEF DriverKeys
<1>8. \A h \in Conns :
        pairing'[h].state \in {"dh_asked", "dh_replied"} => lescOn[h] /\ pairing'[h].peerLesc
  <2>1. r.state \in {"dh_asked", "dh_replied"} => lescOn[g] /\ r.peerLesc
    <3>1. CASE r = [pairing[g] EXCEPT !.state = "asked", !.peerLesc = x.val.lesc]
      BY <1>4, <3>1 DEF PairingRecord
    <3>4. CASE r = Unpaired
      BY <3>4 DEF Unpaired
    <3>2. CASE r = [pairing[g] EXCEPT !.state = "dh_asked"] /\ lescOn[g] /\ pairing[g].peerLesc
      BY <1>4, <3>2 DEF PairingRecord
    <3>3. CASE r = pairing[g]
      BY <3>3 DEF DriverKeys
    <3>5. QED
      BY <1>1, <3>1, <3>2, <3>3, <3>4 DEF DeviceChange
  <2>2. QED
    BY <1>3, <2>1 DEF DriverKeys
<1>9. ASSUME NEW i \in DOMAIN queue', NEW j \in DOMAIN queue', i # j,
             queue'[i].evt = "sec_params_request", queue'[j].evt = "sec_params_request"
      PROVE  queue'[i].val.id # queue'[j].val.id
  <2>1. ASSUME NEW k \in DOMAIN queue, queue[k].evt = "sec_params_request", x.evt = "sec_params_request"
        PROVE  queue[k].val.id # x.val.id
    <3>1. x.val.id = pairing[g].id /\ Paired(g, "started")
      BY <1>1, <2>1, NamesDiffer DEF DeviceChange, AuthEvents
    <3>2. QED
      BY <2>1, <3>1, CopiesOfQueue DEF Numbered, RequestInv, Paired
  <2>2. CASE i \in DOMAIN queue /\ j \in DOMAIN queue
    BY <1>5, <1>9, <2>2 DEF DriverKeys
  <2>3. QED
    BY <1>5, <1>9, <2>1, <2>2
<1>10. QED
  BY <1>2, <1>6, <1>7, <1>8, <1>9 DEF DriverKeys

LEMMA DriverKeysAfterHandler ==
  ASSUME Numbered, DriverKeys, HandlerMoves
  PROVE  DriverKeys'
<1>1. /\ queue # <<>> /\ queue \in Seq(QueueEvents) /\ UNCHANGED lescOn
      /\ queue' = queue \/ queue' = Tail(queue)
  BY HandlerQueue DEF Numbered, Typed, appVars
<1>2. /\ keyset \in Keyset /\ DeviceTypes /\ privateKey \in Ids
      /\ Head(queue).val.id \in Ids /\ Head(queue).conn \in Conns
  BY <1>1, HeadTypes, TypeGroups DEF Numbered, Typed, KeyTypes
<1>3. keyset'.own = privateKey'
  BY <1>2, HandlerKeys DEF DriverKeys, Keyset, TakesNoKey, TakesPeerKey, MakesKey, GivesSecret
<1>4. (worker' = "callback" /\ Head(queue').evt = "lesc_dhkey_request") =>
        keyset'.peerPk = Head(queue').val.id
  <2>1. TakesNoKey => worker' # "callback" \/ Head(queue').evt # "lesc_dhkey_request"
    BY DEF TakesNoKey
  <2>2. TakesPeerKey => worker' # "callback" \/ keyset'.peerPk = Head(queue').val.id
    BY <1>2 DEF TakesPeerKey, Keyset
  <2>3. MakesKey \/ GivesSecret => worker' # "callback"
    BY DEF MakesKey, GivesSecret
  <2>4. QED
    BY <2>1, <2>2, <2>3, HandlerKeys
<1>5. \A h \in Conns :
        pairing'[h].state \in {"dh_asked", "dh_replied"} => lescOn[h] /\ pairing'[h].peerLesc
  <2>1. \A h \in Conns : SamePairing(h)
    BY HandlerPairings DEF Numbered
  <2>2. QED
    BY <2>1 DEF SamePairing, DriverKeys, Paired
<1>6. \A i, j \in DOMAIN queue' :
        (queue'[i].evt = "sec_params_request" /\ queue'[j].evt = "sec_params_request" /\ i # j) =>
          queue'[i].val.id # queue'[j].val.id
  <2>1. CASE queue' = queue
    BY <2>1 DEF DriverKeys
  <2>2. CASE queue' = Tail(queue)
    <3>1. \A i \in DOMAIN Tail(queue) :
            i + 1 \in DOMAIN queue /\ Tail(queue)[i] = queue[i + 1] /\ i \in Nat
      BY <1>1, QueueTail
    <3>2. ASSUME NEW i \in DOMAIN queue', NEW j \in DOMAIN queue', i # j,
                 queue'[i].evt = "sec_params_request", queue'[j].evt = "sec_params_request"
          PROVE  queue'[i].val.id # queue'[j].val.id
      <4>1. i + 1 # j + 1
        BY <2>2, <3>1, <3>2
      <4>2. QED
        BY <2>2, <3>1, <3>2, <4>1 DEF DriverKeys
    <3>3. QED
      BY <3>2
  <2>3. QED
    BY <1>1, <2>1, <2>2
<1>7. QED
  BY <1>1, <1>3, <1>4, <1>5, <1>6 DEF DriverKeys

LEMMA DriverKeysAfterCall ==
  ASSUME Numbered, DriverKeys, NEW c \in Callers, CallMoves(c)
  PROVE  DriverKeys'
<1>1. UNCHANGED <<keyset, privateKey, worker, queue, lescOn>>
  BY CallChanges
<1>2. \A h \in Conns :
        pairing'[h].state \in {"dh_asked", "dh_replied"} => lescOn[h] /\ pairing'[h].peerLesc
  <2>1. ASSUME NEW h \in Conns, SamePairing(h) \/ pairing'[h] = pairing[h]
        PROVE  pairing'[h].state \in {"dh_asked", "dh_replied"} => lescOn[h] /\ pairing'[h].peerLesc
    BY <2>1 DEF SamePairing, DriverKeys, Paired
  <2>2. \A h \in Conns : SamePairing(h) \/ pairing'[h] = pairing[h] \/ pairing'[h].state = "started"
    BY CallPairings DEF Numbered, StartsOn
  <2>3. QED
    BY <2>1, <2>2
<1>3. QED
  BY <1>1, <1>2 DEF DriverKeys

LEMMA KeysAfterDevice ==
  ASSUME Numbered, OnlyInv, DriverKeys, DeviceMoves,
         \A g \in Conns : PairingKeys(g), \A c \in Callers : StatusKeys(c)
  PROVE  /\ \A g \in Conns : PairingKeys(g)'
         /\ \A c \in Callers : StatusKeys(c)'
<1>1. PICK g \in Conns, x \in QueueEvents, r \in PairingRecord : DeviceChange(g, x, r)
  BY DeviceChanges DEF Numbered, Typed
<1>2. UNCHANGED <<lescOn, stage, mine, crossed>>
  BY DeviceChanges DEF Numbered, Typed, appVars, authVars
<1>3. pairing'[g] = r /\ \A h \in Conns : h # g => pairing'[h] = pairing[h]
  BY <1>1, DevicePairings DEF Numbered
<1>4. /\ queue' = Append(queue, x) /\ queue \in Seq(QueueEvents)
      /\ keyset \in Keyset /\ pairing[g] \in PairingRecord /\ x.val.id \in Ids
  BY <1>1 DEF DeviceChange, Numbered, Typed, WriteTypeOK, TypeOK, QueueEvents, Values
<1>5. \A i \in DOMAIN queue' : queue'[i] = x \/ (i \in DOMAIN queue /\ queue'[i] = queue[i])
  BY <1>4, QueueAppend
<1>6. /\ keyset'.own = keyset.own /\ keyset'.peerPk = keyset.peerPk
      /\ keyset'.peer = IF x.evt = "auth_status" /\ x.val.ok THEN x.val.id ELSE keyset.peer
  BY <1>1, <1>4 DEF DeviceChange, Keyset
<1>7. ASSUME NEW h \in Conns, Agreed(h)'
      PROVE  /\ Agreed(h) /\ pairing'[h].id = pairing[h].id /\ pairing'[h].pk = pairing[h].pk
             /\ Paired(h, "dh_replied")' => Paired(h, "dh_replied") /\ pairing'[h].dh = pairing[h].dh
             /\ x.evt # "sec_params_request"
  <2>1. pairing'[h].state \in {"replied", "dh_asked", "dh_replied"} /\ lescOn[h]
        /\ pairing'[h].peerLesc /\ pairing'[h].id \notin crossed
    BY <1>2, <1>7 DEF Agreed
  <2>2. CASE h # g
    <3>1. pairing'[h] = pairing[h] /\ Agreed(h)
      BY <1>3, <2>1, <2>2 DEF Agreed
    <3>2. x.evt # "sec_params_request"
      <4>1. x.evt = "sec_params_request" => Paired(g, "started")
        BY <1>1, NamesDiffer DEF DeviceChange, AuthEvents
      <4>2. pairing[h].id # NoPairing /\ Only(pairing[h].id)
        BY <2>1, <3>1, CurrentPairings DEF Numbered, Typed, PairedInv, Paired
      <4>3. Paired(g, "started") => pairing[g].id # NoPairing
        BY DEF Numbered, Typed, PairedInv, Paired
      <4>4. QED
        BY <2>2, <4>1, <4>2, <4>3 DEF Only, Numbered, IdInv
    <3>3. QED
      BY <3>1, <3>2 DEF Paired
  <2>3. CASE h = g
    <3>1. CASE r = [pairing[g] EXCEPT !.state = "asked", !.peerLesc = x.val.lesc]
      BY <1>3, <1>4, <2>1, <2>3, <3>1 DEF PairingRecord
    <3>2. CASE r = Unpaired
      BY <1>3, <2>1, <2>3, <3>2 DEF Unpaired
    <3>3. CASE /\ x.evt = "lesc_dhkey_request" /\ Paired(g, "replied")
               /\ r = [pairing[g] EXCEPT !.state = "dh_asked"]
      <4>1. /\ r.state = "dh_asked" /\ r.id = pairing[g].id /\ r.pk = pairing[g].pk
            /\ r.peerLesc = pairing[g].peerLesc
        BY <1>4, <3>3 DEF PairingRecord
      <4>2. Agreed(h)
        BY <1>3, <2>1, <2>3, <3>3, <4>1 DEF Agreed, Paired
      <4>3. QED
        BY <1>3, <2>3, <3>3, <4>1, <4>2 DEF Paired
    <3>4. CASE x.evt = TxComplete /\ r = pairing[g]
      <4>1. x.evt # "sec_params_request"
        BY <3>4, NamesDiffer DEF AuthEvents
      <4>2. QED
        BY <1>3, <2>1, <2>3, <3>4, <4>1 DEF Agreed, Paired
    <3>5. QED
      BY <1>1, <3>1, <3>2, <3>3, <3>4 DEF DeviceChange
  <2>4. QED
    BY <2>2, <2>3
<1>8. ASSUME NEW h \in Conns
      PROVE  PairingKeys(h)'
  <2> SUFFICES ASSUME Agreed(h)'
               PROVE  PairingKeys(h)'
    BY DEF PairingKeys
  <2>1. /\ pairing[h].pk = pairing[h].id /\ keyset.own = pairing[h].id
        /\ \A i \in DOMAIN queue : queue[i].evt # "sec_params_request"
        /\ Paired(h, "dh_replied") => pairing[h].dh = pairing[h].id /\ keyset.peerPk = pairing[h].id
    BY <1>7 DEF PairingKeys
  <2>2. \A i \in DOMAIN queue' : queue'[i].evt # "sec_params_request"
    BY <1>5, <1>7, <2>1
  <2>3. QED
    BY <1>6, <1>7, <2>1, <2>2 DEF PairingKeys
<1>9. ASSUME NEW c \in Callers
      PROVE  StatusKeys(c)'
  <2> SUFFICES ASSUME stage[c] \in AuthEvents, mine[c] \notin crossed, NEW y \in Copies',
                      y.evt = "auth_status", y.val.id = mine[c], y.val.ok
               PROVE  /\ keyset'.peer = mine[c]
                      /\ y.val.lesc => keyset'.own = mine[c] /\ keyset'.peerPk = mine[c]
    BY <1>2 DEF StatusKeys
  <2>1. Only(mine[c]) /\ mine[c] # NoPairing
    BY CurrentPairings DEF Numbered, Typed, CallOk
  <2>2. (x.evt = "auth_status" /\ x.val.ok) => x.val.id = mine[c]
    <3>1. x.evt = "auth_status" => x.val.id = pairing[g].id /\ x.val.id # NoPairing
      BY <1>1, DeviceResults, TypeGroups DEF Numbered, Typed, Auth, AuthEvents
    <3>2. QED
      BY <2>1, <3>1 DEF Only
  <2>3. CASE y \in Copies
    <3>1. /\ keyset.peer = mine[c]
          /\ y.val.lesc => keyset.own = mine[c] /\ keyset.peerPk = mine[c]
      BY <2>3 DEF StatusKeys
    <3>2. QED
      BY <1>6, <2>2, <3>1
  <2>4. CASE y = Copy(x)
    <3>1. x.evt = "auth_status" /\ x.val.ok /\ x.val.id = mine[c] /\ y.val = x.val
      BY <2>4 DEF Copy
    <3>2. /\ x.val.id = pairing[g].id /\ x.val.lesc = (lescOn[g] /\ pairing[g].peerLesc)
          /\ (Paired(g, "replied") /\ ~x.val.lesc) \/ Paired(g, "dh_replied")
      BY <1>1, <3>1, NamesDiffer DEF DeviceChange, AuthEvents
    <3>3. ASSUME x.val.lesc
          PROVE  keyset.own = mine[c] /\ keyset.peerPk = mine[c]
      <4>1. Paired(g, "dh_replied") /\ lescOn[g] /\ pairing[g].peerLesc
        BY <3>2, <3>3 DEF DriverKeys, Paired
      <4>2. Agreed(g)
        BY <3>1, <3>2, <4>1 DEF Agreed, Paired
      <4>3. QED
        BY <3>1, <3>2, <4>1, <4>2 DEF PairingKeys
    <3>4. QED
      BY <1>6, <3>1, <3>3
  <2>5. QED
    BY <1>1, <2>3, <2>4, CopiesAfterDevice DEF Numbered, Typed
<1>10. QED
  BY <1>8, <1>9

LEMMA KeysAfterHandler ==
  ASSUME Numbered, OnlyInv, DriverKeys, HandlerMoves,
         \A g \in Conns : PairingKeys(g), \A c \in Callers : StatusKeys(c)
  PROVE  /\ \A g \in Conns : PairingKeys(g)'
         /\ \A c \in Callers : StatusKeys(c)'
<1>1. /\ queue # <<>> /\ queue \in Seq(QueueEvents) /\ UNCHANGED <<lescOn, stage, mine, crossed>>
      /\ queue' = queue \/ queue' = Tail(queue)
  BY HandlerQueue DEF Numbered, Typed, appVars, authVars
<1>2. /\ keyset \in Keyset /\ DeviceTypes /\ privateKey \in Ids
      /\ Head(queue).val.id \in Ids /\ Head(queue).conn \in Conns
  BY <1>1, HeadTypes, TypeGroups DEF Numbered, Typed, KeyTypes
<1>3. /\ 1 \in DOMAIN queue /\ Head(queue) = queue[1]
      /\ \A i \in DOMAIN Tail(queue) :
           i + 1 \in DOMAIN queue /\ Tail(queue)[i] = queue[i + 1] /\ i \in Nat
  BY <1>1, QueueTail
<1>4. \A i \in DOMAIN queue' : \E j \in DOMAIN queue : queue'[i] = queue[j]
  BY <1>1, <1>3
<1>5. \A m : (Only(m) /\ Head(queue).evt \in AuthEvents) => Head(queue).val.id = m
  BY <1>3 DEF Only, Auth
<1>6. ASSUME NEW h \in Conns, Agreed(h)'
      PROVE  /\ pairing'[h].pk = pairing'[h].id /\ keyset'.own = pairing'[h].id
             /\ \A i \in DOMAIN queue' : queue'[i].evt # "sec_params_request"
             /\ Paired(h, "dh_replied")' =>
                  pairing'[h].dh = pairing'[h].id /\ keyset'.peerPk = pairing'[h].id
  <2>1. /\ pairing'[h].state \in {"replied", "dh_asked", "dh_replied"} /\ lescOn[h]
        /\ pairing'[h].peerLesc /\ pairing'[h].id \notin crossed
    BY <1>1, <1>6 DEF Agreed
  <2>2. /\ pairing'[h].id = pairing[h].id /\ pairing'[h].peerLesc = pairing[h].peerLesc
        /\ ~Paired(h, "none")
    BY <2>1, HandlerPairings DEF Numbered, SamePairing, Paired
  <2>3. Only(pairing[h].id)
    BY <2>1, <2>2, CurrentPairings
  <2>4. pairing[h].state \in {"replied", "dh_asked", "dh_replied"} =>
          /\ pairing[h].pk = pairing[h].id /\ keyset.own = pairing[h].id
          /\ \A i \in DOMAIN queue : queue[i].evt # "sec_params_request"
          /\ Paired(h, "dh_replied") => pairing[h].dh = pairing[h].id /\ keyset.peerPk = pairing[h].id
    BY <2>1, <2>2 DEF Agreed, PairingKeys
  <2>5. CASE TakesNoKey
    BY <1>4, <2>1, <2>4, <2>5 DEF TakesNoKey, Paired
  <2>6. CASE TakesPeerKey
    <3>1. keyset'.own = keyset.own /\ keyset'.peerPk = pairing[h].id
      BY <1>2, <1>5, <2>3, <2>6 DEF TakesPeerKey, Keyset, AuthEvents
    <3>2. pairing' = pairing
      BY <2>6 DEF TakesPeerKey
    <3>3. QED
      BY <1>4, <2>1, <2>4, <3>1, <3>2 DEF Paired
  <2>7. CASE MakesKey
    <3> DEFINE e == Head(queue)
    <3>1. /\ e.evt = "sec_params_request" /\ queue' = Tail(queue)
          /\ keyset' = [keyset EXCEPT !.own = e.val.id]
          /\ pairing' = pairing \/ (Paired(e.conn, "asked") /\ pairing' = Replied(e.conn, e.val.id))
      BY <2>7 DEF MakesKey
    <3>2. e.val.id = pairing[h].id /\ keyset'.own = pairing[h].id
      BY <1>2, <1>5, <2>3, <3>1 DEF AuthEvents, Keyset
    <3>3. pairing[h].state \notin {"replied", "dh_asked", "dh_replied"}
      BY <1>3, <2>4, <3>1
    <3>4. pairing'[h] # pairing[h]
      BY <2>1, <3>3
    <3>5. pairing'[h].state = "replied" /\ pairing'[h].pk = pairing[h].id
      <4>1. pairing' = Replied(e.conn, e.val.id) /\ h = e.conn
        BY <1>2, <3>1, <3>4, Replies
      <4>2. QED
        BY <1>2, <3>2, <4>1, Replies
    <3>6. \A i \in DOMAIN queue' : queue'[i].evt # "sec_params_request"
      <4> SUFFICES ASSUME NEW i \in DOMAIN queue', queue'[i].evt = "sec_params_request"
                   PROVE  FALSE
        OBVIOUS
      <4>1. i + 1 \in DOMAIN queue /\ queue'[i] = queue[i + 1] /\ i + 1 # 1
        <5>1. i \in DOMAIN Tail(queue)
          BY <3>1
        <5>2. i + 1 # 1
          BY <1>1, <5>1
        <5>3. QED
          BY <1>3, <3>1, <5>1, <5>2
      <4>2. queue[i + 1].val.id = pairing[h].id
        BY <2>3, <4>1 DEF Only, Auth, AuthEvents
      <4>3. queue[1].val.id = pairing[h].id /\ queue[1].evt = "sec_params_request"
        BY <1>3, <3>1, <3>2
      <4>4. QED
        BY <1>3, <4>1, <4>2, <4>3 DEF DriverKeys
    <3>7. QED
      BY <2>2, <3>2, <3>5, <3>6 DEF Paired
  <2>8. CASE GivesSecret
    <3> DEFINE e == Head(queue)
    <3>1. /\ worker = "callback" /\ e.evt = "lesc_dhkey_request" /\ UNCHANGED <<keyset, privateKey>>
          /\ Paired(e.conn, "dh_asked") /\ pairing' = DhReplied(e.conn, privateKey)
      BY <2>8 DEF GivesSecret
    <3>2. CASE h # e.conn
      <4>1. pairing'[h] = pairing[h]
        BY <1>2, <3>1, <3>2, Replies
      <4>2. QED
        BY <1>4, <2>1, <2>4, <3>1, <4>1 DEF Paired
    <3>3. CASE h = e.conn
      <4>1. pairing'[h].pk = pairing[h].pk /\ pairing'[h].dh = privateKey
        BY <1>2, <3>1, <3>3, Replies
      <4>2. privateKey = pairing[h].id /\ pairing[h].pk = pairing[h].id
        BY <2>4, <3>1, <3>3 DEF DriverKeys, Paired
      <4>3. keyset.peerPk = pairing[h].id
        BY <1>5, <2>3, <3>1 DEF DriverKeys, AuthEvents
      <4>4. \A i \in DOMAIN queue' : queue'[i].evt # "sec_params_request"
        BY <1>4, <2>4, <3>1, <3>3 DEF Paired
      <4>5. keyset.own = pairing[h].id
        BY <4>2 DEF DriverKeys
      <4>6. QED
        BY <2>2, <3>1, <4>1, <4>2, <4>3, <4>4, <4>5
    <3>4. QED
      BY <3>2, <3>3
  <2>9. QED
    BY <2>5, <2>6, <2>7, <2>8, HandlerKeys
<1>7. ASSUME NEW c \in Callers
      PROVE  StatusKeys(c)'
  <2> SUFFICES ASSUME stage[c] \in AuthEvents, mine[c] \notin crossed, NEW y \in Copies',
                      y.evt = "auth_status", y.val.id = mine[c], y.val.ok
               PROVE  /\ keyset'.peer = mine[c]
                      /\ y.val.lesc => keyset'.own = mine[c] /\ keyset'.peerPk = mine[c]
    BY <1>1 DEF StatusKeys
  <2>1. Only(mine[c])
    BY CurrentPairings
  <2>2. y \in Copies
    BY CopiesAfterHandler DEF Numbered, Typed
  <2>3. /\ keyset.peer = mine[c]
        /\ y.val.lesc => keyset.own = mine[c] /\ keyset.peerPk = mine[c]
    BY <2>2 DEF StatusKeys
  <2>4. CASE TakesNoKey \/ GivesSecret
    BY <2>3, <2>4 DEF TakesNoKey, GivesSecret
  <2>5. CASE TakesPeerKey
    BY <1>2, <1>5, <2>1, <2>3, <2>5 DEF TakesPeerKey, Keyset, AuthEvents
  <2>6. CASE MakesKey
    BY <1>2, <1>5, <2>1, <2>3, <2>6 DEF MakesKey, Keyset, AuthEvents
  <2>7. QED
    BY <2>4, <2>5, <2>6, HandlerKeys
<1>8. QED
  BY <1>6, <1>7 DEF PairingKeys

\* authenticate does not reply in such a pairing: the request that it was given is
\* the pairing's own and says that both sides want LESC.
LEMMA KeysAfterCall ==
  ASSUME Own, OnlyInv, NEW c \in Callers, CallMoves(c), \A d \in Callers : GivenOwn(d),
         \A g \in Conns : PairingKeys(g), \A d \in Callers : StatusKeys(d)
  PROVE  /\ \A g \in Conns : PairingKeys(g)'
         /\ \A d \in Callers : StatusKeys(d)'
<1>1. /\ UNCHANGED <<keyset, privateKey, queue, lescOn>> /\ crossed \subseteq crossed'
      /\ \A d \in Callers : d # c => Untouched(d)
  BY CallChanges, OthersUntouched, OnlyAfterCall DEF Own, Numbered, Typed
<1>2. ASSUME NEW h \in Conns, Agreed(h)'
      PROVE  pairing'[h] = pairing[h]
  <2>1. /\ pairing'[h].state \in {"replied", "dh_asked", "dh_replied"}
        /\ lescOn[h] /\ pairing'[h].peerLesc /\ pairing'[h].id \notin crossed
    BY <1>1, <1>2 DEF Agreed
  <2>2. CASE UNCHANGED pairing
    BY <2>2
  <2>3. ASSUME NEW g \in Conns, StartsOn(c, g)
        PROVE  pairing'[h] = pairing[h]
    BY <2>1, <2>3 DEF StartsOn
  <2>4. CASE Continues(c) /\ ~UNCHANGED pairing
    <3>1. /\ stage[c] = "sec_params_request" /\ inWait[c] /\ pc[c] = "idle"
          /\ lescOn[conn[c]] => result[c].evt = "sec_params_request" /\ ~result[c].val.lesc
          /\ Paired(conn[c], "asked") /\ pairing' = Replied(conn[c], keyset.own)
      BY <2>4 DEF Continues
    <3>2. /\ \A k \in Conns : pairing'[k].id = pairing[k].id /\ pairing'[k].peerLesc = pairing[k].peerLesc
          /\ \A k \in Conns \ {conn[c]} : pairing'[k] = pairing[k]
      <4>1. DeviceTypes /\ conn[c] \in Conns /\ keyset.own \in Ids
        BY TypeGroups DEF Own, Numbered, Typed, CallTypes, KeyTypes, Keyset
      <4>2. QED
        BY <3>1, <4>1, Replies
    <3>3. h # conn[c]
      <4> SUFFICES ASSUME h = conn[c]
                   PROVE  FALSE
        OBVIOUS
      <4>1. pairing[h].id = mine[c]
        BY <3>1 DEF Own, StatusInv, StatusOk, AuthEvents, Paired
      <4>2. GivenOwn(c) /\ stage[c] \in AuthEvents /\ mine[c] \notin crossed
        BY <2>1, <3>1, <3>2, <4>1 DEF AuthEvents
      <4>3. result[c].evt = "sec_params_request" /\ ~result[c].val.lesc
        BY <2>1, <3>1
      <4>4. result[c].val.id = pairing[h].id
        BY <3>1, <4>1, <4>2, <4>3 DEF GivenOwn, Auth, AuthEvents
      <4>5. result[c].val.lesc = pairing[h].peerLesc
        BY <4>3, <4>4, CopiesOfQueue DEF Own, Numbered, RequestInv
      <4>6. QED
        BY <2>1, <3>2, <4>3, <4>5
    <3>4. QED
      BY <3>2, <3>3
  <2>5. QED
    BY <2>2, <2>3, <2>4, CallPairings DEF Own, Numbered, Waits, Leaves
<1>3. ASSUME NEW h \in Conns
      PROVE  PairingKeys(h)'
  <2> SUFFICES ASSUME Agreed(h)'
               PROVE  PairingKeys(h)'
    BY DEF PairingKeys
  <2>1. pairing'[h] = pairing[h]
    BY <1>2
  <2>2. Agreed(h)
    BY <1>1, <2>1 DEF Agreed
  <2>3. QED
    BY <1>1, <2>1, <2>2 DEF PairingKeys, Paired
<1>4. ASSUME NEW d \in Callers
      PROVE  StatusKeys(d)'
  <2> SUFFICES ASSUME stage'[d] \in AuthEvents, mine'[d] \notin crossed', NEW y \in Copies',
                      y.evt = "auth_status", y.val.id = mine'[d], y.val.ok
               PROVE  /\ keyset'.peer = mine'[d]
                      /\ y.val.lesc => keyset'.own = mine'[d] /\ keyset'.peerPk = mine'[d]
    BY DEF StatusKeys
  <2>1. Auth(y)
    BY DEF Auth, AuthEvents
  <2>2. y \in Copies
    BY <2>1, CopiesAfterCall, NoneIsNoEvent DEF Own, Numbered, Typed
  <2>3. stage[d] \in AuthEvents /\ mine'[d] = mine[d]
    <3>1. CASE d # c
      BY <1>1, <3>1 DEF Untouched
    <3>2. CASE d = c /\ (Waits(c) \/ Continues(c) \/ Leaves(c))
      BY <3>2 DEF Waits, Continues, Leaves, AuthEvents
    <3>3. ASSUME NEW g \in Conns, d = c, StartsOn(c, g)
          PROVE  FALSE
      <4>1. mine'[d] = npairings + 1 /\ npairings \in Nat
        BY <3>3 DEF StartsOn, Own, Numbered, Typed, WriteTypeOK, TypeOK, Ids
      <4>2. y.val.id \in 1..npairings
        BY <2>1, <2>2 DEF Own, Numbered, IdInv
      <4>3. QED
        BY <4>1, <4>2
    <3>4. QED
      BY <3>1, <3>2, <3>3, CallPairings DEF Own, Numbered
  <2>4. QED
    BY <1>1, <2>2, <2>3 DEF StatusKeys
<1>5. QED
  BY <1>3, <1>4

\* What the Connection has kept from a call that succeeded.
KeptKeys(c) ==
  (outcome[c] = "success" /\ mine[c] \notin crossed) =>
    /\ kept[conn[c]].peer = mine[c]
    /\ result[c].val.lesc => kept[conn[c]].own = mine[c] /\ kept[conn[c]].peerPk = mine[c]

LEMMA KeptAfterCall ==
  ASSUME Own, OnlyInv, NEW c \in Callers, CallMoves(c), NEW d \in Callers, KeptKeys(d),
         GivenOwn(c), StatusKeys(c)
  PROVE  KeptKeys(d)'
<1>1. /\ crossed \subseteq crossed' /\ kept \in [Conns -> Keyset]
      /\ conn[c] \in Conns /\ conn[d] \in Conns
  BY OnlyAfterCall DEF Own, Numbered, Typed, WriteTypeOK, TypeOK
<1>2. outcome'[c] = "success" =>
        /\ stage[c] = "auth_status" /\ inWait[c] /\ pc[c] = "idle"
        /\ result[c].evt = "auth_status" /\ result[c].val.ok
        /\ UNCHANGED <<result, conn, mine, crossed>>
        /\ kept' = [kept EXCEPT ![conn[c]] = keyset]
  BY Ends DEF Own, Numbered, Typed
<1>3. CASE d # c
  <2>1. Untouched(d)
    BY <1>3, OthersUntouched DEF Own, Numbered, Typed
  <2>2. outcome[d] = "success" => kept'[conn[d]] = kept[conn[d]]
    <3> SUFFICES ASSUME outcome[d] = "success", outcome'[c] = "success"
                 PROVE  kept'[conn[d]] = kept[conn[d]]
      BY KeptChanges DEF Own
    <3>1. MayPair(d, conn[d]) /\ MayPair(c, conn[c])
      BY <1>2 DEF MayPair, Own, Numbered, Typed, CallOk, AuthEvents
    <3>2. conn[d] # conn[c]
      BY <1>1, <1>3, <3>1 DEF Own, AloneInv
    <3>3. QED
      BY <1>1, <1>2, <3>2
  <2>3. QED
    BY <1>1, <2>1, <2>2 DEF KeptKeys, Untouched
<1>4. CASE d = c
  <2> SUFFICES ASSUME outcome'[c] = "success", mine'[c] \notin crossed'
               PROVE  KeptKeys(c)'
    BY <1>4 DEF KeptKeys
  <2>1. stage[c] \in AuthEvents /\ mine[c] \notin crossed /\ kept'[conn[c]] = keyset
    BY <1>1, <1>2 DEF AuthEvents
  <2>2. result[c].val.id = mine[c]
    BY <1>2, <2>1 DEF GivenOwn, Auth, AuthEvents
  <2>3. /\ keyset.peer = mine[c]
        /\ result[c].val.lesc => keyset.own = mine[c] /\ keyset.peerPk = mine[c]
    BY <1>2, <2>1, <2>2, CopiesOfQueue DEF StatusKeys
  <2>4. QED
    BY <1>2, <2>1, <2>3 DEF KeptKeys
<1>5. QED
  BY <1>3, <1>4

KeyInv ==
  /\ OnlyInv /\ DriverKeys
  /\ \A g \in Conns : PairingKeys(g)
  /\ \A c \in Callers : GivenOwn(c) /\ StatusKeys(c) /\ KeptKeys(c)

LEMMA KeyInit ==
  ASSUME WriteInit
  PROVE  KeyInv
<1>1. OnlyInv
  BY Beginning, NamesDiffer DEF OnlyInv, Current, Pairings, NoPairing, AuthEvents
<1>2. DriverKeys
  BY Beginning DEF DriverKeys, NoKeys
<1>3. \A g \in Conns : PairingKeys(g)
  BY Beginning DEF PairingKeys, Agreed
<1>4. \A c \in Callers : GivenOwn(c) /\ StatusKeys(c) /\ KeptKeys(c)
  BY Beginning, NamesDiffer DEF GivenOwn, StatusKeys, KeptKeys, AuthEvents
<1>5. QED
  BY <1>1, <1>2, <1>3, <1>4 DEF KeyInv

LEMMA KeyStep ==
  ASSUME Own, KeyInv, [Next]_vars
  PROVE  KeyInv'
<1>1. /\ Numbered /\ AloneInv /\ OnlyInv /\ DriverKeys
      /\ \A g \in Conns : PairingKeys(g)
      /\ \A c \in Callers : GivenOwn(c) /\ StatusKeys(c) /\ KeptKeys(c)
  BY DEF Own, KeyInv
<1>2. CASE UNCHANGED vars
  <2>1. Copies' = Copies
    BY <1>2, Stutter DEF Copies, Copy
  <2>2. OnlyInv' /\ DriverKeys'
    BY <1>1, <1>2, Stutter DEF OnlyInv, Current, Only, Auth, DriverKeys
  <2>3. \A g \in Conns : PairingKeys(g)'
    BY <1>1, <1>2, Stutter DEF PairingKeys, Agreed, Paired
  <2>4. \A c \in Callers : GivenOwn(c)' /\ StatusKeys(c)' /\ KeptKeys(c)'
    BY <1>1, <1>2, <2>1, Stutter DEF GivenOwn, StatusKeys, KeptKeys, Auth
  <2>5. QED
    BY <2>2, <2>3, <2>4 DEF KeyInv
<1>3. CASE DeviceMoves
  <2>1. OnlyInv' /\ DriverKeys' /\ \A c \in Callers : GivenOwn(c)'
    BY <1>1, <1>3, OnlyAfterDevice, DriverKeysAfterDevice, GivenAfterDevice
  <2>2. /\ \A g \in Conns : PairingKeys(g)'
        /\ \A c \in Callers : StatusKeys(c)'
    BY <1>1, <1>3, KeysAfterDevice
  <2>3. \A c \in Callers : KeptKeys(c)'
    <3>1. UNCHANGED <<kept, result, outcome, mine, conn, crossed>>
      BY <1>1, <1>3, DeviceChanges DEF Numbered, Typed, syncVars, authVars
    <3>2. QED
      BY <1>1, <3>1 DEF KeptKeys
  <2>4. QED
    BY <2>1, <2>2, <2>3 DEF KeyInv
<1>4. CASE HandlerMoves
  <2>1. OnlyInv' /\ DriverKeys' /\ \A c \in Callers : GivenOwn(c)'
    BY <1>1, <1>4, OnlyAfterHandler, DriverKeysAfterHandler, GivenAfterHandler
  <2>2. /\ \A g \in Conns : PairingKeys(g)'
        /\ \A c \in Callers : StatusKeys(c)'
    BY <1>1, <1>4, KeysAfterHandler
  <2>3. \A c \in Callers : KeptKeys(c)'
    <3>1. UNCHANGED <<kept, result, outcome, mine, conn, crossed>>
      BY <1>1, <1>4, HandlerQueue DEF Numbered, Typed, authVars
    <3>2. QED
      BY <1>1, <3>1 DEF KeptKeys
  <2>4. QED
    BY <2>1, <2>2, <2>3 DEF KeyInv
<1>5. ASSUME NEW c \in Callers, CallMoves(c)
      PROVE  KeyInv'
  <2>1. OnlyInv' /\ DriverKeys' /\ \A d \in Callers : GivenOwn(d)'
    BY <1>1, <1>5, OnlyAfterCall, DriverKeysAfterCall, GivenAfterCall
  <2>2. /\ \A g \in Conns : PairingKeys(g)'
        /\ \A d \in Callers : StatusKeys(d)'
    BY <1>1, <1>5, KeysAfterCall
  <2>3. \A d \in Callers : KeptKeys(d)'
    BY <1>1, <1>5, KeptAfterCall
  <2>4. QED
    BY <2>1, <2>2, <2>3 DEF KeyInv
<1>6. QED
  BY <1>2, <1>3, <1>4, <1>5, Moves

LEMMA KeysAlways ==
  ASSUME PairsAlone
  PROVE  Spec => []KeyInv
<1>1. WriteInit => KeyInv
  BY KeyInit
<1>2. Own /\ KeyInv /\ [Next]_vars => KeyInv'
  BY KeyStep
<1>3. QED
  BY <1>1, <1>2, OwnAlways, PTL DEF Spec

(* After a success the Connection keeps the keys of its own pairing,        *)
(* although the driver has one keyset for all connections, if no other      *)
(* pairing overlapped this one and no other thread pairs on its connection. *)
THEOREM OwnKeysKept ==
  ASSUME PairsAlone
  PROVE  Spec => []KeysOfOwnPairing
<1>1. KeyInv => KeysOfOwnPairing
  BY DEF KeyInv, KeptKeys, KeysOfOwnPairing
<1>2. QED
  BY <1>1, KeysAlways, PTL

(* The shared secret of an LESC pairing is computed with the private key    *)
(* whose public key the peer was sent, if no other pairing overlapped this  *)
(* one: the callback that makes the keys and the one that uses them are     *)
(* then of the same pairing.                                                *)
THEOREM SecretsFit ==
  ASSUME PairsAlone
  PROVE  Spec => []SharedSecretFits
<1>1. KeyInv => SharedSecretFits
  BY DEF KeyInv, DriverKeys, PairingKeys, Agreed, Paired, SharedSecretFits
<1>2. QED
  BY <1>1, KeysAlways, PTL
=============================================================================
