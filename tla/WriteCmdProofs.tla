---------------------------- MODULE WriteCmdProofs ----------------------------
(***************************************************************************)
(* What holds of the composition of write_cmd and authenticate for any     *)
(* number of threads, connections and calls: types, where each call is,    *)
(* and that a packet is sent once.  Module PairingProofs goes on from here.*)
(***************************************************************************)
EXTENDS WriteCmd, TLAPS

-----------------------------------------------------------------------------
(* Types, and where each call is.                                           *)

\* A pairing has a number as long as it is under way.
PairedInv == \A g \in Conns : Paired(g, "none") <=> pairing[g].id = NoPairing

\* A thread waits only in a call that waits, on its connection and for the event
\* of its stage; a call that still writes has a try left; the event worker is in
\* a callback of the first event.
CallOk(c) ==
  /\ stage[c] \in AuthEvents \cup {"idle", "write", TxComplete}
  /\ stage[c] # "idle" => outcome[c] = "none_yet"
  /\ stage[c] \in {"write", TxComplete} => tries[c] < MaxTries
  /\ pc[c] # "idle" => inWait[c]
  /\ inWait[c] => stage[c] \in Events /\ obj[c] = conn[c] /\ want[c] = stage[c]
  /\ stage[c] \in AuthEvents \/ outcome[c] = "success" => mine[c] # NoPairing
  /\ accepted[c] \in TimesTaken(outcome[c])

WorkerOk ==
  worker = "callback" => /\ queue # <<>>
                         /\ Head(queue).evt \in {"sec_params_request", "lesc_dhkey_request"}

Typed == WriteTypeOK /\ PairedInv /\ WorkerOk /\ \A c \in Callers : CallOk(c)

\* The names of the events and stages differ.
LEMMA NamesDiffer ==
  /\ TxComplete \in Events /\ TxComplete \notin AuthEvents
  /\ TxComplete # "idle" /\ TxComplete # "write" /\ TxComplete # "disconnected"
  /\ {"idle", "write", "disconnected"} \cap Events = {}
  /\ AuthEvents \subseteq Events
  /\ "sec_params_request" \in Events /\ "lesc_dhkey_request" \in Events /\ "auth_status" \in Events
  /\ Sync!None.evt \notin Events
  /\ MaxTries \in Nat \ {0} /\ Buffers \in Nat \ {0}
  BY WriteAssumption, EventNamesAssumption
     DEF WriteAssumption, EventNamesAssumption, Events, AuthEvents, Sync!None

\* An event that carries the number of its pairing only.
LEMMA NumberedEvent ==
  ASSUME NEW id, NEW n
  PROVE  [[id |-> n, lesc |-> FALSE, ok |-> FALSE] EXCEPT !.id = id]
           = [id |-> id, lesc |-> FALSE, ok |-> FALSE]
  OBVIOUS

\* Types that the facts about a step of the SoftDevice follow from.
LEMMA ValueTypes ==
  ASSUME NEW g \in Conns, NEW id \in Ids, NEW lesc \in BOOLEAN, NEW ok \in BOOLEAN,
         NEW e \in Events \cup {"disconnected"}
  PROVE  /\ [conn |-> g, evt |-> e, val |-> [id |-> id, lesc |-> lesc, ok |-> ok]] \in QueueEvents
         /\ [NoVal EXCEPT !.id = id] = [id |-> id, lesc |-> FALSE, ok |-> FALSE]
         /\ NoVal = [id |-> NoPairing, lesc |-> FALSE, ok |-> FALSE] /\ NoPairing \in Ids
         /\ Unpaired \in PairingRecord /\ Unpaired.state = "none" /\ Unpaired.id = NoPairing
<1>1. [conn |-> g, evt |-> e, val |-> [id |-> id, lesc |-> lesc, ok |-> ok]] \in QueueEvents
  BY DEF QueueEvents, Values
<1>2. NoVal = [id |-> NoPairing, lesc |-> FALSE, ok |-> FALSE] /\ NoPairing \in Ids
  BY DEF NoVal, NoPairing, Ids
<1>3. [NoVal EXCEPT !.id = id] = [id |-> id, lesc |-> FALSE, ok |-> FALSE]
  BY NumberedEvent DEF NoVal
<1>4. Unpaired \in PairingRecord /\ Unpaired.state = "none" /\ Unpaired.id = NoPairing
  BY DEF NoPairing, Ids, Unpaired, PairingRecord, PairingStates
<1>5. QED
  BY <1>1, <1>2, <1>3, <1>4

\* The SoftDevice delivers the event x of connection g, where the pairing on g
\* becomes r.
DeviceChange(g, x, r) ==
  /\ queue' = Append(queue, x) /\ x.conn = g
  /\ pairing' = [pairing EXCEPT ![g] = r]
  /\ IF x.evt = "disconnected" THEN up' = up \ {g} /\ Disorder(g) ELSE up' = up
  /\ IF x.evt = "auth_status" /\ x.val.ok
       THEN keyset' = [keyset EXCEPT !.peer = x.val.id]
       ELSE keyset' = keyset
  /\ x.evt # "disconnected" => UNCHANGED orderly \/ Disorder(g)
  /\ \/ /\ x.evt = "sec_params_request" /\ x.val.id = pairing[g].id
        /\ Paired(g, "started")
        /\ r = [pairing[g] EXCEPT !.state = "asked", !.peerLesc = x.val.lesc]
     \/ /\ x.evt = "lesc_dhkey_request" /\ x.val.id = pairing[g].id
        /\ Paired(g, "replied") /\ lescOn[g] /\ pairing[g].peerLesc
        /\ r = [pairing[g] EXCEPT !.state = "dh_asked"]
     \/ /\ x.evt = "auth_status" /\ x.val.id = pairing[g].id /\ ~Paired(g, "none")
        /\ r = Unpaired
        /\ x.val.lesc = (lescOn[g] /\ pairing[g].peerLesc)
        /\ x.val.ok => (Paired(g, "replied") /\ ~x.val.lesc) \/ Paired(g, "dh_replied")
        /\ pairing[g].state \in {"started", "asked"} => x.val.ok \/ Disorder(g)
     \/ x.evt = "disconnected" /\ x.val.id = NoPairing /\ r = Unpaired
     \/ x.evt = TxComplete /\ x.val.id = NoPairing /\ r = pairing[g]

\* An event of a pairing.
Auth(x) == x.evt \in AuthEvents

DeviceMoves ==
  \/ DeviceStep /\ UNCHANGED writeVars
  \/ \E g \in Conns : DeviceTransmits(g)

LEMMA DeviceChanges ==
  ASSUME WriteTypeOK, DeviceMoves
  PROVE  /\ UNCHANGED <<syncVars, known, worker, npairings, appVars, privateKey, kept, authVars,
                        tries, accepted>>
         /\ faults' \in Nat /\ used' \in [Conns -> 0..Buffers]
         /\ \E g \in Conns, x \in QueueEvents, r \in PairingRecord : DeviceChange(g, x, r)
<1>1. /\ pairing \in [Conns -> PairingRecord] /\ faults \in Nat
      /\ lescOn \in [Conns -> BOOLEAN] /\ used \in [Conns -> 0..Buffers]
  BY DEF WriteTypeOK, TypeOK
<1>2. \A g \in Conns : pairing[g].id \in Ids /\ pairing[g].peerLesc \in BOOLEAN
  BY <1>1 DEF PairingRecord
<1> DEFINE Rest == /\ UNCHANGED <<syncVars, known, worker, npairings, appVars, privateKey, kept,
                                  authVars, tries, accepted>>
                   /\ faults' \in Nat /\ used' \in [Conns -> 0..Buffers]
           Changed == \E g \in Conns, x \in QueueEvents, r \in PairingRecord : DeviceChange(g, x, r)
<1>3. ASSUME NEW g \in Conns, NEW peerLesc \in BOOLEAN, DeviceAsksParams(g, peerLesc),
             UNCHANGED writeVars
      PROVE  Rest /\ Changed
  <2> DEFINE x == [conn |-> g, evt |-> "sec_params_request",
                   val |-> [id |-> pairing[g].id, lesc |-> peerLesc, ok |-> TRUE]]
             r == [pairing[g] EXCEPT !.state = "asked", !.peerLesc = peerLesc]
  <2>1. x \in QueueEvents
    BY <1>2, NamesDiffer, ValueTypes DEF AuthEvents
  <2>2. r \in PairingRecord
    BY <1>1 DEF PairingRecord, PairingStates
  <2>3. pairing' = [pairing EXCEPT ![g] = r] /\ queue' = Append(queue, x) /\ Paired(g, "started")
    BY <1>1, <1>3 DEF DeviceAsksParams, Deliver
  <2>4. UNCHANGED <<up, keyset, orderly>> /\ Rest
    BY <1>1, <1>3 DEF DeviceAsksParams, keyVars, writeVars
  <2>5. DeviceChange(g, x, r)
    BY <2>3, <2>4 DEF DeviceChange
  <2>6. QED
    BY <2>1, <2>2, <2>4, <2>5
<1>4. ASSUME NEW g \in Conns, DeviceAsksDhKey(g), UNCHANGED writeVars
      PROVE  Rest /\ Changed
  <2> DEFINE x == [conn |-> g, evt |-> "lesc_dhkey_request",
                   val |-> [id |-> pairing[g].id, lesc |-> FALSE, ok |-> FALSE]]
             r == [pairing[g] EXCEPT !.state = "dh_asked"]
  <2>1. x \in QueueEvents
    BY <1>2, NamesDiffer, ValueTypes DEF AuthEvents
  <2>2. r \in PairingRecord
    BY <1>1 DEF PairingRecord, PairingStates
  <2>3. /\ pairing' = [pairing EXCEPT ![g] = r] /\ queue' = Append(queue, x)
        /\ Paired(g, "replied") /\ lescOn[g] /\ pairing[g].peerLesc
    <3>1. [NoVal EXCEPT !.id = pairing[g].id]
            = [id |-> pairing[g].id, lesc |-> FALSE, ok |-> FALSE]
      BY <1>2, NamesDiffer, ValueTypes
    <3>2. QED
      BY <1>1, <1>4, <3>1 DEF DeviceAsksDhKey, Deliver
  <2>4. UNCHANGED <<up, keyset, orderly>> /\ Rest
    BY <1>1, <1>4 DEF DeviceAsksDhKey, keyVars, writeVars
  <2>5. DeviceChange(g, x, r)
    BY <2>3, <2>4 DEF DeviceChange
  <2>6. QED
    BY <2>1, <2>2, <2>4, <2>5
<1>5. ASSUME NEW g \in Conns, NEW ok \in BOOLEAN, EndPairing(g, ok)
      PROVE  \E x \in QueueEvents :
               /\ queue' = Append(queue, x) /\ pairing' = [pairing EXCEPT ![g] = Unpaired]
               /\ x.conn = g /\ x.evt = "auth_status" /\ x.val.id = pairing[g].id
               /\ x.val.ok = ok /\ x.val.lesc = (lescOn[g] /\ pairing[g].peerLesc)
  <2> DEFINE lesc == lescOn[g] /\ pairing[g].peerLesc
             x == [conn |-> g, evt |-> "auth_status",
                   val |-> [id |-> pairing[g].id, lesc |-> lesc, ok |-> ok]]
  <2>1. lesc \in BOOLEAN
    OBVIOUS
  <2>2. x \in QueueEvents
    BY <1>2, <2>1, NamesDiffer, ValueTypes DEF AuthEvents
  <2>3. pairing' = [pairing EXCEPT ![g] = Unpaired] /\ queue' = Append(queue, x)
    BY <1>5, Zenon DEF EndPairing, Deliver
  <2>4. /\ x.conn = g /\ x.evt = "auth_status" /\ x.val.id = pairing[g].id
        /\ x.val.ok = ok /\ x.val.lesc = lesc
    OBVIOUS
  <2>5. QED
    BY <2>2, <2>3, <2>4
<1>6. ASSUME NEW g \in Conns, DeviceCompletes(g), UNCHANGED writeVars
      PROVE  Rest /\ Changed
  <2>1. PICK x \in QueueEvents :
          /\ queue' = Append(queue, x) /\ pairing' = [pairing EXCEPT ![g] = Unpaired]
          /\ x.conn = g /\ x.evt = "auth_status" /\ x.val.id = pairing[g].id
          /\ x.val.ok = TRUE /\ x.val.lesc = (lescOn[g] /\ pairing[g].peerLesc)
    BY <1>6, <1>5 DEF DeviceCompletes
  <2>2. /\ (Paired(g, "replied") /\ ~(lescOn[g] /\ pairing[g].peerLesc)) \/ Paired(g, "dh_replied")
        /\ keyset' = [keyset EXCEPT !.peer = pairing[g].id] /\ UNCHANGED <<up, orderly>>
    BY <1>6 DEF DeviceCompletes
  <2>3. Rest
    BY <1>1, <1>6 DEF DeviceCompletes, writeVars
  <2>4. ~Paired(g, "none")
    BY <2>2 DEF Paired
  <2>5. DeviceChange(g, x, Unpaired)
    BY <2>1, <2>2, <2>4 DEF DeviceChange
  <2>6. Unpaired \in PairingRecord
    BY <1>2, NamesDiffer, ValueTypes
  <2>7. QED
    BY <2>3, <2>5, <2>6
<1>7. ASSUME NEW g \in Conns, DeviceFails(g), UNCHANGED writeVars
      PROVE  Rest /\ Changed
  <2>1. PICK x \in QueueEvents :
          /\ queue' = Append(queue, x) /\ pairing' = [pairing EXCEPT ![g] = Unpaired]
          /\ x.conn = g /\ x.evt = "auth_status" /\ x.val.id = pairing[g].id
          /\ x.val.ok = FALSE /\ x.val.lesc = (lescOn[g] /\ pairing[g].peerLesc)
    BY <1>7, <1>5 DEF DeviceFails
  <2>2. /\ ~Paired(g, "none") /\ UNCHANGED <<up, keyset>>
        /\ pairing[g].state \in {"started", "asked"} => Disorder(g)
        /\ UNCHANGED orderly \/ Disorder(g)
    BY <1>7 DEF DeviceFails, keyVars
  <2>3. Rest
    BY <1>1, <1>7 DEF DeviceFails, Fault, writeVars, keyVars
  <2>4. DeviceChange(g, x, Unpaired)
    BY <2>1, <2>2 DEF DeviceChange
  <2>5. Unpaired \in PairingRecord
    BY <1>2, NamesDiffer, ValueTypes
  <2>6. QED
    BY <2>3, <2>4, <2>5
<1>8. ASSUME NEW g \in Conns, DeviceDisconnects(g), UNCHANGED writeVars
      PROVE  Rest /\ Changed
  <2> DEFINE x == [conn |-> g, evt |-> "disconnected", val |-> NoVal]
  <2>0. /\ NoVal = [id |-> NoPairing, lesc |-> FALSE, ok |-> FALSE] /\ NoPairing \in Ids
        /\ FALSE \in BOOLEAN /\ Unpaired \in PairingRecord
    BY <1>2, ValueTypes
  <2>1. x \in QueueEvents /\ NoVal.id = NoPairing
    BY <2>0, ValueTypes
  <2>2. /\ pairing' = [pairing EXCEPT ![g] = Unpaired] /\ queue' = Append(queue, x)
        /\ up' = up \ {g} /\ Disorder(g) /\ keyset' = keyset
    BY <1>8 DEF DeviceDisconnects, Deliver, keyVars
  <2>3. Rest
    BY <1>1, <1>8 DEF DeviceDisconnects, Fault, writeVars, keyVars
  <2>4. DeviceChange(g, x, Unpaired)
    BY <2>1, <2>2 DEF DeviceChange
  <2>5. QED
    BY <2>0, <2>1, <2>3, <2>4
<1>9. ASSUME NEW g \in Conns, DeviceTransmits(g)
      PROVE  Rest /\ Changed
  <2> DEFINE x == [conn |-> g, evt |-> TxComplete, val |-> NoVal]
  <2>0. NoVal = [id |-> NoPairing, lesc |-> FALSE, ok |-> FALSE] /\ NoPairing \in Ids
    BY <1>2, ValueTypes
  <2>1. x \in QueueEvents /\ NoVal.id = NoPairing /\ pairing[g] \in PairingRecord
    BY <1>1, <2>0, NamesDiffer, ValueTypes
  <2>2. /\ pairing' = [pairing EXCEPT ![g] = pairing[g]] /\ queue' = Append(queue, x)
        /\ UNCHANGED <<up, keyset, orderly>>
    BY <1>1, <1>9 DEF DeviceTransmits, Deliver, keyVars, deviceVars
  <2>3. used' \in [Conns -> 0..Buffers]
    BY <1>1, <1>9, NamesDiffer DEF DeviceTransmits
  <2>4. Rest
    BY <1>1, <1>9, <2>3 DEF DeviceTransmits, writeVars, keyVars, deviceVars
  <2>5. DeviceChange(g, x, pairing[g])
    BY <2>1, <2>2, NamesDiffer DEF DeviceChange, AuthEvents
  <2>6. QED
    BY <2>1, <2>4, <2>5
<1> HIDE DEF Rest, Changed
<1>10. Rest /\ Changed
  <2>1. CASE DeviceStep /\ UNCHANGED writeVars
    <3>1. CASE \E g \in Conns, peerLesc \in BOOLEAN : DeviceAsksParams(g, peerLesc)
      BY <1>3, <2>1, <3>1
    <3>2. CASE \E g \in Conns : DeviceAsksDhKey(g) \/ DeviceCompletes(g) \/ DeviceFails(g)
                               \/ DeviceDisconnects(g)
      BY <1>4, <1>6, <1>7, <1>8, <2>1, <3>2
    <3>3. QED
      BY <2>1, <3>1, <3>2 DEF DeviceStep
  <2>2. QED
    BY <1>9, <2>1 DEF DeviceMoves
<1>11. QED
  BY <1>10 DEF Rest, Changed

\* What the event worker and the handlers do.
HandlerMoves == Handler /\ UNCHANGED writeVars

\* What the thread c does.
CallMoves(c) ==
  \/ CallStep(c)
  \/ \E g \in Conns : BeginWrite(c, g)
  \/ \E g \in Conns : /\ Authenticate(c, g)
                      /\ accepted' = [accepted EXCEPT ![c] = 0]
                      /\ UNCHANGED <<used, tries>>

LEMMA Moves ==
  ASSUME [Next]_vars
  PROVE  DeviceMoves \/ HandlerMoves \/ (\E c \in Callers : CallMoves(c)) \/ UNCHANGED vars
  BY DEF Next, DeviceMoves, HandlerMoves, CallMoves

\* A step that leaves the thread d where it is.
Untouched(d) ==
  /\ stage'[d] = stage[d] /\ inWait'[d] = inWait[d] /\ conn'[d] = conn[d] /\ mine'[d] = mine[d]
  /\ outcome'[d] = outcome[d] /\ heard'[d] = heard[d] /\ todo'[d] = todo[d]
  /\ tries'[d] = tries[d] /\ accepted'[d] = accepted[d]
  /\ result'[d] = result[d] /\ pc'[d] = pc[d] /\ obj'[d] = obj[d] /\ want'[d] = want[d]

LEMMA UntouchedCallOk ==
  ASSUME NEW d \in Callers, CallOk(d), Untouched(d)
  PROVE  CallOk(d)'
  BY DEF CallOk, Untouched

\* A notification wakes waiting threads and changes nothing else about them.
AtMostWoken(d) ==
  /\ stage'[d] = stage[d] /\ inWait'[d] = inWait[d] /\ conn'[d] = conn[d] /\ mine'[d] = mine[d]
  /\ outcome'[d] = outcome[d] /\ heard'[d] = heard[d] /\ todo'[d] = todo[d]
  /\ tries'[d] = tries[d] /\ accepted'[d] = accepted[d]
  /\ result'[d] = result[d] /\ obj'[d] = obj[d] /\ want'[d] = want[d]
  /\ pc'[d] = pc[d] \/ (pc[d] = "waiting" /\ pc'[d] = "waking")

LEMMA WokenCallOk ==
  ASSUME NEW d \in Callers, CallOk(d), AtMostWoken(d)
  PROVE  CallOk(d)'
  BY DEF CallOk, AtMostWoken

LEMMA OthersUntouched ==
  ASSUME WriteTypeOK, NEW c \in Callers, CallMoves(c), NEW d \in Callers, d # c
  PROVE  Untouched(d)
<1>1. /\ stage \in [Callers -> Events \cup {"idle", "write"}] /\ inWait \in [Callers -> BOOLEAN]
      /\ conn \in [Callers -> Conns] /\ mine \in [Callers -> Ids]
      /\ outcome \in [Callers -> Outcomes] /\ heard \in [Callers -> BOOLEAN]
      /\ todo \in [Callers -> Seq(Calls)]
      /\ tries \in [Callers -> 0..MaxTries] /\ accepted \in [Callers -> 0..MaxTries]
  BY DEF WriteTypeOK, TypeOK
<1>2. /\ pc \in [Callers -> {"idle", "entering", "waiting", "waking"}]
      /\ obj \in [Callers -> Conns] /\ want \in [Callers -> Events]
      /\ result \in [Callers -> Sync!Answer \cup {Sync!None}]
  BY DEF WriteTypeOK, TypeOK, Sync!TypeOK
<1>3. CASE BeginWait(c) /\ UNCHANGED writeVars
  <2>1. UNCHANGED <<conn, mine, heard, todo, tries, accepted>>
    BY <1>3 DEF BeginWait, writeVars, authVars, appVars
  <2>2. stage'[d] = stage[d] /\ outcome'[d] = outcome[d] /\ inWait'[d] = inWait[d]
    BY <1>1, <1>3 DEF BeginWait, EndCall
  <2>3. /\ result'[d] = result[d] /\ pc'[d] = pc[d] /\ obj'[d] = obj[d] /\ want'[d] = want[d]
    BY <1>2, <1>3 DEF BeginWait, Sync!Wait, syncVars
  <2>4. QED
    BY <2>1, <2>2, <2>3 DEF Untouched
<1>4. CASE WaitStep(c) /\ UNCHANGED writeVars
  <2>1. UNCHANGED <<stage, inWait, outcome, conn, mine, heard, todo, tries, accepted>>
    BY <1>4 DEF WaitStep, writeVars, authVars, appVars
  <2>2. /\ result'[d] = result[d] /\ pc'[d] = pc[d] /\ obj'[d] = obj[d] /\ want'[d] = want[d]
    BY <1>2, <1>4 DEF WaitStep, Sync!Register, Sync!Return, Sync!Timeout
  <2>3. QED
    BY <2>1, <2>2 DEF Untouched
<1>5. CASE AuthStep(c) /\ UNCHANGED writeVars
  <2>1. UNCHANGED <<conn, mine, todo, tries, accepted, result, pc, obj, want>>
    BY <1>5 DEF AuthStep, GotParams, GotDhKey, GotStatus, syncVars, writeVars, appVars
  <2>2. inWait'[d] = inWait[d] /\ heard'[d] = heard[d]
    BY <1>1, <1>5 DEF AuthStep, GotParams, GotDhKey, GotStatus
  <2>3. stage'[d] = stage[d] /\ outcome'[d] = outcome[d]
    BY <1>1, <1>5 DEF AuthStep, GotParams, GotDhKey, GotStatus, ReplyParams, EndCall, NextStage
  <2>4. QED
    BY <2>1, <2>2, <2>3 DEF Untouched
<1>6. CASE Send(c)
  <2>1. UNCHANGED <<inWait, heard, conn, mine, todo, tries, result, pc, obj, want>>
    BY <1>6 DEF Send, syncVars, appVars
  <2>2. stage'[d] = stage[d] /\ outcome'[d] = outcome[d] /\ accepted'[d] = accepted[d]
    BY <1>1, <1>6 DEF Send, EndCall, NextStage
  <2>3. QED
    BY <2>1, <2>2 DEF Untouched
<1>7. CASE GotTxComplete(c)
  <2>1. UNCHANGED <<heard, conn, mine, todo, accepted, result, pc, obj, want>>
    BY <1>7 DEF GotTxComplete, syncVars, appVars
  <2>2. /\ stage'[d] = stage[d] /\ outcome'[d] = outcome[d] /\ tries'[d] = tries[d]
        /\ inWait'[d] = inWait[d]
    BY <1>1, <1>7 DEF GotTxComplete, EndCall, NextStage
  <2>3. QED
    BY <2>1, <2>2 DEF Untouched
<1>8. ASSUME NEW g \in Conns, BeginWrite(c, g)
      PROVE  Untouched(d)
  <2>1. UNCHANGED <<inWait, heard, result, pc, obj, want>>
    BY <1>8 DEF BeginWrite, syncVars
  <2>2. /\ stage'[d] = stage[d] /\ outcome'[d] = outcome[d] /\ tries'[d] = tries[d]
        /\ accepted'[d] = accepted[d] /\ mine'[d] = mine[d] /\ conn'[d] = conn[d]
        /\ todo'[d] = todo[d]
    BY <1>1, <1>8 DEF BeginWrite, Begins, EndCall
  <2>3. QED
    BY <2>1, <2>2 DEF Untouched
<1>9. ASSUME NEW g \in Conns, Authenticate(c, g), accepted' = [accepted EXCEPT ![c] = 0],
             UNCHANGED <<used, tries>>
      PROVE  Untouched(d)
  <2>1. UNCHANGED <<inWait, tries, result, pc, obj, want>>
    BY <1>9 DEF Authenticate, syncVars
  <2>2. /\ stage'[d] = stage[d] /\ outcome'[d] = outcome[d] /\ heard'[d] = heard[d]
        /\ accepted'[d] = accepted[d] /\ mine'[d] = mine[d] /\ conn'[d] = conn[d]
        /\ todo'[d] = todo[d]
    BY <1>1, <1>9 DEF Authenticate, Begins, EndCall
  <2>3. QED
    BY <2>1, <2>2 DEF Untouched
<1>10. QED
  BY <1>3, <1>4, <1>5, <1>6, <1>7, <1>8, <1>9 DEF CallMoves, CallStep

LEMMA HandlersWake ==
  ASSUME WriteTypeOK, HandlerMoves, NEW d \in Callers
  PROVE  AtMostWoken(d)
<1>1. UNCHANGED <<authVars, todo, tries, accepted, result, obj, want>>
  BY DEF HandlerMoves, Handler, OnDisconnected, OnNotify, OnParamsCallback, OnDhKeyCallback,
         syncVars, appVars, writeVars, Sync!Notify
<1>2. pc'[d] = pc[d] \/ (pc[d] = "waiting" /\ pc'[d] = "waking")
  BY DEF HandlerMoves, Handler, OnDisconnected, OnNotify, OnParamsCallback, OnDhKeyCallback,
         syncVars, Sync!Notify
<1>3. QED
  BY <1>1, <1>2 DEF AtMostWoken, authVars

\* The event that the worker handles is of the queue's type.
LEMMA HeadTypes ==
  ASSUME WriteTypeOK, queue # <<>>
  PROVE  /\ Head(queue) \in QueueEvents /\ Tail(queue) \in Seq(QueueEvents)
         /\ Head(queue).conn \in Conns /\ Head(queue).val \in Values
         /\ Head(queue).val.id \in Ids /\ Head(queue).val.lesc \in BOOLEAN
<1>1. queue \in Seq(QueueEvents)
  BY DEF WriteTypeOK, TypeOK
<1>2. Head(queue) \in QueueEvents /\ Tail(queue) \in Seq(QueueEvents)
  BY <1>1
<1>3. QED
  BY <1>2 DEF QueueEvents, Values

\* Types of what waits and notifications change.
LEMMA SyncTypes ==
  ASSUME Sync!TypeOK
  PROVE  /\ \A c \in Callers, g \in Conns, e \in Events : Sync!Wait(c, g, e) => Sync!TypeOK'
         /\ \A c \in Callers : Sync!CallerStep(c) => Sync!TypeOK'
         /\ \A g \in Conns, e \in Events, v \in Values : Sync!Notify(g, e, v) => Sync!TypeOK'
         /\ UNCHANGED syncVars => Sync!TypeOK'
<1>1. ASSUME NEW c \in Callers, NEW g \in Conns, NEW e \in Events, Sync!Wait(c, g, e)
      PROVE  Sync!TypeOK'
  BY <1>1 DEF Sync!TypeOK, Sync!Wait
<1>2. ASSUME NEW c \in Callers, Sync!CallerStep(c)
      PROVE  Sync!TypeOK'
  <2>1. data[obj[c]] \in Sync!Answer \cup {Sync!None}
    BY DEF Sync!TypeOK
  <2>2. QED
    BY <1>2, <2>1
       DEF Sync!TypeOK, Sync!CallerStep, Sync!Register, Sync!Timeout, Sync!Return
<1>3. ASSUME NEW g \in Conns, NEW e \in Events, NEW v \in Values, Sync!Notify(g, e, v)
      PROVE  Sync!TypeOK'
  <2>1. [evt |-> e, val |-> v] \in Sync!Answer
    BY DEF Sync!Answer
  <2>2. QED
    BY <1>3, <2>1 DEF Sync!TypeOK, Sync!Notify
<1>4. ASSUME UNCHANGED syncVars
      PROVE  Sync!TypeOK'
  BY <1>4 DEF Sync!TypeOK, syncVars
<1>5. QED
  BY <1>1, <1>2, <1>3, <1>4

\* The shared variables in three groups, for the proof of WriteTypeOK.
DeviceTypes ==
  /\ known \subseteq Conns /\ up \subseteq Conns
  /\ queue \in Seq(QueueEvents)
  /\ worker \in {"idle", "callback"}
  /\ pairing \in [Conns -> PairingRecord]
  /\ npairings \in Ids
  /\ faults \in Nat
  /\ used \in [Conns -> 0..Buffers]

KeyTypes ==
  /\ lescOn \in [Conns -> BOOLEAN]
  /\ privateKey \in Ids
  /\ keyset \in Keyset
  /\ kept \in [Conns -> Keyset]
  /\ crossed \subseteq Pairings

CallTypes ==
  /\ todo \in [Callers -> Seq(Calls)]
  /\ stage \in [Callers -> Events \cup {"idle", "write"}]
  /\ inWait \in [Callers -> BOOLEAN]
  /\ conn \in [Callers -> Conns]
  /\ mine \in [Callers -> Ids]
  /\ outcome \in [Callers -> Outcomes]
  /\ heard \in [Callers -> BOOLEAN]
  /\ orderly \in [Callers -> BOOLEAN]
  /\ tries \in [Callers -> 0..MaxTries]
  /\ accepted \in [Callers -> 0..MaxTries]

LEMMA TypeGroups ==
  /\ WriteTypeOK <=> Sync!TypeOK /\ DeviceTypes /\ KeyTypes /\ CallTypes
  /\ WriteTypeOK' <=> Sync!TypeOK' /\ DeviceTypes' /\ KeyTypes' /\ CallTypes'
  BY DEF WriteTypeOK, TypeOK, DeviceTypes, KeyTypes, CallTypes

LEMMA SharedUnchanged ==
  /\ DeviceTypes /\ UNCHANGED <<known, up, queue, worker, pairing, npairings, faults, used>>
       => DeviceTypes'
  /\ KeyTypes /\ UNCHANGED <<lescOn, privateKey, keyset, kept, crossed>> => KeyTypes'
  /\ CallTypes /\ UNCHANGED <<todo, stage, inWait, conn, mine, outcome, heard, orderly, tries, accepted>>
       => CallTypes'
  BY DEF DeviceTypes, KeyTypes, CallTypes

\* What a thread leaves alone.
LEMMA CallChanges ==
  ASSUME NEW c \in Callers, CallMoves(c)
  PROVE  UNCHANGED <<known, up, queue, worker, faults, lescOn, privateKey, keyset>>
<1>1. CASE BeginWait(c) \/ WaitStep(c)
  BY <1>1 DEF BeginWait, WaitStep, deviceVars, appVars, keyVars
<1>2. CASE AuthStep(c)
  BY <1>2 DEF AuthStep, GotParams, GotDhKey, GotStatus, deviceVars, appVars, keyVars
<1>3. CASE Send(c) \/ GotTxComplete(c)
  BY <1>3 DEF Send, GotTxComplete, deviceVars, appVars, keyVars
<1>4. ASSUME NEW g \in Conns, BeginWrite(c, g) \/ Authenticate(c, g)
      PROVE  UNCHANGED <<known, up, queue, worker, faults, lescOn, privateKey, keyset>>
  BY <1>4 DEF BeginWrite, Authenticate, deviceVars, keyVars
<1>5. QED
  BY <1>1, <1>2, <1>3, <1>4 DEF CallMoves, CallStep

\* The pairing after a step of the SoftDevice is the same one, or none.
LEMMA DeviceResults ==
  ASSUME DeviceTypes, PairedInv, NEW g \in Conns, NEW x \in QueueEvents, NEW r \in PairingRecord,
         DeviceChange(g, x, r)
  PROVE  /\ r.state = "none" <=> r.id = NoPairing
         /\ r.id \in {NoPairing, pairing[g].id}
         /\ x.val.id \in {NoPairing, pairing[g].id}
         /\ Auth(x) => x.val.id = pairing[g].id /\ x.val.id # NoPairing
<1>1. pairing[g] \in PairingRecord /\ (Paired(g, "none") <=> pairing[g].id = NoPairing)
  BY DEF DeviceTypes, PairedInv
<1>2. CASE /\ x.evt = "sec_params_request" /\ x.val.id = pairing[g].id
           /\ Paired(g, "started")
           /\ r = [pairing[g] EXCEPT !.state = "asked", !.peerLesc = x.val.lesc]
  BY <1>1, <1>2 DEF Paired, PairingRecord
<1>3. CASE /\ x.evt = "lesc_dhkey_request" /\ x.val.id = pairing[g].id /\ Paired(g, "replied")
           /\ r = [pairing[g] EXCEPT !.state = "dh_asked"]
  BY <1>1, <1>3 DEF Paired, PairingRecord
<1>4. CASE x.evt = "auth_status" /\ x.val.id = pairing[g].id /\ ~Paired(g, "none") /\ r = Unpaired
  BY <1>1, <1>4 DEF Unpaired
<1>5. CASE x.evt = "disconnected" /\ x.val.id = NoPairing /\ r = Unpaired
  BY <1>1, <1>5 DEF Unpaired, Auth, AuthEvents
<1>6. CASE x.evt = TxComplete /\ x.val.id = NoPairing /\ r = pairing[g]
  BY <1>1, <1>6, NamesDiffer DEF Paired, Auth
<1>7. QED
  BY <1>2, <1>3, <1>4, <1>5, <1>6 DEF DeviceChange

LEMMA DeviceTyped ==
  ASSUME Typed, DeviceMoves
  PROVE  Typed'
<1>1. /\ WriteTypeOK /\ PairedInv /\ WorkerOk /\ Sync!TypeOK /\ DeviceTypes /\ KeyTypes /\ CallTypes
      /\ \A d \in Callers : CallOk(d)
  BY TypeGroups DEF Typed
<1>2. /\ UNCHANGED <<syncVars, known, worker, npairings, appVars, privateKey, kept, authVars,
                     tries, accepted>>
      /\ faults' \in Nat /\ used' \in [Conns -> 0..Buffers]
  BY <1>1, DeviceChanges
<1>3. PICK g \in Conns, x \in QueueEvents, r \in PairingRecord : DeviceChange(g, x, r)
  BY <1>1, DeviceChanges
<1>4. /\ queue' = Append(queue, x) /\ queue \in Seq(QueueEvents) /\ queue' \in Seq(QueueEvents)
      /\ up' \subseteq Conns
      /\ pairing' = [pairing EXCEPT ![g] = r] /\ pairing' \in [Conns -> PairingRecord]
  BY <1>1, <1>3 DEF DeviceChange, DeviceTypes
<1>5. DeviceTypes'
  BY <1>1, <1>2, <1>4 DEF DeviceTypes
<1>6. KeyTypes'
  <2>1. x.val.id \in Ids
    BY DEF QueueEvents, Values
  <2>2. keyset' \in Keyset
    BY <1>1, <1>3, <2>1 DEF DeviceChange, KeyTypes, Keyset
  <2>3. QED
    BY <1>1, <1>2, <2>2 DEF KeyTypes, appVars, authVars
<1>7. CallTypes'
  <2>1. orderly' \in [Callers -> BOOLEAN]
    <3>1. orderly' = orderly \/ Disorder(g)
      BY <1>3 DEF DeviceChange
    <3>2. QED
      BY <1>1, <3>1 DEF Disorder, CallTypes
  <2>2. QED
    BY <1>1, <1>2, <2>1 DEF CallTypes, appVars, authVars
<1>8. WriteTypeOK'
  BY <1>1, <1>2, <1>5, <1>6, <1>7, SyncTypes, TypeGroups
<1>9. PairedInv'
  <2>1. r.state = "none" <=> r.id = NoPairing
    BY <1>1, <1>3, DeviceResults
  <2>2. QED
    BY <1>1, <1>4, <2>1 DEF PairedInv, Paired, DeviceTypes
<1>10. WorkerOk'
  BY <1>1, <1>2, <1>4 DEF WorkerOk
<1>11. \A d \in Callers : CallOk(d)'
  <2>1. \A d \in Callers : Untouched(d)
    BY <1>2 DEF Untouched, syncVars, appVars, authVars
  <2>2. QED
    BY <1>1, <2>1, UntouchedCallOk
<1>12. QED
  BY <1>8, <1>9, <1>10, <1>11 DEF Typed

\* Replies change the pairing on one connection, which stays under way.
Replied(g, id) == [pairing EXCEPT ![g].state = "replied", ![g].pk = id]
DhReplied(g, id) == [pairing EXCEPT ![g].state = "dh_replied", ![g].dh = id]

LEMMA Replies ==
  ASSUME DeviceTypes, NEW g \in Conns, NEW id \in Ids,
         NEW p, p = Replied(g, id) \/ p = DhReplied(g, id)
  PROVE  /\ p \in [Conns -> PairingRecord]
         /\ \A h \in Conns \ {g} : p[h] = pairing[h]
         /\ \A h \in Conns : p[h].id = pairing[h].id /\ p[h].peerLesc = pairing[h].peerLesc
         /\ p = Replied(g, id) => p[g].state = "replied" /\ p[g].pk = id
         /\ p = DhReplied(g, id) =>
              p[g].state = "dh_replied" /\ p[g].pk = pairing[g].pk /\ p[g].dh = id
<1>1. pairing \in [Conns -> PairingRecord] /\ pairing[g] \in PairingRecord
  BY DEF DeviceTypes
<1>2. CASE p = Replied(g, id)
  <2> DEFINE r == [pairing[g] EXCEPT !.state = "replied", !.pk = id]
  <2>1. p = [pairing EXCEPT ![g] = r]
    BY <1>1, <1>2 DEF Replied
  <2>2. /\ r \in PairingRecord /\ r.id = pairing[g].id /\ r.peerLesc = pairing[g].peerLesc
        /\ r.state = "replied" /\ r.pk = id
    BY <1>1 DEF PairingRecord, PairingStates
  <2>3. p[g] = r /\ \A h \in Conns \ {g} : p[h] = pairing[h]
    BY <1>1, <2>1
  <2> HIDE DEF r
  <2>4. "replied" # "dh_replied"
    OBVIOUS
  <2>5. p # DhReplied(g, id)
    <3>1. DhReplied(g, id)[g].state = "dh_replied"
      BY <1>1 DEF DhReplied, PairingRecord
    <3>2. QED
      BY <2>2, <2>3, <2>4, <3>1
  <2>6. QED
    BY <1>1, <2>1, <2>2, <2>3, <2>5
<1>3. CASE p = DhReplied(g, id)
  <2> DEFINE r == [pairing[g] EXCEPT !.state = "dh_replied", !.dh = id]
  <2>1. p = [pairing EXCEPT ![g] = r]
    BY <1>1, <1>3 DEF DhReplied
  <2>2. /\ r \in PairingRecord /\ r.id = pairing[g].id /\ r.peerLesc = pairing[g].peerLesc
        /\ r.state = "dh_replied" /\ r.pk = pairing[g].pk /\ r.dh = id
    BY <1>1 DEF PairingRecord, PairingStates
  <2>3. p[g] = r /\ \A h \in Conns \ {g} : p[h] = pairing[h]
    BY <1>1, <2>1
  <2> HIDE DEF r
  <2>4. "replied" # "dh_replied"
    OBVIOUS
  <2>5. p # Replied(g, id)
    <3>1. Replied(g, id)[g].state = "replied"
      BY <1>1 DEF Replied, PairingRecord
    <3>2. QED
      BY <2>2, <2>3, <2>4, <3>1
  <2>6. QED
    BY <1>1, <2>1, <2>2, <2>3, <2>5
<1>4. QED
  BY <1>2, <1>3

LEMMA HandlerTyped ==
  ASSUME Typed, HandlerMoves
  PROVE  Typed'
<1>1. /\ WriteTypeOK /\ PairedInv /\ WorkerOk /\ Sync!TypeOK /\ DeviceTypes /\ KeyTypes /\ CallTypes
      /\ \A d \in Callers : CallOk(d)
  BY TypeGroups DEF Typed
<1>2. \A d \in Callers : CallOk(d)'
  BY <1>1, HandlersWake, WokenCallOk
<1>3. CASE OnDisconnected /\ UNCHANGED writeVars
  <2>1. /\ known' = known \ {Head(queue).conn} /\ queue' = Tail(queue) /\ queue # <<>>
        /\ UNCHANGED <<syncVars, worker, deviceVars, appVars, keyVars, authVars, orderly, writeVars>>
        /\ worker = "idle"
    BY <1>3 DEF OnDisconnected, Handling
  <2>2. DeviceTypes'
    BY <1>1, <2>1, HeadTypes DEF DeviceTypes, deviceVars, writeVars
  <2>3. KeyTypes' /\ CallTypes' /\ Sync!TypeOK'
    BY <1>1, <2>1, SharedUnchanged, SyncTypes DEF deviceVars, appVars, keyVars, authVars, writeVars
  <2>4. PairedInv' /\ WorkerOk'
    BY <1>1, <2>1 DEF PairedInv, Paired, WorkerOk, deviceVars
  <2>5. QED
    BY <1>2, <2>2, <2>3, <2>4, TypeGroups DEF Typed
<1>4. CASE OnNotify /\ UNCHANGED writeVars
  <2> DEFINE e == Head(queue)
             g == e.conn
             called == e.evt \in {"sec_params_request", "lesc_dhkey_request"}
  <2>1. /\ queue # <<>> /\ e.evt \in Events /\ worker = "idle"
        /\ keyset' = IF e.evt = "lesc_dhkey_request" THEN [keyset EXCEPT !.peerPk = e.val.id]
                     ELSE keyset
        /\ UNCHANGED <<known, deviceVars, appVars, privateKey, kept, authVars, writeVars>>
    BY <1>4 DEF OnNotify, Handling
  <2>2. \/ g \notin known /\ queue' = Tail(queue) /\ UNCHANGED <<syncVars, worker, orderly>>
        \/ /\ Sync!Notify(g, e.evt, e.val)
           /\ worker' = IF called THEN "callback" ELSE "idle"
           /\ queue' = IF called THEN queue ELSE Tail(queue)
           /\ orderly' = [c \in Callers |->
                orderly[c] /\ (conn[c] = g /\ stage[c] # "idle" =>
                  pc[c] = "waiting" /\ want[c] = e.evt /\ e.val.id = mine[c])]
    BY <1>4 DEF OnNotify
  <2>3. /\ e \in QueueEvents /\ Tail(queue) \in Seq(QueueEvents)
        /\ g \in Conns /\ e.val \in Values /\ e.val.id \in Ids
    BY <1>1, <2>1, HeadTypes
  <2>4. queue' \in Seq(QueueEvents) /\ worker' \in {"idle", "callback"}
    BY <1>1, <2>1, <2>2, <2>3 DEF DeviceTypes
  <2>5. DeviceTypes'
    BY <1>1, <2>1, <2>4 DEF DeviceTypes, deviceVars, writeVars
  <2>6. KeyTypes'
    <3>1. keyset' \in Keyset
      BY <1>1, <2>1, <2>3 DEF KeyTypes, Keyset
    <3>2. QED
      BY <1>1, <2>1, <3>1 DEF KeyTypes, appVars, authVars
  <2>7. CallTypes'
    <3>1. orderly' \in [Callers -> BOOLEAN]
      BY <1>1, <2>2 DEF CallTypes
    <3>2. QED
      BY <1>1, <2>1, <3>1 DEF CallTypes, appVars, authVars, writeVars
  <2>8. Sync!TypeOK'
    BY <1>1, <2>1, <2>2, <2>3, SyncTypes
  <2>9. PairedInv' /\ WorkerOk'
    <3>1. PairedInv'
      BY <1>1, <2>1 DEF PairedInv, Paired, deviceVars
    <3>2. worker' = "callback" => queue' = queue /\ called
      BY <2>1, <2>2
    <3>3. QED
      BY <2>1, <3>1, <3>2 DEF WorkerOk
  <2>10. QED
    BY <1>2, <2>5, <2>6, <2>7, <2>8, <2>9, TypeGroups DEF Typed
<1>5. CASE OnParamsCallback /\ UNCHANGED writeVars
  <2> DEFINE e == Head(queue)
             g == e.conn
  <2>1. /\ queue # <<>> /\ queue' = Tail(queue) /\ worker' = "idle"
        /\ UNCHANGED <<syncVars, known, up, npairings, faults, appVars, kept, authVars, orderly, writeVars>>
    BY <1>5 DEF OnParamsCallback, Handling, EndCallback
  <2>2. \/ UNCHANGED <<pairing, privateKey, keyset>>
        \/ /\ privateKey' = e.val.id
           /\ keyset' = [keyset EXCEPT !.own = e.val.id]
           /\ \/ Paired(g, "asked") /\ pairing' = Replied(g, e.val.id)
              \/ pairing' = pairing
    BY <1>5 DEF OnParamsCallback, DeviceTakesParams, Replied
  <2>3. /\ e \in QueueEvents /\ Tail(queue) \in Seq(QueueEvents)
        /\ g \in Conns /\ e.val \in Values /\ e.val.id \in Ids
    BY <1>1, <2>1, HeadTypes
  <2>4. /\ pairing' \in [Conns -> PairingRecord]
        /\ \A h \in Conns : /\ Paired(h, "none")' <=> Paired(h, "none")
                            /\ pairing'[h].id = pairing[h].id
    <3>1. CASE pairing' = pairing
      BY <1>1, <3>1 DEF DeviceTypes, Paired
    <3>2. CASE Paired(g, "asked") /\ pairing' = Replied(g, e.val.id)
      BY <1>1, <2>3, <3>2, Replies DEF DeviceTypes, Paired
    <3>3. QED
      BY <2>2, <3>1, <3>2
  <2>5. DeviceTypes'
    BY <1>1, <2>1, <2>3, <2>4 DEF DeviceTypes, writeVars
  <2>6. KeyTypes'
    <3>1. keyset' \in Keyset /\ privateKey' \in Ids
      BY <1>1, <2>2, <2>3 DEF KeyTypes, Keyset
    <3>2. QED
      BY <1>1, <2>1, <3>1 DEF KeyTypes, appVars, authVars
  <2>7. CallTypes' /\ Sync!TypeOK'
    BY <1>1, <2>1, SharedUnchanged, SyncTypes DEF appVars, authVars, writeVars
  <2>8. PairedInv' /\ WorkerOk'
    BY <1>1, <2>1, <2>4 DEF PairedInv, WorkerOk
  <2>9. QED
    BY <1>2, <2>5, <2>6, <2>7, <2>8, TypeGroups DEF Typed
<1>6. CASE OnDhKeyCallback /\ UNCHANGED writeVars
  <2> DEFINE g == Head(queue).conn
  <2>1. /\ queue # <<>> /\ queue' = Tail(queue) /\ worker' = "idle"
        /\ UNCHANGED <<syncVars, known, up, npairings, faults, appVars, keyVars, authVars, orderly, writeVars>>
        /\ \/ Paired(g, "dh_asked") /\ pairing' = DhReplied(g, privateKey)
           \/ pairing' = pairing
    BY <1>6 DEF OnDhKeyCallback, Handling, EndCallback, DhReplied
  <2>2. g \in Conns /\ Tail(queue) \in Seq(QueueEvents)
    BY <1>1, <2>1, HeadTypes
  <2>3. privateKey \in Ids
    BY <1>1 DEF KeyTypes
  <2>4. /\ pairing' \in [Conns -> PairingRecord]
        /\ \A h \in Conns : /\ Paired(h, "none")' <=> Paired(h, "none")
                            /\ pairing'[h].id = pairing[h].id
    <3>1. CASE pairing' = pairing
      BY <1>1, <3>1 DEF DeviceTypes, Paired
    <3>2. CASE Paired(g, "dh_asked") /\ pairing' = DhReplied(g, privateKey)
      <4>1. /\ pairing' \in [Conns -> PairingRecord] /\ pairing'[g].state = "dh_replied"
            /\ \A h \in Conns \ {g} : pairing'[h] = pairing[h]
            /\ \A h \in Conns : pairing'[h].id = pairing[h].id
        BY <1>1, <2>2, <2>3, <3>2, Replies
      <4>2. QED
        BY <2>2, <3>2, <4>1 DEF Paired
    <3>3. QED
      BY <2>1, <3>1, <3>2
  <2>5. DeviceTypes'
    BY <1>1, <2>1, <2>2, <2>4 DEF DeviceTypes, writeVars
  <2>6. KeyTypes' /\ CallTypes' /\ Sync!TypeOK'
    BY <1>1, <2>1, SharedUnchanged, SyncTypes DEF appVars, keyVars, authVars, writeVars
  <2>7. PairedInv' /\ WorkerOk'
    BY <1>1, <2>1, <2>4 DEF PairedInv, WorkerOk
  <2>8. QED
    BY <1>2, <2>5, <2>6, <2>7, TypeGroups DEF Typed
<1>7. QED
  BY <1>3, <1>4, <1>5, <1>6 DEF HandlerMoves, Handler

\* A pairing that begins.
Started(g, id) == [pairing EXCEPT ![g] = [Unpaired EXCEPT !.id = id, !.state = "started"]]

LEMMA Starts ==
  ASSUME DeviceTypes, NEW g \in Conns, NEW id \in Ids, NEW p, p = Started(g, id)
  PROVE  /\ p \in [Conns -> PairingRecord]
         /\ \A h \in Conns \ {g} : p[h] = pairing[h]
         /\ p[g].id = id /\ p[g].state = "started"
<1> DEFINE r == [Unpaired EXCEPT !.id = id, !.state = "started"]
<1>1. r \in PairingRecord /\ r.id = id /\ r.state = "started"
  BY DEF Unpaired, NoPairing, Ids, PairingRecord, PairingStates
<1>2. p = [pairing EXCEPT ![g] = r] /\ pairing \in [Conns -> PairingRecord]
  BY DEF Started, DeviceTypes
<1> HIDE DEF r
<1>3. QED
  BY <1>1, <1>2

\* Where a call goes on, and how it ends.
LEMMA CallUpdates ==
  ASSUME CallTypes, NEW c \in Callers
  PROVE  /\ \A s \in Events \cup {"idle", "write"} :
              [stage EXCEPT ![c] = s] \in [Callers -> Events \cup {"idle", "write"}]
         /\ \A o \in Outcomes :
              outcome' = [outcome EXCEPT ![c] = o] => outcome' \in [Callers -> Outcomes]
         /\ UNCHANGED outcome => outcome' \in [Callers -> Outcomes]
         /\ \A s, o : /\ stage' = [stage EXCEPT ![c] = s] => stage'[c] = s
                      /\ outcome' = [outcome EXCEPT ![c] = o] => outcome'[c] = o
  BY DEF CallTypes

LEMMA AuthenticateTyped ==
  ASSUME Typed, NEW c \in Callers, NEW g \in Conns, Authenticate(c, g),
         accepted' = [accepted EXCEPT ![c] = 0], UNCHANGED <<used, tries>>
  PROVE  WriteTypeOK' /\ PairedInv' /\ CallOk(c)'
<1>1. /\ Sync!TypeOK /\ DeviceTypes /\ KeyTypes /\ CallTypes /\ PairedInv /\ CallOk(c)
  BY TypeGroups DEF Typed
<1> DEFINE id == npairings + 1
<1>2. /\ stage[c] = "idle" /\ todo' = [todo EXCEPT ![c] = Tail(@)] /\ conn' = [conn EXCEPT ![c] = g]
      /\ todo[c] # <<>>
      /\ heard' = [heard EXCEPT ![c] = FALSE] /\ orderly' = [orderly EXCEPT ![c] = TRUE]
      /\ UNCHANGED <<syncVars, known, queue, worker, up, faults, lescOn, keyVars, inWait>>
  BY DEF Authenticate, Begins
<1>3. \/ /\ npairings' = id /\ mine' = [mine EXCEPT ![c] = id]
         /\ pairing' = Started(g, id)
         /\ stage' = [stage EXCEPT ![c] = "sec_params_request"]
         /\ outcome' = [outcome EXCEPT ![c] = "none_yet"]
         /\ crossed' = crossed \cup Others(g) \cup (IF Others(g) = {} THEN {} ELSE {id})
      \/ /\ stage' = [stage EXCEPT ![c] = "idle"] /\ outcome' = [outcome EXCEPT ![c] = "error"]
         /\ mine' = [mine EXCEPT ![c] = NoPairing]
         /\ UNCHANGED <<npairings, pairing, crossed>>
  BY DEF Authenticate, Started, EndCall
<1>4. id \in Ids /\ id # NoPairing /\ NoPairing \in Ids
  BY <1>1 DEF DeviceTypes, Ids, NoPairing
<1>5. pairing' \in [Conns -> PairingRecord] /\ npairings' \in Ids
  BY <1>1, <1>3, <1>4, Starts DEF DeviceTypes
<1>6. PairedInv'
  <2>1. CASE pairing' = Started(g, id)
    <3>1. /\ \A h \in Conns \ {g} : pairing'[h] = pairing[h]
          /\ pairing'[g].id = id /\ pairing'[g].state = "started"
      BY <1>1, <1>4, <2>1, Starts
    <3>2. QED
      BY <1>1, <1>4, <3>1 DEF PairedInv, Paired
  <2>2. QED
    BY <1>1, <1>3, <2>1 DEF PairedInv, Paired
<1>7. crossed' \subseteq Pairings
  <2>1. Others(g) \subseteq Pairings
    <3>1. \A h \in Conns : ~Paired(h, "none") => pairing[h].id \in Pairings
      BY <1>1 DEF PairedInv, Pairings, NoPairing, Ids, DeviceTypes, PairingRecord
    <3>2. \A d \in Callers : mine[d] # NoPairing => mine[d] \in Pairings
      BY <1>1 DEF Pairings, NoPairing, Ids, CallTypes
    <3>3. \A i \in DOMAIN queue : queue[i].val.id \in Ids
      <4>1. \A i \in DOMAIN queue : queue[i] \in QueueEvents
        BY <1>1 DEF DeviceTypes
      <4>2. QED
        BY <4>1 DEF QueueEvents, Values
    <3>4. QED
      BY <3>1, <3>2, <3>3 DEF Others, Pairings, NoPairing, Ids
  <2>2. id \in Pairings
    BY <1>4 DEF Pairings, NoPairing, Ids
  <2>3. QED
    BY <1>1, <1>3, <2>1, <2>2 DEF KeyTypes
<1>8. DeviceTypes' /\ KeyTypes' /\ Sync!TypeOK'
  BY <1>1, <1>2, <1>5, <1>7, SyncTypes DEF DeviceTypes, KeyTypes, keyVars
<1>9. CallTypes'
  <2>1. todo[c] \in Seq(Calls) /\ todo' \in [Callers -> Seq(Calls)]
    BY <1>1, <1>2 DEF CallTypes
  <2>2. /\ conn' \in [Callers -> Conns] /\ heard' \in [Callers -> BOOLEAN]
        /\ orderly' \in [Callers -> BOOLEAN]
    BY <1>1, <1>2 DEF CallTypes
  <2>3. stage' \in [Callers -> Events \cup {"idle", "write"}]
    BY <1>1, <1>3, NamesDiffer, CallUpdates
  <2>4. outcome' \in [Callers -> Outcomes]
    BY <1>1, <1>3 DEF CallTypes, Outcomes
  <2>5. mine' \in [Callers -> Ids]
    BY <1>1, <1>3, <1>4 DEF CallTypes
  <2>6. accepted' \in [Callers -> 0..MaxTries]
    BY <1>1, NamesDiffer DEF CallTypes
  <2>7. QED
    BY <1>1, <1>2, <2>1, <2>2, <2>3, <2>4, <2>5, <2>6 DEF CallTypes
<1>10. CallOk(c)'
  <2>1. pc'[c] = "idle" /\ inWait'[c] = FALSE /\ accepted'[c] = 0
    BY <1>1, <1>2, NamesDiffer DEF CallOk, CallTypes, syncVars
  <2>2. \/ stage'[c] = "sec_params_request" /\ outcome'[c] = "none_yet" /\ mine'[c] # NoPairing
        \/ stage'[c] = "idle" /\ outcome'[c] = "error"
    BY <1>1, <1>3, <1>4 DEF CallTypes
  <2>3. QED
    BY <2>1, <2>2, NamesDiffer DEF CallOk, AuthEvents, TimesTaken
<1>11. QED
  BY <1>6, <1>8, <1>9, <1>10, TypeGroups

LEMMA WritesTyped ==
  ASSUME Typed, NEW c \in Callers,
         Send(c) \/ GotTxComplete(c) \/ \E g \in Conns : BeginWrite(c, g)
  PROVE  WriteTypeOK' /\ PairedInv' /\ CallOk(c)'
<1>1. /\ Sync!TypeOK /\ DeviceTypes /\ KeyTypes /\ CallTypes /\ PairedInv /\ CallOk(c)
  BY TypeGroups DEF Typed
<1>2. /\ UNCHANGED <<syncVars, known, queue, worker, up, pairing, npairings, faults, lescOn,
                     privateKey, keyset, kept, heard, crossed, orderly>>
  BY DEF Send, GotTxComplete, BeginWrite, deviceVars, appVars, keyVars
<1>3. KeyTypes' /\ Sync!TypeOK' /\ PairedInv'
  BY <1>1, <1>2, SyncTypes DEF KeyTypes, PairedInv, Paired
<1>4. CASE Send(c)
  <2> DEFINE g == conn[c]
  <2>1. /\ stage[c] = "write" /\ UNCHANGED <<todo, inWait, conn, mine, tries>>
        /\ \/ /\ used[g] < Buffers /\ used' = [used EXCEPT ![g] = @ + 1]
              /\ accepted' = [accepted EXCEPT ![c] = @ + 1]
              /\ stage' = [stage EXCEPT ![c] = "idle"]
              /\ \E o \in {"sent", "error"} : outcome' = [outcome EXCEPT ![c] = o]
           \/ /\ stage' = [stage EXCEPT ![c] = TxComplete] /\ UNCHANGED <<outcome, used, accepted>>
           \/ /\ stage' = [stage EXCEPT ![c] = "idle"] /\ outcome' = [outcome EXCEPT ![c] = "error"]
              /\ UNCHANGED <<used, accepted>>
    BY <1>4 DEF Send, EndCall, NextStage, appVars
  <2>2. g \in Conns /\ used[g] \in 0..Buffers
    BY <1>1 DEF DeviceTypes, CallTypes
  <2>3. used' \in [Conns -> 0..Buffers]
    <3>1. CASE used[g] < Buffers /\ used' = [used EXCEPT ![g] = used[g] + 1]
      <4>1. used[g] + 1 \in 0..Buffers
        BY <2>2, <3>1, NamesDiffer
      <4>2. QED
        BY <1>1, <2>2, <3>1, <4>1 DEF DeviceTypes
    <3>2. QED
      BY <1>1, <2>1, <3>1 DEF DeviceTypes
  <2>4. accepted[c] = 0 /\ outcome[c] = "none_yet" /\ pc[c] = "idle" /\ inWait[c] = FALSE
        /\ tries[c] < MaxTries
    BY <1>1, <2>1, NamesDiffer DEF CallOk, CallTypes, TimesTaken
  <2>5. accepted' \in [Callers -> 0..MaxTries]
    BY <1>1, <2>1, <2>4, NamesDiffer DEF CallTypes
  <2>6. /\ stage' \in [Callers -> Events \cup {"idle", "write"}] /\ outcome' \in [Callers -> Outcomes]
    <3>1. "sent" \in Outcomes /\ "error" \in Outcomes
      BY DEF Outcomes
    <3>2. stage' \in [Callers -> Events \cup {"idle", "write"}]
      BY <1>1, <2>1, NamesDiffer, CallUpdates
    <3>3. outcome' \in [Callers -> Outcomes]
      BY <1>1, <2>1, <3>1, CallUpdates
    <3>4. QED
      BY <3>2, <3>3
  <2>7. CallTypes'
    BY <1>1, <1>2, <2>1, <2>5, <2>6 DEF CallTypes
  <2>8. DeviceTypes'
    BY <1>1, <1>2, <2>3 DEF DeviceTypes
  <2>9. \/ stage'[c] = "idle" /\ outcome'[c] \in {"sent", "error"} /\ accepted'[c] = 1
        \/ stage'[c] = TxComplete /\ outcome'[c] = "none_yet" /\ accepted'[c] = 0
        \/ stage'[c] = "idle" /\ outcome'[c] = "error" /\ accepted'[c] = 0
    <3>1. CASE /\ accepted' = [accepted EXCEPT ![c] = accepted[c] + 1]
               /\ stage' = [stage EXCEPT ![c] = "idle"]
               /\ \E o \in {"sent", "error"} : outcome' = [outcome EXCEPT ![c] = o]
      BY <1>1, <2>4, <3>1 DEF CallTypes
    <3>2. CASE UNCHANGED <<outcome, accepted>> /\ stage' = [stage EXCEPT ![c] = TxComplete]
      BY <1>1, <2>4, <3>2 DEF CallTypes
    <3>3. CASE /\ stage' = [stage EXCEPT ![c] = "idle"] /\ outcome' = [outcome EXCEPT ![c] = "error"]
               /\ UNCHANGED accepted
      BY <1>1, <2>4, <3>3 DEF CallTypes
    <3>4. QED
      BY <2>1, <3>1, <3>2, <3>3
  <2>10. pc'[c] = "idle" /\ inWait'[c] = FALSE /\ tries'[c] < MaxTries
    BY <1>2, <2>1, <2>4 DEF syncVars
  <2>11. CallOk(c)'
    BY <2>9, <2>10, NamesDiffer DEF CallOk, AuthEvents, TimesTaken
  <2>12. QED
    BY <1>3, <2>7, <2>8, <2>11, TypeGroups
<1>5. CASE GotTxComplete(c)
  <2>1. /\ stage[c] = TxComplete /\ pc[c] = "idle"
        /\ inWait' = [inWait EXCEPT ![c] = FALSE] /\ tries' = [tries EXCEPT ![c] = tries[c] + 1]
        /\ UNCHANGED <<todo, conn, mine, used, accepted>>
        /\ IF tries[c] + 1 = MaxTries
             THEN stage' = [stage EXCEPT ![c] = "idle"] /\ outcome' = [outcome EXCEPT ![c] = "exhausted"]
             ELSE stage' = [stage EXCEPT ![c] = "write"] /\ UNCHANGED outcome
    BY <1>5 DEF GotTxComplete, WaitedFor, EndCall, NextStage, appVars
  <2>2. outcome[c] = "none_yet" /\ tries[c] < MaxTries /\ accepted[c] = 0 /\ tries[c] \in 0..MaxTries
    BY <1>1, <2>1, NamesDiffer DEF CallOk, CallTypes, TimesTaken
  <2>3. tries[c] + 1 \in 0..MaxTries /\ tries' \in [Callers -> 0..MaxTries] /\ tries'[c] = tries[c] + 1
    <3>1. tries[c] + 1 \in 0..MaxTries
      BY <2>2, NamesDiffer
    <3>2. QED
      BY <1>1, <2>1, <3>1 DEF CallTypes
  <2>4. stage' \in [Callers -> Events \cup {"idle", "write"}] /\ outcome' \in [Callers -> Outcomes]
    <3>1. "exhausted" \in Outcomes
      BY DEF Outcomes
    <3>2. stage' \in [Callers -> Events \cup {"idle", "write"}]
      BY <1>1, <2>1, NamesDiffer, CallUpdates
    <3>3. outcome' \in [Callers -> Outcomes]
      BY <1>1, <2>1, <3>1, CallUpdates
    <3>4. QED
      BY <3>2, <3>3
  <2>5. inWait' \in [Callers -> BOOLEAN] /\ inWait'[c] = FALSE
    BY <1>1, <2>1 DEF CallTypes
  <2>6. CallTypes' /\ DeviceTypes'
    BY <1>1, <1>2, <2>1, <2>3, <2>4, <2>5 DEF CallTypes, DeviceTypes
  <2>7. \/ stage'[c] = "idle" /\ outcome'[c] = "exhausted"
        \/ stage'[c] = "write" /\ outcome'[c] = "none_yet" /\ tries'[c] < MaxTries
    <3>1. CASE tries[c] + 1 = MaxTries
      BY <1>1, <2>1, <3>1, CallUpdates
    <3>2. CASE tries[c] + 1 # MaxTries
      <4>1. stage'[c] = "write" /\ outcome' = outcome
        BY <1>1, <2>1, <3>2, CallUpdates
      <4>2. tries'[c] < MaxTries
        BY <2>2, <2>3, <3>2, NamesDiffer
      <4>3. QED
        BY <2>2, <4>1, <4>2
    <3>3. QED
      BY <3>1, <3>2
  <2>8. CallOk(c)'
    BY <1>2, <2>1, <2>2, <2>5, <2>7, NamesDiffer DEF CallOk, AuthEvents, TimesTaken, syncVars
  <2>9. QED
    BY <1>3, <2>6, <2>8, TypeGroups
<1>6. ASSUME NEW g \in Conns, BeginWrite(c, g)
      PROVE  WriteTypeOK' /\ PairedInv' /\ CallOk(c)'
  <2>1. /\ stage[c] = "idle" /\ todo' = [todo EXCEPT ![c] = Tail(@)] /\ todo[c] # <<>>
        /\ conn' = [conn EXCEPT ![c] = g] /\ mine' = [mine EXCEPT ![c] = NoPairing]
        /\ tries' = [tries EXCEPT ![c] = 0] /\ accepted' = [accepted EXCEPT ![c] = 0]
        /\ UNCHANGED <<inWait, used>>
    BY <1>6 DEF BeginWrite, Begins
  <2>2. \/ /\ stage' = [stage EXCEPT ![c] = "idle"]
           /\ \/ outcome' = [outcome EXCEPT ![c] = "error"]
              \/ outcome' = [outcome EXCEPT ![c] = "key_error"]
        \/ /\ stage' = [stage EXCEPT ![c] = "write"]
           /\ outcome' = [outcome EXCEPT ![c] = "none_yet"]
    BY <1>6 DEF BeginWrite, EndCall
  <2>3. stage' \in [Callers -> Events \cup {"idle", "write"}] /\ outcome' \in [Callers -> Outcomes]
    <3>1. "error" \in Outcomes /\ "key_error" \in Outcomes /\ "none_yet" \in Outcomes
      BY DEF Outcomes
    <3>2. stage' \in [Callers -> Events \cup {"idle", "write"}]
      BY <1>1, <2>2, NamesDiffer, CallUpdates
    <3>3. outcome' \in [Callers -> Outcomes]
      BY <1>1, <2>2, <3>1, CallUpdates
    <3>4. QED
      BY <3>2, <3>3
  <2>4. todo[c] \in Seq(Calls) /\ todo' \in [Callers -> Seq(Calls)]
    BY <1>1, <2>1 DEF CallTypes
  <2>5. conn' \in [Callers -> Conns] /\ mine' \in [Callers -> Ids]
    BY <1>1, <2>1 DEF CallTypes, NoPairing, Ids
  <2>6. /\ tries' \in [Callers -> 0..MaxTries] /\ accepted' \in [Callers -> 0..MaxTries]
        /\ tries'[c] = 0 /\ accepted'[c] = 0
    BY <1>1, <2>1, NamesDiffer DEF CallTypes
  <2>7. CallTypes' /\ DeviceTypes'
    BY <1>1, <1>2, <2>1, <2>3, <2>4, <2>5, <2>6 DEF CallTypes, DeviceTypes
  <2>8. pc'[c] = "idle" /\ inWait'[c] = FALSE
    BY <1>1, <1>2, <2>1, NamesDiffer DEF CallOk, CallTypes, syncVars
  <2>9. \/ stage'[c] = "idle" /\ outcome'[c] \in {"error", "key_error"}
        \/ stage'[c] = "write" /\ outcome'[c] = "none_yet"
    BY <1>1, <2>2, CallUpdates
  <2>10. CallOk(c)'
    BY <2>6, <2>8, <2>9, NamesDiffer DEF CallOk, AuthEvents, TimesTaken
  <2>11. QED
    BY <1>3, <2>7, <2>10, TypeGroups
<1>7. QED
  BY <1>4, <1>5, <1>6

LEMMA WaitsTyped ==
  ASSUME Typed, NEW c \in Callers, BeginWait(c) \/ WaitStep(c), UNCHANGED writeVars
  PROVE  WriteTypeOK' /\ PairedInv' /\ CallOk(c)'
<1>1. /\ Sync!TypeOK /\ DeviceTypes /\ KeyTypes /\ CallTypes /\ PairedInv /\ CallOk(c)
  BY TypeGroups DEF Typed
<1>2. UNCHANGED <<known, queue, worker, deviceVars, appVars, keyVars, conn, mine, heard, crossed,
                  writeVars>>
  BY DEF BeginWait, WaitStep, authVars
<1>3. DeviceTypes' /\ KeyTypes' /\ PairedInv'
  BY <1>1, <1>2
     DEF DeviceTypes, KeyTypes, PairedInv, Paired, deviceVars, appVars, keyVars, writeVars
<1>4. conn[c] \in Conns
  BY <1>1 DEF CallTypes
<1>5. CASE BeginWait(c)
  <2> DEFINE g == conn[c]
  <2>1. /\ stage[c] \in Events /\ inWait[c] = FALSE /\ pc[c] = "idle" /\ outcome[c] = "none_yet"
    BY <1>1, <1>5, NamesDiffer DEF BeginWait, CallOk, CallTypes
  <2>2. CASE g \notin known
    <3>1. /\ stage' = [stage EXCEPT ![c] = "idle"] /\ outcome' = [outcome EXCEPT ![c] = "key_error"]
          /\ UNCHANGED <<syncVars, inWait, orderly>>
      BY <1>5, <2>2 DEF BeginWait, EndCall
    <3>2. stage' \in [Callers -> Events \cup {"idle", "write"}] /\ stage'[c] = "idle"
      BY <1>1, <3>1, NamesDiffer, CallUpdates
    <3>3. outcome' \in [Callers -> Outcomes] /\ outcome'[c] = "key_error"
      <4>1. "key_error" \in Outcomes
        BY DEF Outcomes
      <4>2. QED
        BY <1>1, <3>1, <4>1, CallUpdates
    <3>4. CallTypes' /\ Sync!TypeOK'
      BY <1>1, <1>2, <3>1, <3>2, <3>3, SyncTypes DEF CallTypes, appVars, writeVars
    <3>5. accepted[c] = 0
      BY <1>1, <2>1 DEF CallOk, TimesTaken
    <3>6. pc'[c] = "idle" /\ inWait'[c] = FALSE /\ accepted'[c] = 0
      BY <1>2, <2>1, <3>1, <3>5 DEF syncVars, writeVars
    <3>7. CallOk(c)'
      BY <3>2, <3>3, <3>6, NamesDiffer DEF CallOk, AuthEvents, TimesTaken
    <3>8. QED
      BY <1>3, <3>4, <3>7, TypeGroups
  <2>3. CASE g \in known
    <3>1. /\ Sync!Wait(c, g, stage[c]) /\ inWait' = [inWait EXCEPT ![c] = TRUE]
          /\ orderly' = [d \in Callers |-> orderly[d] /\ (d # c /\ stage[d] # "idle" => conn[d] # g)]
          /\ UNCHANGED <<stage, outcome>>
      BY <1>5, <2>3 DEF BeginWait
    <3>2. Sync!TypeOK'
      BY <1>1, <1>4, <2>1, <3>1, SyncTypes
    <3>3. CallTypes'
      <4>1. orderly' \in [Callers -> BOOLEAN] /\ inWait' \in [Callers -> BOOLEAN]
        BY <1>1, <3>1 DEF CallTypes
      <4>2. QED
        BY <1>1, <1>2, <3>1, <4>1 DEF CallTypes, appVars, writeVars
    <3>4. CallOk(c)'
      <4>1. inWait'[c] = TRUE /\ obj'[c] = g /\ want'[c] = stage[c]
        BY <1>1, <3>1 DEF CallTypes, Sync!Wait, Sync!TypeOK
      <4>2. /\ stage'[c] = stage[c] /\ outcome'[c] = outcome[c] /\ tries'[c] = tries[c]
            /\ conn'[c] = g /\ mine'[c] = mine[c] /\ accepted'[c] = accepted[c]
        BY <1>2, <3>1 DEF writeVars
      <4>3. QED
        BY <1>1, <2>1, <4>1, <4>2 DEF CallOk
    <3>5. QED
      BY <1>3, <3>2, <3>3, <3>4, TypeGroups
  <2>4. QED
    BY <2>2, <2>3
<1>6. CASE WaitStep(c)
  <2>1. Sync!CallerStep(c) /\ UNCHANGED authVars
    BY <1>6 DEF WaitStep, Sync!CallerStep
  <2>2. Sync!TypeOK'
    BY <1>1, <2>1, SyncTypes
  <2>3. orderly' \in [Callers -> BOOLEAN]
    BY <1>1, <1>6 DEF WaitStep, CallTypes
  <2>4. CallTypes'
    BY <1>1, <1>2, <2>1, <2>3 DEF CallTypes, authVars, appVars, writeVars
  <2>5. pc[c] # "idle" /\ UNCHANGED <<obj, want>>
    BY <2>1 DEF Sync!CallerStep, Sync!Register, Sync!Timeout, Sync!Return
  <2>6. CallOk(c)'
    BY <1>1, <1>2, <2>1, <2>5 DEF CallOk, authVars, writeVars
  <2>7. QED
    BY <1>3, <2>2, <2>4, <2>6, TypeGroups
<1>7. QED
  BY <1>5, <1>6

\* How a step of authenticate after a wait ends it or goes on.
GoesOn(c) ==
  \/ /\ stage' = [stage EXCEPT ![c] = "idle"]
     /\ \E o \in Outcomes \ {"none_yet", "sent", "success"} : outcome' = [outcome EXCEPT ![c] = o]
  \/ /\ stage' = [stage EXCEPT ![c] = "idle"] /\ outcome' = [outcome EXCEPT ![c] = "success"]
     /\ stage[c] = "auth_status"
  \/ UNCHANGED outcome /\ \E e \in AuthEvents : stage' = [stage EXCEPT ![c] = e]

LEMMA AuthTyped ==
  ASSUME Typed, NEW c \in Callers, AuthStep(c), UNCHANGED writeVars
  PROVE  WriteTypeOK' /\ PairedInv' /\ CallOk(c)'
<1>1. /\ Sync!TypeOK /\ DeviceTypes /\ KeyTypes /\ CallTypes /\ PairedInv /\ CallOk(c)
  BY TypeGroups DEF Typed
<1>2. /\ stage[c] \in AuthEvents /\ pc[c] = "idle" /\ inWait' = [inWait EXCEPT ![c] = FALSE]
      /\ UNCHANGED <<syncVars, known, queue, worker, up, npairings, faults, appVars, privateKey, keyset,
                     conn, mine, crossed, orderly, writeVars>>
  BY DEF AuthStep, GotParams, GotDhKey, GotStatus, WaitedFor, AuthEvents, deviceVars, keyVars
<1>3. \/ UNCHANGED pairing
      \/ Paired(conn[c], "asked") /\ pairing' = Replied(conn[c], keyset.own)
  BY DEF AuthStep, GotParams, GotDhKey, GotStatus, ReplyParams, DeviceTakesParams, deviceVars, Replied
<1>4. GoesOn(c)
  <2>1. CASE GotParams(c)
    <3>1. \/ EndCall(c, "type_error") \/ EndCall(c, "key_error") \/ EndCall(c, "error")
          \/ NextStage(c, "lesc_dhkey_request") \/ NextStage(c, "auth_status")
      BY <2>1 DEF GotParams, ReplyParams
    <3>2. QED
      BY <3>1 DEF EndCall, NextStage, GoesOn, AuthEvents, Outcomes
  <2>2. CASE GotDhKey(c)
    BY <2>2 DEF GotDhKey, NextStage, GoesOn, AuthEvents
  <2>3. CASE GotStatus(c)
    <3>1. /\ stage[c] = "auth_status"
          /\ \E o \in Outcomes \ {"none_yet", "sent"} : EndCall(c, o)
      BY <2>3 DEF GotStatus, WaitedFor, Outcomes
    <3>2. QED
      BY <3>1 DEF EndCall, GoesOn
  <2>4. QED
    BY <2>1, <2>2, <2>3 DEF AuthStep
<1>5. keyset.own \in Ids /\ conn[c] \in Conns
  BY <1>1 DEF KeyTypes, Keyset, CallTypes
<1>6. /\ pairing' \in [Conns -> PairingRecord]
      /\ \A h \in Conns : /\ Paired(h, "none")' <=> Paired(h, "none")
                          /\ pairing'[h].id = pairing[h].id
  <2>1. CASE Paired(conn[c], "asked") /\ pairing' = Replied(conn[c], keyset.own)
    <3>1. /\ pairing' \in [Conns -> PairingRecord] /\ pairing'[conn[c]].state = "replied"
          /\ \A h \in Conns \ {conn[c]} : pairing'[h] = pairing[h]
          /\ \A h \in Conns : pairing'[h].id = pairing[h].id
      BY <1>1, <1>5, <2>1, Replies
    <3>2. QED
      BY <1>5, <2>1, <3>1 DEF Paired
  <2>2. QED
    BY <1>1, <1>3, <2>1 DEF DeviceTypes, Paired
<1>7. DeviceTypes' /\ PairedInv' /\ Sync!TypeOK'
  BY <1>1, <1>2, <1>6, SyncTypes DEF DeviceTypes, PairedInv, writeVars
<1>8. KeyTypes'
  <2>1. kept' \in [Conns -> Keyset]
    BY <1>1, <1>5 DEF AuthStep, GotParams, GotDhKey, GotStatus, keyVars, KeyTypes
  <2>2. QED
    BY <1>1, <1>2, <2>1 DEF KeyTypes, appVars
<1>9. CallTypes'
  <2>1. stage' \in [Callers -> Events \cup {"idle", "write"}]
    BY <1>1, <1>4, NamesDiffer, CallUpdates DEF GoesOn
  <2>2. outcome' \in [Callers -> Outcomes]
    <3>1. "success" \in Outcomes
      BY DEF Outcomes
    <3>2. QED
      BY <1>1, <1>4, <3>1, CallUpdates DEF GoesOn
  <2>3. heard' \in [Callers -> BOOLEAN] /\ inWait' \in [Callers -> BOOLEAN]
    BY <1>1, <1>2 DEF AuthStep, GotParams, GotDhKey, GotStatus, CallTypes
  <2>4. QED
    BY <1>1, <1>2, <2>1, <2>2, <2>3 DEF CallTypes, appVars, writeVars
<1>10. CallOk(c)'
  <2>1. /\ outcome[c] = "none_yet" /\ accepted[c] = 0 /\ mine[c] # NoPairing
    BY <1>1, <1>2, NamesDiffer DEF CallOk, AuthEvents, TimesTaken
  <2>2. /\ pc'[c] = "idle" /\ inWait'[c] = FALSE /\ accepted'[c] = 0 /\ mine'[c] # NoPairing
    BY <1>1, <1>2, <2>1 DEF CallTypes, syncVars, writeVars
  <2>3. \/ stage'[c] = "idle" /\ outcome'[c] \notin {"none_yet", "sent"}
        \/ stage'[c] \in AuthEvents /\ outcome'[c] = "none_yet"
    <3>1. CASE UNCHANGED outcome /\ \E e \in AuthEvents : stage' = [stage EXCEPT ![c] = e]
      BY <1>1, <2>1, <3>1, CallUpdates
    <3>2. CASE /\ stage' = [stage EXCEPT ![c] = "idle"]
               /\ \E o \in Outcomes \ {"none_yet", "sent"} : outcome' = [outcome EXCEPT ![c] = o]
      BY <1>1, <3>2, CallUpdates
    <3>3. "success" \in Outcomes \ {"none_yet", "sent"}
      BY DEF Outcomes
    <3>4. QED
      BY <1>4, <3>1, <3>2, <3>3 DEF GoesOn
  <2>4. QED
    BY <2>2, <2>3, NamesDiffer DEF CallOk, AuthEvents, TimesTaken
<1>11. QED
  BY <1>7, <1>8, <1>9, <1>10, TypeGroups

LEMMA CallTyped ==
  ASSUME Typed, NEW c \in Callers, CallMoves(c)
  PROVE  Typed'
<1>1. WriteTypeOK /\ WorkerOk /\ \A d \in Callers : CallOk(d)
  BY DEF Typed
<1>2. WriteTypeOK' /\ PairedInv' /\ CallOk(c)'
  BY AuthenticateTyped, WritesTyped, WaitsTyped, AuthTyped DEF CallMoves, CallStep
<1>3. WorkerOk'
  BY <1>1, CallChanges DEF WorkerOk
<1>4. \A d \in Callers : d # c => CallOk(d)'
  BY <1>1, OthersUntouched, UntouchedCallOk
<1>5. QED
  BY <1>2, <1>3, <1>4 DEF Typed

LEMMA TypedStep ==
  ASSUME Typed, [Next]_vars
  PROVE  Typed'
<1>1. CASE UNCHANGED vars
  <2>1. WriteTypeOK'
    BY <1>1 DEF Typed, WriteTypeOK, TypeOK, Sync!TypeOK, vars, pairingVars, syncVars, deviceVars,
                appVars, keyVars, authVars, writeVars
  <2>2. PairedInv' /\ WorkerOk'
    BY <1>1 DEF Typed, PairedInv, Paired, WorkerOk, vars, pairingVars, deviceVars
  <2>3. \A d \in Callers : CallOk(d)'
    BY <1>1 DEF Typed, CallOk, vars, pairingVars, syncVars, authVars, writeVars
  <2>4. QED
    BY <2>1, <2>2, <2>3 DEF Typed
<1>2. QED
  BY <1>1, Moves, DeviceTyped, HandlerTyped, CallTyped

LEMMA TypedInit ==
  ASSUME WriteInit
  PROVE  Typed
<1>1. PICK p \in Programs : Init(p) /\ used = p.packets
  BY DEF WriteInit
<1>2. /\ p.calls \in [Callers -> Seq(Calls)] /\ p.lesc \in [Conns -> BOOLEAN]
      /\ p.packets \in [Conns -> Nat] /\ p.faults \in Nat
      /\ \A g \in Conns : p.packets[g] <= Buffers
  BY ProgramsAssumption, WriteAssumption DEF Program, ProgramsAssumption, WriteAssumption
<1> DEFINE g == CHOOSE x \in Conns : TRUE
           e == CHOOSE x \in AuthEvents : TRUE
<1>3. g \in Conns
  BY CentralAssumption DEF CentralAssumption
<1>4. e \in Events
  BY NamesDiffer DEF AuthEvents
<1>5. /\ Sync!Init /\ obj = [c \in Callers |-> g] /\ want = [c \in Callers |-> e]
      /\ conn = [c \in Callers |-> g]
      /\ known = Conns /\ up = Conns /\ queue = <<>> /\ worker = "idle"
      /\ pairing = [h \in Conns |-> Unpaired] /\ npairings = 0 /\ faults = p.faults
  BY <1>1 DEF Init
<1>6. /\ todo = p.calls /\ lescOn = p.lesc /\ privateKey = NoPairing /\ keyset = NoKeys
      /\ kept = [h \in Conns |-> NoKeys]
      /\ stage = [c \in Callers |-> "idle"] /\ inWait = [c \in Callers |-> FALSE]
      /\ mine = [c \in Callers |-> NoPairing] /\ outcome = [c \in Callers |-> "none_yet"]
      /\ heard = [c \in Callers |-> FALSE] /\ crossed = {}
      /\ orderly = [c \in Callers |-> TRUE]
  BY <1>1 DEF Init
<1>7. used = p.packets /\ tries = [c \in Callers |-> 0] /\ accepted = [c \in Callers |-> 0]
  BY <1>1 DEF WriteInit
<1> HIDE DEF g, e
<1>8. Unpaired \in PairingRecord /\ Unpaired.state = "none" /\ Unpaired.id = NoPairing
  BY <1>3, <1>4, ValueTypes DEF NoPairing, Ids
<1>9. NoKeys \in Keyset /\ NoPairing \in Ids
  BY DEF NoKeys, Keyset, NoPairing, Ids
<1>10. Sync!TypeOK
  BY <1>3, <1>4, <1>5 DEF Sync!Init, Sync!TypeOK
<1>11. used \in [Conns -> 0..Buffers]
  BY <1>2, <1>7, NamesDiffer
<1>12. DeviceTypes
  BY <1>2, <1>5, <1>8, <1>11 DEF DeviceTypes, Ids
<1>13. KeyTypes
  BY <1>2, <1>6, <1>9 DEF KeyTypes
<1>14. CallTypes
  BY <1>2, <1>3, <1>5, <1>6, <1>7, <1>9, NamesDiffer DEF CallTypes, Outcomes
<1>15. PairedInv /\ WorkerOk
  BY <1>5, <1>8 DEF PairedInv, Paired, WorkerOk
<1>16. \A c \in Callers : CallOk(c)
  BY <1>5, <1>6, <1>7, NamesDiffer DEF CallOk, Sync!Init, AuthEvents, TimesTaken
<1>17. QED
  BY <1>10, <1>12, <1>13, <1>14, <1>15, <1>16, TypeGroups DEF Typed

LEMMA TypedAlways == Spec => []Typed
BY TypedInit, TypedStep, PTL DEF Spec

-----------------------------------------------------------------------------
(* Every variable of write_cmd and authenticate has its type.              *)
THEOREM TypeCorrect == Spec => []WriteTypeOK
<1>1. Typed => WriteTypeOK
  BY DEF Typed
<1>2. QED
  BY <1>1, TypedAlways, PTL

(* A packet that write_cmd reports as sent was taken once, one it gave up  *)
(* was never taken, and none is ever taken twice: because a call that goes *)
(* round its loop again has not ended and sent nothing yet, whatever woke it. *)
THEOREM PacketSentOnce == Spec => []SentOnce
<1>1. Typed => SentOnce
  BY DEF Typed, CallOk, SentOnce
<1>2. QED
  BY <1>1, TypedAlways, PTL
=============================================================================
