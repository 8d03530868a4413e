---------------------------- MODULE Authenticate ----------------------------
(***************************************************************************)
(* BLEAdapter.authenticate (ble_adapter.py), which waits for up to three   *)
(* events one after the other, together with what the rest of a pairing    *)
(* needs: the handlers of these events, the application's callbacks that   *)
(* answer the SoftDevice in an LE Secure Connections (LESC) pairing        *)
(* (tests/test_lesc_security.py), and the key material, of which a driver  *)
(* has ONE set for all its connections: _keyset and _lesc_private_key.     *)
(*                                                                         *)
(* Waits and notifications are steps of module Rendezvous, which EvtSync   *)
(* implements, with one object for each connection.  Events reach the      *)
(* handlers through one queue, in order (EventChannel).  A connection is   *)
(* not made again after it ended: the reuse of handles is in module        *)
(* BLEAdapter.  Pairings are numbered, and a key is named by the number of *)
(* the pairing it was made in.                                             *)
(***************************************************************************)
EXTENDS Integers, Sequences

CONSTANTS
  Callers, Conns,    \* application threads, connections
  NoEvent, NoValue,  \* see EvtSync
  Central,           \* the connections in which this side is the central
  OtherEvents,       \* ids notified that authenticate does not wait for
  Programs           \* bound: what the application does, and how much may fail

AuthEvents == {"sec_params_request", "lesc_dhkey_request", "auth_status"}
Events == AuthEvents \cup OtherEvents

ASSUME CentralAssumption == Conns # {} /\ Central \subseteq Conns
ASSUME EventNamesAssumption ==
  /\ OtherEvents \cap (AuthEvents \cup {"disconnected", "idle", "write"}) = {}
  /\ NoEvent \notin Events
\* The calls each thread makes, where the application wants LESC, how many
\* packets an earlier write_cmd has left on their way, and a bound on the
\* pairings that fail and the connections that end.
Calls == {"authenticate", "write_cmd"} \X Conns
Program == [calls : [Callers -> Seq(Calls)], lesc : [Conns -> BOOLEAN], packets : [Conns -> Nat], faults : Nat]

ASSUME ProgramsAssumption == Programs \subseteq Program

Pairings == Nat \ {0}
NoPairing == 0
Ids == Nat

\* What an event carries: its pairing, whether the peer wants LESC (at the end:
\* whether it was used), success.
Values == [id : Ids, lesc : BOOLEAN, ok : BOOLEAN]

VARIABLES
  data, pc, obj, want, result,  \* the EvtSync objects
  known,     \* the connections that have their entries in both tables
  queue,     \* events delivered and not yet handled
  worker,    \* what the event worker is in the middle of
  up,        \* SoftDevice: the connections
  pairing,   \* SoftDevice: the pairing under way on each connection
  npairings, faults,   \* how many pairings there have been, how many faults may come
  todo,      \* the calls each thread still makes
  lescOn,    \* the application wants LESC on that connection
  privateKey,  \* driver._lesc_private_key
  keyset,    \* driver._keyset
  kept,      \* kept[g]: db_conns[g]._keyset
  stage,     \* the event for which each thread waits next or waits now;
             \* "write" belongs to module WriteCmd
  inWait,    \* whether it is inside that wait
  conn, mine,  \* its connection and the pairing it started
  outcome,   \* how its last call ended
  heard,     \* history: its first wait returned the request of its pairing
  crossed,   \* history: the pairings that overlapped another one
  orderly    \* history: every event came while it was waited for

syncVars == <<data, pc, obj, want, result>>
deviceVars == <<up, pairing, npairings, faults>>
appVars == <<todo, lescOn>>
keyVars == <<privateKey, keyset, kept>>
authVars == <<stage, inWait, conn, mine, outcome, heard, crossed>>
pairingVars == <<syncVars, known, queue, worker, deviceVars, appVars, keyVars, authVars, orderly>>

Sync == INSTANCE Rendezvous WITH Objects <- Conns

\* Whose own public key, whose peer's public key and keys.
Keyset == [own : Ids, peerPk : Ids, peer : Ids]
NoKeys == [own |-> NoPairing, peerPk |-> NoPairing, peer |-> NoPairing]

\* pk: the public key the peer was given; dh: the private key of the answer.
PairingStates == {"none", "started", "asked", "replied", "dh_asked", "dh_replied"}
PairingRecord == [id : Ids, state : PairingStates, peerLesc : BOOLEAN, pk : Ids, dh : Ids]
Unpaired == [id |-> NoPairing, state |-> "none", peerLesc |-> FALSE, pk |-> NoPairing, dh |-> NoPairing]

QueueEvents == [conn : Conns, evt : Events \cup {"disconnected"}, val : Values]
NoVal == [id |-> NoPairing, lesc |-> FALSE, ok |-> FALSE]

Outcomes == {"none_yet", "success", "refused", "no_status", "type_error", "key_error", "error",
             "sent", "exhausted"}

TypeOK ==
  /\ Sync!TypeOK
  /\ known \subseteq Conns /\ up \subseteq Conns
  /\ queue \in Seq(QueueEvents)
  /\ worker \in {"idle", "callback"}
  /\ pairing \in [Conns -> PairingRecord]
  /\ npairings \in Ids
  /\ faults \in Nat
  /\ todo \in [Callers -> Seq(Calls)]
  /\ lescOn \in [Conns -> BOOLEAN]
  /\ privateKey \in Ids
  /\ keyset \in Keyset
  /\ kept \in [Conns -> Keyset]
  /\ stage \in [Callers -> Events \cup {"idle", "write"}]
  /\ inWait \in [Callers -> BOOLEAN]
  /\ conn \in [Callers -> Conns]
  /\ mine \in [Callers -> Ids]
  /\ outcome \in [Callers -> Outcomes]
  /\ heard \in [Callers -> BOOLEAN]
  /\ crossed \subseteq Pairings
  /\ orderly \in [Callers -> BOOLEAN]

\* The application runs the program p.
Init(p) ==
  LET g == CHOOSE x \in Conns : TRUE
      e == CHOOSE x \in AuthEvents : TRUE IN
  /\ Sync!Init
  /\ obj = [c \in Callers |-> g]
  /\ want = [c \in Callers |-> e]
  /\ known = Conns /\ up = Conns
  /\ queue = <<>> /\ worker = "idle"
  /\ pairing = [h \in Conns |-> Unpaired]
  /\ npairings = 0 /\ faults = p.faults
  /\ todo = p.calls /\ lescOn = p.lesc
  /\ privateKey = NoPairing /\ keyset = NoKeys
  /\ kept = [h \in Conns |-> NoKeys]
  /\ stage = [c \in Callers |-> "idle"]
  /\ inWait = [c \in Callers |-> FALSE]
  /\ conn = [c \in Callers |-> g]
  /\ mine = [c \in Callers |-> NoPairing]
  /\ outcome = [c \in Callers |-> "none_yet"]
  /\ heard = [c \in Callers |-> FALSE]
  /\ crossed = {}
  /\ orderly = [c \in Callers |-> TRUE]

-----------------------------------------------------------------------------
(* The SoftDevice and the peer.                                             *)

Paired(g, state) == pairing[g].state = state

Deliver(g, e, v) == queue' = Append(queue, [conn |-> g, evt |-> e, val |-> v])

\* Something came between the threads in a call on g and what they wait for.
Disorder(g) == orderly' = [c \in Callers |-> orderly[c] /\ (stage[c] = "idle" \/ conn[c] # g)]

\* The peer's parameters have arrived.
DeviceAsksParams(g, peerLesc) ==
  LET id == pairing[g].id IN
  /\ Paired(g, "started")
  /\ pairing' = [pairing EXCEPT ![g].state = "asked", ![g].peerLesc = peerLesc]
  /\ Deliver(g, "sec_params_request", [id |-> id, lesc |-> peerLesc, ok |-> TRUE])
  /\ UNCHANGED <<syncVars, known, worker, up, npairings, faults, appVars, keyVars, authVars, orderly>>

\* Both sides have exchanged their public keys.
DeviceAsksDhKey(g) ==
  /\ Paired(g, "replied")
  /\ lescOn[g] /\ pairing[g].peerLesc
  /\ pairing' = [pairing EXCEPT ![g].state = "dh_asked"]
  /\ Deliver(g, "lesc_dhkey_request", [NoVal EXCEPT !.id = pairing[g].id])
  /\ UNCHANGED <<syncVars, known, worker, up, npairings, faults, appVars, keyVars, authVars, orderly>>

EndPairing(g, ok) ==
  /\ pairing' = [pairing EXCEPT ![g] = Unpaired]
  /\ Deliver(g, "auth_status",
             [id |-> pairing[g].id, lesc |-> lescOn[g] /\ pairing[g].peerLesc, ok |-> ok])

\* Success: the peer's keys are written to the keyset of the reply.  In an LESC
\* pairing both sides must have come to the same shared secret.
DeviceCompletes(g) ==
  /\ \/ Paired(g, "replied") /\ ~(lescOn[g] /\ pairing[g].peerLesc)
     \/ Paired(g, "dh_replied") /\ pairing[g].dh = pairing[g].pk
  /\ EndPairing(g, TRUE)
  /\ keyset' = [keyset EXCEPT !.peer = pairing[g].id]
  /\ UNCHANGED <<syncVars, known, worker, up, npairings, faults, appVars, privateKey, kept,
                 authVars, orderly>>

Fault == faults > 0 /\ faults' = faults - 1

\* The peer refuses, or takes too long, at any moment.
DeviceFails(g) ==
  /\ ~Paired(g, "none")
  /\ Fault
  /\ EndPairing(g, FALSE)
  /\ IF pairing[g].state \in {"started", "asked"} THEN Disorder(g) ELSE UNCHANGED orderly
  /\ UNCHANGED <<syncVars, known, worker, up, npairings, appVars, keyVars, authVars>>

DeviceDisconnects(g) ==
  /\ g \in up
  /\ Fault
  /\ up' = up \ {g}
  /\ pairing' = [pairing EXCEPT ![g] = Unpaired]
  /\ Deliver(g, "disconnected", NoVal)
  /\ Disorder(g)
  /\ UNCHANGED <<syncVars, known, worker, npairings, appVars, keyVars, authVars>>

\* The SoftDevice takes a reply when it has asked for one; a central has given
\* its parameters in sd_ble_gap_authenticate and must not give them again.
DeviceTakesParams(g, given) == Paired(g, "asked") /\ given = (g \notin Central)

-----------------------------------------------------------------------------
(* The event worker.                                                        *)

Handling(es) == queue # <<>> /\ Head(queue).evt \in es

OnDisconnected ==
  /\ Handling({"disconnected"}) /\ worker = "idle"
  /\ known' = known \ {Head(queue).conn}
  /\ queue' = Tail(queue)
  /\ UNCHANGED <<syncVars, worker, deviceVars, appVars, keyVars, authVars, orderly>>

\* Mutant of OnNotify: all connections share one EvtSync object.
OnNotifyOneObject ==
  LET e == Head(queue)
      g == e.conn
      called == e.evt \in {"sec_params_request", "lesc_dhkey_request"} IN
  /\ Handling(Events) /\ worker = "idle"
  /\ keyset' = IF e.evt = "lesc_dhkey_request" THEN [keyset EXCEPT !.peerPk = e.val.id] ELSE keyset
  /\ IF g \notin known
       THEN queue' = Tail(queue) /\ UNCHANGED <<syncVars, worker, orderly>>
       ELSE /\ Sync!Notify(CHOOSE x \in Conns : TRUE, e.evt, e.val)
            /\ worker' = IF called THEN "callback" ELSE "idle"
            /\ queue' = IF called THEN queue ELSE Tail(queue)
            /\ orderly' = [c \in Callers |->
                 orderly[c] /\ (conn[c] = g /\ stage[c] # "idle" =>
                   pc[c] = "waiting" /\ want[c] = e.evt /\ e.val.id = mine[c])]
  /\ UNCHANGED <<known, deviceVars, appVars, privateKey, kept, authVars>>

\* Mutant of OnNotify: the peer's public key is not taken.
OnNotifyNoKey ==
  LET e == Head(queue)
      g == e.conn
      called == e.evt \in {"sec_params_request", "lesc_dhkey_request"} IN
  /\ Handling(Events) /\ worker = "idle"
  /\ keyset' = keyset
  /\ IF g \notin known
       THEN queue' = Tail(queue) /\ UNCHANGED <<syncVars, worker, orderly>>
       ELSE /\ Sync!Notify(g, e.evt, e.val)
            /\ worker' = IF called THEN "callback" ELSE "idle"
            /\ queue' = IF called THEN queue ELSE Tail(queue)
            /\ orderly' = [c \in Callers |->
                 orderly[c] /\ (conn[c] = g /\ stage[c] # "idle" =>
                   pc[c] = "waiting" /\ want[c] = e.evt /\ e.val.id = mine[c])]
  /\ UNCHANGED <<known, deviceVars, appVars, privateKey, kept, authVars>>

\* The driver takes the peer's public key into its keyset; then the adapter's
\* handler notifies, and the application has callbacks for two of the events.
\* Without an entry the handler raises KeyError, and the callback, which comes
\* after it, is not called.
OnNotify ==
  LET e == Head(queue)
      g == e.conn
      called == e.evt \in {"sec_params_request", "lesc_dhkey_request"} IN
  /\ Handling(Events) /\ worker = "idle"
  /\ keyset' = IF e.evt = "lesc_dhkey_request" THEN [keyset EXCEPT !.peerPk = e.val.id] ELSE keyset
  /\ IF g \notin known
       THEN queue' = Tail(queue) /\ UNCHANGED <<syncVars, worker, orderly>>
       ELSE /\ Sync!Notify(g, e.evt, e.val)
            /\ worker' = IF called THEN "callback" ELSE "idle"
            /\ queue' = IF called THEN queue ELSE Tail(queue)
            /\ orderly' = [c \in Callers |->
                 orderly[c] /\ (conn[c] = g /\ stage[c] # "idle" =>
                   pc[c] = "waiting" /\ want[c] = e.evt /\ e.val.id = mine[c])]
  /\ UNCHANGED <<known, deviceVars, appVars, privateKey, kept, authVars>>

EndCallback == worker' = "idle" /\ queue' = Tail(queue)

\* Mutant of OnParamsCallback: generate_lesc_keyset keeps the old public key.
OnParamsCallbackOldKey ==
  LET e == Head(queue)  g == e.conn IN
  /\ worker = "callback" /\ Handling({"sec_params_request"})
  /\ EndCallback
  /\ IF ~(e.val.lesc /\ lescOn[g])
       THEN UNCHANGED <<pairing, privateKey, keyset>>
       ELSE /\ privateKey' = e.val.id
            /\ keyset' = keyset
            /\ pairing' = IF DeviceTakesParams(g, g \notin Central)
                            THEN [pairing EXCEPT ![g].state = "replied", ![g].pk = keyset.own]
                            ELSE pairing
  /\ UNCHANGED <<syncVars, known, up, npairings, faults, appVars, kept, authVars, orderly>>

\* The application's on_gap_evt_sec_params_request: if both sides want LESC it
\* calls generate_lesc_keyset and ble_gap_sec_params_reply, which may raise.
OnParamsCallback ==
  LET e == Head(queue)  g == e.conn IN
  /\ worker = "callback" /\ Handling({"sec_params_request"})
  /\ EndCallback
  /\ IF ~(e.val.lesc /\ lescOn[g])
       THEN UNCHANGED <<pairing, privateKey, keyset>>
       ELSE /\ privateKey' = e.val.id
            /\ keyset' = [keyset EXCEPT !.own = e.val.id]
            /\ pairing' = IF DeviceTakesParams(g, g \notin Central)
                            THEN [pairing EXCEPT ![g].state = "replied", ![g].pk = e.val.id]
                            ELSE pairing
  /\ UNCHANGED <<syncVars, known, up, npairings, faults, appVars, kept, authVars, orderly>>

\* Its on_gap_evt_lesc_dhkey_request: generate_lesc_dhkey with the driver's
\* private key, and ble_gap_lesc_dhkey_reply.
OnDhKeyCallback ==
  LET g == Head(queue).conn IN
  /\ worker = "callback" /\ Handling({"lesc_dhkey_request"})
  /\ EndCallback
  /\ pairing' = IF Paired(g, "dh_asked")
                  THEN [pairing EXCEPT ![g].state = "dh_replied", ![g].dh = privateKey]
                  ELSE pairing
  /\ UNCHANGED <<syncVars, known, up, npairings, faults, appVars, keyVars, authVars, orderly>>

Handler == OnDisconnected \/ OnNotify \/ OnParamsCallback \/ OnDhKeyCallback

-----------------------------------------------------------------------------
(* authenticate.                                                            *)

EndCall(c, how) ==
  /\ stage' = [stage EXCEPT ![c] = "idle"]
  /\ outcome' = [outcome EXCEPT ![c] = how]

\* The pairings that still matter when one on g begins: under way, or in a
\* call, on another connection, or with an event not yet handled.
Others(g) ==
  {pairing[h].id : h \in {x \in Conns \ {g} : ~Paired(x, "none")}}
    \cup {mine[d] : d \in {x \in Callers : stage[x] # "idle" /\ conn[x] # g /\ mine[x] # NoPairing}}
    \cup ({queue[i].val.id : i \in DOMAIN queue} \ {NoPairing})

\* c makes its next call.
Begins(c, call, g) ==
  /\ stage[c] = "idle"
  /\ todo[c] # <<>> /\ Head(todo[c]) = <<call, g>>
  /\ todo' = [todo EXCEPT ![c] = Tail(@)]
  /\ conn' = [conn EXCEPT ![c] = g]

\* driver.ble_gap_authenticate: the SoftDevice pairs once at a time on a
\* connection.
Authenticate(c, g) ==
  LET id == npairings + 1 IN
  /\ Begins(c, "authenticate", g)
  /\ heard' = [heard EXCEPT ![c] = FALSE]
  /\ orderly' = [orderly EXCEPT ![c] = TRUE]
  /\ IF g \in up /\ Paired(g, "none")
       THEN /\ npairings' = id
            /\ mine' = [mine EXCEPT ![c] = id]
            /\ pairing' = [pairing EXCEPT ![g] = [Unpaired EXCEPT !.id = id, !.state = "started"]]
            /\ stage' = [stage EXCEPT ![c] = "sec_params_request"]
            /\ outcome' = [outcome EXCEPT ![c] = "none_yet"]
            /\ crossed' = crossed \cup Others(g) \cup (IF Others(g) = {} THEN {} ELSE {id})
       ELSE /\ EndCall(c, "error")
            /\ mine' = [mine EXCEPT ![c] = NoPairing]
            /\ UNCHANGED <<npairings, pairing, crossed>>
  /\ UNCHANGED <<syncVars, known, queue, worker, up, faults, lescOn, keyVars, inWait>>

\* self.evt_sync[conn_handle].wait: KeyError without an entry; another thread
\* that waits on the same object has its slot cleared.
BeginWait(c) ==
  LET g == conn[c] IN
  /\ stage[c] \in Events /\ ~inWait[c]
  /\ IF g \notin known
       THEN EndCall(c, "key_error") /\ UNCHANGED <<syncVars, inWait, orderly>>
       ELSE /\ Sync!Wait(c, g, stage[c])
            /\ inWait' = [inWait EXCEPT ![c] = TRUE]
            /\ orderly' = [d \in Callers |-> orderly[d] /\ (d # c /\ stage[d] # "idle" => conn[d] # g)]
            /\ UNCHANGED <<stage, outcome>>
  /\ UNCHANGED <<known, queue, worker, deviceVars, appVars, keyVars, conn, mine, heard, crossed>>

WaitStep(c) ==
  /\ \/ (Sync!Register(c) \/ Sync!Return(c)) /\ UNCHANGED orderly
     \/ Sync!Timeout(c) /\ orderly' = [orderly EXCEPT ![c] = FALSE]
  /\ UNCHANGED <<known, queue, worker, deviceVars, appVars, keyVars, authVars>>

\* c's wait for the event e has returned.
WaitedFor(c, e) == stage[c] = e /\ inWait[c] /\ pc[c] = "idle"

NextStage(c, e) == stage' = [stage EXCEPT ![c] = e] /\ UNCHANGED outcome

\* driver.ble_gap_sec_params_reply(..., keyset=None): it passes self._keyset.
ReplyParams(c, given) ==
  LET g == conn[c] IN
  IF g \notin known THEN EndCall(c, "key_error") /\ UNCHANGED pairing
  ELSE IF ~DeviceTakesParams(g, given) THEN EndCall(c, "error") /\ UNCHANGED pairing
  ELSE /\ pairing' = [pairing EXCEPT ![g].state = "replied", ![g].pk = keyset.own]
       /\ NextStage(c, "auth_status")

\* Mutant of GotParams: it replies unless both sides refuse LESC.
GotParamsEither(c) ==
  LET g == conn[c]  r == result[c] IN
  /\ WaitedFor(c, "sec_params_request")
  /\ heard' = [heard EXCEPT ![c] = r.evt = "sec_params_request" /\ r.val.id = mine[c]]
  /\ inWait' = [inWait EXCEPT ![c] = FALSE]
  /\ IF r = Sync!None THEN EndCall(c, "type_error") /\ UNCHANGED pairing
     ELSE IF r.evt # "sec_params_request" THEN EndCall(c, "key_error") /\ UNCHANGED pairing
     ELSE IF lescOn[g] \/ r.val.lesc THEN NextStage(c, "lesc_dhkey_request") /\ UNCHANGED pairing
     ELSE ReplyParams(c, g \notin Central)
  /\ UNCHANGED <<syncVars, known, queue, worker, up, npairings, faults, appVars, keyVars,
                 conn, mine, crossed, orderly>>

\* Mutant of GotParams: the role is not looked at.
GotParamsAnyRole(c) ==
  LET g == conn[c]  r == result[c] IN
  /\ WaitedFor(c, "sec_params_request")
  /\ heard' = [heard EXCEPT ![c] = r.evt = "sec_params_request" /\ r.val.id = mine[c]]
  /\ inWait' = [inWait EXCEPT ![c] = FALSE]
  /\ IF lescOn[g] /\ r = Sync!None THEN EndCall(c, "type_error") /\ UNCHANGED pairing
     ELSE IF lescOn[g] /\ r.evt # "sec_params_request" THEN EndCall(c, "key_error") /\ UNCHANGED pairing
     ELSE IF lescOn[g] /\ r.val.lesc THEN NextStage(c, "lesc_dhkey_request") /\ UNCHANGED pairing
     ELSE ReplyParams(c, TRUE)
  /\ UNCHANGED <<syncVars, known, queue, worker, up, npairings, faults, appVars, keyVars,
                 conn, mine, crossed, orderly>>

\* The first result is looked at only if this side wants LESC: it may then be
\* None (TypeError) or another event's data (KeyError).  LESC takes both sides,
\* and its reply is left to the application's callback.
GotParams(c) ==
  LET g == conn[c]  r == result[c] IN
  /\ WaitedFor(c, "sec_params_request")
  /\ heard' = [heard EXCEPT ![c] = r.evt = "sec_params_request" /\ r.val.id = mine[c]]
  /\ inWait' = [inWait EXCEPT ![c] = FALSE]
  /\ IF lescOn[g] /\ r = Sync!None THEN EndCall(c, "type_error") /\ UNCHANGED pairing
     ELSE IF lescOn[g] /\ r.evt # "sec_params_request" THEN EndCall(c, "key_error") /\ UNCHANGED pairing
     ELSE IF lescOn[g] /\ r.val.lesc THEN NextStage(c, "lesc_dhkey_request") /\ UNCHANGED pairing
     ELSE ReplyParams(c, g \notin Central)
  /\ UNCHANGED <<syncVars, known, queue, worker, up, npairings, faults, appVars, keyVars,
                 conn, mine, crossed, orderly>>

\* The result of the second wait is not looked at.
GotDhKey(c) ==
  /\ WaitedFor(c, "lesc_dhkey_request")
  /\ inWait' = [inWait EXCEPT ![c] = FALSE]
  /\ NextStage(c, "auth_status")
  /\ UNCHANGED <<syncVars, known, queue, worker, deviceVars, appVars, keyVars, conn, mine, heard,
                 crossed, orderly>>

\* None is subscripted (TypeError).  Data of another event makes the result
\* None, and as that is not success the decorator raises, as it does for a
\* status of failure.  On success the Connection keeps the driver's keys.
GotStatus(c) ==
  LET g == conn[c]  r == result[c] IN
  /\ WaitedFor(c, "auth_status")
  /\ inWait' = [inWait EXCEPT ![c] = FALSE]
  /\ EndCall(c, IF r = Sync!None THEN "type_error"
                ELSE IF r.evt # "auth_status" THEN "no_status"
                ELSE IF ~r.val.ok THEN "refused"
                ELSE IF g \notin known THEN "key_error"
                ELSE "success")
  /\ kept' = IF outcome'[c] = "success" THEN [kept EXCEPT ![g] = keyset] ELSE kept
  /\ UNCHANGED <<syncVars, known, queue, worker, deviceVars, appVars, privateKey, keyset, conn, mine,
                 heard, crossed, orderly>>

-----------------------------------------------------------------------------
DeviceStep ==
  \/ \E g \in Conns, peerLesc \in BOOLEAN : DeviceAsksParams(g, peerLesc)
  \/ \E g \in Conns : DeviceAsksDhKey(g) \/ DeviceCompletes(g) \/ DeviceFails(g) \/ DeviceDisconnects(g)

AuthStep(c) == GotParams(c) \/ GotDhKey(c) \/ GotStatus(c)

-----------------------------------------------------------------------------
(* authenticate returns success or a refusal only for the pairing it        *)
(* started, not for an earlier one of the same connection whose status came *)
(* late: events come in order, so this holds once its first wait returned   *)
(* the request of its own pairing.  (Without LESC that result is not looked *)
(* at, and a first wait that timed out may let an old status through.)      *)
(* This property and KeysOfOwnPairing, SharedSecretFits and                 *)
(* OrderlyCallGetsStatus are of applications that pair on a connection from *)
(* one thread: two threads would share the slot of its EvtSync object.      *)
StatusOfOwnPairing ==
  \A c \in Callers :
    (outcome[c] \in {"success", "refused"} /\ heard[c]) => result[c].val.id = mine[c]

(* After a success the Connection keeps the keys of its own pairing,        *)
(* although the driver has one keyset for all connections, if no other      *)
(* pairing overlapped this one.                                             *)
KeysOfOwnPairing ==
  \A c \in Callers :
    LET id == mine[c]  k == kept[conn[c]] IN
    (outcome[c] = "success" /\ heard[c] /\ id \notin crossed) =>
      /\ k.peer = id
      /\ result[c].val.lesc => k.own = id /\ k.peerPk = id

(* The shared secret of an LESC pairing is computed with the private key    *)
(* whose public key the peer was sent, if no other pairing overlapped this  *)
(* one: there is one private key too, and the late callback of a pairing    *)
(* that was given up answers the request of the next one.                   *)
SharedSecretFits ==
  \A g \in Conns :
    (Paired(g, "dh_replied") /\ pairing[g].id \notin crossed) => pairing[g].dh = pairing[g].pk

(* The SoftDevice's request for parameters is answered by exactly one of    *)
(* authenticate and the application's callback, whatever each side wants:   *)
(* once both have passed it, it is not open any more.                       *)
ParamsAnswered ==
  \A c \in Callers :
    LET g == conn[c] IN
    (/\ heard[c] /\ stage[c] \in {"lesc_dhkey_request", "auth_status"}
     /\ pairing[g].id = mine[c] /\ g \in known
     /\ worker = "idle" /\ queue = <<>>)
      => ~Paired(g, "asked")

(* If every event of the pairing came while it was waited for, and nothing  *)
(* else on that connection, authenticate returns success or the peer's      *)
(* refusal: it fails in no other way, in either role, with and without LESC *)
(* on either side.                                                          *)
OrderlyCallGetsStatus ==
  \A c \in Callers :
    (mine[c] # NoPairing /\ orderly[c]) =>
      outcome[c] \notin {"no_status", "type_error", "key_error", "error"}
=============================================================================
