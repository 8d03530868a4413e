# Verification of pc-ble-driver-py

pc-ble-driver-py drives a Bluetooth Low Energy connectivity chip over a serial
port: the SoftDevice, Nordic's BLE stack, runs on the chip; the native library
pc-ble-driver talks to it; a SWIG binding makes that library callable from
Python; `BLEDriver` wraps it in threads and queues; `BLEAdapter` keeps the
connections and offers blocking operations. This directory models the part of
the program in which threads meet, and the one algorithm in it (discovery of a
peer's database, with the lookups over it).

Paths are relative to `pc_ble_driver_py/` unless they start with `swig/` or
`tests/`.

## The system

| Component | State | Operations | Interacts with |
|---|---|---|---|
| `EvtSync` (`ble_adapter.py`) | a condition for every event id, ONE slot `data` | `wait`, `notify` | application threads wait, the event worker notifies |
| `BLEAdapter` | `db_conns`, `evt_sync`, `conn_in_progress`, `observers` | `open`, `close`, `connect`, blocking GAP and GATT operations, `on_*` handlers | is an observer of its driver; owns `EvtSync` and `Connection` objects |
| `service_discovery` | the services of a `Connection` | the method itself, called again and again | request and wait through the adapter |
| `authenticate`, keyset | `driver._keyset`, `driver._lesc_private_key` (one for all connections), `Connection._keyset` | three waits in sequence, `generate_lesc_keyset`, `generate_lesc_dhkey` | as above; the application's callbacks answer part of a pairing |
| `write_cmd` | none | retry loop | waits for transmit-complete events on the `EvtSync` of the connection |
| `DbConnection` | services, characteristics, descriptors, `att_mtu` | lookups of handles and uuids | read by the operations |
| `BLEDriver` (`ble_driver.py`) | `run_workers`, three workers, three queues, `observers`; of the class: `api_lock`, `observer_lock` | `open`, `close`, some 45 API methods, `observer_register` and `_unregister`, the worker loops | native callbacks put items, workers call observers |
| binding (`swig/pc_ble_driver.i.in`) | `adapter_contexts`, one lock for each context, `GIL_MUTEX`, references to the Python callbacks | `sd_rpc_open_py`, `sd_rpc_close_py`, three callbacks | native threads to Python |
| observers (`observers.py`) | none | the callbacks an application overrides | called by workers |
| data classes | none | `to_c`, `from_c` | |
| `Flasher`, `config.py` | none | runs nrfjprog | called when a driver is made |

What happens to an event: a thread of the native library calls the binding,
which looks the adapter's context up and calls `ble_event_handler`; that puts
the event on `ble_event_queue`. The event worker takes it off, takes
`observer_lock` and calls every observer in turn. One of them is the
`BLEAdapter`, whose handler notifies the connection's `EvtSync`; the
application thread that waits there goes on.

What is hard, and where (the hazards in PROJECT.json give the lines):

* The answer to a request can come before the requesting thread waits for it,
  and the wait begins by clearing the slot outside the lock.
* One slot serves all the event ids of a connection and all its callers.
* Connections go, and handles are used again, while threads wait.
* `api_lock` and `observer_lock` are attributes of the *class*. `close` holds
  the first while it waits for workers; callbacks hold the second while they
  call API methods.
* `open` may fail half way; `close` may raise half way; callbacks may raise.
* A pairing takes up to three events that one method waits for in turn, and
  answers that the method gives in some cases and the application's callback in
  others; all connections share one keyset and one private key.
* Native threads run callbacks while `close` takes their context away, under
  four kinds of lock, one of which (the GIL) is lent to others at any time.
* Discovery is a loop of requests, each of which may be lost, refused, or cut
  off, over a database that earlier calls left behind.

### What makes each component correct

* EvtSync: a wait returns, with nothing that was published before it; nobody
  waits unregistered.
* BLEDriver: one API call and one callback at a time; events in order and none
  twice; nothing after `close`; sessions do not mix; `close` returns.
* BLEAdapter: the tables are those of the SoftDevice once every event has been
  handled; an operation gets the answer to its own request, on its own
  connection, and ends.
* service_discovery and the lookups: valid requests, the peer's whole tree, an
  end; a handle that a lookup returns is that of the right attribute.
* authenticate: the status and the keys of its own pairing; the request of the
  SoftDevice is answered once; an undisturbed call succeeds or is refused.
* write_cmd: a packet is never sent twice, and is sent if the call returns; it ends.
* binding: references are never dropped under a running callback, and are
  balanced; no callback of a registered context is lost; nobody waits for ever.

## Modules

| Module | Models | State and actions |
|---|---|---|
| `EvtSync` | class `EvtSync` | `wait` is `Wait` (the clear), `Register`, `Timeout`, `Reacquire`, `Return`; `notify` is `Publish`, `NotifyAll` |
| `Rendezvous` | what `EvtSync` promises: a slot, and notifications that reach all waiters of their event at once | implemented by `EvtSync` (refinement mapping `Promise`) |
| `BLEDriver` | threads of `BLEDriver`, with the part of the binding that keeps contexts | `open` is `OpenBegin`, `StartWorker`, `RpcOpenBegin`, `RpcOpenEnd`; `close` is `CloseBegin`, `StopWorkers`, `JoinWorker` for each stream; a worker is `CheckRun`, `Get` or `GetEmpty`, `DispatchBegin`, the `Callback...` actions for each observer, `DispatchEnd` |
| `EventChannel` | what the path of an event promises: in order, each at most once, `close` may drop | implemented by `BLEDriver` (refinement mapping `Channel`) |
| `BLEAdapter` | connections and blocking operations | instantiates `EvtSync` with the connections as its objects; its queue is the channel; `Device...` actions are the SoftDevice |
| `ServiceDiscovery` | `service_discovery` with `char_add` | one action for every branch at every wait |
| `DbConnection` | the lookups `get_...` | operators over the sequence of services: a loop over services and characteristics is the first of the places that match; descriptors are compared by the 16-bit value of their uuid (`Value`), as in the code, and everything else by its whole uuid; instantiated by `ServiceDiscovery` as `Db` |
| `Authenticate` | `authenticate`, its three handlers, the LESC callbacks of `tests/test_lesc_security.py`, the keyset | `Authenticate` is the driver call, `BeginWait` and `WaitStep` a wait, `GotParams`, `GotDhKey`, `GotStatus` what follows each; `OnNotify`, `OnParamsCallback`, `OnDhKeyCallback` are the event worker |
| `WriteCmd` | `write_cmd`, beside `authenticate` | extends `Authenticate` by `BeginWrite`, `Send`, `GotTxComplete` |
| `Binding` | `sd_rpc_open_py`, `sd_rpc_close_py` and the callbacks | a step for every lock, lookup and reference count; `scope` is a `GILStateWrapper`, `context` the `shared_ptr` a call has |
| `MC...` | sets and symmetries for TLC | |
| `EvtSyncProofs`, `BLEDriverProofs`, `EventChannelProofs`, `BLEAdapterProofs`, `BindingProofs` | theorems about the module of that name | |
| `ServiceDiscoveryProofs` | theorems about `ServiceDiscovery`, and lemmas on the folds and answers it is built from |
| `WriteCmdProofs`, `PairingProofs` | theorems about `WriteCmd` with `Authenticate` in it: types and `write_cmd`, then pairings | |

How they fit: `BLEDriver` implements `EventChannel`, and `EvtSync` implements
`Rendezvous`. `BLEAdapter` assumes that channel (one queue, in order, dropped by
`close`) and composes it with `EvtSync`; `Authenticate` and `WriteCmd` compose
it with `Rendezvous`, which leaves the conditions and locks out, so that whole
procedures of several waits can be explored. `BLEDriver` contains the context
of the binding as far as `open` and `close` see it, and `Binding` the inside of
these two calls. `ServiceDiscovery` assumes of an operation what `BLEAdapter` shows,
that it gets its answer, or none, or raises.

What is abstracted. An event is its id, its connection and the request it
answers. A lock taken in the same step as the next access of what it protects
is one action; the unlocked clear in `wait`, the write of `conn_in_progress`
after the driver call, and the lookup of `evt_sync` after the driver call are
steps of their own. `threading.Condition.wait` is modelled by what it does; a
waiter that timed out stays registered until it has the lock back. In
`BLEAdapter` the driver's workers and locks are reduced to what
`BLEDriver` shows of them; a connect in a callback does not overlap `close`
there, because `BLEDriver` treats that case (it is the one in which `close`
hangs). The drivers' application threads do not register observers from a
callback. In `Authenticate` a key is named by the pairing it was made in, and a
shared secret is right if it was computed with the private key that belongs to
the public key the peer was sent; a connection that ended is not made again
(`BLEAdapter` has the reuse of handles). In `Binding` the map of contexts, which
has no lock, gives a lookup that overlaps a write either answer; what Python code
does in a callback is to put an item on a queue, during which the GIL may go
to other threads (once). History variables (`since`, `disturbed`, `made`, `handed`,
`answered`, `late`, `shared`, `overtaken`, `wiped`, `lost`, `skipped`, `heard`,
`crossed`, `orderly`, `accepted`, `known` of `Binding`) record the past
for the properties; no guard reads them, except that `made` bounds `Enqueue`.

Mutants: definitions whose comment says "Mutant of X" are wrong versions of X.
They are used by no action; putting one in the place of X makes the property it
was written for fail.

## Runs

| Run | Question | Result |
|---|---|---|
| `evtsync` | waits under timeouts and interleaved notifications; refinement of the rendezvous, with its liveness | holds |
| `evtsync_own_event` | does a wait return only its own event? (the TODO at `ble_adapter.py:653-654`) | violated |
| `driver` | locks, quiet, sessions, refinement of the channel, with failing opens and calling, raising callbacks | holds |
| `driver_close` | what may keep `close` from returning; workers that are left behind; queues that are served | holds |
| `driver_close_stuck` | does `close` return? (the tests take it for granted) | violated |
| `adapter_connections` | tables, flag and answers across disconnection, reuse, close and reopen | holds |
| `adapter_answers` | own answers, and every operation ends | holds |
| `adapter_lost_answer` | does an answered operation return its answer? (`tests/test_mtu.py:182`) | violated |
| `discovery` | ranges, completeness, lookups, termination over fourteen peers | holds |
| `procedures` | pairings and writes, in turn and at once, on one connection and two, with and without LESC, in both roles, with faults | holds |
| `binding` | callbacks of three native threads while two adapters are opened and closed, also twice or in vain | holds |
| `discovery_repeats` | are handles added once? (`ble_adapter.py:380`) | violated |

### What the violations show

* `evtsync_own_event`. Caller waits for event A; its timeout expires (or it is
  woken); before it reads, B is published to the same slot; it returns B. The
  TODO in `authenticate` describes this symptom.
* `driver_close_stuck`. Driver 2 dispatches an event and its callback calls an
  API method. Meanwhile `close` of driver 1 has `api_lock` and joins a worker
  of driver 1, which holds an item and waits for `observer_lock`. Nobody goes
  on. With one driver the same happens when its own callback calls the API
  while it is closed; `driver_close` shows that this is the only reason for
  `close` not to return.
* `adapter_lost_answer`. The event worker notifies after the driver call has
  returned and before the wait is registered: the notification wakes nobody,
  and the clear at line 154 may even remove the answer. The operation returns
  after its timeout with the old MTU; operations that do not test for None
  raise TypeError.
* `discovery_repeats`. A descriptor is compared with uuids, so the test that is
  to keep repeated handles out never fails.

### Conditions in the properties

Some properties hold only where the code makes them hold, and their premises
say where: `WokenCallReturnsAnswer` excludes a second wait on the same object
(its clear takes the answer away); `AnswerOfOwnRequest` excludes overlapping
operations, answers that come after a timeout and unsolicited events of the
same id; `ConnectFlagCleared` excludes a `connect` whose attempt ended before it
raised the flag; `TablesFollowEvents` excludes a `close` that clears the tables
(`ble_adapter.py:187-189`, after `driver.close` has given `api_lock` back) when another
thread has opened the adapter again: connections made since then are forgotten, and
TLC finds that without the premise (`wiped`); `DatabaseComplete` excludes equal uuids, since services are
recognised by uuid, and the lookups share that premise where they need the
whole tree. `RangesValid` excludes peers with a vendor characteristic whose base
is that of another service than its own (`OwnBases`): a first call, which asks
for one service only or passes the vendor service over, gets the characteristic
with an unknown uuid; a later one, after it has registered the base, gets it with
its own, takes it for a new one and adds it behind the others. `char_add` then
ends the characteristic before it at a handle before its beginning, and the next
request for descriptors asks, say, from handle 3 to handle 1. For this a service
needs such a characteristic, another one behind it, and a vendor service of that
base at the same peer.
`DatabaseComplete` excludes these peers too, and two characteristics of
unknown uuid in a service, of which the second is dropped; all of this is
`DistinctUuids`. The half of `LookupsFindRightAttributes` that speaks of cccds
has that premise as well, since the cccd of a dropped characteristic is found
under the one before it; the half on value handles needs no premise.

The lookups compare descriptors by `d.uuid.value` (`ble_adapter.py:75, 87, 92`), the
16-bit part of the uuid without its base. The value of a vendor characteristic whose
16-bit part is 0x2902 is one of the descriptors of its characteristic, stands before
the cccd, and is what `get_cccd_handle` returns at such a peer: notifications are then
never switched on. The two properties on cccds exclude these peers (`NoCccdTwin`). One
is in the run (`Twins`), and without the premise TLC finds both violated there. The
lookup of value handles compares in the same way and needs no premise: the first
descriptor of a characteristic is its own value, before any other of that 16-bit part
(`v1a` and `c1` of the run share one). `AddService` has the third such comparison
(`ble_adapter.py:293`): a service of a vendor uuid with the 16-bit part 0x0000 is
taken for one of unknown uuid even when its base is registered (`v0` of the run).

`AttributesAssumption` says what the Bluetooth specification demands of a peer
and discovery relies on: the declaration of a characteristic is followed by its
value, under the uuid the declaration names; the uuids of declarations and cccds are
standard ones, so they are never reported as unknown, and differ in their 16-bit
parts; no standard uuid has the 16-bit part 0x0000 that stands for unknown.

The run, and the theorems on the whole database, are of answers with one vendor
service (`VendorPerResponse = 1`). An entry with a 128-bit uuid takes 20 bytes, and
the default MTU of 23 (`ATT_MTU_DEFAULT`) has room for one. After
`att_mtu_exchange` there may be more, and then a second discovery adds every
service of the answer (`ble_adapter.py:338-343`), those behind the one it is for
too: TLC finds `DatabaseComplete`, the half on cccds and `LookupsComplete` violated
with `VendorPerResponse = 2` in the configuration (the second at the peer
`MixedVendor`, whose second vendor service is added with an unknown uuid before its
base is known). Ranges and value handles stay right: `RangesAreValid`
and `ValueHandlesAreRight` are for any size of answers.

In `procedures`: `StatusOfOwnPairing` and `KeysOfOwnPairing` speak
of a call that has heard the request of its own pairing (`heard`), since without
LESC the result of the first wait is not looked at and, after a timeout, a late
status of an earlier pairing may be taken; `KeysOfOwnPairing` and
`SharedSecretFits` exclude pairings that overlap (`crossed`): two connections at
once, or a pairing that was given up while its events or callbacks are still to
come, whose callback then makes a new key and answers the request of the next
pairing; `OrderlyCallGetsStatus` excludes events that come when nobody waits for
them. These four are of applications that pair on a connection from one thread
only, as every program of the run does. Two threads that pair on one connection
share its slot, and TLC finds each of the four violated with such a program: an
event that wakes both is taken for its own by the thread whose pairing it does
not belong to. `ParamsAnswered` holds with such programs too. In `binding`: `CallsUseLiveReferences` speaks of adapters whose
`sd_rpc_close` waits for their native threads (`Joined`); without that a thread
that has found its context before `close` removes it calls through references
that were dropped, since the pointers are not reset.
`RegisteredCallbacksDeliver` excludes a lookup during a write of the map. Each
premise is a behaviour of the code that breaks the
unconditional property; a property with a premise says that nothing else does, and
where that behaviour is the very thing a hazard of PROJECT.json is about, the note
there says so.

`SentOnce` distinguishes how `write_cmd` ends. An error other than a full buffer
(`ble_adapter.py:590`) may come at any time, and the answer of the chip may be lost
after it took the packet; the caller then cannot know, and the property says that the
packet was taken at most once. A call that returns has sent it, one that gave up after
its last try has not. `disable_indication` lacks the `return` of its siblings
(`ble_adapter.py:490`), so its decorator raises whatever the answer was; `Finish` does
the same, and no property depends on it.

`ReleaseExcludesCalls` needs one of two mutexes only: a callback holds
`GIL_MUTEX` to its end, even while it lends the GIL to another thread, so that
`close` would exclude callbacks without `callback_mutex`, and with
`callback_mutex` alone. The mutant of this property takes neither.

### Bounds

* `evtsync`: two callers, two event ids, one object, two notifications. A
  disturbance takes two waiters or two events; connections do not share
  objects (`adapter_connections` has several).
* `driver`: two application threads, one driver, two opens, two items for each
  of two streams, one observer. Sessions take two opens, order two items. The
  streams have the same code, and two show that one is joined while another
  runs. A driver is closed before it is opened again (`ReopenRunning` is
  FALSE), as the examples and tests do; the retry of a failed open without a
  close, which leaves workers of two sessions on one queue, is in
  `driver_close`.
* `driver_close`: one stream, two opens of which the first may fail, open of a
  running driver allowed. `driver_close_stuck`: two drivers.
* `adapter_connections`: two threads, one handle used by two connections, one
  request, one unsolicited event, two events on the way. The threads are
  symmetric and no property singles one out or is temporal.
* `adapter_answers`: two threads, one connection, two requests. One connection
  is enough since answers of two connections have separate objects, which
  `adapter_connections` shows.
* `discovery`: fourteen peers of at most ten attributes: plain, with one vendor service
  between two others, with two vendor services (in one peer with a
  standard characteristic between two of the second's base), with a vendor service whose
  characteristics have its base or one of no service, with equal uuids, with uuids
  that share the 16-bit part of the cccd's and of the unknown one; each with the last service ending at its last attribute or at 0xFFFF (12 here). At most
  three attributes fit in an answer, of vendor uuids one. Two calls, for a uuid
  or for all.

* `procedures`: two threads, two connections (central in one, peripheral in the
  other), seven programs of at most three calls: two pairings one after the
  other on one connection in each role, on two connections, two at once, three
  writes of two threads, and a pairing beside a write. At most one fault (a
  failed pairing or a disconnection) in a program; timeouts are free. `MAX_TRIES`
  is 2 and there is one buffer, so that the loop retries, succeeds late and is
  exhausted. Longer programs only repeat these overlaps.
* `binding`: one application thread (`api_lock`, which belongs to the class,
  admits one), two native threads of an adapter that `close` waits for, one of
  another that it does not wait for, two contexts: a failed open followed by a
  close, a second open, and two adapters at once. A callback lends the GIL once.

`CHECK_DEADLOCK FALSE` is set where a bound, or the application, may bring
everything to an end: a closed driver with no more opens, an adapter with no
more requests, a discovery after its calls, threads at the end of their programs, a
binding that is closed.

### Fairness

The threads of the process are scheduled again and again (weak fairness of
their steps), callbacks and native calls return, timeouts expire. Strong
fairness is assumed where a thread competes for a lock: the platform's
semaphores do not starve a waiter for ever. Nothing forces an application to
make a call, the SoftDevice to answer, a peer to stay. In `discovery` the peer
answers what is not lost (every ATT request has a response); it owes no error,
no loss and no disconnection. In `procedures` the SoftDevice and the peers owe
nothing at all. In `binding` Python code in a callback ends and native threads
do; `EveryCallEnds` rests on strong fairness, since callbacks of a busy adapter
take the mutexes again and again.

## Proofs

The proof modules show, for every value of the constants, every invariant and
action property of the passing runs, and the safety part of both refinements. They start from the named assumptions of the
modules: the bounds are numbers, thread names and event names differ, the sets
that an argument takes an element of are not empty, the programs of `WriteCmd`
are programs. Where a theorem needs more it says so as an `ASSUME` of its own:

* `ReopenRunning = FALSE` (`ClosedDriverIsQuiet`, `SessionsAreIsolated`,
  `ChannelImplemented`): `open` is not called on a driver that is running,
  failed opens included.
* `CloseMayFail = FALSE` (`TablesRight`, `FlagCleared`): `driver.close` does not
  raise after the transport is closed. If it does, the adapter keeps what its
  tables had, as the code is written; `ConnectionsHaveEntries` says what holds
  even then. The run of these two properties has the same premise.
* `VendorPerResponse = 1` (`DatabaseIsComplete`, `LookupsAreComplete`,
  `LookupsAreRight`): an answer has room for one vendor uuid, as with the default
  MTU; with two these statements are false.
* `PairsAlone` (`OwnStatusReturned`, `OrderlyCallsGetStatus`, `OwnKeysKept`,
  `SecretsFit`): no two threads pair on the same connection.

### EvtSync

* `FreshAnswer`. The slot's sequence number never exceeds `seq`; while a call
  is under way the slot is empty or newer than its start. The second fact is
  what makes it inductive: `Wait` empties the slot, and only `Publish` fills
  it, with a number above every start.
* `WaitersRegistered`, from the ownership of the condition locks (`LocksOwned`).
* `WokenCallReturnsAnswer`: between notification and read, the slot of an
  undisturbed woken caller is not empty, and while the event worker is between
  write and `notify_all` the slot it wrote is not, unless a wait began on it.
* `RendezvousImplemented`: `EvtSync` implements `Rendezvous` (safety). A caller
  counts as awake from the moment `notify` writes the slot, not when
  `notify_all` reaches it; `LockOwners` and `WaitersRegistered` make the two the
  same to every caller: nobody registers between them, and all who are
  registered are woken.

### BLEDriver and the channel

* `LockOwners`, by an invariant that also says that the worker slot an `open` is
  about to fill is unused (`SlotsFree`).
* `QuietWhenClosed`. The invariant (`AliveInv`) says that an earlier set of
  workers has exited when a new one is started, and that `close` has passed only
  workers that exited. Without the premise the statement is false: the set an
  earlier failed open left behind is joined by nobody, and `LeftWorkersExit` says
  what holds instead.
* `SessionIsolation`. The invariant (`SessionInv`) says that all the items of a
  queue belong to the driver's last session, and that a queue is empty unless the
  driver runs or `close` has still to empty it; so a later open finds every queue
  empty.
* `ObserversStableInDispatch`, from `LockOwners`: `observer_register` needs the
  lock that the dispatching worker holds.
* `ChannelImplemented`: the queues and workers implement an `EventChannel` for
  every stream. What is pending in the channel is what the one live worker
  holds, followed by the queue. With two live workers on a queue that would not
  be a sequence, which is why the refinement has the premise of `QuietWhenClosed`.
* `HandedOverInOrder`: an `EventChannel` hands items over in the order they came,
  none twice (`InOrder` there). What makes it inductive is `HeldInOrder`: what a
  channel holds is in order, above everything it has handed over and not above
  the last item it took in. `ObserversGetItemsInOrder` is the same of the driver,
  from the two.

### BLEAdapter

* `EvtSyncUsed`: every step of the adapter is a step of `EvtSync`, with the
  connections as its objects, or leaves it alone. So what is proved of `EvtSync`
  holds in the adapter (`OperationsGetFreshAnswers`).
* `TablesRight` and `ConnectionsHaveEntries`. The invariant (`TableInv`) is about
  the events on the way: the entry that a table has for a handle becomes, by the
  events of the queue handled one after the other (`Leads`), the connection the
  SoftDevice now has there; and by those before a notification, the connection
  it is for. With an empty queue the first is equality. After a failed close it still holds of the handles that
  were used again. `ClosingInv` says what has stopped at each step of `close`. A `close`
  that clears the tables of an adapter that is open again sets `wiped`; then the entry
  becomes that connection or is none (`Reaches`).
* `AnswersOfOwnConnection`: the slot of a connection's `EvtSync` object, and what
  a caller read from it, is from that connection (`SlotInv`), because the event
  worker finds the object of the event's own connection, or none (`TableInv`).
* `FlagCleared` (`FlagInv`): a raised `conn_in_progress` goes with an attempt that
  is under way, or whose end is still on the queue.
* `OwnAnswer` (`OwnInv`): as long as no answer came late and none unasked, every
  answer on its way is awaited by the operation that asked for it, and the slot of
  an operation that no other overlapped holds its own answer or none.

### Binding

* `LockInv`: each lock is held by the thread between its acquisition and release.
  `RefInv`: a context belongs to one adapter and holds its references from
  `Incref` to `Release`; open and close work on the registered one. From these:
  `ReferencesAreBalanced`, and that counts do not fall below zero.
* `ReleasesExcludeCalls`: `Release` needs the `callback_mutex` that a running
  callback holds.
* `CallbacksDeliver` (`DeliverInv`), `CallsHaveReferences` (`JoinInv`: a callback
  of an adapter whose close joins its threads works on the registered context).

### service_discovery

* What an answer adds to the database is a fold over its attributes. A fold is a
  function on the subsets of `1..n`, and no library theorem says what it returns.
  `UpTo` is the induction that does: a set of numbers that has 0, and with `k`
  also `k + 1`, has `n`; it rests on the least element of a set of numbers
  (`WFMin`). The set is `{n : the first n steps have the property}`, so nothing
  is passed as an operator. `CharsFolded` and `ServicesFolded` are the folds,
  `CharsAdded` and `ServicesAdded` what they leave in the database.
* `TypeCorrect`. `Typed` says more than `TypeOK`: every service and characteristic
  of the database is one of the peer, at its place, and the service or
  characteristic a loop is at exists, although the lists grow while it runs.
* `RangesAreValid`. `RangeInv` has three parts. `OkInv`: the characteristics of a
  service are in the order of their declarations, each ends where the next begins,
  the last with the service, and every one before a known one is known. `PassInv`:
  what is asked for is the rest of a service, of which every characteristic
  before the request is in the database, or the rest of a characteristic. `KnownInv`:
  a uuid that was reported does not become unknown, and a service of unknown uuid
  has no characteristics as long as a base is going to be registered (`BaseMissing`;
  a service of known uuid that is kept with the unknown ones registers none). A new
  characteristic is then behind all known ones, also in a repeated call, and the
  range between two declarations has at least the value.
* `ValueHandlesAreRight`. `FitsInv`: at any moment, for any peer, a characteristic
  of the database is one of its service, under the uuid it has or as unknown, and
  its descriptors are attributes behind the service's declaration and not beyond
  its end. They need not be its own, and those of its 16-bit part need not be values;
  but the first one listed is its own value (`FirstInv`), and the first match is what
  a lookup returns. It has the uuid of the characteristic, if that one is known, since
  the base was registered before the characteristic was found.
* `LookupsAreRight`. `NameInv`: a service of the database has the uuid of the peer's,
  since the one that was of unknown uuid is asked for again after its base was
  registered, and comes alone. `DescsInv`: with distinct uuids the descriptors of
  a characteristic are its own (the ranges of `OkInv` end where the next begins),
  so what has the value of the cccd is found under the characteristic it belongs to,
  and is the cccd (`NoCccdTwin`).
* `DatabaseIsComplete`. `FoundInv`: every service before the request is in the
  database or waits among the vendor services, and when the loop over services
  begins all are in. `LoopInv`: the services and characteristics that the loops
  have passed are whole (`Full`), and so is the part of a characteristic before the
  request; a call that succeeded has passed all of them, and what later calls add
  takes nothing away. `TreeWhole`: services that are whole and right make the
  peer's tree.
* `LookupsAreComplete`: in a whole database (`WholeDb`) the first match of each
  lookup is the characteristic itself (`ValueFound`, `CccdFound`, `UuidFound`), as
  the ranges of characteristics are disjoint.

### write_cmd and authenticate

* `PacketSentOnce`: a call that goes round its loop again has not sent and has not
  ended, whatever woke it; one that sends ends, with or without an error. It needs the type invariant of the composition, in
  which what a call may do is tied to where its program counter is.
* `RequestsAnswered`. `IdInv`: numbers of pairings are unique and events belong to
  pairings that exist. `RequestInv`: a request on the queue says what the pairing
  is. `ParamsInv`: a request that the callback is to answer is on the queue as
  long as it is open, and a call that passed it left it open only where the
  callback answers.
* `OwnStatusReturned`. `OrderInv`: the events of one connection are on the queue
  in the order of their pairings. `AloneInv`: from `PairsAlone`, one call at a time
  pairs on a connection. `StatusInv`: then what comes after the request a call
  heard is of the same pairing, until its status.
* `OrderlyCallsGetStatus` (`UpInv`, `OrderlyInv`): a connection that is up has its
  entries, and a request of a pairing that has ended is followed by its status; so
  a call whose events all came while it waited has an entry whenever it looks
  one up, finds an open request where it replies, and its waits return what they
  waited for.
* `OwnKeysKept` and `SecretsFit`. The driver's single keyset says nothing of a
  connection. `OnlyInv` says that a pairing that nothing overlaps is the only one
  that is under way, has a call or has events on the way; then the request
  for parameters that made the keys, the private key the secret is computed with,
  and the keyset that is read after the status are all its own (`PairingKeys`,
  `StatusKeys`, with `DriverKeys`: the halves of the driver's keys belong together
  whatever happens).

### Only model-checked

Liveness (`CallReturns`, `CloseReturnsOrCallbackWaits`, `QueueServed`,
`LeftWorkersExit`, `EveryCallEnds`, `Terminates` and the liveness of the two
refinements) is out of the prover's reach. Every safety property of the runs is
stated by a theorem; those of `ServiceDiscovery` on the whole database with the premise
above.

## Not modelled

The adapter's own observer list, with the notifications and indications it
passes on (`ble_gattc_hv_confirm` after the observers). `disconnect`,
`encrypt`'s parameters and the like are single calls of the SoftDevice. Data
classes, advertising data, exceptions, `Flasher` and `config.py` are conversions
or subprocess calls without interacting state. The examples and tests are
applications; their callbacks are modelled where they take part in a protocol
(`Authenticate`).

## Plan

1. Done: `EvtSync` with `Rendezvous`, `BLEDriver` with `EventChannel`,
   `BLEAdapter`, `ServiceDiscovery` with `DbConnection`, `Authenticate`,
   `WriteCmd`, `Binding`; the theorems above.
2. What a continuation would take up first: the adapter's observers
   (indications that are confirmed after every observer has returned, and what a
   raising observer leaves unconfirmed), and discovery with answers of several
   vendor services.
