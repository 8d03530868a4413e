-------------------------- MODULE ServiceDiscovery --------------------------
(***************************************************************************)
(* BLEAdapter.service_discovery (ble_adapter.py): one thread asks the peer *)
(* for its services, characteristics and descriptors, range of handles by  *)
(* range of handles, and builds the database of the Connection, which      *)
(* later calls of the same method extend.                                  *)
(*                                                                         *)
(* A request and the wait for its answer are those of module BLEAdapter;   *)
(* here an answer comes, or is lost (wait returns None), or the connection *)
(* goes away.  The peer's attributes are a sequence: the handle of an      *)
(* attribute is its position.                                              *)
(***************************************************************************)
EXTENDS Integers, Sequences, SequencesExt

CONSTANTS
  Databases,    \* the peers: [attrs : Seq([kind, uuid]), top : BOOLEAN]
  Value,        \* of each uuid, the 16-bit value: its base is left out
  Base,         \* the vendor uuids, each with the base the SoftDevice must be told of
  Unknown,      \* what it reports for them before (Standard.unknown)
  NoUuid,       \* service_discovery called without a uuid
  Cccd,         \* the uuid of a client characteristic configuration descriptor
  Declaration,  \* the uuid of the attribute that declares a characteristic
  LastHandle,   \* 0xFFFF
  PerResponse, VendorPerResponse,  \* how many attributes fit in an answer
  MaxCalls,     \* bound: calls of service_discovery
  MayLose,      \* answers may be lost
  MayFail       \* the peer may answer with another error status

ASSUME DiscoveryBounds ==
  /\ LastHandle \in Nat /\ MaxCalls \in Nat
  /\ {PerResponse, VendorPerResponse} \subseteq Nat \ {0}
  /\ \A p \in Databases :
       Len(p.attrs) \in Nat /\ DOMAIN p.attrs = 1..Len(p.attrs) /\ Len(p.attrs) < LastHandle

\* What stands for an unknown, or for no, uuid is no uuid, and its value 0x0000
\* is that of no standard uuid; those of descriptors are standard.  The
\* declaration of a characteristic is followed by its value, whose type is the
\* uuid of the characteristic.
ASSUME AttributesAssumption ==
  /\ {Cccd, Declaration} \cap DOMAIN Base = {}
  /\ Value[Cccd] \notin {Value[Unknown], Value[Declaration]}
  /\ \A p \in Databases : \A h \in DOMAIN p.attrs :
       /\ p.attrs[h].kind \in {"service", "char", "attr"}
       /\ p.attrs[h].uuid \notin {Unknown, NoUuid, Declaration}
       /\ p.attrs[h].uuid \in DOMAIN Base \/ Value[p.attrs[h].uuid] # Value[Unknown]
       /\ p.attrs[h].kind = "char" =>
            /\ h + 1 \in DOMAIN p.attrs /\ p.attrs[h + 1].kind = "attr"
            /\ p.attrs[h + 1].uuid = p.attrs[h].uuid

VARIABLES
  peer,       \* the peer's database, fixed
  connected,  \* whether db_conns and evt_sync have the handle
  services,   \* db_conns[conn_handle].services
  registered, \* the bases the SoftDevice has been told of
  pc, want, vendor,  \* step; uuid argument; vendor_services
  si, ci,     \* the service and the characteristic it is at
  ask,        \* the request that is not answered yet
  outcome, calls,
  lost, skipped  \* history: an answer was lost; a vendor service given up

Db == INSTANCE DbConnection WITH AnyService <- NoUuid

dataVars == <<services, registered, vendor>>
discVars == <<peer, connected, dataVars, pc, want, si, ci, ask, outcome, calls, lost, skipped>>

Handles == 1..LastHandle
Vendor == DOMAIN Base
NoAsk == [what |-> "nothing", from |-> 1, to |-> 1]
Attrs == peer.attrs
KindOf(h) == Attrs[h].kind
UuidOf(h) == Attrs[h].uuid

-----------------------------------------------------------------------------
(* The peer and the SoftDevice.                                             *)

Starts == {h \in DOMAIN Attrs : KindOf(h) = "service"}

EndOfService(h) ==
  LET later == {g \in Starts : g > h} IN
  IF later # {} THEN (CHOOSE g \in later : \A k \in later : g <= k) - 1
  ELSE IF peer.top THEN LastHandle ELSE Len(Attrs)

Reported(u) == IF u \in Vendor /\ Base[u] \notin registered THEN Unknown ELSE u

Answered(a, h) ==
  /\ h \in DOMAIN Attrs /\ a.from <= h /\ h <= a.to
  /\ \/ a.what = "services" /\ KindOf(h) = "service" /\ want \in {NoUuid, UuidOf(h)}
     \/ a.what = "chars" /\ KindOf(h) = "char"
     \/ a.what = "descs"

\* The handles an answer may list: the next ones, all of one uuid size.
Listings(a) ==
  LET hits == {h \in DOMAIN Attrs : Answered(a, h)}
      isVendor(h) == UuidOf(h) \in Vendor
      most == IF VendorPerResponse > PerResponse THEN VendorPerResponse ELSE PerResponse
  IN  {hs \in SeqOf(hits, most) \ {<<>>} :
        /\ \A i, j \in DOMAIN hs : i < j => hs[i] < hs[j]
        /\ \A h \in hits : h <= Last(hs) => h \in ToSet(hs)
        /\ \A i \in DOMAIN hs : isVendor(hs[i]) = isVendor(hs[1])
        /\ Len(hs) <= (IF isVendor(hs[1]) THEN VendorPerResponse ELSE PerResponse)}

Service(h) == [uuid |-> Reported(UuidOf(h)), start |-> h, end |-> EndOfService(h), chars |-> <<>>]
Char(h) == [uuid |-> Reported(UuidOf(h)), decl |-> h, value |-> h + 1, end |-> h + 1, descs |-> <<>>]
Desc(h) ==
  [uuid |-> IF KindOf(h) = "char" THEN Declaration ELSE Reported(UuidOf(h)), handle |-> h]

\* The SoftDevice answers the request that is under way with a listing ...
Found(what, hs) == connected /\ ask.what = what /\ hs \in Listings(ask)
\* ... with attribute_not_found ...
NotFound(what) == connected /\ ask.what = what /\ Listings(ask) = {}
\* ... or with another status.
Failed(what) == connected /\ ask.what = what /\ MayFail

-----------------------------------------------------------------------------
Request(what, from, to) == ask' = [what |-> what, from |-> from, to |-> to]

Return(how) ==
  /\ pc' = "idle"
  /\ outcome' = how
  /\ ask' = NoAsk

UuidsOf(seq) == {seq[i].uuid : i \in DOMAIN seq}

TypeOK ==
  /\ peer \in Databases
  /\ connected \in BOOLEAN
  /\ \A i \in DOMAIN services : services[i].start \in Handles /\ services[i].end \in Handles
  /\ registered \subseteq {Base[u] : u \in Vendor}
  /\ pc \in {"idle", "prim", "vendor", "read", "redisc", "service", "chars", "char", "descs"}
  /\ si \in 1..Len(services) + 1
  /\ pc \in {"chars", "char", "descs"} => si <= Len(services)
  /\ pc = "descs" => ci \in DOMAIN services[si].chars
  /\ ask.what \in {"nothing", "services", "read", "chars", "descs"}
  /\ outcome \in {"none_yet", "success", "error", "raised"}
  /\ calls \in 0..MaxCalls
  /\ {lost, skipped} \subseteq BOOLEAN

Init ==
  /\ peer \in Databases
  /\ connected = TRUE
  /\ services = <<>>
  /\ registered = {}
  /\ pc = "idle" /\ want = NoUuid /\ vendor = <<>>
  /\ si = 1 /\ ci = 1
  /\ ask = NoAsk
  /\ outcome = "none_yet" /\ calls = 0
  /\ lost = FALSE /\ skipped = FALSE

\* The call: nothing is asked for a uuid that is in the database.
Call(u) ==
  /\ pc = "idle" /\ connected
  /\ calls < MaxCalls
  /\ calls' = calls + 1
  /\ want' = u
  /\ vendor' = <<>>
  /\ si' = 1 /\ ci' = 1
  /\ skipped' = FALSE
  /\ IF u \in UuidsOf(services)
       THEN Return("success")
       ELSE /\ pc' = "prim"
            /\ outcome' = "none_yet"
            /\ Request("services", 1, LastHandle)
  /\ UNCHANGED <<peer, connected, services, registered, lost>>

\* The services of an answer one after the other: one whose uuid is in the
\* database is left out, one of unknown uuid is kept for later.  So is one of
\* a vendor uuid that is known and has the same value, 0x0000.
AddService(acc, h) ==
  LET s == Service(h) IN
  IF s.uuid \in UuidsOf(acc.services) THEN acc
  ELSE IF Value[s.uuid] = Value[Unknown] THEN [acc EXCEPT !.vendor = Append(@, s)]
  ELSE [acc EXCEPT !.services = Append(@, s)]

AddServices(hs) == FoldLeft(AddService, [services |-> services, vendor |-> vendor], hs)

\* Mutant of OnServices: the next request begins at the last end handle.
OnServicesAgain(hs) ==
  LET end == Service(Last(hs)).end IN
  /\ pc = "prim" /\ Found("services", hs)
  /\ services' = AddServices(hs).services
  /\ vendor' = AddServices(hs).vendor
  /\ IF end = LastHandle
       THEN pc' = "vendor" /\ ask' = NoAsk
       ELSE Request("services", Service(Last(hs)).start, LastHandle) /\ UNCHANGED pc
  /\ UNCHANGED <<peer, connected, registered, want, si, ci, outcome, calls, lost, skipped>>

OnServices(hs) ==
  LET end == Service(Last(hs)).end IN
  /\ pc = "prim" /\ Found("services", hs)
  /\ services' = AddServices(hs).services
  /\ vendor' = AddServices(hs).vendor
  /\ IF end = LastHandle
       THEN pc' = "vendor" /\ ask' = NoAsk
       ELSE Request("services", end + 1, LastHandle) /\ UNCHANGED pc
  /\ UNCHANGED <<peer, connected, registered, want, si, ci, outcome, calls, lost, skipped>>

OnNoMoreServices ==
  /\ pc = "prim" /\ NotFound("services")
  /\ pc' = "vendor"
  /\ ask' = NoAsk
  /\ UNCHANGED <<peer, connected, dataVars, want, si, ci, outcome, calls, lost, skipped>>

\* for s in vendor_services: read the declaration of the next one.
NextVendor ==
  /\ pc = "vendor" /\ connected
  /\ IF vendor = <<>>
       THEN pc' = "service" /\ UNCHANGED ask
       ELSE pc' = "read" /\ Request("read", Head(vendor).start, Head(vendor).start)
  /\ UNCHANGED <<peer, connected, dataVars, want, si, ci, outcome, calls, lost, skipped>>

\* The base of the full uuid is registered, and the service is asked for again.
OnRead ==
  /\ pc = "read" /\ connected /\ ask.what = "read"
  /\ registered' = registered \cup {Base[UuidOf(ask.from)]}
  /\ pc' = "redisc"
  /\ Request("services", ask.from, LastHandle)
  /\ UNCHANGED <<peer, connected, services, vendor, want, si, ci, outcome, calls, lost, skipped>>

\* All the services of the answer are added, known ones too.
OnRediscovered(hs) ==
  /\ pc = "redisc" /\ Found("services", hs)
  /\ services' = services \o [i \in DOMAIN hs |-> Service(hs[i])]
  /\ vendor' = Tail(vendor)
  /\ pc' = "vendor"
  /\ ask' = NoAsk
  /\ UNCHANGED <<peer, connected, registered, want, si, ci, outcome, calls, lost, skipped>>

\* A vendor service is passed over if the read or the second discovery fails,
\* and if the answer to the read is lost.
PassOverVendor ==
  /\ \/ pc = "read" /\ Failed("read")
     \/ pc = "redisc" /\ Failed("services")
     \/ pc = "read" /\ connected /\ MayLose
  /\ vendor' = Tail(vendor)
  /\ pc' = "vendor"
  /\ ask' = NoAsk
  /\ skipped' = TRUE
  /\ UNCHANGED <<peer, connected, services, registered, want, si, ci, outcome, calls, lost>>

\* A for loop has come to its end, and no longer needs the connection.
NothingToAsk ==
  \/ pc = "service" /\ si > 1 /\ si > Len(services)
  \/ pc = "char" /\ ci > Len(services[si].chars)

\* for s in self.db_conns[conn_handle].services
NextService ==
  /\ pc = "service"
  /\ IF si > Len(services)
       THEN /\ connected \/ NothingToAsk
            /\ Return("success")
       ELSE /\ connected
            /\ pc' = "chars"
            /\ Request("chars", services[si].start, services[si].end)
            /\ UNCHANGED outcome
  /\ UNCHANGED <<peer, connected, dataVars, want, si, ci, calls, lost, skipped>>

\* char_add: the new characteristic ends with the service, and the one before
\* it ends where the new one begins.
CharAdd(s, c) ==
  LET n == Len(s.chars)
      before == IF n = 0 THEN <<>> ELSE [s.chars EXCEPT ![n].end = c.decl - 1]
  IN  [s EXCEPT !.chars = Append(before, [c EXCEPT !.end = s.end])]

\* Mutant of AddChars: the ends of the earlier characteristics are kept.
AddCharsKeepEnds(s, hs) ==
  FoldLeft(LAMBDA acc, h : IF Char(h).uuid \in UuidsOf(acc.chars) THEN acc
                           ELSE [acc EXCEPT !.chars = Append(@, [Char(h) EXCEPT !.end = s.end])],
           s, hs)

\* The characteristics of an answer: one whose uuid the service has is left out.
AddChar(s, h) == IF Char(h).uuid \in UuidsOf(s.chars) THEN s ELSE CharAdd(s, Char(h))

AddChars(s, hs) == FoldLeft(AddChar, s, hs)

OnChars(hs) ==
  /\ pc = "chars" /\ Found("chars", hs)
  /\ services' = [services EXCEPT ![si] = AddChars(@, hs)]
  /\ Request("chars", Last(hs) + 1, services[si].end)
  /\ UNCHANGED <<peer, connected, registered, vendor, pc, want, si, ci, outcome, calls, lost, skipped>>

OnNoMoreChars ==
  /\ pc = "chars" /\ NotFound("chars")
  /\ pc' = "char"
  /\ ci' = 1
  /\ ask' = NoAsk
  /\ UNCHANGED <<peer, connected, dataVars, want, si, outcome, calls, lost, skipped>>

\* for ch in s.chars
NextChar ==
  LET chars == services[si].chars IN
  /\ pc = "char"
  /\ IF NothingToAsk
       THEN /\ pc' = "service"
            /\ si' = si + 1
            /\ UNCHANGED ask
       ELSE /\ connected
            /\ pc' = "descs"
            /\ Request("descs", chars[ci].value, chars[ci].end)
            /\ UNCHANGED si
  /\ UNCHANGED <<peer, connected, dataVars, want, ci, outcome, calls, lost, skipped>>

\* Mutant of OnDescs: it goes on after the last handle of the characteristic.
OnDescsBeyond(hs) ==
  LET ch == services[si].chars[ci] IN
  /\ pc = "descs" /\ Found("descs", hs)
  /\ services' = [services EXCEPT ![si].chars[ci].descs = @ \o [i \in DOMAIN hs |-> Desc(hs[i])]]
  /\ Request("descs", Last(hs) + 1, ch.end)
  /\ UNCHANGED <<peer, connected, registered, vendor, pc, want, si, ci, outcome, calls, lost, skipped>>

\* The test against repetition compares a descriptor with uuids and never
\* holds.
OnDescs(hs) ==
  LET ch == services[si].chars[ci] IN
  /\ pc = "descs" /\ Found("descs", hs)
  /\ services' = [services EXCEPT ![si].chars[ci].descs = @ \o [i \in DOMAIN hs |-> Desc(hs[i])]]
  /\ IF Last(hs) = ch.end
       THEN /\ pc' = "char"
            /\ ci' = ci + 1
            /\ ask' = NoAsk
       ELSE /\ Request("descs", Last(hs) + 1, ch.end)
            /\ UNCHANGED <<pc, ci>>
  /\ UNCHANGED <<peer, connected, registered, vendor, want, si, outcome, calls, lost, skipped>>

OnNoMoreDescs ==
  /\ pc = "descs" /\ NotFound("descs")
  /\ pc' = "char"
  /\ ci' = ci + 1
  /\ ask' = NoAsk
  /\ UNCHANGED <<peer, connected, dataVars, want, si, outcome, calls, lost, skipped>>

\* Mutant of OnError: the status itself is the result.
OnErrorStatus ==
  /\ \/ pc = "prim" /\ Failed("services")
     \/ pc = "chars" /\ Failed("chars")
     \/ pc = "descs" /\ Failed("descs")
  /\ Return("status")
  /\ UNCHANGED <<peer, connected, dataVars, want, si, ci, calls, lost, skipped>>

\* Any other status ends the call; the decorator raises.
OnError ==
  /\ \/ pc = "prim" /\ Failed("services")
     \/ pc = "chars" /\ Failed("chars")
     \/ pc = "descs" /\ Failed("descs")
  /\ Return("error")
  /\ UNCHANGED <<peer, connected, dataVars, want, si, ci, calls, lost, skipped>>

\* wait returns None in one of the three loops: they wait again, and nothing
\* is asked again.
Lose ==
  /\ MayLose
  /\ pc \in {"prim", "chars", "descs"} /\ ask # NoAsk
  /\ ask' = NoAsk
  /\ lost' = TRUE
  /\ UNCHANGED <<peer, connected, dataVars, pc, want, si, ci, outcome, calls, skipped>>

\* The answer to the second discovery is lost and None is subscripted, or the
\* connection has gone.
Raise ==
  /\ pc # "idle"
  /\ (~connected /\ ~NothingToAsk) \/ (pc = "redisc" /\ MayLose)
  /\ Return("raised")
  /\ UNCHANGED <<peer, connected, dataVars, want, si, ci, calls, lost, skipped>>

\* The SoftDevice refuses a request, or the vendor uuid: the driver raises.
Refuse ==
  /\ MayFail
  /\ pc # "idle" /\ ask # NoAsk
  /\ Return("raised")
  /\ UNCHANGED <<peer, connected, dataVars, want, si, ci, calls, lost, skipped>>

\* on_gap_evt_disconnected.
Disconnect ==
  /\ connected
  /\ connected' = FALSE
  /\ UNCHANGED <<peer, dataVars, pc, want, si, ci, ask, outcome, calls, lost, skipped>>

-----------------------------------------------------------------------------
\* The thread goes on, and the peer answers as it should.
Step ==
  \/ \E hs \in Listings(ask) : OnServices(hs) \/ OnRediscovered(hs) \/ OnChars(hs) \/ OnDescs(hs)
  \/ OnNoMoreServices \/ NextVendor \/ OnRead
  \/ NextService \/ OnNoMoreChars \/ NextChar \/ OnNoMoreDescs
  \/ Raise

\* A uuid that is asked for is one the SoftDevice knows.
KnownUuids == {NoUuid} \cup {u \in UuidsOf(Attrs) : Reported(u) = u}

Next ==
  \/ Step
  \/ \E u \in KnownUuids : Call(u)
  \/ PassOverVendor \/ OnError \/ Refuse \/ Lose \/ Disconnect

Spec == Init /\ [][Next]_discVars

\* The thread keeps running and the peer answers what was not lost: every
\* request of the ATT protocol has an answer.  No error is owed.
FairSpec == Spec /\ WF_discVars(Step)

-----------------------------------------------------------------------------
\* What the peer has: a characteristic owns the attributes from its value to
\* the next characteristic or the end of its service.
Within(s, h) == h \in s..EndOfService(s)
CharsOf(s) == {h \in DOMAIN Attrs : Within(s, h) /\ KindOf(h) = "char"}
DescsOf(s, c) == {h \in DOMAIN Attrs : h > c /\ Within(s, h) /\ ~\E d \in CharsOf(s) : c < d /\ d <= h}
PeerTree ==
  {<<s, UuidOf(s), {<<c, Reported(UuidOf(c)), DescsOf(s, c)>> : c \in CharsOf(s)}>> : s \in Starts}

\* The characteristic c of the service s has another base than s.
SameBase(u, v) == {u, v} \subseteq Vendor /\ Base[u] = Base[v]
Foreign(s, c) == UuidOf(c) \in Vendor /\ ~SameBase(UuidOf(s), UuidOf(c))

\* A peer whose vendor characteristics have the base of their service, or of none:
\* how they are reported does not change once their service has been found.
OwnBases ==
  \A s \in Starts : \A c \in CharsOf(s) :
    Foreign(s, c) => \A g \in Starts : ~SameBase(UuidOf(g), UuidOf(c))

\* A peer none of whose services, and no characteristics of one service, have,
\* or are reported with, the same uuid.
DistinctUuids ==
  /\ OwnBases
  /\ \A g, h \in Starts : UuidOf(g) = UuidOf(h) => g = h
  /\ \A s \in Starts : \A c, d \in CharsOf(s) :
       UuidOf(c) = UuidOf(d) \/ (Foreign(s, c) /\ Foreign(s, d)) => c = d

(* No request is sent for an empty range of handles: the SoftDevice would   *)
(* refuse it and the call would end half way.  A vendor characteristic      *)
(* whose base is registered after it was found is the exception: it is      *)
(* added again, and the one before it then ends before it begins.           *)
RangesValid == OwnBases => ask.from \in Handles /\ ask.to \in Handles /\ ask.from <= ask.to

DbTree ==
  {<<s.start, s.uuid, {<<c.decl, c.uuid, {d.handle : d \in ToSet(c.descs)}>> : c \in ToSet(s.chars)}>> :
     s \in ToSet(services)}

(* A call without uuid that returns success has found every service,        *)
(* characteristic and descriptor of the peer, each where it belongs,        *)
(* whatever the sizes of the answers, and whatever earlier calls found or   *)
(* left half done; vendor services that were passed over apart.             *)
DatabaseComplete ==
  (pc = "idle" /\ outcome = "success" /\ want = NoUuid /\ ~skipped /\ DistinctUuids) =>
    DbTree = PeerTree

(* The call ends, unless an answer was lost: then it waits for ever.        *)
Terminates == pc # "idle" ~> (pc = "idle" \/ lost)

(* ble_adapter.py:380 "Don't add repeat handles": no handle is twice in the *)
(* descriptors of a characteristic.                                         *)
NoRepeatHandles ==
  \A s \in ToSet(services) : \A c \in ToSet(s.chars) :
    \A i, j \in DOMAIN c.descs : c.descs[i].handle = c.descs[j].handle => i = j

\* The value handle found for a uuid (in services of uuid v) is that of a
\* characteristic with it.
ValueHandlesRight ==
  \A u \in UuidsOf(Attrs), v \in {NoUuid} \cup {UuidOf(s) : s \in Starts} :
    LET h == Db!GetCharValueHandle(services, u, v) IN
    h # Db!NoHandle =>
      \E s \in Starts : \E c \in CharsOf(s) :
        UuidOf(c) = u /\ h = c + 1 /\ v \in {NoUuid, UuidOf(s)}

\* The cccd found for a uuid is that of a characteristic with it, and of the
\* very one whose value handle was given.
CccdHandlesRight ==
  \A u \in UuidsOf(Attrs), value \in {Db!NoHandle} \cup DOMAIN Attrs :
    LET h == Db!GetCccdHandle(services, u, value) IN
    h # Db!NoHandle =>
      \E s \in Starts : \E c \in CharsOf(s) :
        /\ UuidOf(c) = u /\ value \in {Db!NoHandle, c + 1}
        /\ h \in DescsOf(s, c) /\ UuidOf(h) = Cccd

\* A peer without an attribute of a vendor uuid that has the value of the cccd.
NoCccdTwin == \A h \in DOMAIN Attrs : Value[UuidOf(h)] = Value[Cccd] => UuidOf(h) = Cccd

(* A handle that a lookup returns, at any moment of any discovery, half     *)
(* done or repeated, is what the operation needs it for.  For the cccd the  *)
(* peer must not have two characteristics of one uuid in a service (the     *)
(* second is dropped, and its cccd then found under the first), nor a twin  *)
(* of the cccd: get_cccd_handle compares values without their bases, and    *)
(* returns the handle of the twin.                                          *)
LookupsFindRightAttributes ==
  ValueHandlesRight /\ (DistinctUuids /\ NoCccdTwin => CccdHandlesRight)

(* After a complete discovery every characteristic can be reached, by its   *)
(* uuid and from the handle of a notification: the reverse lookups agree    *)
(* with the peer for each of its attributes.  Only the lookup of a cccd     *)
(* needs a peer without a twin of it.                                       *)
LookupsComplete ==
  (pc = "idle" /\ outcome = "success" /\ want = NoUuid /\ ~skipped /\ DistinctUuids) =>
    \A s \in Starts : \A c \in CharsOf(s) :
      LET u == Reported(UuidOf(c))
          cccds == {h \in DescsOf(s, c) : UuidOf(h) = Cccd}
      IN  /\ u # Unknown =>
               /\ Db!GetCharValueHandle(services, u, UuidOf(s)) = c + 1
               /\ Db!GetCharHandle(services, u) # Db!NoHandle
               /\ cccds # {} /\ NoCccdTwin => Db!GetCccdHandle(services, u, c + 1) \in cccds
          /\ \A h \in DescsOf(s, c) : Db!GetCharUuid(services, h, NoUuid) = u
=============================================================================
