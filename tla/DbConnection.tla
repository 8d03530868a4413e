---------------------------- MODULE DbConnection ----------------------------
(***************************************************************************)
(* The lookups of the class DbConnection (ble_adapter.py): from a uuid to  *)
(* the handle a request needs, and from the handle of a notification back  *)
(* to the uuid of its characteristic.  They are functions of the database  *)
(* that service_discovery builds, a sequence of services, and run over it  *)
(* in its order: the first match counts.  Services and characteristics are *)
(* compared by their whole uuid, descriptors by its 16-bit value alone,    *)
(* whatever the base.                                                      *)
(***************************************************************************)
EXTENDS Integers, Sequences, FiniteSetsExt

CONSTANTS
  Value,       \* of each uuid, the 16-bit value: its base is left out
  Cccd,        \* BLEUUID.Standard.cccd
  AnyService   \* no service_uuid was given

NoHandle == 0  \* None

\* The loops for s in services, for c in s.chars: the places of characteristics,
\* and the first of some of them.
Places(db) == UNION {{i} \X DOMAIN db[i].chars : i \in DOMAIN db}
CharAt(db, p) == db[p[1]].chars[p[2]]
ComesBefore(p, q) == p[1] < q[1] \/ (p[1] = q[1] /\ p[2] < q[2])
FirstOf(ps) == CHOOSE p \in ps : \A q \in ps : q = p \/ ComesBefore(p, q)

\* The descriptors of a characteristic with the value of d, and the handle of
\* the first.
DescsWith(c, d) == {k \in DOMAIN c.descs : Value[c.descs[k].uuid] = Value[d]}
DescHandle(c, d) == c.descs[Min(DescsWith(c, d))].handle

FirstDescHandle(db, ps, d) ==
  LET hits == {p \in ps : DescsWith(CharAt(db, p), d) # {}} IN
  IF hits = {} THEN NoHandle ELSE DescHandle(CharAt(db, FirstOf(hits)), d)

WithUuid(db, u) == {p \in Places(db) : CharAt(db, p).uuid = u}

\* Mutant of GetCharValueHandle: the service is not looked at.
GetCharValueHandleAnywhere(db, u, svc) == FirstDescHandle(db, WithUuid(db, u), u)

\* The value of a characteristic is among its descriptors, with its own uuid.
GetCharValueHandle(db, u, svc) ==
  FirstDescHandle(db, {p \in WithUuid(db, u) : svc \in {AnyService, db[p[1]].uuid}}, u)

\* Without an attr_handle only the first characteristic of the uuid in each
\* service is looked into (the break); with one, those of that value handle.
GetCccdHandle(db, u, attr) ==
  LET candidates ==
        {p \in WithUuid(db, u) :
          IF attr = NoHandle THEN ~\E q \in WithUuid(db, u) : q[1] = p[1] /\ q[2] < p[2]
          ELSE CharAt(db, p).value = attr}
  IN  FirstDescHandle(db, candidates, Cccd)

GetCharHandle(db, u) ==
  IF WithUuid(db, u) = {} THEN NoHandle ELSE CharAt(db, FirstOf(WithUuid(db, u))).decl

\* Mutant of CharsAt: a characteristic ends before its last handle.
CharsAtShort(db, h) == {p \in Places(db) : CharAt(db, p).decl <= h /\ h < CharAt(db, p).end}

\* The characteristics whose range has the handle.
CharsAt(db, h) == {p \in Places(db) : CharAt(db, p).decl <= h /\ h <= CharAt(db, p).end}

\* get_char_uuid, and get_char_props likewise.
GetCharUuid(db, h, none) ==
  IF CharsAt(db, h) = {} THEN none ELSE CharAt(db, FirstOf(CharsAt(db, h))).uuid
=============================================================================
