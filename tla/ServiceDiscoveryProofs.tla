----------------------- MODULE ServiceDiscoveryProofs -----------------------
(***************************************************************************)
(* What service_discovery keeps in the database and asks of the peer, for  *)
(* any peers, sizes of answers and numbers of calls.                       *)
(***************************************************************************)
EXTENDS ServiceDiscovery, WellFoundedInduction, TLAPS

-----------------------------------------------------------------------------
(* Numbers, and the folds over an answer.                                   *)

LEMMA NatMinimum ==
  ASSUME NEW T \in SUBSET Nat, T # {}
  PROVE  \E m \in T : \A k \in T : m <= k
<1>1. PICK m \in T : \A k \in T : ~(<<k, m>> \in OpToRel(<, Nat))
  BY WFMin, NatLessThanWellFounded
<1>2. \A k \in T : ~(k < m)
  BY <1>1 DEF OpToRel
<1>3. QED
  BY <1>2

\* Induction, for a set of numbers that goes on as far as n.
LEMMA UpTo ==
  ASSUME NEW n \in Nat, NEW T, 0 \in T, \A k \in 0..(n - 1) : k \in T => k + 1 \in T
  PROVE  n \in T
<1> DEFINE U == (0..n) \ T
<1>1. SUFFICES ASSUME U # {}
               PROVE  FALSE
  OBVIOUS
<1>2. U \in SUBSET Nat
  OBVIOUS
<1>3. PICK m \in U : \A k \in U : m <= k
  <2> HIDE DEF U
  <2>1. QED
    BY <1>1, <1>2, NatMinimum
<1>4. m # 0 /\ m \in 0..n /\ m \notin T
  OBVIOUS
<1>5. m - 1 \in 0..(n - 1) /\ m - 1 \notin U
  BY <1>3, <1>4
<1>6. QED
  BY <1>4, <1>5

LEMMA MaxUpTo ==
  ASSUME NEW k \in Nat, NEW s \in SUBSET (1..(k + 1))
  PROVE  IF k + 1 \in s THEN Max(s) = k + 1 ELSE s \in SUBSET (1..k)
<1>1. CASE k + 1 \in s
  <2>1. \A x \in s : x <= k + 1 /\ x \in Int
    OBVIOUS
  <2>2. \A y \in s : k + 1 >= y
    BY <2>1
  <2>3. \A x \in s : (\A y \in s : x >= y) => x = k + 1
    BY <1>1, <2>1
  <2>4. QED
    BY <1>1, <2>2, <2>3 DEF Max
<1>2. QED
  BY <1>1

LEMMA MaxOfInterval ==
  ASSUME NEW n \in Nat, n >= 1
  PROVE  Max(1..n) = n
<1>1. n - 1 \in Nat /\ (n - 1) + 1 = n /\ n \in 1..n /\ 1..n \in SUBSET (1..((n - 1) + 1))
  OBVIOUS
<1>2. QED
  BY <1>1, MaxUpTo

\* AddChars adds the characteristics of an answer one after the other.
LEMMA CharsFolded ==
  ASSUME NEW s, NEW hs, Len(hs) \in Nat, DOMAIN hs = 1..Len(hs)
  PROVE  \E F : /\ F[0] = s /\ F[Len(hs)] = AddChars(s, hs)
                /\ \A n \in 1..Len(hs) : F[n] = AddChar(F[n - 1], hs[n])
<1> DEFINE Folds(k, f) ==
      f = [t \in SUBSET (1..k) |->
             IF t = {} THEN s ELSE LET x == Max(t) IN AddChar(f[t \ {x}], hs[x])]
<1> DEFINE T == {k \in 0..Len(hs) : \E f : Folds(k, f)}
<1>1. 0 \in T
  <2>1. Folds(0, [t \in SUBSET (1..0) |-> s])
    OBVIOUS
  <2>2. QED
    BY <2>1
<1>2. ASSUME NEW k \in 0..(Len(hs) - 1), k \in T
      PROVE  k + 1 \in T
  <2>1. PICK f : Folds(k, f)
    BY <1>2
  <2> DEFINE g == [t \in SUBSET (1..(k + 1)) |->
                     IF k + 1 \in t THEN AddChar(f[t \ {k + 1}], hs[k + 1]) ELSE f[t]]
  <2>2. ASSUME NEW t \in SUBSET (1..(k + 1))
        PROVE  g[t] = IF t = {} THEN s ELSE LET x == Max(t) IN AddChar(g[t \ {x}], hs[x])
    <3>1. CASE k + 1 \in t
      <4>1. Max(t) = k + 1 /\ t # {} /\ t \ {k + 1} \in SUBSET (1..(k + 1)) /\ k + 1 \notin t \ {k + 1}
        BY <3>1, MaxUpTo
      <4>2. g[t] = AddChar(f[t \ {k + 1}], hs[k + 1]) /\ g[t \ {k + 1}] = f[t \ {k + 1}]
        BY <3>1, <4>1
      <4>3. QED
        BY <4>1, <4>2
    <3>2. CASE k + 1 \notin t
      <4>1. t \in SUBSET (1..k)
        BY <3>2
      <4>2. g[t] = f[t] /\ \A x : g[t \ {x}] = f[t \ {x}]
        BY <3>2, <4>1
      <4>3. f[t] = IF t = {} THEN s ELSE LET x == Max(t) IN AddChar(f[t \ {x}], hs[x])
        BY <2>1, <4>1
      <4>4. QED
        BY <4>2, <4>3
    <3>3. QED
      BY <3>1, <3>2
  <2>3. Folds(k + 1, g)
    BY <2>2
  <2>4. k + 1 \in 0..Len(hs) /\ \E e : Folds(k + 1, e)
    <3> HIDE DEF g
    <3>1. k + 1 \in 0..Len(hs)
      OBVIOUS
    <3>2. QED
      BY <2>3, <3>1
  <2>5. QED
    BY <2>4
<1>3. \E f : Folds(Len(hs), f)
  <2>1. Len(hs) \in T
    <3>1. \A k \in 0..(Len(hs) - 1) : k \in T => k + 1 \in T
      BY <1>2
    <3> HIDE DEF T
    <3>2. QED
      BY <1>1, <3>1, UpTo
  <2>2. QED
    BY <2>1
<1> DEFINE iter == CHOOSE f : Folds(Len(hs), f)
<1>4. Folds(Len(hs), iter)
  BY <1>3
<1>5. AddChars(s, hs) = iter[1..Len(hs)]
  <2>1. DOMAIN hs = 1..Len(hs)
    OBVIOUS
  <2>2. AddChars(s, hs) = LET it[t \in SUBSET DOMAIN hs] ==
                                IF t = {} THEN s ELSE LET x == Max(t) IN AddChar(it[t \ {x}], hs[x])
                          IN  it[DOMAIN hs]
    BY Zenon DEF AddChars, FoldLeft, MapThenFoldSet
  <2>3. QED
    BY Zenon, <2>1, <2>2
<1> DEFINE F == [n \in 0..Len(hs) |-> iter[1..n]]
<1>6. F[0] = s
  <2>1. 1..0 = {} /\ 0 \in 0..Len(hs) /\ {} \in SUBSET (1..Len(hs))
    OBVIOUS
  <2>2. iter[{}] = s
    BY <1>4, <2>1
  <2>3. QED
    BY <2>1, <2>2
<1>7. ASSUME NEW n \in 1..Len(hs)
      PROVE  F[n] = AddChar(F[n - 1], hs[n])
  <2>1. n \in Nat /\ n >= 1 /\ n \in 1..n
    OBVIOUS
  <2>2. Max(1..n) = n
    BY <2>1, MaxOfInterval
  <2>3. 1..n # {} /\ 1..n \in SUBSET (1..Len(hs)) /\ (1..n) \ {n} = 1..(n - 1)
    <3>1. Len(hs) \in Nat /\ n \in Nat /\ n >= 1 /\ n <= Len(hs)
      OBVIOUS
    <3>2. \A x : x \in (1..n) \ {n} <=> x \in 1..(n - 1)
      BY <3>1
    <3>3. (1..n) \ {n} = 1..(n - 1)
      BY <3>2
    <3>4. \A x \in 1..n : x \in 1..Len(hs)
      BY <3>1
    <3>6. 1..n # {}
      BY <2>1
    <3>5. QED
      BY <3>3, <3>4, <3>6
  <2>4. iter[1..n] = AddChar(iter[1..(n - 1)], hs[n])
    BY <1>4, <2>2, <2>3
  <2>5. n \in 0..Len(hs) /\ n - 1 \in 0..Len(hs)
    OBVIOUS
  <2>6. QED
    BY <2>4, <2>5
<1>8. F[Len(hs)] = AddChars(s, hs)
  BY <1>5
<1>9. QED
  BY <1>6, <1>7, <1>8

\* What AddServices starts from.
Before == [services |-> services, vendor |-> vendor]

\* AddServices adds the services of an answer one after the other.
LEMMA ServicesFolded ==
  ASSUME NEW hs, Len(hs) \in Nat, DOMAIN hs = 1..Len(hs)
  PROVE  \E F : /\ F[0] = Before /\ F[Len(hs)] = AddServices(hs)
                /\ \A n \in 1..Len(hs) : F[n] = AddService(F[n - 1], hs[n])
<1> DEFINE Folds(k, f) ==
      f = [t \in SUBSET (1..k) |->
             IF t = {} THEN Before ELSE LET x == Max(t) IN AddService(f[t \ {x}], hs[x])]
<1> DEFINE T == {k \in 0..Len(hs) : \E f : Folds(k, f)}
<1>1. 0 \in T
  <2>1. Folds(0, [t \in SUBSET (1..0) |-> Before])
    OBVIOUS
  <2>2. QED
    BY <2>1
<1>2. ASSUME NEW k \in 0..(Len(hs) - 1), k \in T
      PROVE  k + 1 \in T
  <2>1. PICK f : Folds(k, f)
    BY <1>2
  <2> DEFINE g == [t \in SUBSET (1..(k + 1)) |->
                     IF k + 1 \in t THEN AddService(f[t \ {k + 1}], hs[k + 1]) ELSE f[t]]
  <2>2. ASSUME NEW t \in SUBSET (1..(k + 1))
        PROVE  g[t] = IF t = {} THEN Before ELSE LET x == Max(t) IN AddService(g[t \ {x}], hs[x])
    <3>1. CASE k + 1 \in t
      <4>1. Max(t) = k + 1 /\ t # {} /\ t \ {k + 1} \in SUBSET (1..(k + 1)) /\ k + 1 \notin t \ {k + 1}
        BY <3>1, MaxUpTo
      <4>2. g[t] = AddService(f[t \ {k + 1}], hs[k + 1]) /\ g[t \ {k + 1}] = f[t \ {k + 1}]
        BY <3>1, <4>1
      <4>3. QED
        BY <4>1, <4>2
    <3>2. CASE k + 1 \notin t
      <4>1. t \in SUBSET (1..k)
        BY <3>2
      <4>2. g[t] = f[t] /\ \A x : g[t \ {x}] = f[t \ {x}]
        BY <3>2, <4>1
      <4>3. f[t] = IF t = {} THEN Before ELSE LET x == Max(t) IN AddService(f[t \ {x}], hs[x])
        BY <2>1, <4>1
      <4>4. QED
        BY <4>2, <4>3
    <3>3. QED
      BY <3>1, <3>2
  <2>3. Folds(k + 1, g)
    BY <2>2
  <2>4. k + 1 \in 0..Len(hs) /\ \E e : Folds(k + 1, e)
    <3> HIDE DEF g
    <3>1. k + 1 \in 0..Len(hs)
      OBVIOUS
    <3>2. QED
      BY <2>3, <3>1
  <2>5. QED
    BY <2>4
<1>3. \E f : Folds(Len(hs), f)
  <2>1. Len(hs) \in T
    <3>1. \A k \in 0..(Len(hs) - 1) : k \in T => k + 1 \in T
      BY <1>2
    <3> HIDE DEF T
    <3>2. QED
      BY <1>1, <3>1, UpTo
  <2>2. QED
    BY <2>1
<1> DEFINE iter == CHOOSE f : Folds(Len(hs), f)
<1>4. Folds(Len(hs), iter)
  BY <1>3
<1>5. AddServices(hs) = iter[1..Len(hs)]
  <2>1. DOMAIN hs = 1..Len(hs)
    OBVIOUS
  <2>2. AddServices(hs) = LET it[t \in SUBSET DOMAIN hs] ==
                                IF t = {} THEN Before ELSE LET x == Max(t) IN AddService(it[t \ {x}], hs[x])
                          IN  it[DOMAIN hs]
    BY Zenon DEF AddServices, FoldLeft, MapThenFoldSet, Before
  <2>3. QED
    BY Zenon, <2>1, <2>2
<1> DEFINE F == [n \in 0..Len(hs) |-> iter[1..n]]
<1>6. F[0] = Before
  <2>1. 1..0 = {} /\ 0 \in 0..Len(hs) /\ {} \in SUBSET (1..Len(hs))
    OBVIOUS
  <2>2. iter[{}] = Before
    BY <1>4, <2>1
  <2>3. QED
    BY <2>1, <2>2
<1>7. ASSUME NEW n \in 1..Len(hs)
      PROVE  F[n] = AddService(F[n - 1], hs[n])
  <2>1. n \in Nat /\ n >= 1 /\ n \in 1..n
    OBVIOUS
  <2>2. Max(1..n) = n
    BY <2>1, MaxOfInterval
  <2>3. 1..n # {} /\ 1..n \in SUBSET (1..Len(hs)) /\ (1..n) \ {n} = 1..(n - 1)
    <3>1. Len(hs) \in Nat /\ n \in Nat /\ n >= 1 /\ n <= Len(hs)
      OBVIOUS
    <3>2. \A x : x \in (1..n) \ {n} <=> x \in 1..(n - 1)
      BY <3>1
    <3>3. (1..n) \ {n} = 1..(n - 1)
      BY <3>2
    <3>4. \A x \in 1..n : x \in 1..Len(hs)
      BY <3>1
    <3>6. 1..n # {}
      BY <2>1
    <3>5. QED
      BY <3>3, <3>4, <3>6
  <2>4. iter[1..n] = AddService(iter[1..(n - 1)], hs[n])
    BY <1>4, <2>2, <2>3
  <2>5. n \in 0..Len(hs) /\ n - 1 \in 0..Len(hs)
    OBVIOUS
  <2>6. QED
    BY <2>4, <2>5
<1>8. F[Len(hs)] = AddServices(hs)
  BY <1>5
<1>9. QED
  BY <1>6, <1>7, <1>8

-----------------------------------------------------------------------------
(* The peer.                                                                *)

AllUuids == {Unknown, Declaration} \cup UNION {UuidsOf(p.attrs) : p \in Databases}

LEMMA AttributesOfPeer ==
  ASSUME peer \in Databases
  PROVE  /\ DOMAIN Attrs = 1..Len(Attrs) /\ Len(Attrs) \in Nat /\ Len(Attrs) < LastHandle
         /\ LastHandle \in Nat /\ LastHandle >= 1 /\ DOMAIN Attrs \subseteq Handles
         /\ \A h \in DOMAIN Attrs : /\ UuidOf(h) \in AllUuids /\ UuidOf(h) # Unknown
                                    /\ Reported(UuidOf(h)) \in AllUuids
         /\ \A h \in DOMAIN Attrs : KindOf(h) = "char" =>
              h + 1 \in DOMAIN Attrs /\ KindOf(h + 1) = "attr"
<1>1. /\ DOMAIN Attrs = 1..Len(Attrs) /\ Len(Attrs) \in Nat /\ Len(Attrs) < LastHandle
      /\ LastHandle \in Nat
  BY DiscoveryBounds DEF Attrs
<1>2. LastHandle >= 1 /\ DOMAIN Attrs \subseteq Handles
  BY <1>1 DEF Handles
<1>3. \A h \in DOMAIN Attrs : UuidOf(h) \in AllUuids /\ UuidOf(h) # Unknown
  BY AttributesAssumption DEF AllUuids, UuidsOf, UuidOf, Attrs
<1>4. \A h \in DOMAIN Attrs : Reported(UuidOf(h)) \in AllUuids
  BY <1>3 DEF Reported, AllUuids
<1>5. \A h \in DOMAIN Attrs : KindOf(h) = "char" =>
        h + 1 \in DOMAIN Attrs /\ KindOf(h + 1) = "attr"
  BY AttributesAssumption DEF KindOf, Attrs
<1>6. QED
  BY <1>1, <1>2, <1>3, <1>4, <1>5

\* Where a service ends: not before it begins, before the next one begins, and not
\* with the declaration of a characteristic.
LEMMA ServiceEnds ==
  ASSUME peer \in Databases, NEW h \in Starts
  PROVE  /\ h \in Handles /\ EndOfService(h) \in Handles /\ h <= EndOfService(h)
         /\ \A g \in Starts : g > h => g > EndOfService(h)
         /\ \A k \in DOMAIN Attrs :
              (KindOf(k) = "char" /\ k <= EndOfService(h)) => k + 1 <= EndOfService(h)
<1> DEFINE later == {g \in Starts : g > h}
<1>1. Starts \subseteq DOMAIN Attrs /\ \A g \in Starts : KindOf(g) = "service"
  BY DEF Starts
<1>2. h \in 1..Len(Attrs) /\ h \in Handles
  BY <1>1, AttributesOfPeer
<1>3. CASE later # {}
  <2>1. later \in SUBSET Nat
    BY <1>1, AttributesOfPeer
  <2>2. \E m \in later : \A k \in later : m <= k
    BY <1>3, <2>1, NatMinimum
  <2> DEFINE next == CHOOSE g \in later : \A k \in later : g <= k
  <2>3. next \in later /\ \A k \in later : next <= k
    BY <2>2
  <2>4. EndOfService(h) = next - 1
    BY <1>3 DEF EndOfService
  <2>5. next \in 1..Len(Attrs) /\ next > h /\ KindOf(next) = "service"
    BY <1>1, <2>3, AttributesOfPeer
  <2> HIDE DEF next
  <2>6. EndOfService(h) \in Handles /\ h <= EndOfService(h)
    BY <1>2, <2>4, <2>5, AttributesOfPeer DEF Handles
  <2>7. \A g \in Starts : g > h => g > EndOfService(h)
    BY <1>1, <2>3, <2>4, <2>5, AttributesOfPeer
  <2>8. ASSUME NEW k \in DOMAIN Attrs, KindOf(k) = "char", k <= EndOfService(h)
        PROVE  k + 1 <= EndOfService(h)
    <3>1. k + 1 # next
      BY <2>5, <2>8, AttributesOfPeer
    <3>2. QED
      BY <2>4, <2>5, <2>8, <3>1, AttributesOfPeer
  <2>9. QED
    BY <1>2, <2>6, <2>7, <2>8
<1>4. CASE later = {}
  <2>1. EndOfService(h) = IF peer.top THEN LastHandle ELSE Len(Attrs)
    BY <1>4 DEF EndOfService
  <2>2. EndOfService(h) \in {LastHandle, Len(Attrs)}
    BY <2>1
  <2>3. EndOfService(h) \in Handles /\ h <= EndOfService(h)
    BY <1>2, <2>2, AttributesOfPeer DEF Handles
  <2>4. \A k \in DOMAIN Attrs : KindOf(k) = "char" => k + 1 <= EndOfService(h)
    BY <2>2, AttributesOfPeer
  <2>5. QED
    BY <1>2, <1>4, <2>3, <2>4
<1>5. QED
  BY <1>3, <1>4

\* An answer lists the first of the handles that answer the request, in order.
LEMMA Listed ==
  ASSUME peer \in Databases, NEW a, NEW hs \in Listings(a)
  PROVE  /\ hs \in Seq(DOMAIN Attrs) /\ Len(hs) \in Nat \ {0}
         /\ DOMAIN hs = 1..Len(hs) /\ Len(hs) \in DOMAIN hs /\ Last(hs) = hs[Len(hs)]
         /\ \A i \in DOMAIN hs : hs[i] \in DOMAIN Attrs /\ Answered(a, hs[i])
         /\ \A i, j \in DOMAIN hs : i < j => hs[i] < hs[j]
         /\ \A h \in DOMAIN Attrs :
              (Answered(a, h) /\ h <= Last(hs)) => \E i \in DOMAIN hs : hs[i] = h
<1> DEFINE hits == {h \in DOMAIN Attrs : Answered(a, h)}
<1>1. \E n : hs \in SeqOf(hits, n) \ {<<>>}
  BY DEF Listings
<1>2. PICK m \in Nat : hs \in [1..m -> hits] /\ hs # <<>>
  BY <1>1 DEF SeqOf
<1>3. hs \in Seq(hits) /\ Len(hs) = m /\ DOMAIN hs = 1..m
  BY <1>2
<1>4. m # 0
  BY <1>2, <1>3
<1>5. /\ \A i, j \in DOMAIN hs : i < j => hs[i] < hs[j]
      /\ \A h \in hits : h <= Last(hs) => h \in ToSet(hs)
  BY DEF Listings
<1>6. \A i \in DOMAIN hs : hs[i] \in DOMAIN Attrs /\ Answered(a, hs[i])
  BY <1>2, <1>3
<1>7. hs \in Seq(DOMAIN Attrs)
  BY <1>3, <1>6
<1>8. \A h \in DOMAIN Attrs :
        (Answered(a, h) /\ h <= Last(hs)) => \E i \in DOMAIN hs : hs[i] = h
  BY <1>5 DEF ToSet
<1>9. QED
  BY <1>3, <1>4, <1>5, <1>6, <1>7, <1>8 DEF Last

-----------------------------------------------------------------------------
(* Types.                                                                   *)

DescRecords == [uuid : AllUuids, handle : Handles]
CharRecords == [uuid : AllUuids, decl : Handles, value : Int, end : Int, descs : Seq(DescRecords)]

\* A service of the database is one of the peer, whole.
ServiceRecords ==
  {r \in [uuid : AllUuids, start : Starts, end : Handles, chars : Seq(CharRecords)] :
     r.end = EndOfService(r.start)}
VendorRecords == {r \in ServiceRecords : UuidOf(r.start) \in Vendor}

LEMMA ServiceTyped ==
  ASSUME peer \in Databases, NEW h \in Starts
  PROVE  /\ Service(h) \in ServiceRecords /\ Service(h).chars = <<>> /\ Service(h).start = h
         /\ Service(h).uuid = Reported(UuidOf(h))
         /\ Value[Service(h).uuid] = Value[Unknown] => Service(h) \in VendorRecords
         /\ Service(h).uuid # Unknown =>
              Service(h).uuid = UuidOf(h) /\ (UuidOf(h) \in Vendor => Base[UuidOf(h)] \in registered)
<1>1. h \in DOMAIN Attrs
  BY DEF Starts
<1>2. Reported(UuidOf(h)) \in AllUuids /\ UuidOf(h) # Unknown
  BY <1>1, AttributesOfPeer
<1>3. EndOfService(h) \in Handles
  BY ServiceEnds
<1>4. <<>> \in Seq(CharRecords)
  OBVIOUS
<1>5. Service(h) \in ServiceRecords
  BY <1>2, <1>3, <1>4 DEF Service, ServiceRecords
<1>6. /\ Service(h).chars = <<>> /\ Service(h).start = h
      /\ Service(h).uuid = Reported(UuidOf(h))
  BY DEF Service
<1>7. Value[Reported(UuidOf(h))] = Value[Unknown] => UuidOf(h) \in Vendor
  BY <1>1, AttributesAssumption DEF Reported, Vendor, UuidOf, Attrs
<1>8. Reported(UuidOf(h)) # Unknown =>
        Reported(UuidOf(h)) = UuidOf(h) /\ (UuidOf(h) \in Vendor => Base[UuidOf(h)] \in registered)
  BY DEF Reported
<1>9. QED
  BY <1>5, <1>6, <1>7, <1>8 DEF VendorRecords

\* Some of the services that are kept for later have a base the SoftDevice has
\* not been told of.
BaseMissing(kept) == \E j \in 1..Len(kept) : Base[UuidOf(kept[j].start)] \notin registered

\* What AddServices does to the database, after some services of the answer.
Extended(acc) ==
  /\ acc \in [services : Seq(ServiceRecords), vendor : Seq(VendorRecords)]
  /\ Len(acc.services) >= Len(services)
  /\ \A i \in 1..Len(services) : acc.services[i] = services[i]
  /\ \A i \in 1..Len(acc.services) : i > Len(services) =>
       /\ acc.services[i].chars = <<>>
       /\ acc.services[i].uuid = Reported(UuidOf(acc.services[i].start))
       /\ acc.services[i].uuid # Unknown
  /\ BaseMissing(acc.vendor) =>
       BaseMissing(vendor) \/ \A i \in 1..Len(services) : services[i].uuid # Unknown

LEMMA ServiceAdded ==
  ASSUME peer \in Databases, services \in Seq(ServiceRecords), NEW acc, Extended(acc), NEW h \in Starts
  PROVE  Extended(AddService(acc, h))
<1> DEFINE s == Service(h)
           new == AddService(acc, h)
<1>0. Extended(acc)
  OBVIOUS
<1>1. /\ s \in ServiceRecords /\ s.chars = <<>> /\ s.start = h
      /\ s.uuid = Reported(UuidOf(h))
      /\ Value[s.uuid] = Value[Unknown] => s \in VendorRecords
      /\ s.uuid # Unknown => (UuidOf(h) \in Vendor => Base[UuidOf(h)] \in registered)
  BY ServiceTyped
<1>2. /\ acc \in [services : Seq(ServiceRecords), vendor : Seq(VendorRecords)]
      /\ acc.services \in Seq(ServiceRecords) /\ acc.vendor \in Seq(VendorRecords)
  BY DEF Extended
<1>3. DOMAIN acc.services = 1..Len(acc.services) /\ Len(acc.services) \in Nat /\ Len(services) \in Nat
  BY <1>2
<1> HIDE DEF s
<1>4. CASE s.uuid \in UuidsOf(acc.services)
  <2>1. new = acc
    BY <1>4 DEF AddService, s
  <2>2. QED
    BY <2>1
<1>5. CASE s.uuid \notin UuidsOf(acc.services) /\ Value[s.uuid] = Value[Unknown]
  <2>1. new = [acc EXCEPT !.vendor = Append(acc.vendor, s)]
    BY <1>5 DEF AddService, s
  <2> SUFFICES Extended(new)
    OBVIOUS
  <2> HIDE DEF new
  <2>2. new.services = acc.services /\ new.vendor = Append(acc.vendor, s)
    BY <1>2, <2>1
  <2>3. new.vendor \in Seq(VendorRecords)
    BY <1>1, <1>2, <1>5, <2>2
  <2>4. new \in [services : Seq(ServiceRecords), vendor : Seq(VendorRecords)]
    BY <1>2, <2>1, <2>2, <2>3
  <2>5. BaseMissing(new.vendor) =>
          BaseMissing(acc.vendor) \/ \A i \in 1..Len(services) : services[i].uuid # Unknown
    <3>1. CASE s.uuid = Unknown
      <4>1. \A i \in 1..Len(acc.services) : acc.services[i].uuid # Unknown
        BY <1>3, <1>5, <3>1 DEF UuidsOf
      <4>2. QED
        BY <1>3, <4>1 DEF Extended
    <3>2. CASE s.uuid # Unknown
      <4>1. /\ Len(new.vendor) = Len(acc.vendor) + 1 /\ Len(acc.vendor) \in Nat
            /\ \A j \in 1..Len(acc.vendor) : new.vendor[j] = acc.vendor[j]
            /\ new.vendor[Len(acc.vendor) + 1] = s
        BY <1>1, <1>2, <1>5, <2>2
      <4>2. \A j \in 1..Len(new.vendor) : j \in 1..Len(acc.vendor) \/ new.vendor[j] = s
        BY <4>1
      <4>3. Base[UuidOf(s.start)] \in registered
        BY <1>1, <1>5, <3>2 DEF VendorRecords
      <4>4. QED
        BY <4>1, <4>2, <4>3 DEF BaseMissing
    <3>3. QED
      BY <3>1, <3>2
  <2>6. QED
    BY <2>2, <2>4, <2>5 DEF Extended
<1>6. CASE s.uuid \notin UuidsOf(acc.services) /\ Value[s.uuid] # Value[Unknown]
  <2>1. new = [acc EXCEPT !.services = Append(acc.services, s)]
    BY <1>6 DEF AddService, s
  <2> SUFFICES Extended(new)
    OBVIOUS
  <2> HIDE DEF new
  <2>2. new.services = Append(acc.services, s) /\ new.vendor = acc.vendor
    BY <1>2, <2>1
  <2>3. /\ new.services \in Seq(ServiceRecords) /\ Len(new.services) = Len(acc.services) + 1
        /\ \A i \in 1..Len(acc.services) : new.services[i] = acc.services[i]
        /\ new.services[Len(acc.services) + 1] = s
    BY <1>1, <1>2, <2>2
  <2>4. new \in [services : Seq(ServiceRecords), vendor : Seq(VendorRecords)]
    BY <1>2, <2>1, <2>2, <2>3
  <2>5. Len(new.services) >= Len(services)
    BY <1>3, <2>3 DEF Extended
  <2>6. \A i \in 1..Len(services) : new.services[i] = services[i]
    BY <1>3, <2>3 DEF Extended
  <2>7. ASSUME NEW i \in 1..Len(new.services), i > Len(services)
        PROVE  /\ new.services[i].chars = <<>>
               /\ new.services[i].uuid = Reported(UuidOf(new.services[i].start))
               /\ new.services[i].uuid # Unknown
    <3>1. CASE i \in 1..Len(acc.services)
      BY <2>3, <2>7, <3>1 DEF Extended
    <3>2. CASE i \notin 1..Len(acc.services)
      <4>1. i = Len(acc.services) + 1
        BY <1>3, <2>3, <3>2
      <4>2. QED
        BY <1>1, <1>6, <2>3, <4>1
    <3>3. QED
      BY <3>1, <3>2
  <2>8. acc.vendor = new.vendor
    BY <2>2
  <2>9. QED
    BY <2>4, <2>5, <2>6, <2>7, <2>8 DEF Extended
<1>7. QED
  BY <1>4, <1>5, <1>6

LEMMA ServicesAdded ==
  ASSUME peer \in Databases, services \in Seq(ServiceRecords), vendor \in Seq(VendorRecords),
         NEW hs \in Seq(Starts)
  PROVE  Extended(AddServices(hs))
<1>1. Len(hs) \in Nat /\ DOMAIN hs = 1..Len(hs) /\ \A i \in 1..Len(hs) : hs[i] \in Starts
  OBVIOUS
<1>2. PICK F : /\ F[0] = Before /\ F[Len(hs)] = AddServices(hs)
               /\ \A n \in 1..Len(hs) : F[n] = AddService(F[n - 1], hs[n])
  BY <1>1, ServicesFolded
<1> DEFINE T == {n \in 0..Len(hs) : Extended(F[n])}
<1>3. 0 \in T
  <2>1. /\ Before \in [services : Seq(ServiceRecords), vendor : Seq(VendorRecords)]
        /\ Before.services = services /\ Before.vendor = vendor
    BY DEF Before
  <2>2. Extended(Before)
    BY <2>1 DEF Extended
  <2>3. QED
    BY <1>1, <1>2, <2>2
<1>4. ASSUME NEW k \in 0..(Len(hs) - 1), k \in T
      PROVE  k + 1 \in T
  <2>1. k + 1 \in 1..Len(hs) /\ (k + 1) - 1 = k /\ k + 1 \in 0..Len(hs)
    BY <1>1
  <2>2. F[k + 1] = AddService(F[k], hs[k + 1]) /\ hs[k + 1] \in Starts
    BY <1>1, <1>2, <2>1
  <2>3. Extended(F[k + 1])
    BY <1>4, <2>2, ServiceAdded
  <2>4. QED
    BY <2>1, <2>3
<1>5. Len(hs) \in T
  <2> HIDE DEF T
  <2>1. QED
    BY <1>1, <1>3, <1>4, UpTo
<1>6. QED
  BY <1>2, <1>5

\* AddChar leaves out a characteristic whose uuid is there, or puts it at the end.
LEMMA CharAdded ==
  ASSUME peer \in Databases, NEW s \in ServiceRecords, NEW h \in DOMAIN Attrs
  PROVE  LET new == AddChar(s, h)
             n == Len(s.chars)
         IN  /\ new \in ServiceRecords
             /\ new.start = s.start /\ new.end = s.end /\ new.uuid = s.uuid
             /\ Reported(UuidOf(h)) \in UuidsOf(s.chars) => new = s
             /\ Reported(UuidOf(h)) \notin UuidsOf(s.chars) =>
                  /\ Len(new.chars) = n + 1
                  /\ \A i \in 1..n : /\ new.chars[i].uuid = s.chars[i].uuid
                                     /\ new.chars[i].decl = s.chars[i].decl
                                     /\ new.chars[i].value = s.chars[i].value
                                     /\ new.chars[i].end = IF i = n THEN h - 1 ELSE s.chars[i].end
                                     /\ new.chars[i].descs = s.chars[i].descs
                  /\ new.chars[n + 1].uuid = Reported(UuidOf(h))
                  /\ new.chars[n + 1].decl = h
                  /\ new.chars[n + 1].value = h + 1
                  /\ new.chars[n + 1].end = s.end
                  /\ new.chars[n + 1].descs = <<>>
<1> DEFINE n == Len(s.chars)
           c == Char(h)
           before == IF n = 0 THEN <<>> ELSE [s.chars EXCEPT ![n].end = c.decl - 1]
           last == [c EXCEPT !.end = s.end]
           chars == Append(before, last)
<1>1. /\ s \in [uuid : AllUuids, start : Starts, end : Handles, chars : Seq(CharRecords)]
      /\ s.end = EndOfService(s.start)
  BY DEF ServiceRecords
<1>2. /\ h \in Handles /\ Reported(UuidOf(h)) \in AllUuids /\ Handles \subseteq Int
  BY AttributesOfPeer DEF Handles
<1>3. c = [uuid |-> Reported(UuidOf(h)), decl |-> h, value |-> h + 1, end |-> h + 1, descs |-> <<>>]
  BY DEF Char
<1>4. /\ last \in CharRecords
      /\ last.uuid = Reported(UuidOf(h)) /\ last.decl = h /\ last.value = h + 1 /\ last.end = s.end
      /\ last.descs = <<>>
  <2>1. h + 1 \in Int /\ s.end \in Int /\ <<>> \in Seq(DescRecords)
    BY <1>1, <1>2
  <2>2. last = [uuid |-> Reported(UuidOf(h)), decl |-> h, value |-> h + 1, end |-> s.end, descs |-> <<>>]
    BY <1>3
  <2> HIDE DEF last
  <2>3. QED
    BY <1>2, <2>1, <2>2 DEF CharRecords
<1>5. CASE Reported(UuidOf(h)) \in UuidsOf(s.chars)
  <2>1. AddChar(s, h) = s
    BY <1>3, <1>5 DEF AddChar
  <2>2. QED
    BY <1>5, <2>1
<1>6. CASE Reported(UuidOf(h)) \notin UuidsOf(s.chars)
  <2>1. AddChar(s, h) = [s EXCEPT !.chars = chars]
    BY <1>3, <1>6 DEF AddChar, CharAdd
  <2>2. n \in Nat /\ s.chars \in [1..n -> CharRecords]
    BY <1>1
  <2>3. /\ before \in Seq(CharRecords) /\ Len(before) = n
        /\ \A i \in 1..n : /\ before[i].uuid = s.chars[i].uuid
                           /\ before[i].decl = s.chars[i].decl
                           /\ before[i].value = s.chars[i].value
                           /\ before[i].end = IF i = n THEN h - 1 ELSE s.chars[i].end
                           /\ before[i].descs = s.chars[i].descs
    <3>1. CASE n = 0
      <4>1. before = <<>>
        BY <3>1
      <4>2. QED
        BY <3>1, <4>1
    <3>2. CASE n # 0
      <4>1. n \in 1..n /\ h - 1 \in Int /\ c.decl = h /\ s.chars[n] \in CharRecords
        BY <1>2, <1>3, <2>2, <3>2
      <4> DEFINE r == [s.chars[n] EXCEPT !.end = h - 1]
      <4>2. /\ r \in CharRecords /\ r.end = h - 1 /\ r.uuid = s.chars[n].uuid
            /\ r.decl = s.chars[n].decl /\ r.value = s.chars[n].value
            /\ r.descs = s.chars[n].descs
        BY <4>1 DEF CharRecords
      <4>3. before = [s.chars EXCEPT ![n] = r]
        BY <3>2, <4>1
      <4> HIDE DEF r, before
      <4>4. /\ before \in [1..n -> CharRecords]
            /\ \A i \in 1..n : before[i] = IF i = n THEN r ELSE s.chars[i]
        BY <2>2, <4>1, <4>2, <4>3
      <4>5. before \in Seq(CharRecords) /\ Len(before) = n
        BY <2>2, <4>4
      <4>6. QED
        BY <4>2, <4>4, <4>5
    <3>3. QED
      BY <3>1, <3>2
  <2> HIDE DEF before, last
  <2>4. /\ chars \in Seq(CharRecords) /\ Len(chars) = n + 1
        /\ \A i \in 1..n : chars[i] = before[i]
        /\ chars[n + 1] = last
    BY <1>4, <2>2, <2>3
  <2> HIDE DEF chars
  <2>5. /\ AddChar(s, h) \in [uuid : AllUuids, start : Starts, end : Handles, chars : Seq(CharRecords)]
        /\ AddChar(s, h).start = s.start /\ AddChar(s, h).end = s.end
        /\ AddChar(s, h).uuid = s.uuid /\ AddChar(s, h).chars = chars
    BY <1>1, <2>1, <2>4
  <2>6. AddChar(s, h) \in ServiceRecords
    BY <1>1, <2>5 DEF ServiceRecords
  <2>7. \A i \in 1..n : /\ chars[i].uuid = s.chars[i].uuid
                        /\ chars[i].decl = s.chars[i].decl
                        /\ chars[i].value = s.chars[i].value
                        /\ chars[i].end = IF i = n THEN h - 1 ELSE s.chars[i].end
                        /\ chars[i].descs = s.chars[i].descs
    BY <2>3, <2>4
  <2> HIDE DEF n
  <2>8. QED
    BY <1>4, <1>6, <2>4, <2>5, <2>6, <2>7 DEF n
<1>7. QED
  BY <1>5, <1>6

-----------------------------------------------------------------------------
(* The characteristics of a service.                                        *)

\* The service has a characteristic that is reported as c is.
HasUuidOf(s, c) == Reported(UuidOf(c)) \in UuidsOf(s.chars)

\* The characteristics are some of the service's in the order of their handles,
\* each reaches to the next one, and none of a new uuid lies before another.
CharsOk(s) ==
  /\ \A i \in 1..Len(s.chars) :
       /\ s.chars[i].decl \in CharsOf(s.start)
       /\ s.chars[i].value = s.chars[i].decl + 1
       /\ s.chars[i].uuid = Reported(UuidOf(s.chars[i].decl))
       /\ s.chars[i].end = IF i = Len(s.chars) THEN s.end ELSE s.chars[i + 1].decl - 1
  /\ \A i, j \in 1..Len(s.chars) : i < j => s.chars[i].decl < s.chars[j].decl
  /\ \A i \in 1..Len(s.chars) : \A c \in CharsOf(s.start) :
       c <= s.chars[i].decl => HasUuidOf(s, c)

LEMMA AddedOk ==
  ASSUME peer \in Databases, NEW s \in ServiceRecords, CharsOk(s), NEW h \in CharsOf(s.start),
         \A c \in CharsOf(s.start) : c < h => HasUuidOf(s, c)
  PROVE  /\ CharsOk(AddChar(s, h)) /\ HasUuidOf(AddChar(s, h), h)
         /\ \A c : HasUuidOf(s, c) => HasUuidOf(AddChar(s, h), c)
<1>1. PICK new : new = AddChar(s, h)
  OBVIOUS
<1>2. PICK n \in Nat : n = Len(s.chars) /\ DOMAIN s.chars = 1..n
  BY DEF ServiceRecords
<1>3. h \in DOMAIN Attrs /\ h \in Int /\ CharsOf(s.start) \subseteq Int
  BY AttributesOfPeer DEF CharsOf
<1>4. CASE HasUuidOf(s, h)
  BY <1>3, <1>4, CharAdded DEF HasUuidOf
<1>5. CASE ~HasUuidOf(s, h)
  <2>0. h \in DOMAIN Attrs /\ Reported(UuidOf(h)) \notin UuidsOf(s.chars)
    BY <1>3, <1>5 DEF HasUuidOf
  <2>1. /\ new.start = s.start /\ new.end = s.end
        /\ Len(new.chars) = n + 1
        /\ \A i \in 1..n : /\ new.chars[i].uuid = s.chars[i].uuid
                           /\ new.chars[i].decl = s.chars[i].decl
                           /\ new.chars[i].value = s.chars[i].value
                           /\ new.chars[i].end = IF i = n THEN h - 1 ELSE s.chars[i].end
        /\ new.chars[n + 1].uuid = Reported(UuidOf(h))
        /\ new.chars[n + 1].decl = h
        /\ new.chars[n + 1].value = h + 1
        /\ new.chars[n + 1].end = s.end
    BY <1>1, <1>2, <2>0, CharAdded
  <2>2. DOMAIN new.chars = 1..(n + 1)
    <3>1. new \in ServiceRecords
      BY <1>1, <1>3, CharAdded
    <3>2. new.chars \in Seq(CharRecords)
      BY <3>1 DEF ServiceRecords
    <3>3. QED
      BY <2>1, <3>2
  <2>3. \A i \in 1..n : s.chars[i].decl \in Int /\ s.chars[i].decl < h
    <3>1. \A i \in 1..n : s.chars[i].decl \in Int /\ ~(h <= s.chars[i].decl)
      BY <1>2, <1>3, <1>5 DEF CharsOk
    <3>2. QED
      BY <1>3, <3>1
  <2>4. \A c : HasUuidOf(s, c) => HasUuidOf(new, c)
    BY <1>2, <2>1, <2>2 DEF HasUuidOf, UuidsOf
  <2>5. HasUuidOf(new, h)
    BY <1>2, <2>1, <2>2 DEF HasUuidOf, UuidsOf
  <2>6. ASSUME NEW i \in 1..(n + 1)
        PROVE  /\ new.chars[i].decl \in CharsOf(new.start)
               /\ new.chars[i].value = new.chars[i].decl + 1
               /\ new.chars[i].uuid = Reported(UuidOf(new.chars[i].decl))
               /\ new.chars[i].end = IF i = n + 1 THEN new.end ELSE new.chars[i + 1].decl - 1
               /\ \A c \in CharsOf(new.start) : c <= new.chars[i].decl => HasUuidOf(new, c)
    <3>1. CASE i = n + 1
      <4>1. \A c \in CharsOf(s.start) : c <= h => HasUuidOf(new, c)
        BY <1>3, <2>4, <2>5
      <4>2. QED
        BY <2>1, <3>1, <4>1
    <3>2. CASE i \in 1..n
      <4>1. /\ s.chars[i].decl \in CharsOf(s.start)
            /\ s.chars[i].value = s.chars[i].decl + 1
            /\ s.chars[i].uuid = Reported(UuidOf(s.chars[i].decl))
            /\ s.chars[i].end = IF i = n THEN s.end ELSE s.chars[i + 1].decl - 1
            /\ \A c \in CharsOf(s.start) : c <= s.chars[i].decl => HasUuidOf(s, c)
        BY <1>2, <3>2 DEF CharsOk
      <4>2. new.chars[i].end = new.chars[i + 1].decl - 1
        <5>1. CASE i = n
          BY <2>1, <3>2, <5>1
        <5>2. CASE i # n
          <6>1. i + 1 \in 1..n
            BY <1>2, <3>2, <5>2
          <6>2. QED
            BY <2>1, <3>2, <4>1, <5>2, <6>1
        <5>3. QED
          BY <5>1, <5>2
      <4>3. i # n + 1
        BY <1>2, <3>2
      <4>4. \A c \in CharsOf(new.start) : c <= new.chars[i].decl => HasUuidOf(new, c)
        BY <2>1, <2>4, <3>2, <4>1
      <4>5. QED
        BY <2>1, <3>2, <4>1, <4>2, <4>3, <4>4
    <3>3. QED
      BY <1>2, <3>1, <3>2
  <2>7. ASSUME NEW i \in 1..(n + 1), NEW j \in 1..(n + 1), i < j
        PROVE  new.chars[i].decl < new.chars[j].decl
    <3>1. i \in 1..n
      BY <1>2, <2>7
    <3>2. CASE j = n + 1
      BY <2>1, <2>3, <3>1, <3>2
    <3>3. CASE j \in 1..n
      BY <1>2, <2>1, <2>7, <3>1, <3>3 DEF CharsOk
    <3>4. QED
      BY <1>2, <3>2, <3>3
  <2>8. CharsOk(new)
    BY <2>1, <2>6, <2>7 DEF CharsOk
  <2>9. QED
    BY <1>1, <2>4, <2>5, <2>8
<1>6. QED
  BY <1>4, <1>5

\* The characteristics of an answer, to a request that begins behind those found.
LEMMA CharsAdded ==
  ASSUME peer \in Databases, NEW s \in ServiceRecords, NEW a, a.what = "chars", NEW hs \in Listings(a)
  PROVE  LET new == AddChars(s, hs)
         IN  /\ new \in ServiceRecords
             /\ new.start = s.start /\ new.end = s.end /\ new.uuid = s.uuid
             /\ (/\ CharsOk(s) /\ a.from \in Int /\ a.from >= s.start /\ a.to = s.end
                 /\ \A c \in CharsOf(s.start) : c < a.from => HasUuidOf(s, c)) =>
                  /\ CharsOk(new)
                  /\ \A c \in CharsOf(s.start) : c < Last(hs) + 1 => HasUuidOf(new, c)
<1>1. /\ Len(hs) \in Nat /\ DOMAIN hs = 1..Len(hs) /\ Len(hs) \in DOMAIN hs /\ Last(hs) = hs[Len(hs)]
      /\ \A i \in DOMAIN hs : hs[i] \in DOMAIN Attrs /\ hs[i] \in Int /\ Answered(a, hs[i])
      /\ \A i, j \in DOMAIN hs : i < j => hs[i] < hs[j]
      /\ \A h \in DOMAIN Attrs :
           (Answered(a, h) /\ h <= Last(hs)) => \E i \in DOMAIN hs : hs[i] = h
  <2>1. /\ Len(hs) \in Nat /\ DOMAIN hs = 1..Len(hs) /\ Len(hs) \in DOMAIN hs /\ Last(hs) = hs[Len(hs)]
        /\ \A i \in DOMAIN hs : hs[i] \in DOMAIN Attrs /\ Answered(a, hs[i])
    BY Listed
  <2>2. /\ \A i, j \in DOMAIN hs : i < j => hs[i] < hs[j]
        /\ \A h \in DOMAIN Attrs :
             (Answered(a, h) /\ h <= Last(hs)) => \E i \in DOMAIN hs : hs[i] = h
    BY Listed
  <2>3. \A h \in DOMAIN Attrs : h \in Int
    BY AttributesOfPeer
  <2>4. QED
    BY <2>1, <2>2, <2>3
<1>2. PICK F : /\ F[0] = s /\ F[Len(hs)] = AddChars(s, hs)
               /\ \A n \in 1..Len(hs) : F[n] = AddChar(F[n - 1], hs[n])
  <2>1. Len(hs) \in Nat /\ DOMAIN hs = 1..Len(hs)
    BY <1>1
  <2>2. \E F : /\ F[0] = s /\ F[Len(hs)] = AddChars(s, hs)
               /\ \A n \in 1..Len(hs) : F[n] = AddChar(F[n - 1], hs[n])
    BY <2>1, CharsFolded
  <2>3. QED
    BY <2>2
<1> DEFINE Covered(c, n) == c < a.from \/ \E i \in 1..n : hs[i] = c
           Fit == /\ CharsOk(s) /\ a.from \in Int /\ a.from >= s.start /\ a.to = s.end
                  /\ \A c \in CharsOf(s.start) : c < a.from => HasUuidOf(s, c)
           Good(n) == /\ F[n] \in ServiceRecords
                      /\ F[n].start = s.start /\ F[n].end = s.end /\ F[n].uuid = s.uuid
                      /\ Fit => /\ CharsOk(F[n])
                                /\ \A c \in CharsOf(s.start) : Covered(c, n) => HasUuidOf(F[n], c)
           T == {n \in 0..Len(hs) : Good(n)}
<1> HIDE DEF Fit
<1>3. 0 \in T
  BY <1>1, <1>2 DEF Fit
<1>4. ASSUME NEW k \in 0..(Len(hs) - 1), k \in T
      PROVE  k + 1 \in T
  <2>0. Len(hs) \in Nat
    BY <1>1
  <2>1. k + 1 \in 1..Len(hs) /\ (k + 1) - 1 = k /\ k + 1 \in 0..Len(hs) /\ k \in Nat
    BY <2>0
  <2>2. PICK h : h = hs[k + 1] /\ h \in DOMAIN Attrs /\ h \in Int /\ Answered(a, h)
    BY <1>1, <2>1
  <2>3. F[k + 1] = AddChar(F[k], h)
    BY <1>2, <2>1, <2>2
  <2>4. Good(k)
    BY <1>4
  <2>5. /\ F[k + 1] \in ServiceRecords
        /\ F[k + 1].start = s.start /\ F[k + 1].end = s.end /\ F[k + 1].uuid = s.uuid
    BY <2>2, <2>3, <2>4, CharAdded
  <2>6. ASSUME Fit
        PROVE  /\ CharsOk(F[k + 1])
               /\ \A c \in CharsOf(s.start) : Covered(c, k + 1) => HasUuidOf(F[k + 1], c)
    <3>1. s.start \in Int /\ s.end = EndOfService(s.start) /\ a.from \in Int
      BY <2>6, AttributesOfPeer DEF ServiceRecords, Fit, Starts
    <3>2. h \in CharsOf(s.start)
      BY <2>2, <2>6, <3>1, ServiceEnds DEF CharsOf, Within, Answered, Fit, ServiceRecords, Handles
    <3>3. ASSUME NEW c \in CharsOf(s.start), c < h
          PROVE  HasUuidOf(F[k], c)
      <4>1. CASE c < a.from
        BY <2>4, <2>6, <4>1
      <4>2. CASE ~(c < a.from)
        <5>1. c \in DOMAIN Attrs /\ c \in Int /\ KindOf(c) = "char"
          BY AttributesOfPeer DEF CharsOf
        <5>2. a.from <= c /\ c <= h /\ h <= a.to /\ a.to \in Int
          BY <2>2, <2>6, <3>1, <3>3, <4>2, <5>1, ServiceEnds DEF Answered, Fit, ServiceRecords, Handles
        <5>3. Answered(a, c)
          BY <2>2, <5>1, <5>2 DEF Answered
        <5>4. h <= Last(hs)
          <6>1. k + 1 = Len(hs) \/ k + 1 < Len(hs)
            BY <2>0, <2>1
          <6>2. k + 1 \in DOMAIN hs /\ Len(hs) \in DOMAIN hs
            BY <1>1, <2>1
          <6>3. k + 1 < Len(hs) => hs[k + 1] < hs[Len(hs)]
            BY <1>1, <6>2
          <6>4. hs[Len(hs)] \in Int /\ hs[k + 1] \in Int /\ Last(hs) = hs[Len(hs)]
            BY <1>1, <6>2
          <6>5. hs[k + 1] <= hs[Len(hs)]
            <7>1. CASE k + 1 < Len(hs)
              BY <6>3, <6>4, <7>1
            <7>2. CASE k + 1 = Len(hs)
              BY <6>4, <7>2
            <7>3. QED
              BY <6>1, <7>1, <7>2
          <6>6. QED
            BY <2>2, <6>4, <6>5
        <5>5. PICK i \in 1..Len(hs) : hs[i] = c
          <6>1. Last(hs) \in Int
            BY <1>1
          <6>2. c <= Last(hs)
            BY <2>2, <5>1, <5>2, <5>4, <6>1
          <6>3. QED
            BY <1>1, <5>1, <5>3, <6>2
        <5>6. ~(k + 1 < i) /\ i # k + 1
          <6>1. k + 1 < i => hs[k + 1] < hs[i]
            BY <1>1, <2>1, <5>5
          <6>2. QED
            BY <2>2, <3>3, <5>1, <5>5, <6>1
        <5>7. i \in 1..k
          BY <2>1, <5>6
        <5>8. QED
          BY <2>4, <2>6, <5>5, <5>7
      <4>3. QED
        BY <4>1, <4>2
    <3>4. CharsOk(F[k]) /\ F[k] \in ServiceRecords /\ F[k].start = s.start
      BY <2>4, <2>6
    <3>5. /\ CharsOk(F[k + 1]) /\ HasUuidOf(F[k + 1], h)
          /\ \A c : HasUuidOf(F[k], c) => HasUuidOf(F[k + 1], c)
      <4> HIDE DEF Good
      <4>1. QED
        BY <2>3, <3>2, <3>3, <3>4, AddedOk
    <3>6. ASSUME NEW c \in CharsOf(s.start), Covered(c, k + 1)
          PROVE  HasUuidOf(F[k + 1], c)
      <4>1. Covered(c, k) \/ c = h
        BY <2>1, <2>2, <3>6
      <4>2. QED
        BY <2>4, <2>6, <3>5, <4>1
    <3>7. QED
      BY <3>5, <3>6
  <2>7. QED
    BY <2>1, <2>5, <2>6
<1>5. Good(Len(hs))
  <2>1. Len(hs) \in T
    <3> HIDE DEF T
    <3>1. QED
      BY <1>1, <1>3, <1>4, UpTo
  <2>2. QED
    BY <2>1
<1>6. ASSUME Fit, NEW c \in CharsOf(s.start), c < Last(hs) + 1
      PROVE  Covered(c, Len(hs))
  <2>1. c \in DOMAIN Attrs /\ c \in Int /\ KindOf(c) = "char" /\ Last(hs) \in Int /\ Last(hs) <= a.to
    BY <1>1, AttributesOfPeer DEF CharsOf, Answered
  <2>2. a.to \in Int /\ a.from \in Int
    BY <1>6, ServiceEnds DEF Fit, ServiceRecords, Handles
  <2>3. CASE ~(c < a.from)
    <3>1. Answered(a, c) /\ c <= Last(hs)
      BY <1>6, <2>1, <2>2, <2>3 DEF Answered
    <3>2. QED
      BY <1>1, <2>1, <3>1
  <2>4. QED
    BY <2>3
<1>7. QED
  BY <1>2, <1>5, <1>6 DEF Fit

-----------------------------------------------------------------------------
(* Type correctness.                                                        *)

Pcs == {"idle", "prim", "vendor", "read", "redisc", "service", "chars", "char", "descs"}
Asks == [what : {"nothing", "services", "read", "chars", "descs"}, from : Int, to : Int]

\* The database and the list of vendor services are made of the peer's services;
\* the loops are at one of their elements.
Typed ==
  /\ peer \in Databases /\ connected \in BOOLEAN
  /\ registered \subseteq {Base[u] : u \in Vendor}
  /\ services \in Seq(ServiceRecords) /\ vendor \in Seq(VendorRecords)
  /\ pc \in Pcs /\ ask \in Asks
  /\ si \in 1..(Len(services) + 1) /\ ci \in Nat \ {0}
  /\ outcome \in {"none_yet", "success", "error", "raised"}
  /\ calls \in 0..MaxCalls /\ lost \in BOOLEAN /\ skipped \in BOOLEAN
  /\ pc \in {"chars", "char", "descs"} => si <= Len(services)
  /\ pc = "descs" => ci \in DOMAIN services[si].chars
  /\ pc \in {"prim", "vendor", "read", "redisc"} => si = 1
  /\ pc \in {"read", "redisc"} => vendor # <<>>
  /\ pc = "read" => ask.from = vendor[1].start

LEMMA SamePeer ==
  ASSUME peer' = peer
  PROVE  /\ Attrs' = Attrs /\ Starts' = Starts
         /\ ServiceRecords' = ServiceRecords /\ VendorRecords' = VendorRecords
         /\ \A h : EndOfService(h)' = EndOfService(h) /\ CharsOf(h)' = CharsOf(h)
         /\ \A h : UuidOf(h)' = UuidOf(h) /\ KindOf(h)' = KindOf(h)
<1>1. Attrs' = Attrs
  BY DEF Attrs
<1>2. \A h : UuidOf(h)' = UuidOf(h) /\ KindOf(h)' = KindOf(h)
  BY <1>1 DEF UuidOf, KindOf
<1>3. Starts' = Starts
  BY <1>1, <1>2 DEF Starts
<1>4. \A h : EndOfService(h)' = EndOfService(h)
  BY <1>1, <1>3 DEF EndOfService
<1>5. \A h : CharsOf(h)' = CharsOf(h)
  BY <1>1, <1>2, <1>4 DEF CharsOf, Within
<1>6. ServiceRecords' = ServiceRecords
  BY <1>3, <1>4 DEF ServiceRecords
<1>7. VendorRecords' = VendorRecords
  BY <1>2, <1>6 DEF VendorRecords
<1>8. QED
  BY <1>1, <1>2, <1>3, <1>4, <1>5, <1>6, <1>7

\* An answer with services lists services.
LEMMA ServicesListed ==
  ASSUME peer \in Databases, NEW a, a.what = "services", NEW hs \in Listings(a)
  PROVE  /\ hs \in Seq(Starts) /\ Len(hs) \in Nat /\ DOMAIN hs = 1..Len(hs)
         /\ Last(hs) \in Starts
<1>1. /\ hs \in Seq(DOMAIN Attrs) /\ Len(hs) \in Nat /\ DOMAIN hs = 1..Len(hs)
      /\ Len(hs) \in DOMAIN hs /\ Last(hs) = hs[Len(hs)]
      /\ \A i \in DOMAIN hs : hs[i] \in DOMAIN Attrs /\ Answered(a, hs[i])
  BY Listed
<1>2. \A i \in DOMAIN hs : hs[i] \in Starts
  BY <1>1 DEF Answered, Starts
<1>3. hs \in Seq(Starts)
  BY <1>1, <1>2
<1>4. QED
  BY <1>1, <1>2, <1>3

LEMMA CharTyped ==
  ASSUME NEW s \in ServiceRecords, NEW k \in DOMAIN s.chars
  PROVE  s.chars[k] \in CharRecords /\ s.chars[k].value \in Int /\ s.chars[k].end \in Int
<1>1. s.chars \in Seq(CharRecords)
  BY DEF ServiceRecords
<1>2. s.chars[k] \in CharRecords
  BY <1>1
<1>3. QED
  BY <1>2 DEF CharRecords

\* Descriptors are added to one characteristic; nothing else of it changes.
AddDescs(s, k, ds) == [s EXCEPT !.chars[k].descs = @ \o ds]

LEMMA DescsAdded ==
  ASSUME NEW s \in ServiceRecords, NEW k \in DOMAIN s.chars, NEW ds \in Seq(DescRecords)
  PROVE  LET new == AddDescs(s, k, ds)
         IN  /\ new \in ServiceRecords
             /\ new.start = s.start /\ new.end = s.end /\ new.uuid = s.uuid
             /\ Len(new.chars) = Len(s.chars) /\ DOMAIN new.chars = DOMAIN s.chars
             /\ \A i \in DOMAIN s.chars : /\ new.chars[i].uuid = s.chars[i].uuid
                                          /\ new.chars[i].decl = s.chars[i].decl
                                          /\ new.chars[i].value = s.chars[i].value
                                          /\ new.chars[i].end = s.chars[i].end
                                          /\ i # k => new.chars[i].descs = s.chars[i].descs
             /\ new.chars[k].descs = s.chars[k].descs \o ds
<1>0. PICK new : new = AddDescs(s, k, ds)
  OBVIOUS
<1>1. /\ s \in [uuid : AllUuids, start : Starts, end : Handles, chars : Seq(CharRecords)]
      /\ s.end = EndOfService(s.start)
  BY DEF ServiceRecords
<1>2. PICK n \in Nat : n = Len(s.chars) /\ s.chars \in [1..n -> CharRecords] /\ DOMAIN s.chars = 1..n
  BY <1>1
<1>3. PICK c : c = [s.chars[k] EXCEPT !.descs = s.chars[k].descs \o ds]
  OBVIOUS
<1>4. s.chars[k] \in CharRecords
  BY <1>2
<1>5. /\ c \in CharRecords
      /\ c.uuid = s.chars[k].uuid /\ c.decl = s.chars[k].decl
      /\ c.value = s.chars[k].value /\ c.end = s.chars[k].end
      /\ c.descs = s.chars[k].descs \o ds
  <2>1. s.chars[k].descs \o ds \in Seq(DescRecords)
    BY <1>4 DEF CharRecords
  <2>2. QED
    BY <1>3, <1>4, <2>1 DEF CharRecords
<1>6. PICK chars : chars = [s.chars EXCEPT ![k] = c]
  OBVIOUS
<1>7. new = [s EXCEPT !.chars = chars]
  BY <1>0, <1>3, <1>6 DEF AddDescs
<1>8. /\ chars \in [1..n -> CharRecords]
      /\ \A i \in 1..n : chars[i] = IF i = k THEN c ELSE s.chars[i]
  BY <1>2, <1>5, <1>6
<1>9. chars \in Seq(CharRecords) /\ Len(chars) = n /\ DOMAIN chars = 1..n
  BY <1>8
<1>10. /\ new \in [uuid : AllUuids, start : Starts, end : Handles, chars : Seq(CharRecords)]
       /\ new.start = s.start /\ new.end = s.end /\ new.uuid = s.uuid /\ new.chars = chars
  BY <1>1, <1>7, <1>9
<1>11. new \in ServiceRecords
  BY <1>1, <1>10 DEF ServiceRecords
<1>12. QED
  BY <1>0, <1>2, <1>5, <1>8, <1>9, <1>10, <1>11

LEMMA DescsListed ==
  ASSUME peer \in Databases, NEW hs \in Listings(ask)
  PROVE  [i \in DOMAIN hs |-> Desc(hs[i])] \in Seq(DescRecords)
<1>1. Len(hs) \in Nat /\ DOMAIN hs = 1..Len(hs) /\ \A i \in DOMAIN hs : hs[i] \in DOMAIN Attrs
  BY Listed
<1>2. \A h \in DOMAIN Attrs : Desc(h) \in DescRecords
  <2>1. ASSUME NEW h \in DOMAIN Attrs
        PROVE  Desc(h).uuid \in AllUuids /\ h \in Handles
    BY AttributesOfPeer DEF Desc, AllUuids
  <2>2. QED
    BY <2>1 DEF Desc, DescRecords
<1>3. PICK ds : ds = [i \in DOMAIN hs |-> Desc(hs[i])]
  OBVIOUS
<1>4. ds \in [1..Len(hs) -> DescRecords]
  BY <1>1, <1>2, <1>3
<1>5. ds \in Seq(DescRecords)
  BY <1>1, <1>4
<1>6. QED
  BY <1>3, <1>5

\* The steps that leave the database and the vendor services alone.
LEMMA FrameTyped ==
  ASSUME Typed, peer' = peer, services' = services, vendor' = vendor,
         connected' \in BOOLEAN, registered' \subseteq {Base[u] : u \in Vendor}, pc' \in Pcs, ask' \in Asks,
         si' \in 1..(Len(services) + 1), ci' \in Nat \ {0},
         outcome' \in {"none_yet", "success", "error", "raised"},
         calls' \in 0..MaxCalls, lost' \in BOOLEAN, skipped' \in BOOLEAN,
         pc' \in {"chars", "char", "descs"} => si' <= Len(services),
         pc' = "descs" => ci' \in DOMAIN services[si'].chars,
         pc' \in {"prim", "vendor", "read", "redisc"} => si' = 1,
         pc' \in {"read", "redisc"} => vendor # <<>>,
         pc' = "read" => ask'.from = vendor[1].start
  PROVE  Typed'
BY SamePeer DEF Typed

LEMMA TypedStep ==
  ASSUME Typed, [Next]_discVars
  PROVE  Typed'
<1>1. /\ peer \in Databases /\ connected \in BOOLEAN
      /\ registered \subseteq {Base[u] : u \in Vendor}
      /\ services \in Seq(ServiceRecords) /\ vendor \in Seq(VendorRecords)
      /\ pc \in Pcs /\ ask \in Asks
      /\ si \in 1..(Len(services) + 1) /\ ci \in Nat \ {0}
      /\ outcome \in {"none_yet", "success", "error", "raised"}
      /\ calls \in 0..MaxCalls /\ lost \in BOOLEAN /\ skipped \in BOOLEAN
  BY DEF Typed
<1>2. Len(services) \in Nat /\ DOMAIN services = 1..Len(services) /\ LastHandle \in Nat
  BY <1>1, DiscoveryBounds
<1>3. NoAsk \in Asks
  BY DEF NoAsk, Asks
<1>4. ASSUME NEW what \in {"services", "read", "chars", "descs"}, NEW from \in Int, NEW to \in Int,
             Request(what, from, to)
      PROVE  ask' \in Asks /\ ask'.from = from
  BY <1>4 DEF Request, Asks
<1>5. \A s \in ServiceRecords : s.start \in Int /\ s.end \in Int /\ s.start \in Starts
  BY <1>1, AttributesOfPeer DEF ServiceRecords, Starts, Handles
<1>6. vendor # <<>> => vendor[1] \in VendorRecords /\ Tail(vendor) \in Seq(VendorRecords)
  BY <1>1
<1>10. ASSUME NEW u, Call(u) PROVE Typed'
  <2>1. calls' \in 0..MaxCalls
    BY <1>1, <1>10, DiscoveryBounds DEF Call
  <2>2. /\ pc' \in {"idle", "prim"} /\ outcome' \in {"success", "none_yet"} /\ ask' \in Asks
    BY <1>2, <1>3, <1>4, <1>10 DEF Call, Return
  <2>3. /\ peer' = peer /\ connected' = connected /\ services' = services /\ registered' = registered
        /\ lost' = lost /\ vendor' = <<>> /\ si' = 1 /\ ci' = 1 /\ skipped' = FALSE
    BY <1>10 DEF Call
  <2>4. services' \in Seq(ServiceRecords') /\ vendor' \in Seq(VendorRecords')
    BY <1>1, <2>3, SamePeer
  <2>5. si' \in 1..(Len(services') + 1) /\ ci' \in Nat \ {0}
    BY <1>2, <2>3
  <2>6. skipped' \in BOOLEAN
    BY <2>3
  <2>7. QED
    BY <1>1, <2>1, <2>2, <2>3, <2>4, <2>5, <2>6 DEF Typed, Pcs
<1>11. ASSUME NEW hs \in Listings(ask), OnServices(hs) PROVE Typed'
  <2>1. ask.what = "services" /\ si = 1
    BY <1>11 DEF OnServices, Found, Typed
  <2>2. hs \in Seq(Starts) /\ Last(hs) \in Starts
    BY <1>1, <2>1, ServicesListed
  <2>3. Extended(AddServices(hs))
    BY <1>1, <2>2, ServicesAdded
  <2>4. /\ services' \in Seq(ServiceRecords) /\ vendor' \in Seq(VendorRecords)
        /\ Len(services') >= Len(services)
    BY <1>11, <2>3 DEF OnServices, Extended
  <2>5. Service(Last(hs)).end \in Int
    BY <1>1, <1>5, <2>2, ServiceTyped
  <2>6. pc' \in {"prim", "vendor"} /\ ask' \in Asks
    BY <1>2, <1>3, <1>4, <1>11, <2>5 DEF OnServices
  <2>7. /\ peer' = peer /\ connected' = connected /\ registered' = registered /\ si' = si /\ ci' = ci
        /\ outcome' = outcome /\ calls' = calls /\ lost' = lost /\ skipped' = skipped
    BY <1>11 DEF OnServices
  <2>8. services' \in Seq(ServiceRecords') /\ vendor' \in Seq(VendorRecords')
    BY <2>4, <2>7, SamePeer
  <2>9. si' \in 1..(Len(services') + 1)
    BY <1>2, <2>1, <2>4, <2>7
  <2>10. QED
    BY <1>1, <2>1, <2>6, <2>7, <2>8, <2>9 DEF Typed, Pcs
<1>12. CASE OnNoMoreServices
  BY <1>1, <1>3, <1>12, FrameTyped DEF OnNoMoreServices, dataVars, Pcs, Typed
<1>13. CASE NextVendor
  <2>1. CASE vendor = <<>>
    BY <1>1, <1>13, <2>1, FrameTyped DEF NextVendor, dataVars, Pcs
  <2>2. CASE vendor # <<>>
    <3>1. vendor[1].start \in Int /\ Head(vendor) = vendor[1]
      BY <1>1, <1>5, <1>6, <2>2 DEF VendorRecords
    <3>2. pc' = "read" /\ ask' \in Asks /\ ask'.from = vendor[1].start
      BY <1>4, <1>13, <2>2, <3>1 DEF NextVendor
    <3>3. UNCHANGED <<peer, connected, dataVars, want, si, ci, outcome, calls, lost, skipped>> /\ pc = "vendor"
      BY <1>13 DEF NextVendor
    <3>4. si = 1
      BY <3>3 DEF Typed
    <3>5. QED
      BY <1>1, <2>2, <3>2, <3>3, <3>4, FrameTyped DEF dataVars, Pcs
  <2>3. QED
    BY <2>1, <2>2
<1>14. CASE OnRead
  <2>1. vendor # <<>> /\ ask.from = vendor[1].start /\ si = 1
    BY <1>14 DEF OnRead, Typed
  <2>2. UuidOf(ask.from) \in Vendor /\ ask.from \in Int
    BY <1>5, <1>6, <2>1 DEF VendorRecords
  <2>3. registered' \subseteq {Base[u] : u \in Vendor} /\ ask' \in Asks /\ pc' = "redisc"
    BY <1>1, <1>2, <1>4, <1>14, <2>2 DEF OnRead
  <2>4. UNCHANGED <<peer, connected, services, vendor, want, si, ci, outcome, calls, lost, skipped>>
    BY <1>14 DEF OnRead
  <2>5. QED
    BY <1>1, <2>1, <2>3, <2>4, FrameTyped DEF Pcs
<1>15. ASSUME NEW hs \in Listings(ask), OnRediscovered(hs) PROVE Typed'
  <2>1. ask.what = "services" /\ si = 1 /\ vendor # <<>>
    BY <1>15 DEF OnRediscovered, Found, Typed
  <2>2. hs \in Seq(Starts) /\ Len(hs) \in Nat /\ DOMAIN hs = 1..Len(hs)
    BY <1>1, <2>1, ServicesListed
  <2>3. PICK new : new = [i \in DOMAIN hs |-> Service(hs[i])]
    OBVIOUS
  <2>4. \A i \in DOMAIN hs : Service(hs[i]) \in ServiceRecords
    BY <1>1, <2>2, ServiceTyped
  <2>5. new \in [1..Len(hs) -> ServiceRecords]
    BY <2>2, <2>3, <2>4
  <2>6. new \in Seq(ServiceRecords)
    BY <2>2, <2>5
  <2>7. services' \in Seq(ServiceRecords) /\ Len(services') >= Len(services) /\ Len(services') \in Nat
    <3>1. services' = services \o new
      BY <1>15, <2>3 DEF OnRediscovered
    <3>2. QED
      BY <1>1, <2>6, <3>1
  <2>8. /\ peer' = peer /\ connected' = connected /\ registered' = registered /\ si' = si /\ ci' = ci
        /\ outcome' = outcome /\ calls' = calls /\ lost' = lost /\ skipped' = skipped
        /\ pc' = "vendor" /\ ask' = NoAsk /\ vendor' = Tail(vendor)
    BY <1>15 DEF OnRediscovered
  <2>9. services' \in Seq(ServiceRecords') /\ vendor' \in Seq(VendorRecords')
    BY <1>6, <2>1, <2>7, <2>8, SamePeer
  <2>10. si' \in 1..(Len(services') + 1)
    BY <1>2, <2>1, <2>7, <2>8
  <2>11. QED
    BY <1>1, <1>3, <2>1, <2>8, <2>9, <2>10 DEF Typed, Pcs
<1>16. CASE PassOverVendor
  <2>1. pc \in {"read", "redisc"}
    BY <1>16 DEF PassOverVendor
  <2>2. vendor # <<>> /\ si = 1
    BY <2>1 DEF Typed
  <2>3. /\ peer' = peer /\ connected' = connected /\ registered' = registered /\ si' = si /\ ci' = ci
        /\ outcome' = outcome /\ calls' = calls /\ lost' = lost /\ skipped' = TRUE
        /\ pc' = "vendor" /\ ask' = NoAsk /\ vendor' = Tail(vendor) /\ services' = services
    BY <1>16 DEF PassOverVendor
  <2>4. services' \in Seq(ServiceRecords') /\ vendor' \in Seq(VendorRecords')
    BY <1>1, <1>6, <2>2, <2>3, SamePeer
  <2>5. QED
    BY <1>1, <1>3, <2>2, <2>3, <2>4 DEF Typed, Pcs
<1>17. CASE NextService
  <2>1. CASE si > Len(services)
    BY <1>1, <1>3, <1>17, <2>1, FrameTyped DEF NextService, Return, dataVars, Pcs
  <2>2. CASE ~(si > Len(services))
    <3>1. si \in 1..Len(services) /\ si <= Len(services)
      BY <1>1, <1>2, <2>2
    <3>2. services[si] \in ServiceRecords
      BY <1>1, <3>1
    <3>3. pc' = "chars" /\ ask' \in Asks
      BY <1>4, <1>5, <1>17, <2>2, <3>2 DEF NextService
    <3>4. UNCHANGED <<peer, connected, dataVars, want, si, ci, outcome, calls, lost, skipped>>
      BY <1>17, <2>2 DEF NextService
    <3>5. QED
      BY <1>1, <3>1, <3>3, <3>4, FrameTyped DEF dataVars, Pcs
  <2>3. QED
    BY <2>1, <2>2
<1>18. ASSUME NEW hs \in Listings(ask), OnChars(hs) PROVE Typed'
  <2>1. ask.what = "chars" /\ si \in 1..Len(services)
    BY <1>1, <1>2, <1>18 DEF OnChars, Found, Typed
  <2>2. services[si] \in ServiceRecords
    BY <1>1, <2>1
  <2>3. AddChars(services[si], hs) \in ServiceRecords
    BY <1>1, <2>1, <2>2, CharsAdded
  <2>4. services' = [services EXCEPT ![si] = AddChars(services[si], hs)]
    BY <1>18 DEF OnChars
  <2>5. services' \in Seq(ServiceRecords) /\ Len(services') = Len(services)
    BY <1>1, <2>1, <2>3, <2>4
  <2>6. Last(hs) + 1 \in Int /\ services[si].end \in Int
    BY <1>1, <1>5, <2>2, Listed, AttributesOfPeer
  <2>7. ask' \in Asks
    BY <1>4, <1>18, <2>6 DEF OnChars
  <2>8. /\ peer' = peer /\ connected' = connected /\ registered' = registered /\ vendor' = vendor
        /\ pc' = pc /\ si' = si /\ ci' = ci
        /\ outcome' = outcome /\ calls' = calls /\ lost' = lost /\ skipped' = skipped /\ pc = "chars"
    BY <1>18 DEF OnChars
  <2>9. services' \in Seq(ServiceRecords') /\ vendor' \in Seq(VendorRecords')
    BY <1>1, <2>5, <2>8, SamePeer
  <2>10. si' \in 1..(Len(services') + 1) /\ si' <= Len(services')
    BY <1>2, <2>1, <2>5, <2>8
  <2>11. QED
    BY <1>1, <2>7, <2>8, <2>9, <2>10 DEF Typed, Pcs
<1>19. CASE OnNoMoreChars
  <2>1. si \in 1..Len(services) /\ si <= Len(services)
    BY <1>1, <1>2, <1>19 DEF OnNoMoreChars, Typed
  <2>2. QED
    BY <1>1, <1>3, <1>19, <2>1, FrameTyped DEF OnNoMoreChars, dataVars, Pcs
<1>20. CASE NextChar
  <2>1. si \in 1..Len(services) /\ si <= Len(services)
    BY <1>1, <1>2, <1>20 DEF NextChar, Typed
  <2>2. services[si].chars \in Seq(CharRecords)
    BY <1>1, <2>1 DEF ServiceRecords
  <2>3. CASE NothingToAsk
    <3>1. si + 1 \in 1..(Len(services) + 1)
      BY <1>2, <2>1
    <3>2. QED
      BY <1>1, <1>20, <2>3, <3>1, FrameTyped DEF NextChar, dataVars, Pcs
  <2>4. CASE ~NothingToAsk
    <3>1. ci \in DOMAIN services[si].chars
      BY <1>1, <1>20, <2>2, <2>4 DEF NextChar, NothingToAsk
    <3>2. services[si].chars[ci].value \in Int /\ services[si].chars[ci].end \in Int
      BY <1>1, <2>1, <3>1, CharTyped
    <3>3. pc' = "descs" /\ ask' \in Asks
      BY <1>4, <1>20, <2>4, <3>2 DEF NextChar
    <3>4. UNCHANGED <<peer, connected, dataVars, want, si, ci, outcome, calls, lost, skipped>>
      BY <1>20, <2>4 DEF NextChar
    <3>5. QED
      BY <1>1, <2>1, <3>1, <3>3, <3>4, FrameTyped DEF dataVars, Pcs
  <2>5. QED
    BY <2>3, <2>4
<1>21. ASSUME NEW hs \in Listings(ask), OnDescs(hs) PROVE Typed'
  <2>1. /\ ask.what = "descs" /\ pc = "descs" /\ si \in 1..Len(services)
        /\ ci \in DOMAIN services[si].chars
    BY <1>1, <1>2, <1>21 DEF OnDescs, Found, Typed
  <2>2. services[si] \in ServiceRecords
    BY <1>1, <2>1
  <2>3. PICK ds \in Seq(DescRecords) : ds = [i \in DOMAIN hs |-> Desc(hs[i])]
    BY <1>1, DescsListed
  <2>4. PICK new : new = AddDescs(services[si], ci, ds)
    OBVIOUS
  <2>5. /\ new \in ServiceRecords /\ DOMAIN new.chars = DOMAIN services[si].chars
    BY <2>1, <2>2, <2>3, <2>4, DescsAdded
  <2>6. services' = [services EXCEPT ![si] = new]
    BY <1>21, <2>3, <2>4 DEF OnDescs, AddDescs
  <2>7. services' \in Seq(ServiceRecords) /\ Len(services') = Len(services) /\ services'[si] = new
    BY <1>1, <2>1, <2>5, <2>6
  <2>8. Last(hs) + 1 \in Int /\ services[si].chars[ci].end \in Int
    <3>1. Last(hs) \in Int
      BY <1>1, Listed, AttributesOfPeer
    <3>2. QED
      BY <2>1, <2>2, <3>1, CharTyped
  <2>9. /\ ask' \in Asks /\ pc' \in {"char", "descs"} /\ ci' \in Nat \ {0}
        /\ pc' = "descs" => ci' = ci
    <3>1. CASE Last(hs) = services[si].chars[ci].end
      <4>1. pc' = "char" /\ ci' = ci + 1 /\ ask' = NoAsk
        BY <1>21, <3>1 DEF OnDescs
      <4>2. ci' \in Nat \ {0}
        BY <1>1, <4>1
      <4>3. QED
        BY <1>3, <4>1, <4>2
    <3>2. CASE Last(hs) # services[si].chars[ci].end
      <4>1. pc' = pc /\ ci' = ci /\ Request("descs", Last(hs) + 1, services[si].chars[ci].end)
        BY <1>21, <3>2 DEF OnDescs
      <4>2. ask' \in Asks
        BY <1>4, <2>8, <4>1
      <4>3. QED
        BY <1>1, <2>1, <4>1, <4>2
    <3>3. QED
      BY <3>1, <3>2
  <2>10. /\ peer' = peer /\ connected' = connected /\ registered' = registered /\ vendor' = vendor
         /\ si' = si /\ outcome' = outcome /\ calls' = calls /\ lost' = lost /\ skipped' = skipped
    BY <1>21 DEF OnDescs
  <2>11. services' \in Seq(ServiceRecords') /\ vendor' \in Seq(VendorRecords')
    BY <1>1, <2>7, <2>10, SamePeer
  <2>12. si' \in 1..(Len(services') + 1) /\ si' <= Len(services')
    BY <1>2, <2>1, <2>7, <2>10
  <2>13. pc' = "descs" => ci' \in DOMAIN services'[si'].chars
    BY <2>1, <2>5, <2>7, <2>9, <2>10
  <2>14. QED
    BY <1>1, <2>1, <2>9, <2>10, <2>11, <2>12, <2>13 DEF Typed, Pcs
<1>22. CASE OnNoMoreDescs
  <2>1. si \in 1..Len(services) /\ si <= Len(services)
    BY <1>1, <1>2, <1>22 DEF OnNoMoreDescs, Typed
  <2>2. QED
    BY <1>1, <1>3, <1>22, <2>1, FrameTyped DEF OnNoMoreDescs, dataVars, Pcs
<1>23. CASE OnError
  BY <1>1, <1>3, <1>23, FrameTyped DEF OnError, Return, dataVars, Pcs
<1>24. CASE Raise
  BY <1>1, <1>3, <1>24, FrameTyped DEF Raise, Return, dataVars, Pcs
<1>25. CASE Refuse
  BY <1>1, <1>3, <1>25, FrameTyped DEF Refuse, Return, dataVars, Pcs
<1>26. CASE Lose
  BY <1>1, <1>3, <1>26, FrameTyped DEF Lose, dataVars, Typed
<1>27. CASE Disconnect
  BY <1>1, <1>27, FrameTyped DEF Disconnect, dataVars, Typed
<1>28. CASE UNCHANGED discVars
  BY <1>1, <1>28, FrameTyped DEF discVars, dataVars, Typed
<1>29. QED
  BY <1>10, <1>11, <1>12, <1>13, <1>14, <1>15, <1>16, <1>17, <1>18, <1>19, <1>20, <1>21,
     <1>22, <1>23, <1>24, <1>25, <1>26, <1>27, <1>28 DEF Next, Step

LEMMA TypedHolds == Spec => []Typed
<1>1. Init => Typed
  <2> SUFFICES ASSUME Init PROVE Typed
    OBVIOUS
  <2>1. <<>> \in Seq(ServiceRecords) /\ <<>> \in Seq(VendorRecords) /\ Len(<<>>) = 0
    OBVIOUS
  <2>2. NoAsk \in Asks
    BY DEF NoAsk, Asks
  <2>3. services = <<>> /\ vendor = <<>> /\ Len(services) = 0 /\ si = 1 /\ ci = 1 /\ calls = 0
    BY <2>1 DEF Init
  <2>4. 0 \in 0..MaxCalls /\ 1 \in 1..(0 + 1) /\ 1 \in Nat \ {0}
    BY DiscoveryBounds
  <2>5. QED
    BY <2>1, <2>2, <2>3, <2>4 DEF Init, Typed, Pcs
<1>2. QED
  BY <1>1, TypedStep, PTL DEF Spec

(* Every variable stays within its type, and each loop at an element of what *)
(* it goes through.                                                         *)
THEOREM TypeCorrect == Spec => []TypeOK
<1>1. Typed => TypeOK
  <2> SUFFICES ASSUME Typed PROVE TypeOK
    OBVIOUS
  <2>1. \A i \in DOMAIN services : services[i].start \in Handles /\ services[i].end \in Handles
    <3>1. services \in Seq(ServiceRecords) /\ peer \in Databases
      BY DEF Typed
    <3>2. \A s \in ServiceRecords : s.start \in Handles /\ s.end \in Handles
      BY <3>1, ServiceEnds DEF ServiceRecords
    <3>3. QED
      BY <3>1, <3>2
  <2>2. ask.what \in {"nothing", "services", "read", "chars", "descs"}
    BY DEF Typed, Asks
  <2>3. QED
    BY <2>1, <2>2 DEF Typed, TypeOK, Pcs
<1>2. QED
  BY <1>1, TypedHolds, PTL

-----------------------------------------------------------------------------
(* The ranges of the requests.                                              *)

OkInv == \A i \in 1..Len(services) : CharsOk(services[i])

\* A service of known uuid stays known; and as long as a base is going to be
\* registered, no service of unknown uuid has characteristics.
KnownInv ==
  /\ \A i \in 1..Len(services) :
       services[i].uuid # Unknown => Reported(UuidOf(services[i].start)) # Unknown
  /\ (pc \in {"prim", "vendor", "read", "redisc"} /\ BaseMissing(vendor)) =>
       \A i \in 1..Len(services) : services[i].uuid = Unknown => services[i].chars = <<>>

\* What is asked for is the rest of a service or of a characteristic, and every
\* characteristic before it has been dealt with.
CharsPass(s) ==
  /\ s.start <= ask.from /\ ask.to = s.end
  /\ \A c \in CharsOf(s.start) : c < ask.from => HasUuidOf(s, c)
RangeOk == ask.from \in Handles /\ ask.to \in Handles /\ ask.from <= ask.to
PassInv ==
  /\ (pc = "chars" /\ ask.what = "chars") => CharsPass(services[si])
  /\ (pc = "descs" /\ ask.what = "descs") => ask.to = services[si].chars[ci].end
  /\ RangeOk

RangeInv == OwnBases => OkInv /\ KnownInv /\ PassInv

LEMMA CharsOkKept ==
  ASSUME peer' = peer, NEW s, CharsOk(s),
         s.chars = <<>> \/ \A c \in CharsOf(s.start) : Reported(UuidOf(c))' = Reported(UuidOf(c))
  PROVE  CharsOk(s)'
<1>1. CASE s.chars = <<>>
  BY <1>1 DEF CharsOk
<1>2. CASE \A c \in CharsOf(s.start) : Reported(UuidOf(c))' = Reported(UuidOf(c))
  <2>1. CharsOf(s.start)' = CharsOf(s.start)
    BY SamePeer
  <2>2. \A c \in CharsOf(s.start) : HasUuidOf(s, c)' <=> HasUuidOf(s, c)
    BY <1>2 DEF HasUuidOf, UuidsOf
  <2>3. QED
    BY <1>2, <2>1, <2>2 DEF CharsOk
<1>3. QED
  BY <1>1, <1>2

LEMMA OwnBasesKept ==
  ASSUME peer' = peer
  PROVE  OwnBases' <=> OwnBases
BY SamePeer DEF OwnBases, Foreign, SameBase, Vendor

\* No service is kept for later that was not before, and no base is forgotten.
LEMMA NoMoreMissing ==
  ASSUME peer' = peer, registered \subseteq registered',
         vendor' = vendor \/ vendor' = <<>> \/
           (vendor \in Seq(VendorRecords) /\ vendor # <<>> /\ vendor' = Tail(vendor))
  PROVE  BaseMissing(vendor)' => BaseMissing(vendor)
<1>1. \A h : UuidOf(h)' = UuidOf(h)
  BY SamePeer
<1>2. CASE vendor' = vendor
  BY <1>1, <1>2 DEF BaseMissing
<1>3. CASE vendor' = <<>>
  BY <1>3 DEF BaseMissing
<1>4. CASE vendor \in Seq(VendorRecords) /\ vendor # <<>> /\ vendor' = Tail(vendor)
  <2>1. /\ Len(vendor) \in Nat /\ Len(vendor') = Len(vendor) - 1
        /\ \A j \in 1..Len(vendor') : vendor'[j] = vendor[j + 1]
    BY <1>4
  <2>2. \A j \in 1..Len(vendor') : j + 1 \in 1..Len(vendor)
    BY <2>1
  <2>3. QED
    BY <1>1, <2>1, <2>2 DEF BaseMissing
<1>5. QED
  BY <1>2, <1>3, <1>4

\* The database and the registered bases stay.
LEMMA DataKept ==
  ASSUME peer' = peer, services' = services, registered' = registered, OkInv, KnownInv,
         pc' \in {"prim", "vendor", "read", "redisc"} => pc \in {"prim", "vendor", "read", "redisc"} \/ vendor' = <<>>,
         vendor' = vendor \/ vendor' = <<>> \/
           (vendor \in Seq(VendorRecords) /\ vendor # <<>> /\ vendor' = Tail(vendor))
  PROVE  OkInv' /\ KnownInv'
<1>1. \A u : Reported(u)' = Reported(u)
  BY DEF Reported, Vendor
<1>2. OkInv'
  <2> SUFFICES ASSUME NEW i \in 1..Len(services) PROVE CharsOk(services[i])'
    BY DEF OkInv
  <2>1. PICK s : s = services[i]
    OBVIOUS
  <2>2. CharsOk(s)
    BY <2>1 DEF OkInv
  <2>3. \A c : UuidOf(c)' = UuidOf(c)
    BY SamePeer
  <2>4. \A c \in CharsOf(s.start) : Reported(UuidOf(c))' = Reported(UuidOf(c))
    BY <1>1, <2>3
  <2>5. CharsOk(s)'
    BY <2>2, <2>4, CharsOkKept
  <2>6. QED
    BY <2>1, <2>5
<1>3. KnownInv'
  <2>1. BaseMissing(vendor)' => BaseMissing(vendor) /\ vendor' # <<>>
    BY NoMoreMissing DEF BaseMissing
  <2>2. QED
    BY <1>1, <2>1, SamePeer DEF KnownInv
<1>4. QED
  BY <1>2, <1>3

LEMMA OkWithDescs ==
  ASSUME NEW s, NEW new, CharsOk(s), DOMAIN s.chars = 1..Len(s.chars),
         new.start = s.start, new.end = s.end, Len(new.chars) = Len(s.chars),
         DOMAIN new.chars = DOMAIN s.chars, Len(s.chars) \in Nat,
         \A i \in DOMAIN s.chars : /\ new.chars[i].uuid = s.chars[i].uuid
                                   /\ new.chars[i].decl = s.chars[i].decl
                                   /\ new.chars[i].value = s.chars[i].value
                                   /\ new.chars[i].end = s.chars[i].end
  PROVE  CharsOk(new)
<1>1. \A c : HasUuidOf(s, c) => HasUuidOf(new, c)
  BY DEF HasUuidOf, UuidsOf
<1>2. ASSUME NEW i \in 1..Len(s.chars)
      PROVE  new.chars[i].end = IF i = Len(s.chars) THEN new.end ELSE new.chars[i + 1].decl - 1
  <2>1. s.chars[i].end = IF i = Len(s.chars) THEN s.end ELSE s.chars[i + 1].decl - 1
    BY DEF CharsOk
  <2>2. i # Len(s.chars) => i + 1 \in 1..Len(s.chars)
    OBVIOUS
  <2>3. QED
    BY <2>1, <2>2
<1>3. QED
  BY <1>1, <1>2 DEF CharsOk

LEMMA SameReport ==
  ASSUME peer' = peer, registered' = registered, NEW s, CharsOk(s)
  PROVE  CharsOk(s)'
<1>1. \A u : Reported(u)' = Reported(u)
  BY DEF Reported, Vendor
<1>2. \A c : UuidOf(c)' = UuidOf(c)
  BY SamePeer
<1>3. \A c \in CharsOf(s.start) : Reported(UuidOf(c))' = Reported(UuidOf(c))
  BY <1>1, <1>2
<1>4. QED
  BY <1>3, CharsOkKept

\* Services without characteristics are put at the end.
LEMMA DataExtended ==
  ASSUME peer' = peer, registered' = registered, OkInv, KnownInv,
         Len(services) \in Nat, Len(services') \in Nat,
         \A i \in 1..Len(services') :
           /\ i \in 1..Len(services) => services'[i] = services[i]
           /\ i \notin 1..Len(services) =>
                /\ services'[i].chars = <<>>
                /\ services'[i].uuid = Reported(UuidOf(services'[i].start)),
         (pc' \in {"prim", "vendor", "read", "redisc"} /\ BaseMissing(vendor)') =>
           \A i \in 1..Len(services) : services[i].uuid = Unknown => services[i].chars = <<>>
  PROVE  OkInv' /\ KnownInv'
<1>1. OkInv'
  <2> SUFFICES ASSUME NEW i \in 1..Len(services') PROVE CharsOk(services[i])'
    BY DEF OkInv
  <2>1. PICK s : s = services'[i]
    OBVIOUS
  <2>2. CharsOk(s)
    <3>1. CASE i \in 1..Len(services)
      BY <2>1, <3>1 DEF OkInv
    <3>2. CASE i \notin 1..Len(services)
      <4>1. s.chars = <<>>
        BY <2>1, <3>2
      <4>2. QED
        BY <4>1 DEF CharsOk
    <3>3. QED
      BY <3>1, <3>2
  <2>3. CharsOk(s)'
    BY <2>2, SameReport
  <2>4. QED
    BY <2>1, <2>3
<1>2. \A i \in 1..Len(services') :
        services'[i].uuid # Unknown => Reported(UuidOf(services[i].start))' # Unknown
  <2> SUFFICES ASSUME NEW i \in 1..Len(services'), services'[i].uuid # Unknown
               PROVE  Reported(UuidOf(services[i].start))' # Unknown
    OBVIOUS
  <2>1. PICK s : s = services'[i]
    OBVIOUS
  <2>2. Reported(UuidOf(s.start)) # Unknown
    BY <2>1 DEF KnownInv
  <2>3. UuidOf(s.start)' = UuidOf(s.start) /\ \A u : Reported(u)' = Reported(u)
    BY SamePeer DEF Reported, Vendor
  <2>4. Reported(UuidOf(s.start))' # Unknown
    BY <2>2, <2>3
  <2>5. QED
    BY <2>1, <2>4
<1>3. (pc' \in {"prim", "vendor", "read", "redisc"} /\ BaseMissing(vendor)') =>
        \A i \in 1..Len(services') : services'[i].uuid = Unknown => services'[i].chars = <<>>
  OBVIOUS
<1>4. QED
  BY <1>1, <1>2, <1>3 DEF KnownInv

\* The service at which the loop is has got characteristics, or descriptors.
LEMMA DataReplaced ==
  ASSUME peer' = peer, registered' = registered, OkInv, KnownInv, services \in Seq(ServiceRecords),
         si \in 1..Len(services), NEW new, services' = [services EXCEPT ![si] = new],
         new.start = services[si].start, new.uuid = services[si].uuid, CharsOk(new),
         pc' \notin {"prim", "vendor", "read", "redisc"}
  PROVE  OkInv' /\ KnownInv'
<1>1. /\ Len(services') = Len(services) /\ services'[si] = new
      /\ \A i \in 1..Len(services) : i # si => services'[i] = services[i]
  OBVIOUS
<1>2. OkInv'
  <2> SUFFICES ASSUME NEW i \in 1..Len(services) PROVE CharsOk(services[i])'
    BY <1>1 DEF OkInv
  <2>1. PICK s : s = services'[i]
    OBVIOUS
  <2>2. CharsOk(s)
    BY <1>1, <2>1 DEF OkInv
  <2>3. CharsOk(s)'
    BY <2>2, SameReport
  <2>4. QED
    BY <2>1, <2>3
<1>3. ASSUME NEW i \in 1..Len(services), services'[i].uuid # Unknown
      PROVE  Reported(UuidOf(services[i].start))' # Unknown
  <2>1. PICK s : s = services'[i]
    OBVIOUS
  <2>2. s.start = services[i].start /\ s.uuid = services[i].uuid
    BY <1>1, <2>1
  <2>3. Reported(UuidOf(s.start)) # Unknown
    BY <1>3, <2>1, <2>2 DEF KnownInv
  <2>4. UuidOf(s.start)' = UuidOf(s.start) /\ \A u : Reported(u)' = Reported(u)
    BY SamePeer DEF Reported, Vendor
  <2>5. Reported(UuidOf(s.start))' # Unknown
    BY <2>3, <2>4
  <2>6. QED
    BY <2>1, <2>5
<1>4. QED
  BY <1>1, <1>2, <1>3 DEF KnownInv

\* A base is registered: the characteristics that were found already are not
\* reported otherwise than before.
LEMMA DataRegistered ==
  ASSUME Typed, OwnBases, OkInv, KnownInv, OnRead
  PROVE  OkInv' /\ KnownInv'
<1>1. /\ peer' = peer /\ services' = services /\ vendor' = vendor
      /\ registered' = registered \cup {Base[UuidOf(ask.from)]} /\ pc = "read" /\ vendor # <<>>
  BY DEF OnRead, Typed
<1>2. /\ services \in Seq(ServiceRecords) /\ vendor \in Seq(VendorRecords)
      /\ ask.from = vendor[1].start /\ peer \in Databases
  BY <1>1 DEF Typed
<1>3. ask.from \in Starts /\ UuidOf(ask.from) \in Vendor
  BY <1>1, <1>2 DEF VendorRecords, ServiceRecords
<1>4. \A u : Reported(u) # Unknown => Reported(u)' = Reported(u)
  BY <1>1 DEF Reported, Vendor
<1>5. CASE Base[UuidOf(ask.from)] \in registered
  <2>1. registered' = registered /\ pc' = "redisc"
    BY <1>1, <1>5 DEF OnRead
  <2>2. QED
    BY <1>1, <2>1, DataKept
<1>6. BaseMissing(vendor)' => BaseMissing(vendor)
  BY <1>1, NoMoreMissing
<1> SUFFICES ASSUME Base[UuidOf(ask.from)] \notin registered
             PROVE  OkInv' /\ KnownInv'
  BY <1>5
<1>7. BaseMissing(vendor)
  <2>1. 1 \in 1..Len(vendor)
    BY <1>1, <1>2
  <2>2. QED
    BY <1>2, <2>1 DEF BaseMissing
<1>8. OkInv'
  <2> SUFFICES ASSUME NEW i \in 1..Len(services) PROVE CharsOk(services[i])'
    BY <1>1 DEF OkInv
  <2>1. PICK s \in ServiceRecords : s = services[i]
    BY <1>2
  <2>2. CharsOk(s)
    BY <2>1 DEF OkInv
  <2>3. ASSUME s.chars # <<>>, NEW c \in CharsOf(s.start)
        PROVE  Reported(UuidOf(c))' = Reported(UuidOf(c))
    <3>1. UuidOf(c)' = UuidOf(c)
      BY <1>1, SamePeer
    <3>2. s.start \in Starts /\ UuidOf(s.start) # Unknown
      BY <1>2, AttributesOfPeer DEF ServiceRecords, Starts
    <3>3. Reported(UuidOf(s.start)) # Unknown
      BY <1>1, <1>7, <2>1, <2>3 DEF KnownInv
    <3>4. UuidOf(s.start) \in Vendor => Base[UuidOf(s.start)] \in registered
      BY <3>3 DEF Reported
    <3>5. CASE UuidOf(c) \in Vendor /\ Base[UuidOf(c)] = Base[UuidOf(ask.from)]
      <4>1. SameBase(UuidOf(ask.from), UuidOf(c))
        BY <1>3, <3>5 DEF SameBase
      <4>2. ~Foreign(s.start, c)
        BY <1>3, <3>2, <4>1 DEF OwnBases
      <4>3. UuidOf(s.start) \in Vendor /\ Base[UuidOf(s.start)] = Base[UuidOf(c)]
        BY <3>5, <4>2 DEF Foreign, SameBase
      <4>4. Base[UuidOf(c)] \in registered
        BY <3>4, <4>3
      <4>5. QED
        BY <1>1, <3>1, <4>4 DEF Reported, Vendor
    <3>6. CASE ~(UuidOf(c) \in Vendor /\ Base[UuidOf(c)] = Base[UuidOf(ask.from)])
      BY <1>1, <3>1, <3>6 DEF Reported, Vendor
    <3>7. QED
      BY <3>5, <3>6
  <2>4. CharsOk(s)'
    BY <1>1, <2>2, <2>3, CharsOkKept
  <2>5. QED
    BY <1>1, <2>1, <2>4
<1>9. \A i \in 1..Len(services) :
        services[i].uuid # Unknown => Reported(UuidOf(services[i].start))' # Unknown
  <2> SUFFICES ASSUME NEW i \in 1..Len(services), services[i].uuid # Unknown
               PROVE  Reported(UuidOf(services[i].start))' # Unknown
    OBVIOUS
  <2>1. PICK s : s = services[i]
    OBVIOUS
  <2>2. Reported(UuidOf(s.start)) # Unknown
    BY <2>1 DEF KnownInv
  <2>3. UuidOf(s.start)' = UuidOf(s.start)
    BY <1>1, SamePeer
  <2>4. Reported(UuidOf(s.start))' # Unknown
    BY <1>4, <2>2, <2>3
  <2>5. QED
    BY <1>1, <2>1, <2>4
<1>10. QED
  BY <1>1, <1>8, <1>9, <1>7 DEF KnownInv

LEMMA PeerFixed ==
  ASSUME [Next]_discVars
  PROVE  peer' = peer
BY DEF Next, Step, discVars, dataVars, Call, OnServices, OnRediscovered, OnChars, OnDescs, OnNoMoreServices,
       NextVendor, OnRead, NextService, OnNoMoreChars, NextChar, OnNoMoreDescs, Raise, PassOverVendor,
       OnError, Refuse, Lose, Disconnect

\* No request is under way, or one for services or for a declaration.
LEMMA NoPass ==
  ASSUME pc' \notin {"chars", "descs"} \/ ask'.what \notin {"chars", "descs"},
         ask'.from \in Handles, ask'.to \in Handles, ask'.from <= ask'.to
  PROVE  PassInv'
BY DEF PassInv, RangeOk, Handles

\* The first characteristic handle of a range and what follows it.
LEMMA CharRange ==
  ASSUME peer \in Databases, NEW s \in ServiceRecords, CharsOk(s), NEW k \in 1..Len(s.chars)
  PROVE  /\ s.chars[k].value \in Handles /\ s.chars[k].end \in Handles
         /\ s.chars[k].value <= s.chars[k].end
<1>1. s.chars \in Seq(CharRecords) /\ s.start \in Starts /\ s.end = EndOfService(s.start)
  BY DEF ServiceRecords
<1>2. PICK d : d = s.chars[k].decl
  OBVIOUS
<1>3. /\ d \in DOMAIN Attrs /\ d \in Int /\ KindOf(d) = "char" /\ d <= s.end
      /\ s.chars[k].value = d + 1
      /\ s.chars[k].end = IF k = Len(s.chars) THEN s.end ELSE s.chars[k + 1].decl - 1
  <2>1. d \in CharsOf(s.start) /\ s.start \in Int /\ s.end \in Int
    BY <1>1, <1>2, ServiceEnds DEF CharsOk, Handles
  <2>2. d \in DOMAIN Attrs /\ KindOf(d) = "char" /\ d \in s.start..s.end
    BY <1>1, <2>1 DEF CharsOf, Within
  <2>3. QED
    BY <1>2, <2>1, <2>2 DEF CharsOk
<1>4. d + 1 \in DOMAIN Attrs /\ KindOf(d + 1) = "attr" /\ d + 1 <= s.end /\ d + 1 \in Handles
  BY <1>1, <1>3, AttributesOfPeer, ServiceEnds
<1>5. CASE k = Len(s.chars)
  BY <1>1, <1>3, <1>4, <1>5, ServiceEnds
<1>6. CASE k # Len(s.chars)
  <2>1. k + 1 \in 1..Len(s.chars) /\ k < k + 1
    BY <1>1, <1>6
  <2>2. PICK e : e = s.chars[k + 1].decl
    OBVIOUS
  <2>3. e \in CharsOf(s.start) /\ d < e
    BY <1>2, <2>1, <2>2 DEF CharsOk
  <2>4. e \in DOMAIN Attrs /\ e \in Int /\ KindOf(e) = "char"
    BY <2>3, AttributesOfPeer DEF CharsOf
  <2>5. e # d + 1
    BY <1>4, <2>4
  <2>6. e - 1 >= d + 1
    BY <1>3, <2>3, <2>4, <2>5
  <2>7. e - 1 \in Handles
    BY <1>3, <1>4, <2>4, <2>6, AttributesOfPeer DEF Handles
  <2>8. QED
    BY <1>3, <1>4, <1>6, <2>2, <2>6, <2>7
<1>7. QED
  BY <1>5, <1>6

\* The services of an answer are put at the end of the database, without
\* characteristics.
LEMMA ServicesPut ==
  ASSUME Typed, NEW hs \in Listings(ask), OnServices(hs) \/ OnRediscovered(hs)
  PROVE  /\ Len(services) \in Nat /\ Len(services') \in Nat /\ Len(services) <= Len(services')
         /\ \A i \in 1..Len(services) : services'[i] = services[i]
         /\ \A i \in 1..Len(services') : i \notin 1..Len(services) =>
              /\ services'[i] \in ServiceRecords /\ services'[i].chars = <<>>
              /\ services'[i].uuid = Reported(UuidOf(services'[i].start))
<1>1. /\ peer \in Databases /\ services \in Seq(ServiceRecords) /\ vendor \in Seq(VendorRecords)
      /\ Len(services) \in Nat
  BY DEF Typed
<1>2. ask.what = "services"
  BY DEF OnServices, OnRediscovered, Found
<1>3. hs \in Seq(Starts) /\ Len(hs) \in Nat /\ DOMAIN hs = 1..Len(hs)
  BY <1>1, <1>2, ServicesListed
<1>4. CASE OnServices(hs)
  <2>1. PICK acc : acc = AddServices(hs) /\ Extended(acc) /\ services' = acc.services
    BY <1>1, <1>3, <1>4, ServicesAdded DEF OnServices
  <2>2. /\ services' \in Seq(ServiceRecords) /\ Len(services') \in Nat
        /\ Len(services) <= Len(services')
    BY <1>1, <2>1 DEF Extended
  <2>3. \A i \in 1..Len(services') : i \notin 1..Len(services) => i > Len(services)
    BY <1>1, <2>2
  <2>4. \A i \in 1..Len(services') : services'[i] \in ServiceRecords
    BY <2>2
  <2>5. QED
    BY <1>1, <2>1, <2>2, <2>3, <2>4 DEF Extended
<1>5. CASE OnRediscovered(hs)
  <2>1. PICK new : new = [i \in DOMAIN hs |-> Service(hs[i])]
    OBVIOUS
  <2>2. \A i \in 1..Len(hs) : /\ new[i] \in ServiceRecords /\ new[i].chars = <<>>
                              /\ new[i].uuid = Reported(UuidOf(new[i].start))
    BY <1>1, <1>3, <2>1, ServiceTyped
  <2>3. new \in [1..Len(hs) -> ServiceRecords]
    BY <1>3, <2>1, <2>2
  <2>4. new \in Seq(ServiceRecords) /\ Len(new) = Len(hs)
    BY <1>3, <2>3
  <2>5. services' = services \o new
    BY <1>5, <2>1 DEF OnRediscovered
  <2>6. /\ Len(services') = Len(services) + Len(hs)
        /\ \A i \in 1..Len(services') :
             services'[i] = IF i <= Len(services) THEN services[i] ELSE new[i - Len(services)]
    <3> DEFINE S == ServiceRecords
    <3>1. services \in Seq(S) /\ new \in Seq(S)
      BY <1>1, <2>4
    <3> HIDE DEF S
    <3>2. /\ Len(services \o new) = Len(services) + Len(new)
          /\ \A i \in 1..(Len(services) + Len(new)) :
               (services \o new)[i] = IF i <= Len(services) THEN services[i] ELSE new[i - Len(services)]
      BY <3>1
    <3>3. QED
      BY <2>4, <2>5, <3>2
  <2>7. \A i \in 1..Len(services') :
          i \notin 1..Len(services) => i - Len(services) \in 1..Len(hs) /\ ~(i <= Len(services))
    BY <1>1, <1>3, <2>6
  <2>8. \A i \in 1..Len(services) : i \in 1..Len(services') /\ i <= Len(services)
    BY <1>1, <1>3, <2>6
  <2>9. \A i \in 1..Len(services') : i \notin 1..Len(services) =>
          /\ services'[i] \in ServiceRecords /\ services'[i].chars = <<>>
          /\ services'[i].uuid = Reported(UuidOf(services'[i].start))
    BY <2>2, <2>6, <2>7
  <2>10. /\ Len(services') \in Nat /\ Len(services) <= Len(services')
         /\ \A i \in 1..Len(services) : services'[i] = services[i]
    BY <1>1, <1>3, <2>6, <2>8
  <2>11. QED
    BY <1>1, <2>9, <2>10
<1>6. QED
  BY <1>4, <1>5

LEMMA RangeStep ==
  ASSUME Typed, RangeInv, [Next]_discVars
  PROVE  RangeInv'
<1> SUFFICES ASSUME OwnBases PROVE OkInv' /\ KnownInv' /\ PassInv'
  BY PeerFixed, OwnBasesKept DEF RangeInv
<1>1. /\ peer \in Databases /\ peer' = peer
      /\ services \in Seq(ServiceRecords) /\ vendor \in Seq(VendorRecords)
      /\ ask \in Asks /\ si \in 1..(Len(services) + 1)
  BY PeerFixed DEF Typed
<1>2. OkInv /\ KnownInv /\ PassInv /\ RangeOk
  BY DEF RangeInv, PassInv
<1>3. Len(services) \in Nat /\ LastHandle \in Nat /\ LastHandle >= 1 /\ 1 \in Handles /\ LastHandle \in Handles
  BY <1>1, AttributesOfPeer DEF Handles
<1>4. NoAsk.from = 1 /\ NoAsk.to = 1 /\ NoAsk.what = "nothing" /\ 1 <= 1
  BY DEF NoAsk
<1>5. \A s \in ServiceRecords :
        /\ s.start \in Starts /\ s.end = EndOfService(s.start)
        /\ s.start \in Handles /\ s.end \in Handles /\ s.start <= s.end
        /\ s.start \in Int /\ s.end \in Int /\ s.start <= LastHandle
  BY <1>1, ServiceEnds DEF ServiceRecords, Handles
<1>6. vendor # <<>> => Head(vendor) = vendor[1] /\ vendor[1] \in ServiceRecords
  BY <1>1 DEF VendorRecords
<1>10. ASSUME NEW u, Call(u) PROVE OkInv' /\ KnownInv' /\ PassInv'
  <2>1. /\ services' = services /\ registered' = registered /\ vendor' = <<>>
        /\ pc' \in {"idle", "prim"}
        /\ ask' = NoAsk \/ ask' = [what |-> "services", from |-> 1, to |-> LastHandle]
    BY <1>10 DEF Call, Return, Request
  <2>2. OkInv' /\ KnownInv'
    BY <1>1, <1>2, <2>1, DataKept
  <2>3. PassInv'
    BY <1>3, <1>4, <2>1, NoPass
  <2>4. QED
    BY <2>2, <2>3
<1>11. ASSUME NEW hs \in Listings(ask), OnServices(hs) PROVE OkInv' /\ KnownInv' /\ PassInv'
  <2>1. ask.what = "services" /\ pc = "prim" /\ registered' = registered
    BY <1>11 DEF OnServices, Found
  <2>2. hs \in Seq(Starts) /\ Last(hs) \in Starts
    BY <1>1, <2>1, ServicesListed
  <2>3. PICK acc : acc = AddServices(hs) /\ Extended(acc) /\ services' = acc.services /\ vendor' = acc.vendor
    BY <1>1, <1>11, <2>2, ServicesAdded DEF OnServices
  <2>4. Len(services') \in Nat
    BY <1>11, ServicesPut
  <2>5. \A i \in 1..Len(services') :
          /\ i \in 1..Len(services) => services'[i] = services[i]
          /\ i \notin 1..Len(services) =>
               /\ services'[i].chars = <<>>
               /\ services'[i].uuid = Reported(UuidOf(services'[i].start))
    BY <1>11, ServicesPut
  <2>6. BaseMissing(vendor)' =>
          \A i \in 1..Len(services) : services[i].uuid = Unknown => services[i].chars = <<>>
    <3>1. BaseMissing(vendor)' <=> BaseMissing(acc.vendor)
      BY <1>1, <2>1, <2>3, SamePeer DEF BaseMissing
    <3>2. QED
      BY <1>2, <2>1, <2>3, <3>1 DEF Extended, KnownInv
  <2>7. OkInv' /\ KnownInv'
    BY <1>1, <1>2, <1>3, <2>1, <2>4, <2>5, <2>6, DataExtended
  <2>8. PICK end \in Handles : end = Service(Last(hs)).end
    BY <1>1, <1>5, <2>2, ServiceTyped
  <2>9. CASE end = LastHandle
    <3>1. pc' = "vendor" /\ ask' = NoAsk
      BY <1>11, <2>8, <2>9 DEF OnServices
    <3>2. PassInv'
      BY <1>3, <1>4, <3>1, NoPass
    <3>3. QED
      BY <2>7, <3>2
  <2>10. CASE end # LastHandle
    <3>1. end + 1 \in Handles /\ end + 1 <= LastHandle
      BY <1>3, <2>10 DEF Handles
    <3>2. pc' = "prim" /\ ask' = [what |-> "services", from |-> end + 1, to |-> LastHandle]
      BY <1>11, <2>1, <2>8, <2>10 DEF OnServices, Request
    <3>3. ask'.what = "services" /\ ask'.from = end + 1 /\ ask'.to = LastHandle
      BY <3>2
    <3>4. PassInv'
      BY <1>3, <3>1, <3>2, <3>3, NoPass
    <3>5. QED
      BY <2>7, <3>4
  <2>11. QED
    BY <2>7, <2>9, <2>10
<1>12. CASE OnNoMoreServices \/ OnNoMoreChars \/ OnNoMoreDescs
  <2>1. /\ services' = services /\ registered' = registered /\ vendor' = vendor /\ ask' = NoAsk
        /\ (pc' = "vendor" /\ pc = "prim") \/ pc' = "char"
    BY <1>12 DEF OnNoMoreServices, OnNoMoreChars, OnNoMoreDescs, dataVars
  <2>2. OkInv' /\ KnownInv'
    BY <1>1, <1>2, <2>1, DataKept
  <2>3. PassInv'
    BY <1>3, <1>4, <2>1, NoPass
  <2>4. QED
    BY <2>2, <2>3
<1>13. CASE NextVendor
  <2>1. /\ services' = services /\ registered' = registered /\ vendor' = vendor /\ pc = "vendor"
        /\ pc' \in {"service", "read"}
    BY <1>13 DEF NextVendor, dataVars
  <2>2. OkInv' /\ KnownInv'
    BY <1>1, <1>2, <2>1, DataKept
  <2>3. CASE vendor = <<>>
    <3>1. ask' = ask /\ pc' = "service"
      BY <1>13, <2>3 DEF NextVendor
    <3>2. PassInv'
      BY <1>2, <3>1, NoPass DEF RangeOk
    <3>3. QED
      BY <2>2, <3>2
  <2>4. CASE vendor # <<>>
    <3>1. ask' = [what |-> "read", from |-> vendor[1].start, to |-> vendor[1].start]
      BY <1>6, <1>13, <2>4 DEF NextVendor, Request
    <3>2. QED
      BY <1>5, <1>6, <2>1, <2>2, <2>4, <3>1, NoPass
  <2>5. QED
    BY <2>2, <2>3, <2>4
<1>14. CASE OnRead
  <2>1. OkInv' /\ KnownInv'
    BY <1>2, <1>14, DataRegistered
  <2>2. ask.from = vendor[1].start /\ vendor # <<>>
    BY <1>14 DEF OnRead, Typed
  <2>3. pc' = "redisc" /\ ask' = [what |-> "services", from |-> ask.from, to |-> LastHandle]
    BY <1>14 DEF OnRead, Request
  <2>4. PassInv'
    BY <1>3, <1>5, <1>6, <2>2, <2>3, NoPass
  <2>5. QED
    BY <2>1, <2>4
<1>15. ASSUME NEW hs \in Listings(ask), OnRediscovered(hs) PROVE OkInv' /\ KnownInv' /\ PassInv'
  <2>1. /\ ask.what = "services" /\ pc = "redisc" /\ vendor # <<>> /\ registered' = registered
        /\ pc' = "vendor" /\ ask' = NoAsk
    BY <1>15 DEF OnRediscovered, Found, Typed
  <2>2. /\ Len(services') \in Nat
        /\ \A i \in 1..Len(services') :
             /\ i \in 1..Len(services) => services'[i] = services[i]
             /\ i \notin 1..Len(services) =>
                  /\ services'[i].chars = <<>>
                  /\ services'[i].uuid = Reported(UuidOf(services'[i].start))
    BY <1>15, ServicesPut
  <2>3. BaseMissing(vendor)' =>
          \A i \in 1..Len(services) : services[i].uuid = Unknown => services[i].chars = <<>>
    <3>1. BaseMissing(vendor)' => BaseMissing(vendor)
      BY <1>1, <1>15, <2>1, NoMoreMissing DEF OnRediscovered
    <3>2. QED
      BY <1>2, <2>1, <3>1 DEF KnownInv
  <2>4. OkInv' /\ KnownInv'
    BY <1>1, <1>2, <1>3, <2>1, <2>2, <2>3, DataExtended
  <2>5. PassInv'
    BY <1>3, <1>4, <2>1, NoPass
  <2>6. QED
    BY <2>4, <2>5
<1>16. CASE PassOverVendor
  <2>1. pc \in {"read", "redisc"}
    BY <1>16 DEF PassOverVendor
  <2>2. /\ services' = services /\ registered' = registered /\ pc' = "vendor" /\ ask' = NoAsk
        /\ vendor # <<>> /\ vendor' = Tail(vendor)
    BY <1>16, <2>1 DEF PassOverVendor, Typed
  <2>3. OkInv' /\ KnownInv'
    BY <1>1, <1>2, <2>1, <2>2, DataKept
  <2>4. PassInv'
    BY <1>3, <1>4, <2>2, NoPass
  <2>5. QED
    BY <2>3, <2>4
<1>17. CASE NextService
  <2>1. /\ services' = services /\ registered' = registered /\ vendor' = vendor /\ si' = si
        /\ pc' \in {"idle", "chars"}
    BY <1>17 DEF NextService, Return, dataVars
  <2>2. OkInv' /\ KnownInv'
    BY <1>1, <1>2, <2>1, DataKept
  <2>3. CASE si > Len(services)
    <3>1. pc' = "idle" /\ ask' = NoAsk
      BY <1>17, <2>3 DEF NextService, Return
    <3>2. QED
      BY <1>3, <1>4, <2>2, <3>1, NoPass
  <2>4. CASE ~(si > Len(services))
    <3>1. si \in 1..Len(services)
      BY <1>1, <1>3, <2>4
    <3>2. PICK s \in ServiceRecords : s = services[si]
      BY <1>1, <3>1
    <3>3. pc' = "chars" /\ ask' = [what |-> "chars", from |-> s.start, to |-> s.end]
      BY <1>17, <2>4, <3>2 DEF NextService, Request
    <3>4. \A c \in CharsOf(s.start) : ~(c < s.start)
      BY <1>5, <3>2 DEF CharsOf, Within
    <3>5. \A c \in CharsOf(s.start)' : ~(c < s.start)
      BY <1>1, <3>4, SamePeer
    <3>6. CharsPass(s)'
      BY <1>5, <3>3, <3>5 DEF CharsPass
    <3>7. CharsPass(services[si])'
      BY <2>1, <3>2, <3>6
    <3>8. PassInv'
      BY <1>5, <3>3, <3>7 DEF PassInv, RangeOk, Handles
    <3>9. QED
      BY <2>2, <3>8
  <2>5. QED
    BY <2>3, <2>4
<1>18. ASSUME NEW hs \in Listings(ask), OnChars(hs) PROVE OkInv' /\ KnownInv' /\ PassInv'
  <2>1. /\ ask.what = "chars" /\ pc = "chars" /\ pc' = "chars" /\ registered' = registered
        /\ si' = si /\ si \in 1..Len(services)
    BY <1>1, <1>3, <1>18 DEF OnChars, Found, Typed
  <2>2. PICK s \in ServiceRecords : s = services[si] /\ CharsOk(s) /\ CharsPass(s)
    BY <1>1, <1>2, <2>1 DEF PassInv, OkInv
  <2>3. PICK new : /\ new = AddChars(s, hs) /\ new \in ServiceRecords
                   /\ new.start = s.start /\ new.end = s.end /\ new.uuid = s.uuid
                   /\ CharsOk(new)
                   /\ \A c \in CharsOf(s.start) : c < Last(hs) + 1 => HasUuidOf(new, c)
    <3>1. ask.from \in Int
      BY <1>1 DEF Asks
    <3>2. ask.from >= s.start
      BY <1>5, <2>2, <3>1 DEF CharsPass
    <3>3. QED
      BY <1>1, <2>1, <2>2, <3>1, <3>2, CharsAdded DEF CharsPass
  <2>4. services' = [services EXCEPT ![si] = new] /\ services'[si] = new
    BY <1>1, <1>18, <2>1, <2>2, <2>3 DEF OnChars
  <2>5. OkInv' /\ KnownInv'
    BY <1>1, <1>2, <2>1, <2>2, <2>3, <2>4, DataReplaced
  <2>6. PICK l \in Int : l = Last(hs) /\ l \in DOMAIN Attrs /\ KindOf(l) = "char" /\ ask.from <= l /\ l <= s.end
    <3>1. Last(hs) \in DOMAIN Attrs /\ Answered(ask, Last(hs)) /\ Last(hs) \in Int
      BY <1>1, Listed, AttributesOfPeer
    <3>2. QED
      BY <2>1, <2>2, <3>1 DEF Answered, CharsPass
  <2>7. ask' = [what |-> "chars", from |-> l + 1, to |-> s.end]
    BY <1>18, <2>2, <2>6 DEF OnChars, Request
  <2>8. l + 1 <= s.end
    BY <1>1, <1>5, <2>6, ServiceEnds
  <2>9. RangeOk' /\ s.start <= l + 1
    <3>1. ask.from \in Int /\ ask.from >= 1 /\ s.start <= ask.from
      BY <1>2, <2>2 DEF RangeOk, CharsPass, Handles
    <3>2. l + 1 \in Handles /\ s.start <= l + 1
      BY <1>3, <1>5, <2>6, <2>8, <3>1 DEF Handles
    <3>3. QED
      BY <1>5, <2>7, <2>8, <3>2 DEF RangeOk, Handles
  <2>10. CharsPass(new)'
    <3>1. \A c : UuidOf(c)' = UuidOf(c) /\ \A u : Reported(u)' = Reported(u)
      BY <1>1, <2>1, SamePeer DEF Reported, Vendor
    <3>2. \A c : HasUuidOf(new, c) => HasUuidOf(new, c)'
      BY <3>1 DEF HasUuidOf, UuidsOf
    <3>3. CharsOf(new.start)' = CharsOf(s.start)
      BY <1>1, <2>3, SamePeer
    <3>4. QED
      BY <2>3, <2>6, <2>7, <2>9, <3>2, <3>3 DEF CharsPass
  <2>11. CharsPass(services[si])'
    BY <2>1, <2>4, <2>10
  <2>12. QED
    BY <2>1, <2>5, <2>9, <2>11 DEF PassInv
<1>19. CASE NextChar
  <2>1. /\ services' = services /\ registered' = registered /\ vendor' = vendor /\ ci' = ci
        /\ pc = "char" /\ pc' \in {"service", "descs"} /\ si \in 1..Len(services)
    BY <1>1, <1>3, <1>19 DEF NextChar, dataVars, Typed
  <2>2. OkInv' /\ KnownInv'
    BY <1>1, <1>2, <2>1, DataKept
  <2>3. CASE NothingToAsk
    BY <1>2, <1>19, <2>2, <2>3, NoPass DEF NextChar, RangeOk
  <2>4. CASE ~NothingToAsk
    <3>1. PICK s \in ServiceRecords : s = services[si] /\ CharsOk(s)
      BY <1>1, <1>2, <2>1 DEF OkInv
    <3>2. ci \in 1..Len(s.chars)
      <4>1. s.chars \in Seq(CharRecords) /\ ci \in Nat \ {0}
        BY DEF ServiceRecords, Typed
      <4>2. QED
        BY <2>1, <2>4, <3>1, <4>1 DEF NothingToAsk
    <3>3. /\ pc' = "descs" /\ si' = si
          /\ ask' = [what |-> "descs", from |-> s.chars[ci].value, to |-> s.chars[ci].end]
      BY <1>19, <2>4, <3>1 DEF NextChar, Request
    <3>4. RangeOk'
      BY <1>1, <3>1, <3>2, <3>3, CharRange DEF RangeOk, Handles
    <3>5. PassInv'
      BY <2>1, <3>1, <3>3, <3>4 DEF PassInv
    <3>6. QED
      BY <2>2, <3>5
  <2>5. QED
    BY <2>3, <2>4
<1>20. ASSUME NEW hs \in Listings(ask), OnDescs(hs) PROVE OkInv' /\ KnownInv' /\ PassInv'
  <2>1. /\ ask.what = "descs" /\ pc = "descs" /\ pc' \in {"char", "descs"} /\ registered' = registered
        /\ si' = si /\ si \in 1..Len(services) /\ ci \in DOMAIN services[si].chars
    BY <1>1, <1>3, <1>20 DEF OnDescs, Found, Typed
  <2>2. PICK s \in ServiceRecords : s = services[si] /\ CharsOk(s)
    BY <1>1, <1>2, <2>1 DEF OkInv
  <2>3. PICK ds \in Seq(DescRecords) : ds = [i \in DOMAIN hs |-> Desc(hs[i])]
    BY <1>1, DescsListed
  <2>4. PICK new : new = AddDescs(s, ci, ds)
    OBVIOUS
  <2>5. /\ new \in ServiceRecords /\ new.start = s.start /\ new.end = s.end /\ new.uuid = s.uuid
        /\ Len(new.chars) = Len(s.chars) /\ DOMAIN new.chars = DOMAIN s.chars
        /\ \A i \in DOMAIN s.chars : /\ new.chars[i].uuid = s.chars[i].uuid
                                     /\ new.chars[i].decl = s.chars[i].decl
                                     /\ new.chars[i].value = s.chars[i].value
                                     /\ new.chars[i].end = s.chars[i].end
    <3>1. ci \in DOMAIN s.chars
      BY <2>1, <2>2
    <3>2. QED
      BY <2>4, <3>1, DescsAdded
  <2>6. CharsOk(new)
    <3>1. DOMAIN s.chars = 1..Len(s.chars) /\ Len(s.chars) \in Nat
      BY DEF ServiceRecords
    <3>2. QED
      BY <2>2, <2>5, <3>1, OkWithDescs
  <2>7. services' = [services EXCEPT ![si] = new] /\ services'[si] = new
    <3>1. services' = [services EXCEPT ![si] = AddDescs(@, ci, ds)]
      BY <1>20, <2>3 DEF OnDescs, AddDescs
    <3>2. si \in DOMAIN services
      BY <1>1, <2>1
    <3>3. QED
      BY <2>2, <2>4, <3>1, <3>2
  <2>8. OkInv' /\ KnownInv'
    BY <1>1, <1>2, <2>1, <2>2, <2>5, <2>6, <2>7, DataReplaced
  <2>9. PICK e : e = s.chars[ci].end
    OBVIOUS
  <2>10. e \in Handles /\ ask.to = e
    <3>1. ci \in 1..Len(s.chars)
      BY <2>1, <2>2 DEF ServiceRecords
    <3>2. QED
      BY <1>1, <1>2, <2>1, <2>2, <2>9, <3>1, CharRange DEF PassInv
  <2>11. CASE Last(hs) = e
    BY <1>3, <1>4, <1>20, <2>2, <2>8, <2>9, <2>11, NoPass DEF OnDescs
  <2>12. CASE Last(hs) # e
    <3>1. PICK l \in Int : l = Last(hs) /\ l \in Handles /\ l <= e
      <4>1. Last(hs) \in DOMAIN Attrs /\ Answered(ask, Last(hs)) /\ Last(hs) \in Int
        BY <1>1, Listed, AttributesOfPeer
      <4>2. Last(hs) \in Handles
        BY <1>1, <4>1, AttributesOfPeer
      <4>3. QED
        BY <2>10, <4>1, <4>2 DEF Answered
    <3>2. ask' = [what |-> "descs", from |-> l + 1, to |-> e] /\ ci' = ci
      BY <1>20, <2>2, <2>9, <2>12, <3>1 DEF OnDescs, Request
    <3>3. RangeOk'
      <4>1. l + 1 \in Handles /\ l + 1 <= e
        BY <1>3, <2>10, <2>12, <3>1 DEF Handles
      <4>2. QED
        BY <2>10, <3>2, <4>1 DEF RangeOk, Handles
    <3>4. services'[si].chars[ci].end = e
      BY <2>1, <2>2, <2>5, <2>7, <2>9
    <3>5. PassInv'
      BY <2>1, <3>2, <3>3, <3>4 DEF PassInv
    <3>6. QED
      BY <2>8, <3>5
  <2>13. QED
    BY <2>11, <2>12
<1>21. CASE OnError \/ Raise \/ Refuse \/ Lose
  <2>1. /\ services' = services /\ registered' = registered /\ vendor' = vendor /\ ask' = NoAsk
        /\ pc' = "idle" \/ pc' = pc
    BY <1>21 DEF OnError, Raise, Refuse, Lose, Return, dataVars
  <2>2. OkInv' /\ KnownInv'
    BY <1>1, <1>2, <2>1, DataKept
  <2>3. PassInv'
    BY <1>3, <1>4, <2>1, NoPass
  <2>4. QED
    BY <2>2, <2>3
<1>22. CASE Disconnect \/ UNCHANGED discVars
  <2>1. /\ services' = services /\ registered' = registered /\ vendor' = vendor /\ ask' = ask
        /\ pc' = pc /\ si' = si /\ ci' = ci
    BY <1>22 DEF Disconnect, discVars, dataVars
  <2>2. OkInv' /\ KnownInv'
    BY <1>1, <1>2, <2>1, DataKept
  <2>3. /\ RangeOk'
        /\ (pc' = "descs" /\ ask'.what = "descs") => ask'.to = services'[si'].chars[ci'].end
    BY <1>2, <2>1 DEF PassInv, RangeOk, Handles
  <2>4. ASSUME pc = "chars", ask.what = "chars"
        PROVE  CharsPass(services[si])'
    <3>1. PICK s : s = services[si] /\ CharsPass(s)
      BY <1>2, <2>4 DEF PassInv
    <3>2. \A c : UuidOf(c)' = UuidOf(c) /\ \A u : Reported(u)' = Reported(u)
      BY <1>1, <2>1, SamePeer DEF Reported, Vendor
    <3>3. \A c : HasUuidOf(s, c) => HasUuidOf(s, c)'
      BY <3>2 DEF HasUuidOf, UuidsOf
    <3>4. CharsOf(s.start)' = CharsOf(s.start)
      BY <1>1, SamePeer
    <3>5. CharsPass(s)'
      BY <2>1, <3>1, <3>3, <3>4 DEF CharsPass
    <3>6. QED
      BY <2>1, <3>1, <3>5
  <2>5. PassInv'
    <3>1. (pc' = "chars" /\ ask'.what = "chars") => CharsPass(services[si])'
      BY <2>1, <2>4
    <3>2. QED
      BY <2>3, <3>1 DEF PassInv
  <2>6. QED
    BY <2>2, <2>5
<1>23. QED
  BY <1>10, <1>11, <1>12, <1>13, <1>14, <1>15, <1>16, <1>17, <1>18, <1>19, <1>20, <1>21, <1>22
     DEF Next, Step

LEMMA RangeHolds == Spec => []RangeInv
<1>1. Init => RangeInv
  <2> SUFFICES ASSUME Init PROVE RangeInv
    OBVIOUS
  <2>1. services = <<>> /\ Len(services) = 0 /\ vendor = <<>> /\ pc = "idle" /\ ask = NoAsk
    BY DEF Init
  <2>2. OkInv /\ KnownInv
    BY <2>1 DEF OkInv, KnownInv
  <2>3. PassInv
    BY <2>1, AttributesOfPeer DEF PassInv, RangeOk, NoAsk, Handles, Init
  <2>4. QED
    BY <2>2, <2>3 DEF RangeInv
<1>2. QED
  BY <1>1, RangeStep, TypedHolds, PTL DEF Spec

(* No request is sent for an empty range of handles, to a peer whose vendor *)
(* characteristics have the base of their service or one that no service    *)
(* has, whatever was found before, lost, refused or left half done.         *)
THEOREM RangesAreValid == Spec => []RangesValid
<1>1. RangeInv => RangesValid
  BY DEF RangeInv, PassInv, RangeOk, RangesValid
<1>2. QED
  BY <1>1, RangeHolds, PTL

-----------------------------------------------------------------------------
(* The descriptors, and what is found by the end of a call.                 *)

\* Whatever the peer has: the characteristics and descriptors lie within their
\* service, and have the uuids of the peer's or none.
CharFits(s, k) ==
  /\ s.chars[k].decl \in CharsOf(s.start)
  /\ s.chars[k].value = s.chars[k].decl + 1 /\ s.chars[k].end <= s.end
  /\ s.chars[k].uuid \in {Unknown, UuidOf(s.chars[k].decl)}
DescFits(s, d) ==
  /\ d.handle \in DOMAIN Attrs /\ s.start < d.handle /\ d.handle <= s.end
  /\ d.uuid \in {Unknown, IF KindOf(d.handle) = "char" THEN Declaration ELSE UuidOf(d.handle)}
Fits(s) ==
  /\ s.uuid \in {Unknown, UuidOf(s.start)}
  /\ \A k \in 1..Len(s.chars) :
       /\ CharFits(s, k)
       /\ \A m \in 1..Len(s.chars[k].descs) : DescFits(s, s.chars[k].descs[m])
AskFits ==
  /\ (pc = "chars" /\ ask.what = "chars") =>
       services[si].start <= ask.from /\ ask.to = services[si].end
  /\ (pc = "descs" /\ ask.what = "descs") =>
       services[si].start < ask.from /\ ask.to <= services[si].end
FitsInv == (\A i \in 1..Len(services) : Fits(services[i])) /\ AskFits

LEMMA FitsStable ==
  ASSUME peer' = peer, NEW s
  PROVE  Fits(s)' <=> Fits(s)
<1>1. \A k : CharFits(s, k)' <=> CharFits(s, k)
  BY SamePeer DEF CharFits
<1>2. \A d : DescFits(s, d)' <=> DescFits(s, d)
  BY SamePeer DEF DescFits
<1>3. QED
  BY <1>1, <1>2, SamePeer DEF Fits

\* The characteristics of an answer: the ones that were there keep what they have.
CharKept(c, d) == d.uuid = c.uuid /\ d.decl = c.decl /\ d.value = c.value /\ d.descs = c.descs
Grown(s, new) ==
  /\ new \in ServiceRecords
  /\ new.start = s.start /\ new.end = s.end /\ new.uuid = s.uuid
  /\ Len(new.chars) >= Len(s.chars)
  /\ \A k \in 1..Len(s.chars) :
       CharKept(s.chars[k], new.chars[k]) /\ (s.chars[k].end <= s.end => new.chars[k].end <= s.end)
  /\ \A k \in 1..Len(new.chars) : k > Len(s.chars) =>
       /\ new.chars[k].decl \in CharsOf(s.start) /\ new.chars[k].value = new.chars[k].decl + 1
       /\ new.chars[k].uuid = Reported(UuidOf(new.chars[k].decl))
       /\ new.chars[k].descs = <<>> /\ new.chars[k].end <= s.end

LEMMA CharGrown ==
  ASSUME peer \in Databases, NEW s \in ServiceRecords, NEW t, Grown(s, t), NEW h \in CharsOf(s.start)
  PROVE  Grown(s, AddChar(t, h))
<1>1. PICK new : new = AddChar(t, h)
  OBVIOUS
<1>2. /\ s.chars \in Seq(CharRecords) /\ t.chars \in Seq(CharRecords) /\ t \in ServiceRecords
      /\ Len(s.chars) \in Nat /\ Len(t.chars) \in Nat
      /\ t.start = s.start /\ t.end = s.end /\ t.uuid = s.uuid
  BY DEF ServiceRecords, Grown
<1>3. h \in DOMAIN Attrs /\ h \in Int /\ s.end \in Int /\ h <= s.end /\ s.start \in Starts
  BY ServiceEnds, AttributesOfPeer DEF CharsOf, Within, ServiceRecords, Handles
<1>4. PICK n \in Nat : n = Len(t.chars)
  BY <1>2
<1>5. /\ new \in ServiceRecords
      /\ new.start = s.start /\ new.end = s.end /\ new.uuid = s.uuid
  BY <1>1, <1>2, <1>3, CharAdded
<1>6. CASE Reported(UuidOf(h)) \in UuidsOf(t.chars)
  <2>1. new = t
    BY <1>1, <1>2, <1>3, <1>6, CharAdded
  <2>2. QED
    BY <1>1, <2>1
<1>7. CASE Reported(UuidOf(h)) \notin UuidsOf(t.chars)
  <2>1. /\ Len(new.chars) = n + 1
        /\ \A i \in 1..n : /\ CharKept(t.chars[i], new.chars[i])
                           /\ new.chars[i].end = IF i = n THEN h - 1 ELSE t.chars[i].end
    <3>1. /\ Len(new.chars) = n + 1
          /\ \A i \in 1..n : /\ new.chars[i].uuid = t.chars[i].uuid
                             /\ new.chars[i].decl = t.chars[i].decl
                             /\ new.chars[i].value = t.chars[i].value
                             /\ new.chars[i].end = IF i = n THEN h - 1 ELSE t.chars[i].end
                             /\ new.chars[i].descs = t.chars[i].descs
      BY <1>1, <1>2, <1>3, <1>4, <1>7, CharAdded, SMTT(20)
    <3>2. QED
      BY <3>1 DEF CharKept
  <2>2. /\ new.chars[n + 1].uuid = Reported(UuidOf(h)) /\ new.chars[n + 1].decl = h
        /\ new.chars[n + 1].value = h + 1 /\ new.chars[n + 1].end = s.end
        /\ new.chars[n + 1].descs = <<>>
    BY <1>1, <1>2, <1>3, <1>4, <1>7, CharAdded
  <2>3. Len(new.chars) >= Len(s.chars)
    BY <1>2, <1>4, <2>1 DEF Grown
  <2>4. ASSUME NEW k \in 1..Len(s.chars)
        PROVE  CharKept(s.chars[k], new.chars[k]) /\ (s.chars[k].end <= s.end => new.chars[k].end <= s.end)
    <3>1. k \in 1..n /\ CharKept(s.chars[k], t.chars[k]) /\ (s.chars[k].end <= s.end => t.chars[k].end <= s.end)
      BY <1>2, <1>4 DEF Grown
    <3>2. CharKept(s.chars[k], new.chars[k])
      BY <2>1, <3>1 DEF CharKept
    <3>3. new.chars[k].end = h - 1 \/ new.chars[k].end = t.chars[k].end
      BY <2>1, <3>1
    <3>4. h - 1 <= s.end
      BY <1>3
    <3>5. QED
      BY <3>1, <3>2, <3>3, <3>4
  <2>5. ASSUME NEW k \in 1..Len(new.chars), k > Len(s.chars)
        PROVE  /\ new.chars[k].decl \in CharsOf(s.start) /\ new.chars[k].value = new.chars[k].decl + 1
               /\ new.chars[k].uuid = Reported(UuidOf(new.chars[k].decl))
               /\ new.chars[k].descs = <<>> /\ new.chars[k].end <= s.end
    <3>1. CASE k \in 1..n
      <4>1. /\ t.chars[k].decl \in CharsOf(s.start) /\ t.chars[k].value = t.chars[k].decl + 1
            /\ t.chars[k].uuid = Reported(UuidOf(t.chars[k].decl))
            /\ t.chars[k].descs = <<>> /\ t.chars[k].end <= s.end
        BY <1>4, <2>5, <3>1 DEF Grown
      <4>2. /\ CharKept(t.chars[k], new.chars[k])
            /\ new.chars[k].end = h - 1 \/ new.chars[k].end = t.chars[k].end
        BY <2>1, <3>1
      <4>3. new.chars[k].end <= s.end
        BY <1>3, <4>1, <4>2
      <4>4. QED
        BY <4>1, <4>2, <4>3 DEF CharKept
    <3>2. CASE k \notin 1..n
      <4>1. k = n + 1
        BY <2>1, <3>2
      <4>2. QED
        BY <1>3, <2>2, <4>1
    <3>3. QED
      BY <3>1, <3>2
  <2>6. QED
    BY <1>1, <1>5, <2>3, <2>4, <2>5 DEF Grown
<1>8. QED
  BY <1>6, <1>7

LEMMA CharsGrown ==
  ASSUME peer \in Databases, NEW s \in ServiceRecords, NEW hs,
         Len(hs) \in Nat, DOMAIN hs = 1..Len(hs), \A i \in 1..Len(hs) : hs[i] \in CharsOf(s.start)
  PROVE  Grown(s, AddChars(s, hs))
<1>1. PICK F : /\ F[0] = s /\ F[Len(hs)] = AddChars(s, hs)
               /\ \A n \in 1..Len(hs) : F[n] = AddChar(F[n - 1], hs[n])
  BY CharsFolded
<1> DEFINE T == {n \in 0..Len(hs) : Grown(s, F[n])}
<1>2. 0 \in T
  <2>1. Len(s.chars) \in Nat
    BY DEF ServiceRecords
  <2>2. Grown(s, s)
    BY <2>1 DEF Grown, CharKept
  <2>3. QED
    BY <1>1, <2>2
<1>3. ASSUME NEW k \in 0..(Len(hs) - 1), k \in T
      PROVE  k + 1 \in T
  <2>1. k + 1 \in 1..Len(hs) /\ (k + 1) - 1 = k /\ k + 1 \in 0..Len(hs)
    OBVIOUS
  <2>2. F[k + 1] = AddChar(F[k], hs[k + 1]) /\ hs[k + 1] \in CharsOf(s.start)
    BY <1>1, <2>1
  <2>3. Grown(s, F[k + 1])
    BY <1>3, <2>2, CharGrown
  <2>4. QED
    BY <2>1, <2>3
<1>4. Len(hs) \in T
  <2> HIDE DEF T
  <2>1. QED
    BY <1>2, <1>3, UpTo
<1>5. QED
  BY <1>1, <1>4

LEMMA GrownFits ==
  ASSUME NEW s \in ServiceRecords, NEW new, Fits(s), Grown(s, new)
  PROVE  Fits(new)
<1>1. /\ Len(s.chars) \in Nat /\ new.start = s.start /\ new.end = s.end /\ new.uuid = s.uuid
      /\ Len(new.chars) \in Nat
  BY DEF ServiceRecords, Grown
<1>2. ASSUME NEW k \in 1..Len(new.chars)
      PROVE  /\ CharFits(new, k)
             /\ \A m \in 1..Len(new.chars[k].descs) : DescFits(new, new.chars[k].descs[m])
  <2>1. CASE k \in 1..Len(s.chars)
    <3>1. /\ CharKept(s.chars[k], new.chars[k]) /\ CharFits(s, k)
          /\ (s.chars[k].end <= s.end => new.chars[k].end <= s.end)
          /\ \A m \in 1..Len(s.chars[k].descs) : DescFits(s, s.chars[k].descs[m])
      BY <2>1 DEF Grown, Fits
    <3>2. CharFits(new, k)
      BY <1>1, <3>1 DEF CharFits, CharKept
    <3>3. \A m \in 1..Len(new.chars[k].descs) : DescFits(new, new.chars[k].descs[m])
      BY <1>1, <3>1 DEF DescFits, CharKept
    <3>4. QED
      BY <3>2, <3>3
  <2>2. CASE k \notin 1..Len(s.chars)
    <3>1. k > Len(s.chars)
      BY <1>1, <2>2
    <3>2. /\ new.chars[k].decl \in CharsOf(s.start) /\ new.chars[k].value = new.chars[k].decl + 1
          /\ new.chars[k].uuid = Reported(UuidOf(new.chars[k].decl))
          /\ new.chars[k].descs = <<>> /\ new.chars[k].end <= s.end
      BY <3>1 DEF Grown
    <3>3. Len(new.chars[k].descs) = 0
      BY <3>2
    <3>4. CharFits(new, k)
      BY <1>1, <3>2 DEF CharFits, Reported
    <3>5. QED
      BY <3>3, <3>4
  <2>3. QED
    BY <2>1, <2>2
<1>3. new.uuid \in {Unknown, UuidOf(new.start)}
  BY <1>1 DEF Fits
<1>4. QED
  BY <1>2, <1>3 DEF Fits

\* Characteristics or descriptors are added to the service the loop is at.
LEMMA OneReplaced ==
  ASSUME Typed, NEW hs \in Listings(ask), OnChars(hs) \/ OnDescs(hs)
  PROVE  /\ si \in 1..Len(services) /\ Len(services') = Len(services)
         /\ \A i \in 1..Len(services) : i # si => services'[i] = services[i]
         /\ services'[si].start = services[si].start /\ services'[si].end = services[si].end
         /\ services'[si].uuid = services[si].uuid
<1>1. /\ peer \in Databases /\ services \in Seq(ServiceRecords) /\ si \in 1..(Len(services) + 1)
      /\ Len(services) \in Nat
  BY DEF Typed
<1>2. si \in 1..Len(services)
  <2>1. pc \in {"chars", "descs"}
    BY DEF OnChars, OnDescs
  <2>2. si <= Len(services)
    BY <2>1 DEF Typed
  <2>3. QED
    BY <1>1, <2>2
<1>3. PICK s \in ServiceRecords : s = services[si]
  BY <1>1, <1>2
<1>4. \E new : /\ services' = [services EXCEPT ![si] = new]
               /\ new.start = s.start /\ new.end = s.end /\ new.uuid = s.uuid
  <2>1. CASE OnChars(hs)
    <3>1. ask.what = "chars" /\ services' = [services EXCEPT ![si] = AddChars(s, hs)]
      BY <1>3, <2>1 DEF OnChars, Found
    <3>2. /\ AddChars(s, hs).start = s.start /\ AddChars(s, hs).end = s.end
          /\ AddChars(s, hs).uuid = s.uuid
      BY <1>1, <1>3, <3>1, CharsAdded
    <3>3. QED
      BY <3>1, <3>2
  <2>2. CASE OnDescs(hs)
    <3>1. PICK k \in DOMAIN s.chars : k = ci
      BY <1>3, <2>2 DEF OnDescs, Typed
    <3>2. PICK ds \in Seq(DescRecords) : ds = [i \in DOMAIN hs |-> Desc(hs[i])]
      BY <1>1, DescsListed
    <3>3. services' = [services EXCEPT ![si] = AddDescs(s, k, ds)]
      BY <1>3, <2>2, <3>1, <3>2 DEF OnDescs, AddDescs
    <3>4. /\ AddDescs(s, k, ds).start = s.start /\ AddDescs(s, k, ds).end = s.end
          /\ AddDescs(s, k, ds).uuid = s.uuid
      BY <3>2, DescsAdded
    <3>5. QED
      BY <3>3, <3>4
  <2>3. QED
    BY <2>1, <2>2
<1>5. QED
  BY <1>1, <1>2, <1>3, <1>4

\* The handles of an answer are put after the descriptors of one characteristic.
Described(s, new, k, hs) ==
  /\ new.start = s.start /\ new.end = s.end /\ new.uuid = s.uuid
  /\ Len(new.chars) = Len(s.chars)
  /\ \A i \in 1..Len(s.chars) : /\ new.chars[i].uuid = s.chars[i].uuid
                                /\ new.chars[i].decl = s.chars[i].decl
                                /\ new.chars[i].value = s.chars[i].value
                                /\ new.chars[i].end = s.chars[i].end
                                /\ i # k => new.chars[i].descs = s.chars[i].descs
  /\ new.chars[k].descs[1] = IF Len(s.chars[k].descs) > 0 THEN s.chars[k].descs[1] ELSE Desc(hs[1])
  /\ \A m \in 1..Len(s.chars[k].descs) :
       \E n \in 1..Len(new.chars[k].descs) : new.chars[k].descs[n] = s.chars[k].descs[m]
  /\ \A j \in 1..Len(hs) :
       \E n \in 1..Len(new.chars[k].descs) : new.chars[k].descs[n] = Desc(hs[j])
  /\ \A n \in 1..Len(new.chars[k].descs) :
       \/ \E m \in 1..Len(s.chars[k].descs) : new.chars[k].descs[n] = s.chars[k].descs[m]
       \/ \E j \in 1..Len(hs) : new.chars[k].descs[n] = Desc(hs[j])

LEMMA DescsPut ==
  ASSUME Typed, NEW hs \in Listings(ask), OnDescs(hs)
  PROVE  /\ ci \in 1..Len(services[si].chars) /\ services'[si] \in ServiceRecords
         /\ Described(services[si], services'[si], ci, hs)
<1>1. /\ peer \in Databases /\ services \in Seq(ServiceRecords) /\ si \in 1..Len(services)
      /\ Len(services) \in Nat
  BY OneReplaced DEF Typed
<1>2. PICK s \in ServiceRecords : s = services[si]
  BY <1>1
<1>3. DOMAIN s.chars = 1..Len(s.chars)
  BY DEF ServiceRecords
<1>4. PICK k \in DOMAIN s.chars : k = ci
  BY <1>2 DEF OnDescs, Typed
<1>5. PICK ds \in Seq(DescRecords) : ds = [i \in DOMAIN hs |-> Desc(hs[i])]
  BY <1>1, DescsListed
<1>6. DOMAIN hs = 1..Len(hs) /\ Len(hs) \in Nat
  BY <1>1, Listed
<1>7. Len(ds) = Len(hs) /\ \A j \in 1..Len(hs) : ds[j] = Desc(hs[j])
  BY <1>5, <1>6
<1>8. PICK new : new = AddDescs(s, k, ds)
  OBVIOUS
<1>9. services' = [services EXCEPT ![si] = new]
  BY <1>2, <1>4, <1>5, <1>8 DEF OnDescs, AddDescs
<1>10. services'[si] = new
  BY <1>1, <1>9
<1>11. /\ new.start = s.start /\ new.end = s.end /\ new.uuid = s.uuid
       /\ Len(new.chars) = Len(s.chars)
  BY <1>8, DescsAdded
<1>12. \A i \in DOMAIN s.chars : /\ new.chars[i].uuid = s.chars[i].uuid
                                 /\ new.chars[i].decl = s.chars[i].decl
                                 /\ new.chars[i].value = s.chars[i].value
                                 /\ new.chars[i].end = s.chars[i].end
                                 /\ i # k => new.chars[i].descs = s.chars[i].descs
  BY <1>8, DescsAdded
<1>13. new.chars[k].descs = s.chars[k].descs \o ds
  BY <1>8, DescsAdded
<1>14. new \in ServiceRecords
  BY <1>8, DescsAdded
<1>15. PICK e : e = s.chars[k].descs
  OBVIOUS
<1>16. e \in Seq(DescRecords)
  <2>1. s.chars[k] \in CharRecords
    BY CharTyped
  <2>2. QED
    BY <1>15, <2>1 DEF CharRecords
<1>17. PICK f : f = e \o ds
  OBVIOUS
<1>18. /\ Len(e) \in Nat /\ Len(f) = Len(e) + Len(hs)
       /\ \A m \in 1..Len(e) : f[m] = e[m]
       /\ \A j \in 1..Len(hs) : f[Len(e) + j] = Desc(hs[j])
  <2> DEFINE D == DescRecords
  <2>1. e \in Seq(D) /\ ds \in Seq(D)
    BY <1>16, <1>5
  <2> HIDE DEF D
  <2>2. /\ Len(e) \in Nat /\ Len(f) = Len(e) + Len(ds)
        /\ \A n \in 1..(Len(e) + Len(ds)) : f[n] = IF n <= Len(e) THEN e[n] ELSE ds[n - Len(e)]
    BY <1>17, <2>1
  <2>3. \A m \in 1..Len(e) : m \in 1..(Len(e) + Len(ds)) /\ m <= Len(e)
    BY <1>6, <1>7, <2>2
  <2>4. \A j \in 1..Len(ds) : /\ Len(e) + j \in 1..(Len(e) + Len(ds)) /\ ~(Len(e) + j <= Len(e))
                              /\ (Len(e) + j) - Len(e) = j
    BY <1>6, <1>7, <2>2
  <2>5. QED
    BY <1>7, <2>2, <2>3, <2>4
<1>19. \A m \in 1..Len(e) : \E n \in 1..Len(f) : f[n] = e[m]
  BY <1>6, <1>18
<1>20. \A j \in 1..Len(hs) : \E n \in 1..Len(f) : f[n] = Desc(hs[j])
  <2>1. \A j \in 1..Len(hs) : Len(e) + j \in 1..Len(f)
    BY <1>6, <1>18
  <2>2. QED
    BY <1>18, <2>1
<1>21. \A n \in 1..Len(f) : \/ \E m \in 1..Len(e) : f[n] = e[m]
                            \/ \E j \in 1..Len(hs) : f[n] = Desc(hs[j])
  <2> SUFFICES ASSUME NEW n \in 1..Len(f)
               PROVE  \/ \E m \in 1..Len(e) : f[n] = e[m]
                      \/ \E j \in 1..Len(hs) : f[n] = Desc(hs[j])
    OBVIOUS
  <2>1. n \in 1..Len(e) \/ (n - Len(e) \in 1..Len(hs) /\ Len(e) + (n - Len(e)) = n)
    BY <1>6, <1>18
  <2>2. QED
    BY <1>18, <2>1
<1>22. f[1] = IF Len(e) > 0 THEN e[1] ELSE Desc(hs[1])
  <2>1. CASE Len(e) > 0
    <3>1. 1 \in 1..Len(e)
      BY <1>18, <2>1
    <3>2. QED
      BY <1>18, <2>1, <3>1
  <2>2. CASE ~(Len(e) > 0)
    <3>1. Len(e) + 1 = 1 /\ 1 \in 1..Len(hs)
      BY <1>1, <1>6, <1>18, <2>2, Listed
    <3>2. QED
      BY <1>18, <2>2, <3>1
  <2>3. QED
    BY <2>1, <2>2
<1>23. Described(s, new, k, hs)
  <2>1. new.chars[k].descs = f
    BY <1>13, <1>15, <1>17
  <2> HIDE DEF DescRecords, CharRecords, ServiceRecords
  <2>2. QED
    BY <1>3, <1>11, <1>12, <1>15, <1>19, <1>20, <1>21, <1>22, <2>1 DEF Described
<1>24. QED
  BY <1>2, <1>3, <1>4, <1>10, <1>14, <1>23

\* The characteristics of an answer are put into the service the loop is at.
LEMMA CharsPut ==
  ASSUME Typed, FitsInv, NEW hs \in Listings(ask), OnChars(hs)
  PROVE  Grown(services[si], services'[si]) /\ services[si].start <= Last(hs) + 1
<1>1. /\ peer \in Databases /\ services \in Seq(ServiceRecords) /\ ask \in Asks
      /\ si \in 1..Len(services) /\ Len(services) \in Nat
  BY OneReplaced DEF Typed
<1>2. AskFits /\ ask.what = "chars" /\ pc = "chars"
  BY DEF FitsInv, OnChars, Found
<1>3. PICK s \in ServiceRecords : s = services[si]
  BY <1>1
<1>4. s.start \in Starts /\ s.end = EndOfService(s.start) /\ s.start \in Int /\ s.end \in Int
  BY <1>1, ServiceEnds DEF ServiceRecords, Handles
<1>5. s.start <= ask.from /\ ask.to = s.end /\ ask.from \in Int
  BY <1>1, <1>2, <1>3 DEF AskFits, Asks
<1>6. /\ Len(hs) \in Nat /\ DOMAIN hs = 1..Len(hs) /\ Len(hs) \in DOMAIN hs /\ Last(hs) = hs[Len(hs)]
      /\ \A i \in DOMAIN hs : hs[i] \in DOMAIN Attrs /\ Answered(ask, hs[i])
  BY <1>1, Listed
<1>7. \A i \in 1..Len(hs) : hs[i] \in Int /\ ask.from <= hs[i] /\ hs[i] \in CharsOf(s.start)
  <2> SUFFICES ASSUME NEW i \in 1..Len(hs)
               PROVE  hs[i] \in Int /\ ask.from <= hs[i] /\ hs[i] \in CharsOf(s.start)
    OBVIOUS
  <2>1. /\ hs[i] \in DOMAIN Attrs /\ hs[i] \in Int /\ KindOf(hs[i]) = "char"
        /\ ask.from <= hs[i] /\ hs[i] <= s.end
    BY <1>1, <1>2, <1>5, <1>6, AttributesOfPeer DEF Answered
  <2>2. hs[i] \in s.start..EndOfService(s.start)
    BY <1>3, <1>4, <1>5, <2>1
  <2>3. QED
    BY <2>1, <2>2 DEF CharsOf, Within
<1>8. PICK new : new = AddChars(s, hs)
  OBVIOUS
<1>9. Grown(s, new)
  BY <1>1, <1>3, <1>6, <1>7, <1>8, CharsGrown
<1>10. services'[si] = new
  BY <1>1, <1>3, <1>8 DEF OnChars
<1>11. s.start <= Last(hs) + 1
  BY <1>4, <1>5, <1>6, <1>7
<1>12. QED
  BY <1>3, <1>9, <1>10, <1>11

LEMMA FitsKept ==
  ASSUME peer' = peer, \A i \in 1..Len(services') : Fits(services'[i]), AskFits'
  PROVE  FitsInv'
<1> SUFFICES ASSUME NEW i \in 1..Len(services') PROVE Fits(services[i])'
  BY DEF FitsInv
<1>1. PICK s : s = services'[i] /\ Fits(s)
  OBVIOUS
<1>2. Fits(s)'
  BY <1>1, FitsStable
<1>3. QED
  BY <1>1, <1>2

LEMMA FitsStep ==
  ASSUME Typed, FitsInv, [Next]_discVars
  PROVE  FitsInv'
<1>1. /\ peer \in Databases /\ peer' = peer
      /\ services \in Seq(ServiceRecords) /\ ask \in Asks /\ si \in 1..(Len(services) + 1)
      /\ Len(services) \in Nat
  BY PeerFixed DEF Typed
<1>2. AskFits /\ \A i \in 1..Len(services) : Fits(services[i])
  BY DEF FitsInv
<1>3. NoAsk.what = "nothing"
  BY DEF NoAsk
<1>4. \A s \in ServiceRecords :
        /\ s.start \in Starts /\ s.end = EndOfService(s.start)
        /\ s.start \in Int /\ s.end \in Int /\ s.start <= s.end
  BY <1>1, ServiceEnds DEF ServiceRecords, Handles
<1>10. ASSUME services' = services, pc' \notin {"chars", "descs"} \/ ask'.what \notin {"chars", "descs"}
       PROVE  FitsInv'
  <2>1. AskFits'
    BY <1>10 DEF AskFits
  <2>2. QED
    BY <1>1, <1>2, <1>10, <2>1, FitsKept
<1>11. ASSUME NEW u, Call(u) PROVE FitsInv'
  <2>1. services' = services /\ pc' \in {"idle", "prim"}
    BY <1>11 DEF Call, Return
  <2>2. QED
    BY <1>10, <2>1
<1>12. ASSUME NEW hs \in Listings(ask), OnServices(hs) \/ OnRediscovered(hs) PROVE FitsInv'
  <2>1. \A i \in 1..Len(services') : Fits(services'[i])
    <3> SUFFICES ASSUME NEW i \in 1..Len(services') PROVE Fits(services'[i])
      OBVIOUS
    <3>1. CASE i \in 1..Len(services)
      <4>1. services'[i] = services[i]
        BY <1>12, <3>1, ServicesPut
      <4>2. QED
        BY <1>2, <3>1, <4>1
    <3>2. CASE i \notin 1..Len(services)
      <4>1. PICK s : s = services'[i]
        OBVIOUS
      <4>2. s.chars = <<>> /\ s.uuid = Reported(UuidOf(s.start))
        BY <1>12, <3>2, <4>1, ServicesPut
      <4>3. Fits(s)
        BY <4>2 DEF Fits, Reported
      <4>4. QED
        BY <4>1, <4>3
    <3>3. QED
      BY <3>1, <3>2
  <2>2. pc' \in {"prim", "vendor"}
    BY <1>12 DEF OnServices, OnRediscovered
  <2>3. AskFits'
    BY <2>2 DEF AskFits
  <2>4. QED
    BY <1>1, <2>1, <2>3, FitsKept
<1>13. CASE OnNoMoreServices \/ OnNoMoreChars \/ OnNoMoreDescs
  <2>1. services' = services /\ ask' = NoAsk
    BY <1>13 DEF OnNoMoreServices, OnNoMoreChars, OnNoMoreDescs, dataVars
  <2>2. QED
    BY <1>3, <1>10, <2>1
<1>14. CASE NextVendor \/ OnRead \/ PassOverVendor
  <2>1. services' = services /\ pc' \in {"service", "read", "redisc", "vendor"}
    BY <1>14 DEF NextVendor, OnRead, PassOverVendor, dataVars
  <2>2. QED
    BY <1>10, <2>1
<1>15. CASE NextService
  <2>1. services' = services /\ si' = si
    BY <1>15 DEF NextService, dataVars
  <2>2. CASE si > Len(services)
    <3>1. pc' = "idle"
      BY <1>15, <2>2 DEF NextService, Return
    <3>2. QED
      BY <1>10, <2>1, <3>1
  <2>3. CASE ~(si > Len(services))
    <3>1. si \in 1..Len(services)
      BY <1>1, <2>3
    <3>2. PICK s \in ServiceRecords : s = services[si]
      BY <1>1, <3>1
    <3>3. pc' = "chars" /\ ask' = [what |-> "chars", from |-> s.start, to |-> s.end]
      BY <1>15, <2>3, <3>2 DEF NextService, Request
    <3>4. ask'.what = "chars" /\ ask'.from = s.start /\ ask'.to = s.end
      BY <3>3
    <3>5. services'[si'] = s
      BY <2>1, <3>2
    <3>6. s.start <= s.start
      BY <1>4, <3>2
    <3>7. AskFits'
      BY <3>3, <3>4, <3>5, <3>6 DEF AskFits
    <3>8. QED
      BY <1>1, <1>2, <2>1, <3>7, FitsKept
  <2>4. QED
    BY <2>2, <2>3
<1>16. ASSUME NEW hs \in Listings(ask), OnChars(hs) PROVE FitsInv'
  <2>1. /\ ask.what = "chars" /\ pc = "chars" /\ pc' = "chars" /\ si' = si
        /\ si \in 1..Len(services)
    BY <1>1, <1>16 DEF OnChars, Found, Typed
  <2>2. PICK s \in ServiceRecords : s = services[si] /\ Fits(s)
    BY <1>1, <1>2, <2>1
  <2>3. /\ Grown(s, services'[si]) /\ Len(services') = Len(services) /\ s.start <= Last(hs) + 1
        /\ \A i \in 1..Len(services) : i # si => services'[i] = services[i]
    BY <1>16, <2>2, CharsPut, OneReplaced
  <2>4. PICK new : new = services'[si]
    OBVIOUS
  <2>5. Fits(new) /\ new.start = s.start /\ new.end = s.end
    BY <2>2, <2>3, <2>4, GrownFits DEF Grown
  <2>6. \A i \in 1..Len(services') : Fits(services'[i])
    BY <1>2, <2>3, <2>4, <2>5
  <2>7. ask' = [what |-> "chars", from |-> Last(hs) + 1, to |-> s.end]
    BY <1>16, <2>2 DEF OnChars, Request
  <2>8. ask'.what = "chars" /\ ask'.from = Last(hs) + 1 /\ ask'.to = s.end
    BY <2>7
  <2>9. services'[si'].start <= ask'.from /\ ask'.to = services'[si'].end
    BY <2>1, <2>3, <2>4, <2>5, <2>8
  <2>10. AskFits'
    BY <2>1, <2>9 DEF AskFits
  <2>11. QED
    BY <1>1, <2>6, <2>10, FitsKept
<1>17. CASE NextChar
  <2>1. services' = services /\ ci' = ci /\ si \in 1..Len(services)
    BY <1>1, <1>17 DEF NextChar, dataVars, Typed
  <2>2. CASE NothingToAsk
    <3>1. pc' = "service"
      BY <1>17, <2>2 DEF NextChar
    <3>2. QED
      BY <1>10, <2>1, <3>1
  <2>3. CASE ~NothingToAsk
    <3>1. PICK s \in ServiceRecords : s = services[si] /\ Fits(s)
      BY <1>1, <1>2, <2>1
    <3>2. ci \in 1..Len(s.chars)
      <4>1. s.chars \in Seq(CharRecords) /\ ci \in Nat \ {0}
        BY DEF ServiceRecords, Typed
      <4>2. QED
        BY <1>17, <2>3, <3>1, <4>1 DEF NothingToAsk, NextChar
    <3>3. PICK k : k = s.chars[ci]
      OBVIOUS
    <3>4. k.decl \in CharsOf(s.start) /\ k.value = k.decl + 1 /\ k.end <= s.end
      BY <3>1, <3>2, <3>3 DEF Fits, CharFits
    <3>5. s.start < k.value
      BY <1>4, <3>1, <3>4 DEF CharsOf, Within
    <3>6. /\ pc' = "descs" /\ si' = si
          /\ ask' = [what |-> "descs", from |-> k.value, to |-> k.end]
      BY <1>17, <2>3, <3>1, <3>3 DEF NextChar, Request
    <3>7. ask'.what = "descs" /\ ask'.from = k.value /\ ask'.to = k.end /\ services'[si'] = s
      BY <2>1, <3>1, <3>6
    <3>8. AskFits'
      BY <3>4, <3>5, <3>6, <3>7 DEF AskFits
    <3>9. QED
      BY <1>1, <1>2, <2>1, <3>8, FitsKept
  <2>4. QED
    BY <2>2, <2>3
<1>18. ASSUME NEW hs \in Listings(ask), OnDescs(hs) PROVE FitsInv'
  <2>1. /\ ask.what = "descs" /\ pc = "descs" /\ si' = si /\ si \in 1..Len(services)
        /\ ci \in DOMAIN services[si].chars
    BY <1>1, <1>18 DEF OnDescs, Found, Typed
  <2>2. PICK s \in ServiceRecords : s = services[si] /\ Fits(s)
    BY <1>1, <1>2, <2>1
  <2>3. s.start < ask.from /\ ask.to <= s.end /\ ask.from \in Int /\ ask.to \in Int
    BY <1>1, <1>2, <2>1, <2>2 DEF AskFits, Asks
  <2>4. /\ Len(hs) \in Nat /\ DOMAIN hs = 1..Len(hs) /\ Len(hs) \in DOMAIN hs /\ Last(hs) = hs[Len(hs)]
        /\ \A i \in DOMAIN hs : hs[i] \in DOMAIN Attrs /\ Answered(ask, hs[i])
    BY <1>1, Listed
  <2>5. \A i \in 1..Len(hs) : hs[i] \in Int /\ s.start < hs[i] /\ hs[i] <= s.end
    <3> SUFFICES ASSUME NEW i \in 1..Len(hs)
                 PROVE  hs[i] \in Int /\ s.start < hs[i] /\ hs[i] <= s.end
      OBVIOUS
    <3>1. hs[i] \in Int /\ ask.from <= hs[i] /\ hs[i] <= ask.to
      BY <1>1, <2>4, AttributesOfPeer DEF Answered
    <3>2. QED
      BY <1>4, <2>2, <2>3, <3>1
  <2>6. PICK new : new = services'[si]
    OBVIOUS
  <2>7. PICK k \in 1..Len(s.chars) : k = ci /\ Described(s, new, k, hs)
    BY <1>18, <2>2, <2>6, DescsPut
  <2>8. ASSUME NEW j \in 1..Len(hs)
        PROVE  DescFits(s, Desc(hs[j]))
    <3>1. Desc(hs[j]).handle = hs[j]
      BY DEF Desc
    <3>2. Desc(hs[j]).uuid \in {Unknown, IF KindOf(hs[j]) = "char" THEN Declaration ELSE UuidOf(hs[j])}
      BY DEF Desc, Reported
    <3>3. QED
      BY <2>4, <2>5, <3>1, <3>2 DEF DescFits
  <2>9. /\ new.start = s.start /\ new.end = s.end /\ new.uuid = s.uuid /\ Len(new.chars) = Len(s.chars)
        /\ \A d : DescFits(s, d) => DescFits(new, d)
    BY <2>7 DEF Described, DescFits
  <2>10. Fits(new)
    <3>1. ASSUME NEW i \in 1..Len(s.chars)
          PROVE  /\ CharFits(new, i)
                 /\ \A n \in 1..Len(new.chars[i].descs) : DescFits(s, new.chars[i].descs[n])
      <4>1. CharFits(s, i) /\ \A m \in 1..Len(s.chars[i].descs) : DescFits(s, s.chars[i].descs[m])
        BY <2>2 DEF Fits
      <4>2. CharFits(new, i)
        BY <2>7, <4>1 DEF CharFits, Described
      <4>3. CASE i # k
        <5>1. new.chars[i].descs = s.chars[i].descs
          BY <2>7, <4>3 DEF Described
        <5>2. QED
          BY <4>1, <4>2, <5>1
      <4>4. CASE i = k
        <5>1. \A n \in 1..Len(new.chars[k].descs) :
                \/ \E m \in 1..Len(s.chars[k].descs) : new.chars[k].descs[n] = s.chars[k].descs[m]
                \/ \E j \in 1..Len(hs) : new.chars[k].descs[n] = Desc(hs[j])
          BY <2>7 DEF Described
        <5>2. QED
          BY <2>8, <4>1, <4>2, <4>4, <5>1
      <4>5. QED
        BY <4>3, <4>4
    <3>2. new.uuid \in {Unknown, UuidOf(new.start)}
      BY <2>2, <2>9 DEF Fits
    <3>3. QED
      BY <2>9, <3>1, <3>2 DEF Fits
  <2>11. /\ Len(services') = Len(services)
         /\ \A i \in 1..Len(services) : i # si => services'[i] = services[i]
    BY <1>18, OneReplaced
  <2>12. services'[si] = new /\ \A i \in 1..Len(services') : Fits(services'[i])
    BY <1>2, <2>1, <2>6, <2>10, <2>11
  <2>13. AskFits'
    <3>1. CASE Last(hs) = services[si].chars[ci].end
      <4>1. ask' = NoAsk
        BY <1>18, <3>1 DEF OnDescs
      <4>2. QED
        BY <1>3, <4>1 DEF AskFits
    <3>2. CASE Last(hs) # services[si].chars[ci].end
      <4>1. ask' = [what |-> "descs", from |-> Last(hs) + 1, to |-> s.chars[ci].end]
        BY <1>18, <2>2, <3>2 DEF OnDescs, Request
      <4>2. ask'.what = "descs" /\ ask'.from = Last(hs) + 1 /\ ask'.to = s.chars[ci].end
        BY <4>1
      <4>3. s.start < Last(hs) + 1
        BY <1>4, <2>2, <2>4, <2>5
      <4>4. s.chars[ci].end <= s.end
        <5>1. ci \in 1..Len(s.chars)
          BY <2>1, <2>2 DEF ServiceRecords
        <5>2. QED
          BY <2>2, <5>1 DEF Fits, CharFits
      <4>5. services'[si'].start < ask'.from /\ ask'.to <= services'[si'].end
        BY <2>1, <2>9, <2>12, <4>2, <4>3, <4>4
      <4>6. QED
        BY <4>2, <4>5 DEF AskFits
    <3>3. QED
      BY <3>1, <3>2
  <2>14. QED
    BY <1>1, <2>12, <2>13, FitsKept
<1>19. CASE OnError \/ Raise \/ Refuse \/ Lose
  <2>1. services' = services /\ ask' = NoAsk
    BY <1>19 DEF OnError, Raise, Refuse, Lose, Return, dataVars
  <2>2. QED
    BY <1>3, <1>10, <2>1
<1>20. CASE Disconnect \/ UNCHANGED discVars
  <2>1. services' = services /\ ask' = ask /\ pc' = pc /\ si' = si
    BY <1>20 DEF Disconnect, discVars, dataVars
  <2>2. AskFits'
    BY <1>2, <2>1 DEF AskFits
  <2>3. QED
    BY <1>1, <1>2, <2>1, <2>2, FitsKept
<1>21. QED
  BY <1>11, <1>12, <1>13, <1>14, <1>15, <1>16, <1>17, <1>18, <1>19, <1>20 DEF Next, Step

LEMMA FitsHolds == Spec => []FitsInv
<1>1. Init => FitsInv
  <2> SUFFICES ASSUME Init PROVE FitsInv
    OBVIOUS
  <2>1. services = <<>> /\ Len(services) = 0 /\ pc = "idle"
    BY DEF Init
  <2>2. QED
    BY <2>1 DEF FitsInv, AskFits
<1>2. QED
  BY <1>1, FitsStep, TypedHolds, PTL DEF Spec

-----------------------------------------------------------------------------
(* The value of a characteristic is the first of its descriptors.           *)

\* A characteristic of known uuid was found with its base registered, and the
\* first of its descriptors is its value.
ValueFirst(c) ==
  /\ c.uuid # Unknown => Reported(UuidOf(c.decl)) # Unknown
  /\ Len(c.descs) > 0 => c.descs[1].handle = c.value /\ c.uuid \in {Unknown, c.descs[1].uuid}
ValuesFirst(s) == \A k \in 1..Len(s.chars) : ValueFirst(s.chars[k])
AskFirst ==
  (pc = "descs" /\ ask.what = "descs") =>
    ask.from = services[si].chars[ci].value \/ Len(services[si].chars[ci].descs) > 0
FirstInv == (\A i \in 1..Len(services) : ValuesFirst(services[i])) /\ AskFirst

\* No base is forgotten.
LEMMA BasesStay ==
  ASSUME [Next]_discVars
  PROVE  registered \subseteq registered'
BY DEF Next, Step, discVars, dataVars, Call, OnServices, OnRediscovered, OnChars, OnDescs, OnNoMoreServices,
       NextVendor, OnRead, NextService, OnNoMoreChars, NextChar, OnNoMoreDescs, Raise, PassOverVendor,
       OnError, Refuse, Lose, Disconnect

LEMMA FirstKept ==
  ASSUME peer' = peer, registered \subseteq registered',
         \A i \in 1..Len(services') : ValuesFirst(services'[i]), AskFirst'
  PROVE  FirstInv'
<1>1. \A u : Reported(u) # Unknown => Reported(u)' = Reported(u)
  BY DEF Reported, Vendor
<1>2. \A h : UuidOf(h)' = UuidOf(h)
  BY SamePeer
<1> SUFFICES ASSUME NEW i \in 1..Len(services') PROVE ValuesFirst(services[i])'
  BY DEF FirstInv
<1>3. PICK s : s = services'[i] /\ ValuesFirst(s)
  OBVIOUS
<1>4. ASSUME NEW k \in 1..Len(s.chars) PROVE ValueFirst(s.chars[k])'
  <2>1. PICK c : c = s.chars[k] /\ ValueFirst(c)
    BY <1>3 DEF ValuesFirst
  <2>2. c.uuid # Unknown => Reported(UuidOf(c.decl))' # Unknown
    BY <1>1, <1>2, <2>1 DEF ValueFirst
  <2>3. ValueFirst(c)'
    BY <2>1, <2>2 DEF ValueFirst
  <2>4. QED
    BY <2>1, <2>3
<1>5. QED
  BY <1>3, <1>4 DEF ValuesFirst

\* The first handle of the first answer about the descriptors of a
\* characteristic is that of its value.
LEMMA ValueListed ==
  ASSUME Typed, FitsInv, FirstInv, NEW hs \in Listings(ask), OnDescs(hs),
         Len(services[si].chars[ci].descs) = 0
  PROVE  /\ hs[1] = services[si].chars[ci].value /\ KindOf(hs[1]) = "attr"
         /\ UuidOf(hs[1]) = UuidOf(services[si].chars[ci].decl)
<1>1. /\ peer \in Databases /\ si \in 1..Len(services) /\ ci \in 1..Len(services[si].chars)
      /\ ask.what = "descs" /\ pc = "descs" /\ ask \in Asks
  BY OneReplaced, DescsPut DEF Typed, OnDescs, Found
<1>2. PICK c : c = services[si].chars[ci]
  OBVIOUS
<1>3. c.decl \in DOMAIN Attrs /\ KindOf(c.decl) = "char" /\ c.value = c.decl + 1
  BY <1>1, <1>2 DEF FitsInv, Fits, CharFits, CharsOf
<1>4. /\ c.value \in DOMAIN Attrs /\ KindOf(c.value) = "attr"
      /\ UuidOf(c.value) = UuidOf(c.decl)
  BY <1>1, <1>3, AttributesAssumption DEF KindOf, UuidOf, Attrs
<1>5. ask.from = c.value
  BY <1>1, <1>2 DEF FirstInv, AskFirst
<1>6. /\ Len(hs) \in Nat \ {0} /\ DOMAIN hs = 1..Len(hs) /\ Last(hs) = hs[Len(hs)]
      /\ \A i \in DOMAIN hs : hs[i] \in DOMAIN Attrs /\ Answered(ask, hs[i])
      /\ \A i, j \in DOMAIN hs : i < j => hs[i] < hs[j]
      /\ \A h \in DOMAIN Attrs :
           (Answered(ask, h) /\ h <= Last(hs)) => \E i \in DOMAIN hs : hs[i] = h
  BY <1>1, Listed
<1>7. \A i \in DOMAIN hs : hs[i] \in Int /\ c.value <= hs[i] /\ hs[i] <= ask.to
  BY <1>1, <1>5, <1>6, AttributesOfPeer DEF Answered
<1>8. 1 \in DOMAIN hs /\ Len(hs) \in DOMAIN hs /\ c.value \in Int /\ ask.to \in Int
  BY <1>1, <1>4, <1>6, AttributesOfPeer DEF Asks
<1>9. Answered(ask, c.value) /\ c.value <= Last(hs)
  BY <1>1, <1>4, <1>5, <1>6, <1>7, <1>8 DEF Answered
<1>10. PICK i \in DOMAIN hs : hs[i] = c.value
  BY <1>4, <1>6, <1>9
<1>11. i = 1
  <2>1. i # 1 => 1 < i
    BY <1>6, <1>8
  <2>2. QED
    BY <1>6, <1>7, <1>8, <1>10, <2>1
<1>12. QED
  BY <1>2, <1>4, <1>10, <1>11

LEMMA FirstStep ==
  ASSUME Typed, FitsInv, FirstInv, [Next]_discVars
  PROVE  FirstInv'
<1>1. /\ peer \in Databases /\ peer' = peer /\ registered \subseteq registered'
      /\ services \in Seq(ServiceRecords) /\ si \in 1..(Len(services) + 1) /\ Len(services) \in Nat
  BY PeerFixed, BasesStay DEF Typed
<1>2. AskFirst /\ \A i \in 1..Len(services) : ValuesFirst(services[i])
  BY DEF FirstInv
<1>3. NoAsk.what = "nothing"
  BY DEF NoAsk
<1>10. ASSUME services' = services, pc' # "descs" \/ ask'.what # "descs"
       PROVE  FirstInv'
  <2>1. AskFirst'
    BY <1>10 DEF AskFirst
  <2>2. QED
    BY <1>1, <1>2, <1>10, <2>1, FirstKept
<1>11. ASSUME NEW u, Call(u) PROVE FirstInv'
  <2>1. services' = services /\ pc' \in {"idle", "prim"}
    BY <1>11 DEF Call, Return
  <2>2. QED
    BY <1>10, <2>1
<1>12. ASSUME NEW hs \in Listings(ask), OnServices(hs) \/ OnRediscovered(hs) PROVE FirstInv'
  <2>1. \A i \in 1..Len(services') : ValuesFirst(services'[i])
    <3> SUFFICES ASSUME NEW i \in 1..Len(services') PROVE ValuesFirst(services'[i])
      OBVIOUS
    <3>1. CASE i \in 1..Len(services)
      <4>1. services'[i] = services[i]
        BY <1>12, <3>1, ServicesPut
      <4>2. QED
        BY <1>2, <3>1, <4>1
    <3>2. CASE i \notin 1..Len(services)
      <4>1. services'[i].chars = <<>>
        BY <1>12, <3>2, ServicesPut
      <4>2. QED
        BY <4>1 DEF ValuesFirst
    <3>3. QED
      BY <3>1, <3>2
  <2>2. pc' \in {"prim", "vendor"}
    BY <1>12 DEF OnServices, OnRediscovered
  <2>3. AskFirst'
    BY <2>2 DEF AskFirst
  <2>4. QED
    BY <1>1, <2>1, <2>3, FirstKept
<1>13. CASE OnNoMoreServices \/ OnNoMoreChars \/ OnNoMoreDescs
  <2>1. services' = services /\ ask' = NoAsk
    BY <1>13 DEF OnNoMoreServices, OnNoMoreChars, OnNoMoreDescs, dataVars
  <2>2. QED
    BY <1>3, <1>10, <2>1
<1>14. CASE NextVendor \/ OnRead \/ PassOverVendor \/ NextService
  <2>1. services' = services /\ pc' # "descs"
    BY <1>14 DEF NextVendor, OnRead, PassOverVendor, NextService, Return, dataVars
  <2>2. QED
    BY <1>10, <2>1
<1>15. ASSUME NEW hs \in Listings(ask), OnChars(hs) PROVE FirstInv'
  <2>1. /\ si \in 1..Len(services) /\ Len(services') = Len(services)
        /\ \A i \in 1..Len(services) : i # si => services'[i] = services[i]
    BY <1>15, OneReplaced
  <2>2. PICK s \in ServiceRecords : s = services[si] /\ ValuesFirst(s)
    BY <1>1, <1>2, <2>1
  <2>3. PICK new : new = services'[si] /\ Grown(s, new)
    BY <1>15, <2>2, CharsPut
  <2>4. Len(s.chars) \in Nat /\ Len(new.chars) \in Nat
    BY <2>3 DEF ServiceRecords, Grown
  <2>5. ASSUME NEW k \in 1..Len(new.chars) PROVE ValueFirst(new.chars[k])
    <3>1. CASE k \in 1..Len(s.chars)
      <4>1. CharKept(s.chars[k], new.chars[k]) /\ ValueFirst(s.chars[k])
        BY <2>2, <2>3, <3>1 DEF Grown, ValuesFirst
      <4>2. QED
        BY <4>1 DEF CharKept, ValueFirst
    <3>2. CASE k \notin 1..Len(s.chars)
      <4>1. k > Len(s.chars)
        BY <2>4, <3>2
      <4>2. new.chars[k].uuid = Reported(UuidOf(new.chars[k].decl)) /\ new.chars[k].descs = <<>>
        BY <2>3, <4>1 DEF Grown
      <4>3. Len(new.chars[k].descs) = 0
        BY <4>2
      <4>4. QED
        BY <4>2, <4>3 DEF ValueFirst
    <3>3. QED
      BY <3>1, <3>2
  <2>6. ValuesFirst(new)
    BY <2>5 DEF ValuesFirst
  <2>7. \A i \in 1..Len(services') : ValuesFirst(services'[i])
    BY <1>2, <2>1, <2>3, <2>6
  <2>8. AskFirst'
    BY <1>15 DEF OnChars, AskFirst
  <2>9. QED
    BY <1>1, <2>7, <2>8, FirstKept
<1>16. CASE NextChar
  <2>1. services' = services /\ ci' = ci
    BY <1>16 DEF NextChar, dataVars
  <2>2. CASE NothingToAsk
    <3>1. pc' = "service"
      BY <1>16, <2>2 DEF NextChar
    <3>2. QED
      BY <1>10, <2>1, <3>1
  <2>3. CASE ~NothingToAsk
    <3>1. PICK c : c = services[si].chars[ci]
      OBVIOUS
    <3>2. si' = si /\ ask' = [what |-> "descs", from |-> c.value, to |-> c.end]
      BY <1>16, <2>3, <3>1 DEF NextChar, Request
    <3>3. ask'.from = c.value /\ services'[si'].chars[ci'] = c
      BY <2>1, <3>1, <3>2
    <3>4. AskFirst'
      BY <3>3 DEF AskFirst
    <3>5. QED
      BY <1>1, <1>2, <2>1, <3>4, FirstKept
  <2>4. QED
    BY <2>2, <2>3
<1>17. ASSUME NEW hs \in Listings(ask), OnDescs(hs) PROVE FirstInv'
  <2>1. /\ si \in 1..Len(services) /\ Len(services') = Len(services)
        /\ \A i \in 1..Len(services) : i # si => services'[i] = services[i]
    BY <1>17, OneReplaced
  <2>2. PICK s \in ServiceRecords : s = services[si] /\ ValuesFirst(s) /\ Fits(s)
    BY <1>1, <1>2, <2>1 DEF FitsInv
  <2>3. PICK new : new = services'[si] /\ new \in ServiceRecords
    BY <1>17, DescsPut
  <2>4. PICK k \in 1..Len(s.chars) : k = ci /\ Described(s, new, k, hs)
    BY <1>17, <2>2, <2>3, DescsPut
  <2>5. Len(new.chars) = Len(s.chars) /\ Len(hs) \in Nat \ {0}
    BY <1>1, <2>4, Listed DEF Described
  <2>6. PICK c : c = s.chars[k] /\ ValueFirst(c) /\ CharFits(s, k)
    BY <2>2 DEF ValuesFirst, Fits
  <2>7. PICK d : d = new.chars[k]
    OBVIOUS
  <2>8. /\ d.uuid = c.uuid /\ d.decl = c.decl /\ d.value = c.value
        /\ d.descs[1] = IF Len(c.descs) > 0 THEN c.descs[1] ELSE Desc(hs[1])
    BY <2>4, <2>6, <2>7 DEF Described
  <2>9. Len(c.descs) \in Nat /\ Len(d.descs) \in Nat
    <3>1. c \in CharRecords /\ d \in CharRecords
      BY <2>2, <2>3, <2>5, <2>6, <2>7, CharTyped
    <3>2. QED
      BY <3>1 DEF CharRecords
  <2>10. Len(d.descs) > 0
    <3>1. 1 \in 1..Len(hs)
      BY <2>5
    <3>2. PICK n : n \in 1..Len(d.descs)
      BY <2>4, <2>7, <3>1 DEF Described
    <3>3. QED
      BY <2>9, <3>2
  <2>11. ValueFirst(d)
    <3>1. CASE Len(c.descs) > 0
      BY <2>6, <2>8, <3>1 DEF ValueFirst
    <3>2. CASE ~(Len(c.descs) > 0)
      <4>1. hs[1] = c.value /\ KindOf(hs[1]) = "attr" /\ UuidOf(hs[1]) = UuidOf(c.decl)
        BY <1>17, <2>2, <2>4, <2>6, <2>9, <3>2, ValueListed
      <4>2. d.descs[1].handle = c.value /\ d.descs[1].uuid = Reported(UuidOf(c.decl))
        BY <2>8, <3>2, <4>1 DEF Desc
      <4>3. c.uuid # Unknown => c.uuid = Reported(UuidOf(c.decl))
        BY <2>6 DEF ValueFirst, CharFits, Reported
      <4>4. QED
        BY <2>6, <2>8, <4>2, <4>3 DEF ValueFirst
    <3>3. QED
      BY <3>1, <3>2
  <2>12. ValuesFirst(new)
    <3> SUFFICES ASSUME NEW i \in 1..Len(new.chars) PROVE ValueFirst(new.chars[i])
      BY DEF ValuesFirst
    <3>1. CASE i = k
      BY <2>7, <2>11, <3>1
    <3>2. CASE i # k
      <4>1. ValueFirst(s.chars[i]) /\ CharKept(s.chars[i], new.chars[i])
        BY <2>2, <2>4, <2>5, <3>2 DEF ValuesFirst, Described, CharKept
      <4>2. QED
        BY <4>1 DEF ValueFirst, CharKept
    <3>3. QED
      BY <3>1, <3>2
  <2>13. \A i \in 1..Len(services') : ValuesFirst(services'[i])
    BY <1>2, <2>1, <2>3, <2>12
  <2>14. AskFirst'
    <3>1. CASE Last(hs) = services[si].chars[ci].end
      <4>1. ask' = NoAsk
        BY <1>17, <3>1 DEF OnDescs
      <4>2. QED
        BY <1>3, <4>1 DEF AskFirst
    <3>2. CASE Last(hs) # services[si].chars[ci].end
      <4>1. si' = si /\ ci' = ci
        BY <1>17, <3>2 DEF OnDescs
      <4>2. QED
        BY <2>3, <2>4, <2>7, <2>10, <4>1 DEF AskFirst
    <3>3. QED
      BY <3>1, <3>2
  <2>15. QED
    BY <1>1, <2>13, <2>14, FirstKept
<1>18. CASE OnError \/ Raise \/ Refuse \/ Lose
  <2>1. services' = services /\ ask' = NoAsk
    BY <1>18 DEF OnError, Raise, Refuse, Lose, Return, dataVars
  <2>2. QED
    BY <1>3, <1>10, <2>1
<1>19. CASE Disconnect \/ UNCHANGED discVars
  <2>1. services' = services /\ ask' = ask /\ pc' = pc /\ si' = si /\ ci' = ci
    BY <1>19 DEF Disconnect, discVars, dataVars
  <2>2. AskFirst'
    BY <1>2, <2>1 DEF AskFirst
  <2>3. QED
    BY <1>1, <1>2, <2>1, <2>2, FirstKept
<1>20. QED
  BY <1>11, <1>12, <1>13, <1>14, <1>15, <1>16, <1>17, <1>18, <1>19 DEF Next, Step

LEMMA FirstHolds == Spec => []FirstInv
<1>1. Init => FirstInv
  <2> SUFFICES ASSUME Init PROVE FirstInv
    OBVIOUS
  <2>1. services = <<>> /\ Len(services) = 0 /\ pc = "idle"
    BY DEF Init
  <2>2. QED
    BY <2>1 DEF FirstInv, AskFirst
<1>2. QED
  BY <1>1, FirstStep, FitsHolds, TypedHolds, PTL DEF Spec

-----------------------------------------------------------------------------
(* The lookups.                                                             *)

LEMMA PlacesOf ==
  ASSUME NEW db \in Seq(ServiceRecords)
  PROVE  /\ \A p \in Db!Places(db) :
              /\ p[1] \in 1..Len(db) /\ p[2] \in 1..Len(db[p[1]].chars) /\ p = <<p[1], p[2]>>
              /\ Db!CharAt(db, p) = db[p[1]].chars[p[2]] /\ Db!CharAt(db, p) \in CharRecords
         /\ \A i \in 1..Len(db) : \A k \in 1..Len(db[i].chars) : <<i, k>> \in Db!Places(db)
<1>1. ASSUME NEW i \in 1..Len(db)
      PROVE  /\ db[i].chars \in Seq(CharRecords) /\ DOMAIN db[i].chars = 1..Len(db[i].chars)
             /\ \A k \in 1..Len(db[i].chars) : db[i].chars[k] \in CharRecords
  <2>1. db[i] \in ServiceRecords
    OBVIOUS
  <2>2. db[i].chars \in Seq(CharRecords)
    BY <2>1 DEF ServiceRecords
  <2>3. QED
    BY <2>2
<1>2. DOMAIN db = 1..Len(db)
  OBVIOUS
<1>3. ASSUME NEW p \in Db!Places(db)
      PROVE  p[1] \in 1..Len(db) /\ p[2] \in 1..Len(db[p[1]].chars) /\ p = <<p[1], p[2]>>
  <2>1. PICK i \in 1..Len(db) : p \in {i} \X DOMAIN db[i].chars
    BY <1>2 DEF Db!Places
  <2>2. p[1] = i /\ p[2] \in DOMAIN db[i].chars /\ p = <<p[1], p[2]>>
    BY <2>1
  <2>3. QED
    BY <1>1, <2>1, <2>2
<1>4. ASSUME NEW i \in 1..Len(db), NEW k \in 1..Len(db[i].chars)
      PROVE  <<i, k>> \in Db!Places(db)
  BY <1>1, <1>2 DEF Db!Places
<1>5. QED
  BY <1>1, <1>3, <1>4 DEF Db!CharAt

\* The first of some places is one of them, and no other comes before it.
LEMMA FirstFound ==
  ASSUME NEW db \in Seq(ServiceRecords), NEW ps \in SUBSET Db!Places(db), ps # {}
  PROVE  Db!FirstOf(ps) \in ps
<1>1. \A p \in ps : p[1] \in Nat /\ p[2] \in Nat /\ p = <<p[1], p[2]>>
  BY PlacesOf
<1>2. PICK i \in {p[1] : p \in ps} : \A k \in {p[1] : p \in ps} : i <= k
  <2>1. {p[1] : p \in ps} \in SUBSET Nat /\ {p[1] : p \in ps} # {}
    BY <1>1
  <2>2. QED
    BY <2>1, NatMinimum
<1> DEFINE of == {p \in ps : p[1] = i}
<1>3. PICK k \in {p[2] : p \in of} : \A l \in {p[2] : p \in of} : k <= l
  <2>1. {p[2] : p \in of} \in SUBSET Nat /\ {p[2] : p \in of} # {}
    BY <1>1, <1>2
  <2>2. QED
    BY <2>1, NatMinimum
<1>4. PICK p \in ps : p[1] = i /\ p[2] = k
  BY <1>3
<1>5. ASSUME NEW q \in ps
      PROVE  q = p \/ Db!ComesBefore(p, q)
  <2>1. i <= q[1] /\ i \in Nat /\ q[1] \in Nat /\ q[2] \in Nat /\ k \in Nat
    BY <1>1, <1>2, <1>4
  <2>2. q[1] = i => k <= q[2]
    BY <1>3
  <2>3. CASE q[1] = i /\ q[2] = k
    BY <1>1, <1>4, <2>3
  <2>4. CASE ~(q[1] = i /\ q[2] = k)
    BY <1>4, <2>1, <2>2, <2>4 DEF Db!ComesBefore
  <2>5. QED
    BY <2>3, <2>4
<1>6. \E e \in ps : \A q \in ps : q = e \/ Db!ComesBefore(e, q)
  BY <1>4, <1>5
<1>7. QED
  BY <1>6 DEF Db!FirstOf

\* The descriptor number m of the characteristic at the place p has the value of
\* the uuid d, and is the first.
HasValueAt(db, p, m, d) ==
  /\ m \in 1..Len(db[p[1]].chars[p[2]].descs)
  /\ Value[db[p[1]].chars[p[2]].descs[m].uuid] = Value[d]
FirstAt(db, p, m, d) == HasValueAt(db, p, m, d) /\ \A k : HasValueAt(db, p, k, d) => m <= k
HandleAt(db, p, m) == db[p[1]].chars[p[2]].descs[m].handle

LEMMA DescsAtPlace ==
  ASSUME NEW db \in Seq(ServiceRecords), NEW p \in Db!Places(db), NEW d
  PROVE  /\ Db!DescsWith(Db!CharAt(db, p), d) \in SUBSET Nat
         /\ \A m : m \in Db!DescsWith(Db!CharAt(db, p), d) <=> HasValueAt(db, p, m, d)
<1>1. PICK c \in CharRecords : c = db[p[1]].chars[p[2]] /\ Db!CharAt(db, p) = c
  BY PlacesOf
<1>2. DOMAIN c.descs = 1..Len(c.descs) /\ Len(c.descs) \in Nat
  <2>1. PICK e : e = c.descs /\ e \in Seq(DescRecords)
    BY <1>1 DEF CharRecords
  <2>2. DOMAIN e = 1..Len(e) /\ Len(e) \in Nat
    BY <2>1
  <2>3. QED
    BY <2>1, <2>2
<1>3. \A m : HasValueAt(db, p, m, d) <=> m \in 1..Len(c.descs) /\ Value[c.descs[m].uuid] = Value[d]
  BY <1>1 DEF HasValueAt
<1>4. PICK ms : ms = Db!DescsWith(c, d)
  OBVIOUS
<1>5. \A m : m \in ms <=> m \in 1..Len(c.descs) /\ Value[c.descs[m].uuid] = Value[d]
  BY <1>2, <1>4 DEF Db!DescsWith
<1>6. ms \in SUBSET Nat
  BY <1>2, <1>5
<1>7. \A m : m \in ms <=> HasValueAt(db, p, m, d)
  BY <1>3, <1>5
<1>8. QED
  BY <1>1, <1>4, <1>6, <1>7

\* A handle that is found is that of the first descriptor with the value, of one
\* of the places; and one is found if any of them has such a descriptor.
LEMMA DescFound ==
  ASSUME NEW db \in Seq(ServiceRecords), NEW ps \in SUBSET Db!Places(db), NEW d,
         \/ Db!FirstDescHandle(db, ps, d) # Db!NoHandle
         \/ \E p \in ps : \E m : HasValueAt(db, p, m, d)
  PROVE  \E p \in ps : \E m :
           FirstAt(db, p, m, d) /\ HandleAt(db, p, m) = Db!FirstDescHandle(db, ps, d)
<1> DEFINE hits == {p \in ps : Db!DescsWith(Db!CharAt(db, p), d) # {}}
<1>1. hits # {}
  <2>1. CASE Db!FirstDescHandle(db, ps, d) # Db!NoHandle
    BY <2>1 DEF Db!FirstDescHandle
  <2>2. CASE \E p \in ps : \E m : HasValueAt(db, p, m, d)
    <3>1. PICK p \in ps : \E m : HasValueAt(db, p, m, d)
      BY <2>2
    <3>2. p \in Db!Places(db)
      BY <3>1
    <3>3. Db!DescsWith(Db!CharAt(db, p), d) # {}
      BY <3>1, <3>2, DescsAtPlace
    <3>4. QED
      BY <3>1, <3>3
  <2>3. QED
    BY <2>1, <2>2
<1>2. Db!FirstOf(hits) \in hits
  <2>1. hits \in SUBSET Db!Places(db)
    OBVIOUS
  <2> HIDE DEF hits
  <2>2. QED
    BY <1>1, <2>1, FirstFound
<1>3. PICK p : p = Db!FirstOf(hits)
  OBVIOUS
<1>4. p \in ps /\ p \in Db!Places(db) /\ Db!DescsWith(Db!CharAt(db, p), d) # {}
  BY <1>2, <1>3
<1>5. Db!FirstDescHandle(db, ps, d) = Db!DescHandle(Db!CharAt(db, p), d)
  BY <1>1, <1>3 DEF Db!FirstDescHandle
<1>6. PICK ms : ms = Db!DescsWith(Db!CharAt(db, p), d)
  OBVIOUS
<1>7. ms \in SUBSET Nat /\ ms # {} /\ \A m : m \in ms <=> HasValueAt(db, p, m, d)
  BY <1>4, <1>6, DescsAtPlace
<1>8. Db!Min(ms) \in ms /\ \A k \in ms : Db!Min(ms) <= k
  <2>1. \E m \in ms : \A k \in ms : m <= k
    BY <1>7, NatMinimum
  <2>2. QED
    BY <2>1 DEF Db!Min
<1>9. Db!DescHandle(Db!CharAt(db, p), d) = HandleAt(db, p, Db!Min(ms))
  <2>1. Db!CharAt(db, p) = db[p[1]].chars[p[2]]
    BY <1>4, PlacesOf
  <2>2. QED
    BY <1>6, <2>1 DEF Db!DescHandle, HandleAt
<1>10. FirstAt(db, p, Db!Min(ms), d)
  BY <1>7, <1>8 DEF FirstAt
<1>11. QED
  BY <1>4, <1>5, <1>9, <1>10

\* What is at a place of the database.
LEMMA FitsAt ==
  ASSUME Typed, FitsInv, NEW p \in Db!Places(services)
  PROVE  /\ p[1] \in 1..Len(services) /\ services[p[1]] \in ServiceRecords
         /\ p[2] \in 1..Len(services[p[1]].chars)
         /\ Db!CharAt(services, p) = services[p[1]].chars[p[2]]
         /\ services[p[1]].uuid \in {Unknown, UuidOf(services[p[1]].start)}
         /\ CharFits(services[p[1]], p[2])
         /\ \A m, d : HasValueAt(services, p, m, d) =>
              /\ DescFits(services[p[1]], services[p[1]].chars[p[2]].descs[m])
              /\ Value[services[p[1]].chars[p[2]].descs[m].uuid] = Value[d]
<1>1. services \in Seq(ServiceRecords)
  BY DEF Typed
<1>2. /\ p[1] \in 1..Len(services) /\ services[p[1]] \in ServiceRecords
      /\ p[2] \in 1..Len(services[p[1]].chars)
      /\ Db!CharAt(services, p) = services[p[1]].chars[p[2]]
  BY <1>1, PlacesOf
<1>3. Fits(services[p[1]])
  BY <1>2 DEF FitsInv
<1>4. QED
  BY <1>2, <1>3 DEF Fits, HasValueAt

\* The descriptor that is found there.
LEMMA DescAt ==
  ASSUME Typed, FitsInv, NEW p \in Db!Places(services), NEW m, NEW d, HasValueAt(services, p, m, d)
  PROVE  /\ m \in 1..Len(services[p[1]].chars[p[2]].descs)
         /\ Value[services[p[1]].chars[p[2]].descs[m].uuid] = Value[d]
         /\ services[p[1]].chars[p[2]].descs[m].handle = HandleAt(services, p, m)
         /\ DescFits(services[p[1]], services[p[1]].chars[p[2]].descs[m])
<1>1. DescFits(services[p[1]], services[p[1]].chars[p[2]].descs[m])
  BY FitsAt
<1>2. QED
  BY <1>1 DEF HasValueAt, HandleAt

\* In a characteristic of known uuid, the first descriptor with its value is the
\* first of all.
LEMMA ValueAt ==
  ASSUME Typed, FirstInv, NEW p \in Db!Places(services), NEW u, u # Unknown,
         Db!CharAt(services, p).uuid = u, NEW m, FirstAt(services, p, m, u)
  PROVE  HandleAt(services, p, m) = Db!CharAt(services, p).value
<1>1. /\ p[1] \in 1..Len(services) /\ p[2] \in 1..Len(services[p[1]].chars)
      /\ Db!CharAt(services, p) = services[p[1]].chars[p[2]] /\ Db!CharAt(services, p) \in CharRecords
  BY PlacesOf DEF Typed
<1>2. PICK c \in CharRecords : c = services[p[1]].chars[p[2]] /\ c = Db!CharAt(services, p)
  BY <1>1
<1>3. ValueFirst(c) /\ c.uuid = u
  BY <1>1, <1>2 DEF FirstInv, ValuesFirst
<1>4. m \in 1..Len(c.descs) /\ \A k : HasValueAt(services, p, k, u) => m <= k
  BY <1>2 DEF FirstAt, HasValueAt
<1>5. Len(c.descs) \in Nat
  BY DEF CharRecords
<1>6. 1 \in 1..Len(c.descs) /\ c.descs[1].handle = c.value /\ c.descs[1].uuid = u
  BY <1>3, <1>4, <1>5 DEF ValueFirst
<1>7. HasValueAt(services, p, 1, u)
  BY <1>2, <1>6 DEF HasValueAt
<1>8. m = 1
  BY <1>4, <1>5, <1>7
<1>9. QED
  BY <1>2, <1>6, <1>8 DEF HandleAt

LEMMA ValuesRight ==
  ASSUME Typed, FitsInv, FirstInv
  PROVE  ValueHandlesRight
<1> SUFFICES ASSUME NEW u \in UuidsOf(Attrs), NEW v \in {NoUuid} \cup {UuidOf(s) : s \in Starts},
                    Db!GetCharValueHandle(services, u, v) # Db!NoHandle
             PROVE  \E s \in Starts : \E c \in CharsOf(s) :
                      /\ UuidOf(c) = u /\ Db!GetCharValueHandle(services, u, v) = c + 1
                      /\ v \in {NoUuid, UuidOf(s)}
  BY DEF ValueHandlesRight
<1>1. peer \in Databases /\ services \in Seq(ServiceRecords)
  BY DEF Typed
<1>2. u # Unknown
  <2>1. PICK g \in DOMAIN Attrs : u = Attrs[g].uuid
    BY DEF UuidsOf
  <2>2. QED
    BY <1>1, <2>1, AttributesAssumption DEF Attrs
<1>3. PICK ps : ps = {p \in Db!WithUuid(services, u) : v \in {NoUuid, services[p[1]].uuid}}
  OBVIOUS
<1>4. PICK h : h = Db!FirstDescHandle(services, ps, u)
  OBVIOUS
<1>5. h = Db!GetCharValueHandle(services, u, v)
  BY <1>3, <1>4 DEF Db!GetCharValueHandle
<1>6. ps \in SUBSET Db!Places(services) /\ \A p \in ps : Db!CharAt(services, p).uuid = u
  BY <1>3 DEF Db!WithUuid
<1>7. PICK p \in ps : \E m : FirstAt(services, p, m, u) /\ HandleAt(services, p, m) = h
  <2>1. Db!FirstDescHandle(services, ps, u) # Db!NoHandle
    BY <1>4, <1>5
  <2>2. QED
    BY <1>1, <1>4, <1>6, <2>1, DescFound
<1>8. PICK m : FirstAt(services, p, m, u) /\ HandleAt(services, p, m) = h
  BY <1>7
<1>9. p \in Db!Places(services)
  BY <1>6, <1>7
<1>10. PICK s \in ServiceRecords : s = services[p[1]] /\ s.uuid \in {Unknown, UuidOf(s.start)} /\ CharFits(s, p[2])
  BY <1>9, FitsAt
<1>11. PICK c : c = s.chars[p[2]].decl
  OBVIOUS
<1>12. c \in CharsOf(s.start) /\ UuidOf(c) = u
  <2>1. s.chars[p[2]].uuid = u
    BY <1>6, <1>7, <1>9, <1>10, FitsAt
  <2>2. QED
    BY <1>2, <1>10, <1>11, <2>1 DEF CharFits
<1>13. s.start \in Starts /\ s.end = EndOfService(s.start)
  BY DEF ServiceRecords
<1>14. h = c + 1
  <2>1. h = s.chars[p[2]].value
    BY <1>2, <1>6, <1>7, <1>8, <1>9, <1>10, FitsAt, ValueAt
  <2>2. QED
    BY <1>10, <1>11, <2>1 DEF CharFits
<1>15. v \in {NoUuid, UuidOf(s.start)}
  <2>1. v \in {NoUuid, s.uuid}
    BY <1>3, <1>7, <1>10
  <2>2. v = NoUuid \/ v # Unknown
    <3>1. \A g \in Starts : UuidOf(g) # Unknown
      BY <1>1, AttributesOfPeer DEF Starts
    <3>2. QED
      BY <3>1
  <2>3. QED
    BY <1>10, <2>1, <2>2
<1>16. QED
  BY <1>5, <1>12, <1>13, <1>14, <1>15

-----------------------------------------------------------------------------
(* The names of the services, with one vendor service in an answer.         *)

\* The services of the database have the uuids of the peer's, the vendor services
\* are among those that were asked for, and the one that is asked for again is the
\* next of them, with its base registered.
NameInv ==
  /\ \A i \in 1..Len(services) : services[i].uuid = UuidOf(services[i].start)
  /\ \A i \in 1..Len(vendor) : want \in {NoUuid, UuidOf(vendor[i].start)}
  /\ (pc = "redisc" /\ ask.what = "services") =>
       /\ ask.from = vendor[1].start /\ ask.to = LastHandle
       /\ Base[UuidOf(ask.from)] \in registered

\* What AddServices does with the first n services of the answer: each is in the
\* database by its name, or waits.
Gathered(acc, hs, n) ==
  /\ Extended(acc)
  /\ Len(acc.vendor) >= Len(vendor) /\ \A i \in 1..Len(vendor) : acc.vendor[i] = vendor[i]
  /\ \A i \in 1..Len(acc.vendor) : i > Len(vendor) => \E j \in 1..n : acc.vendor[i].start = hs[j]
  /\ \A j \in 1..n : \/ Reported(UuidOf(hs[j])) \in UuidsOf(acc.services)
                     \/ \E i \in 1..Len(acc.vendor) : acc.vendor[i].start = hs[j]

LEMMA OneGathered ==
  ASSUME peer \in Databases, services \in Seq(ServiceRecords), vendor \in Seq(VendorRecords),
         NEW acc, NEW hs, NEW n \in Nat, NEW h \in Starts, h = hs[n + 1], Gathered(acc, hs, n)
  PROVE  Gathered(AddService(acc, h), hs, n + 1)
<1>1. PICK s : s = Service(h)
  OBVIOUS
<1>2. PICK new : new = AddService(acc, h)
  OBVIOUS
<1>3. /\ s \in ServiceRecords /\ s.start = h /\ s.uuid = Reported(UuidOf(h))
      /\ Value[s.uuid] = Value[Unknown] => s \in VendorRecords
  BY <1>1, ServiceTyped
<1>4. /\ Extended(acc) /\ acc \in [services : Seq(ServiceRecords), vendor : Seq(VendorRecords)]
      /\ acc.services \in Seq(ServiceRecords) /\ acc.vendor \in Seq(VendorRecords)
  BY DEF Gathered, Extended
<1>5. Extended(new)
  BY <1>2, <1>4, ServiceAdded
<1>6. n + 1 \in 1..(n + 1) /\ \A j \in 1..(n + 1) : j \in 1..n \/ j = n + 1
  OBVIOUS
<1>7. \A j \in 1..n : j \in 1..(n + 1)
  OBVIOUS
<1>8. CASE s.uuid \in UuidsOf(acc.services)
  <2>1. new = acc
    BY <1>1, <1>2, <1>8 DEF AddService
  <2>2. \A j \in 1..(n + 1) : \/ Reported(UuidOf(hs[j])) \in UuidsOf(acc.services)
                              \/ \E i \in 1..Len(acc.vendor) : acc.vendor[i].start = hs[j]
    BY <1>3, <1>6, <1>8 DEF Gathered
  <2>3. Gathered(acc, hs, n + 1)
    BY <1>7, <2>2 DEF Gathered
  <2>4. QED
    BY <1>2, <2>1, <2>3
<1>9. CASE s.uuid \notin UuidsOf(acc.services) /\ Value[s.uuid] = Value[Unknown]
  <2>1. new = [acc EXCEPT !.vendor = Append(acc.vendor, s)]
    BY <1>1, <1>2, <1>9 DEF AddService
  <2>2. new.services = acc.services /\ new.vendor = Append(acc.vendor, s)
    BY <1>4, <2>1
  <2>3. PICK k \in Nat : k = Len(acc.vendor)
    BY <1>4
  <2>4. /\ Len(new.vendor) = k + 1 /\ new.vendor[k + 1] = s
        /\ \A i \in 1..k : new.vendor[i] = acc.vendor[i]
    <3> DEFINE V == VendorRecords
    <3>1. acc.vendor \in Seq(V) /\ s \in V
      BY <1>3, <1>4, <1>9
    <3> HIDE DEF V
    <3>2. QED
      BY <2>2, <2>3, <3>1
  <2>5. Len(vendor) \in Nat /\ Len(vendor) <= k
    BY <2>3 DEF Gathered
  <2>6. \A i \in 1..Len(vendor) : new.vendor[i] = vendor[i]
    BY <2>3, <2>4, <2>5 DEF Gathered
  <2>7. ASSUME NEW i \in 1..(k + 1), i > Len(vendor)
        PROVE  \E j \in 1..(n + 1) : new.vendor[i].start = hs[j]
    <3>1. CASE i \in 1..k
      <4>1. PICK j \in 1..n : acc.vendor[i].start = hs[j]
        BY <2>3, <2>7, <3>1 DEF Gathered
      <4>2. new.vendor[i] = acc.vendor[i] /\ j \in 1..(n + 1)
        BY <1>7, <2>4, <3>1
      <4>3. QED
        BY <4>1, <4>2
    <3>2. CASE i \notin 1..k
      <4>1. i = k + 1
        BY <2>3, <3>2
      <4>2. QED
        BY <1>3, <1>6, <2>4, <4>1
    <3>3. QED
      BY <3>1, <3>2
  <2>8. ASSUME NEW j \in 1..(n + 1)
        PROVE  \/ Reported(UuidOf(hs[j])) \in UuidsOf(new.services)
               \/ \E i \in 1..(k + 1) : new.vendor[i].start = hs[j]
    <3>1. CASE j \in 1..n
      <4>1. \/ Reported(UuidOf(hs[j])) \in UuidsOf(acc.services)
            \/ \E i \in 1..k : acc.vendor[i].start = hs[j]
        BY <2>3, <3>1 DEF Gathered
      <4>2. \A i \in 1..k : i \in 1..(k + 1)
        OBVIOUS
      <4>3. QED
        BY <2>2, <2>4, <4>1, <4>2
    <3>2. CASE j = n + 1
      <4>1. k + 1 \in 1..(k + 1)
        OBVIOUS
      <4>2. QED
        BY <1>3, <2>4, <3>2, <4>1
    <3>3. QED
      BY <1>6, <3>1, <3>2
  <2>9. Gathered(new, hs, n + 1)
    BY <1>5, <2>4, <2>5, <2>6, <2>7, <2>8 DEF Gathered
  <2>10. QED
    BY <1>2, <2>9
<1>10. CASE s.uuid \notin UuidsOf(acc.services) /\ Value[s.uuid] # Value[Unknown]
  <2>1. new = [acc EXCEPT !.services = Append(acc.services, s)]
    BY <1>1, <1>2, <1>10 DEF AddService
  <2>2. new.services = Append(acc.services, s) /\ new.vendor = acc.vendor
    BY <1>4, <2>1
  <2>3. UuidsOf(acc.services) \subseteq UuidsOf(new.services) /\ s.uuid \in UuidsOf(new.services)
    <3> DEFINE S == ServiceRecords
    <3>1. acc.services \in Seq(S) /\ s \in S
      BY <1>3, <1>4
    <3> HIDE DEF S
    <3>2. /\ DOMAIN new.services = 1..(Len(acc.services) + 1) /\ Len(acc.services) \in Nat
          /\ DOMAIN acc.services = 1..Len(acc.services)
          /\ \A i \in 1..Len(acc.services) : new.services[i] = acc.services[i]
          /\ new.services[Len(acc.services) + 1] = s
      BY <2>2, <3>1
    <3>3. /\ \A i \in 1..Len(acc.services) : i \in 1..(Len(acc.services) + 1)
          /\ Len(acc.services) + 1 \in 1..(Len(acc.services) + 1)
      BY <3>2
    <3>4. QED
      BY <3>2, <3>3 DEF UuidsOf
  <2>4. \A j \in 1..(n + 1) : \/ Reported(UuidOf(hs[j])) \in UuidsOf(new.services)
                              \/ \E i \in 1..Len(new.vendor) : new.vendor[i].start = hs[j]
    BY <1>3, <1>6, <2>2, <2>3 DEF Gathered
  <2>5. Gathered(new, hs, n + 1)
    BY <1>5, <1>7, <2>2, <2>4 DEF Gathered
  <2>6. QED
    BY <1>2, <2>5
<1>11. QED
  BY <1>8, <1>9, <1>10

LEMMA AllGathered ==
  ASSUME peer \in Databases, services \in Seq(ServiceRecords), vendor \in Seq(VendorRecords),
         NEW hs \in Seq(Starts)
  PROVE  Gathered(AddServices(hs), hs, Len(hs))
<1>1. Len(hs) \in Nat /\ DOMAIN hs = 1..Len(hs) /\ \A i \in 1..Len(hs) : hs[i] \in Starts
  OBVIOUS
<1>2. PICK F : /\ F[0] = Before /\ F[Len(hs)] = AddServices(hs)
               /\ \A n \in 1..Len(hs) : F[n] = AddService(F[n - 1], hs[n])
  BY <1>1, ServicesFolded
<1> DEFINE T == {n \in 0..Len(hs) : Gathered(F[n], hs, n)}
<1>3. 0 \in T
  <2>1. /\ Before \in [services : Seq(ServiceRecords), vendor : Seq(VendorRecords)]
        /\ Before.services = services /\ Before.vendor = vendor
    BY DEF Before
  <2>2. Extended(Before)
    BY <2>1 DEF Extended
  <2>3. Len(vendor) \in Nat /\ 1..0 = {} /\ \A i \in 1..Len(vendor) : ~(i > Len(vendor))
    OBVIOUS
  <2>4. Gathered(Before, hs, 0)
    BY <2>1, <2>2, <2>3 DEF Gathered
  <2>5. QED
    BY <1>1, <1>2, <2>4
<1>4. ASSUME NEW k \in 0..(Len(hs) - 1), k \in T
      PROVE  k + 1 \in T
  <2>1. k + 1 \in 1..Len(hs) /\ (k + 1) - 1 = k /\ k + 1 \in 0..Len(hs) /\ k \in Nat
    BY <1>1
  <2>2. F[k + 1] = AddService(F[k], hs[k + 1]) /\ hs[k + 1] \in Starts
    BY <1>1, <1>2, <2>1
  <2>3. Gathered(F[k], hs, k)
    BY <1>4
  <2>4. Gathered(F[k + 1], hs, k + 1)
    BY <2>1, <2>2, <2>3, OneGathered
  <2>5. QED
    BY <2>1, <2>4
<1>5. Len(hs) \in T
  <2> HIDE DEF T
  <2>1. QED
    BY <1>1, <1>3, <1>4, UpTo
<1>6. QED
  BY <1>2, <1>5

\* The answer to the second discovery of a vendor service lists it alone.
LEMMA ItselfAgain ==
  ASSUME VendorPerResponse = 1, peer \in Databases, ask \in Asks, ask.what = "services",
         ask.from \in Starts, ask.to = LastHandle, UuidOf(ask.from) \in Vendor,
         want \in {NoUuid, UuidOf(ask.from)}, NEW hs \in Listings(ask)
  PROVE  Len(hs) = 1 /\ hs[1] = ask.from
<1>1. PICK h : h = ask.from
  OBVIOUS
<1>2. h \in DOMAIN Attrs /\ KindOf(h) = "service" /\ h \in Int /\ h <= LastHandle
  BY <1>1, AttributesOfPeer DEF Starts, Handles
<1>3. Answered(ask, h)
  BY <1>1, <1>2 DEF Answered
<1>4. /\ Len(hs) \in Nat \ {0} /\ DOMAIN hs = 1..Len(hs) /\ Last(hs) = hs[Len(hs)]
      /\ \A i \in DOMAIN hs : hs[i] \in Int /\ h <= hs[i]
  <2>1. /\ Len(hs) \in Nat \ {0} /\ DOMAIN hs = 1..Len(hs) /\ Last(hs) = hs[Len(hs)]
        /\ \A i \in DOMAIN hs : hs[i] \in DOMAIN Attrs /\ Answered(ask, hs[i])
    BY Listed
  <2>2. QED
    BY <1>1, <2>1, AttributesOfPeer DEF Answered
<1>5. \A i, j \in DOMAIN hs : i < j => hs[i] < hs[j]
  BY Listed
<1>6. PICK i \in DOMAIN hs : hs[i] = h
  <2>1. h <= Last(hs)
    BY <1>4
  <2>2. QED
    BY <1>2, <1>3, <2>1, Listed
<1>7. 1 \in DOMAIN hs /\ ~(1 < i)
  BY <1>4, <1>5, <1>6
<1>8. hs[1] = h
  BY <1>4, <1>6, <1>7
<1>9. Len(hs) <= 1
  BY <1>1, <1>8 DEF Listings
<1>10. QED
  BY <1>1, <1>4, <1>8, <1>9

LEMMA NamesKept ==
  ASSUME peer' = peer,
         \A i \in 1..Len(services') : services'[i].uuid = UuidOf(services'[i].start),
         \A i \in 1..Len(vendor') : want' \in {NoUuid, UuidOf(vendor'[i].start)},
         (pc' = "redisc" /\ ask'.what = "services") =>
           /\ ask'.from = vendor'[1].start /\ ask'.to = LastHandle
           /\ Base[UuidOf(ask'.from)] \in registered'
  PROVE  NameInv'
<1>1. \A h : UuidOf(h)' = UuidOf(h)
  BY SamePeer
<1>2. ASSUME NEW i \in 1..Len(services')
      PROVE  (services[i].uuid = UuidOf(services[i].start))'
  <2>1. PICK h : h = services'[i].start
    OBVIOUS
  <2>2. UuidOf(h)' = UuidOf(h)
    BY <1>1
  <2>3. services'[i].uuid = UuidOf(h)'
    BY <2>1, <2>2
  <2>4. QED
    BY <2>1, <2>3
<1>3. ASSUME NEW i \in 1..Len(vendor')
      PROVE  (want \in {NoUuid, UuidOf(vendor[i].start)})'
  <2>1. PICK h : h = vendor'[i].start
    OBVIOUS
  <2>2. UuidOf(h)' = UuidOf(h)
    BY <1>1
  <2>3. want' \in {NoUuid, UuidOf(h)'}
    BY <2>1, <2>2
  <2>4. QED
    BY <2>1, <2>3
<1>4. ASSUME pc' = "redisc", ask'.what = "services"
      PROVE  (/\ ask.from = vendor[1].start /\ ask.to = LastHandle
              /\ Base[UuidOf(ask.from)] \in registered)'
  <2>1. PICK h : h = ask'.from
    OBVIOUS
  <2>2. UuidOf(h)' = UuidOf(h)
    BY <1>1
  <2>3. Base[UuidOf(h)'] \in registered'
    BY <1>4, <2>1, <2>2
  <2>4. QED
    BY <1>4, <2>1, <2>3
<1>5. QED
  BY <1>2, <1>3, <1>4 DEF NameInv

LEMMA NameStep ==
  ASSUME VendorPerResponse = 1, Typed, NameInv, [Next]_discVars
  PROVE  NameInv'
<1>1. /\ peer \in Databases /\ peer' = peer
      /\ services \in Seq(ServiceRecords) /\ vendor \in Seq(VendorRecords) /\ ask \in Asks
      /\ Len(services) \in Nat
  BY PeerFixed DEF Typed
<1>2. /\ \A i \in 1..Len(services) : services[i].uuid = UuidOf(services[i].start)
      /\ \A i \in 1..Len(vendor) : want \in {NoUuid, UuidOf(vendor[i].start)}
  BY DEF NameInv
<1>3. NoAsk.what = "nothing"
  BY DEF NoAsk
<1>4. \A h \in DOMAIN Attrs : UuidOf(h) # Unknown
  BY <1>1, AttributesOfPeer
<1>5. ASSUME vendor # <<>>, vendor' = Tail(vendor), want' = want
      PROVE  \A i \in 1..Len(vendor') : want' \in {NoUuid, UuidOf(vendor'[i].start)}
  <2>1. \A i \in 1..Len(vendor') : i + 1 \in 1..Len(vendor) /\ vendor'[i] = vendor[i + 1]
    <3> DEFINE V == VendorRecords
    <3>1. vendor \in Seq(V)
      BY <1>1
    <3> HIDE DEF V
    <3>2. QED
      BY <1>5, <3>1
  <2>2. QED
    BY <1>2, <1>5, <2>1
<1>10. ASSUME NEW u, Call(u) PROVE NameInv'
  <2>1. services' = services /\ vendor' = <<>> /\ pc' \in {"idle", "prim"}
    BY <1>10 DEF Call, Return
  <2>2. \A i \in 1..Len(vendor') : FALSE
    BY <2>1
  <2>3. QED
    BY <1>1, <1>2, <2>1, <2>2, NamesKept
<1>11. ASSUME NEW hs \in Listings(ask), OnServices(hs) PROVE NameInv'
  <2>1. /\ ask.what = "services" /\ pc' \in {"prim", "vendor"} /\ want' = want
        /\ services' = AddServices(hs).services /\ vendor' = AddServices(hs).vendor
    BY <1>11 DEF OnServices, Found
  <2>2. hs \in Seq(Starts) /\ Len(hs) \in Nat /\ DOMAIN hs = 1..Len(hs)
    BY <1>1, <2>1, ServicesListed
  <2>3. Gathered(AddServices(hs), hs, Len(hs)) /\ Extended(AddServices(hs))
    BY <1>1, <2>2, AllGathered DEF Gathered
  <2>4. ASSUME NEW i \in 1..Len(services')
        PROVE  services'[i].uuid = UuidOf(services'[i].start)
    <3>1. Len(services') \in Nat
      BY <2>1, <2>3 DEF Extended
    <3>2. CASE i \in 1..Len(services)
      <4>1. services'[i] = services[i]
        BY <2>1, <2>3, <3>2 DEF Extended
      <4>2. QED
        BY <1>2, <3>2, <4>1
    <3>3. CASE i \notin 1..Len(services)
      <4>1. i > Len(services)
        BY <1>1, <3>1, <3>3
      <4>2. /\ services'[i].uuid = Reported(UuidOf(services'[i].start))
            /\ services'[i].uuid # Unknown
        BY <2>1, <2>3, <4>1 DEF Extended
      <4>3. QED
        BY <4>2 DEF Reported
    <3>4. QED
      BY <3>2, <3>3
  <2>5. ASSUME NEW i \in 1..Len(vendor')
        PROVE  want' \in {NoUuid, UuidOf(vendor'[i].start)}
    <3>1. vendor' \in Seq(VendorRecords) /\ Len(vendor') \in Nat /\ Len(vendor) \in Nat
      BY <1>1, <2>1, <2>3 DEF Extended
    <3>2. CASE i \in 1..Len(vendor)
      <4>1. vendor'[i] = vendor[i]
        BY <2>1, <2>3, <3>2 DEF Gathered
      <4>2. QED
        BY <1>2, <2>1, <3>2, <4>1
    <3>3. CASE i \notin 1..Len(vendor)
      <4>1. i > Len(vendor)
        BY <3>1, <3>3
      <4>2. PICK j \in 1..Len(hs) : vendor'[i].start = hs[j]
        BY <2>1, <2>3, <4>1 DEF Gathered
      <4>3. Answered(ask, hs[j])
        BY <1>1, <2>2, Listed
      <4>4. want \in {NoUuid, UuidOf(hs[j])}
        BY <2>1, <4>3 DEF Answered
      <4>5. QED
        BY <2>1, <4>2, <4>4
    <3>4. QED
      BY <3>2, <3>3
  <2>6. QED
    BY <1>1, <2>1, <2>4, <2>5, NamesKept
<1>12. CASE OnRead
  <2>1. /\ services' = services /\ vendor' = vendor /\ want' = want
        /\ registered' = registered \cup {Base[UuidOf(ask.from)]}
        /\ ask' = [what |-> "services", from |-> ask.from, to |-> LastHandle]
        /\ ask.from = vendor[1].start
    BY <1>12 DEF OnRead, Request, Typed
  <2>2. ask'.from = ask.from /\ ask'.to = LastHandle
    BY <2>1
  <2>3. Base[UuidOf(ask'.from)] \in registered'
    BY <2>1, <2>2
  <2>4. QED
    BY <1>1, <1>2, <2>1, <2>2, <2>3, NamesKept
<1>13. ASSUME NEW hs \in Listings(ask), OnRediscovered(hs) PROVE NameInv'
  <2>1. /\ ask.what = "services" /\ pc = "redisc" /\ vendor # <<>> /\ pc' = "vendor"
        /\ want' = want /\ vendor' = Tail(vendor)
    BY <1>13 DEF OnRediscovered, Found, Typed
  <2>2. PICK h : h = vendor[1].start /\ h \in Starts /\ UuidOf(h) \in Vendor /\ want \in {NoUuid, UuidOf(h)}
    <3>1. vendor[1] \in VendorRecords /\ 1 \in 1..Len(vendor)
      BY <1>1, <2>1
    <3>2. QED
      BY <1>2, <3>1 DEF VendorRecords, ServiceRecords
  <2>3. ask.from = h /\ ask.to = LastHandle /\ Base[UuidOf(h)] \in registered
    BY <2>1, <2>2 DEF NameInv
  <2>4. Len(hs) = 1 /\ hs[1] = h
    BY <1>1, <2>1, <2>2, <2>3, ItselfAgain
  <2>5. /\ Len(services') \in Nat
        /\ \A i \in 1..Len(services') :
             /\ i \in 1..Len(services) => services'[i] = services[i]
             /\ i \notin 1..Len(services) => services'[i] = Service(h)
    <3>1. PICK new : new = [i \in DOMAIN hs |-> Service(hs[i])]
      OBVIOUS
    <3>2. DOMAIN hs = 1..Len(hs) /\ Len(hs) \in Nat
      BY <1>1, Listed
    <3>3. new \in [1..Len(hs) -> ServiceRecords] /\ new[1] = Service(h)
      BY <1>1, <2>2, <2>4, <3>1, <3>2, ServiceTyped
    <3>4. services' = services \o new
      BY <1>13, <3>1 DEF OnRediscovered
    <3>5. new \in Seq(ServiceRecords) /\ Len(new) = Len(hs)
      BY <3>2, <3>3
    <3>6. /\ Len(services \o new) = Len(services) + 1
          /\ \A i \in 1..(Len(services) + 1) :
               (services \o new)[i] = IF i <= Len(services) THEN services[i] ELSE new[i - Len(services)]
      <4> DEFINE S == ServiceRecords
      <4>1. services \in Seq(S) /\ new \in Seq(S)
        BY <1>1, <3>5
      <4> HIDE DEF S
      <4>2. /\ Len(services \o new) = Len(services) + Len(new)
            /\ \A i \in 1..(Len(services) + Len(new)) :
                 (services \o new)[i] = IF i <= Len(services) THEN services[i] ELSE new[i - Len(services)]
        BY <4>1
      <4>3. QED
        BY <2>4, <3>5, <4>2
    <3>7. \A i \in 1..(Len(services) + 1) :
            /\ i \in 1..Len(services) => i <= Len(services)
            /\ i \notin 1..Len(services) => ~(i <= Len(services)) /\ i - Len(services) = 1
      BY <1>1
    <3>8. QED
      BY <1>1, <3>3, <3>4, <3>6, <3>7
  <2>6. Service(h).uuid = UuidOf(h) /\ Service(h).start = h
    BY <2>3 DEF Service, Reported
  <2>7. \A i \in 1..Len(services') : services'[i].uuid = UuidOf(services'[i].start)
    BY <1>2, <2>5, <2>6
  <2>8. \A i \in 1..Len(vendor') : want' \in {NoUuid, UuidOf(vendor'[i].start)}
    BY <1>5, <2>1
  <2>9. QED
    BY <1>1, <2>1, <2>7, <2>8, NamesKept
<1>14. CASE PassOverVendor
  <2>1. pc \in {"read", "redisc"}
    BY <1>14 DEF PassOverVendor
  <2>2. services' = services /\ vendor # <<>> /\ vendor' = Tail(vendor) /\ want' = want /\ pc' = "vendor"
    BY <1>14, <2>1 DEF PassOverVendor, Typed
  <2>3. \A i \in 1..Len(vendor') : want' \in {NoUuid, UuidOf(vendor'[i].start)}
    BY <1>5, <2>2
  <2>4. QED
    BY <1>1, <1>2, <2>2, <2>3, NamesKept
<1>15. ASSUME NEW hs \in Listings(ask), OnChars(hs) \/ OnDescs(hs) PROVE NameInv'
  <2>1. vendor' = vendor /\ want' = want /\ pc' \in {"chars", "char", "descs"}
    BY <1>15 DEF OnChars, OnDescs
  <2>2. ASSUME NEW i \in 1..Len(services')
        PROVE  services'[i].uuid = UuidOf(services'[i].start)
    <3>1. i \in 1..Len(services)
      BY <1>15, OneReplaced
    <3>2. services'[i].uuid = services[i].uuid /\ services'[i].start = services[i].start
      BY <1>15, <3>1, OneReplaced
    <3>3. QED
      BY <1>2, <3>1, <3>2
  <2>3. QED
    BY <1>1, <1>2, <2>1, <2>2, NamesKept
<1>16. CASE \/ OnNoMoreServices \/ NextVendor \/ NextService \/ OnNoMoreChars \/ NextChar \/ OnNoMoreDescs
            \/ OnError \/ Raise \/ Refuse \/ Lose
  <2>1. services' = services /\ vendor' = vendor /\ want' = want
    BY <1>16 DEF OnNoMoreServices, NextVendor, NextService, OnNoMoreChars, NextChar, OnNoMoreDescs,
         OnError, Raise, Refuse, Lose, dataVars
  <2>2. pc' # "redisc" \/ ask' = NoAsk
    BY <1>16 DEF OnNoMoreServices, NextVendor, NextService, OnNoMoreChars, NextChar, OnNoMoreDescs,
         OnError, Raise, Refuse, Lose, Return
  <2>3. QED
    BY <1>1, <1>2, <1>3, <2>1, <2>2, NamesKept
<1>17. CASE Disconnect \/ UNCHANGED discVars
  <2>1. /\ services' = services /\ vendor' = vendor /\ want' = want /\ pc' = pc /\ ask' = ask
        /\ registered' = registered
    BY <1>17 DEF Disconnect, discVars, dataVars
  <2>2. (pc = "redisc" /\ ask.what = "services") =>
          ask.from = vendor[1].start /\ ask.to = LastHandle /\ Base[UuidOf(ask.from)] \in registered
    BY DEF NameInv
  <2>3. QED
    BY <1>1, <1>2, <2>1, <2>2, NamesKept
<1>18. QED
  BY <1>10, <1>11, <1>12, <1>13, <1>14, <1>15, <1>16, <1>17 DEF Next, Step

LEMMA NameHolds ==
  ASSUME VendorPerResponse = 1
  PROVE  Spec => []NameInv
<1>1. Init => NameInv
  <2> SUFFICES ASSUME Init PROVE NameInv
    OBVIOUS
  <2>1. services = <<>> /\ Len(services) = 0 /\ vendor = <<>> /\ Len(vendor) = 0 /\ pc = "idle"
    BY DEF Init
  <2>2. QED
    BY <2>1 DEF NameInv
<1>2. Typed /\ NameInv /\ [Next]_discVars => NameInv'
  BY NameStep
<1>3. QED
  BY <1>1, <1>2, TypedHolds, PTL DEF Spec

-----------------------------------------------------------------------------
(* Peers whose uuids are distinct.                                          *)

\* When an answer can list nothing, no attribute answers the request.
LEMMA NothingLeft ==
  ASSUME peer \in Databases, NEW a, Listings(a) = {}
  PROVE  \A h \in DOMAIN Attrs : ~Answered(a, h)
<1> DEFINE hits == {h \in DOMAIN Attrs : Answered(a, h)}
           most == IF VendorPerResponse > PerResponse THEN VendorPerResponse ELSE PerResponse
<1>1. SUFFICES ASSUME hits # {} PROVE FALSE
  OBVIOUS
<1>2. PICK h \in hits : \A k \in hits : h <= k
  <2>1. hits \in SUBSET Nat
    BY AttributesOfPeer
  <2> HIDE DEF hits
  <2>2. QED
    BY <1>1, <2>1, NatMinimum
<1>3. PICK hs : hs = [i \in 1..1 |-> h]
  OBVIOUS
<1>4. hs \in [1..1 -> hits] /\ DOMAIN hs = 1..1 /\ hs[1] = h /\ hs # <<>>
  BY <1>3
<1>5. Len(hs) = 1
  <2>1. hs = <<h>>
    BY <1>3
  <2>2. QED
    BY <2>1
<1>6. hs \in SeqOf(hits, most) \ {<<>>}
  <2>1. /\ most \in Nat /\ 1 \in 0..most
        /\ 1 <= VendorPerResponse /\ 1 <= PerResponse
    BY DiscoveryBounds
  <2> HIDE DEF hits, most
  <2>2. QED
    BY <1>4, <2>1 DEF SeqOf
<1>7. Last(hs) = h
  BY <1>4, <1>5 DEF Last
<1>8. \A k \in hits : k <= Last(hs) => k \in ToSet(hs)
  <2>1. ASSUME NEW k \in hits, k <= h
        PROVE  k = h
    BY <1>2, <2>1, AttributesOfPeer
  <2>2. h \in ToSet(hs)
    BY <1>4 DEF ToSet
  <2>3. QED
    BY <1>7, <2>1, <2>2
<1>9. \A i, j \in DOMAIN hs : i = 1 /\ j = 1 /\ ~(i < j)
  BY <1>4
<1>10. Len(hs) <= VendorPerResponse /\ Len(hs) <= PerResponse
  BY <1>5, DiscoveryBounds
<1>11. hs \in Listings(a)
  BY <1>4, <1>6, <1>8, <1>9, <1>10 DEF Listings
<1>12. QED
  BY <1>11

LEMMA DistinctStays ==
  ASSUME peer' = peer
  PROVE  DistinctUuids' <=> DistinctUuids
<1>1. \A s, c : Foreign(s, c)' <=> Foreign(s, c)
  BY SamePeer DEF Foreign, SameBase, Vendor
<1>2. QED
  BY <1>1, SamePeer, OwnBasesKept DEF DistinctUuids

\* In a service whose uuid is known no two characteristics are reported alike.
LEMMA DistinctReports ==
  ASSUME peer \in Databases, DistinctUuids, NEW s \in Starts, Reported(UuidOf(s)) # Unknown,
         NEW c \in CharsOf(s), NEW d \in CharsOf(s), Reported(UuidOf(c)) = Reported(UuidOf(d))
  PROVE  c = d
<1>1. UuidOf(c) # Unknown /\ UuidOf(d) # Unknown
  BY AttributesOfPeer DEF CharsOf
<1>2. CASE Reported(UuidOf(c)) # Unknown
  <2>1. UuidOf(c) = UuidOf(d)
    BY <1>2 DEF Reported
  <2>2. QED
    BY <2>1 DEF DistinctUuids
<1>3. CASE Reported(UuidOf(c)) = Unknown
  <2>1. /\ UuidOf(c) \in Vendor /\ Base[UuidOf(c)] \notin registered
        /\ UuidOf(d) \in Vendor /\ Base[UuidOf(d)] \notin registered
    BY <1>1, <1>3 DEF Reported
  <2>2. UuidOf(s) \in Vendor => Base[UuidOf(s)] \in registered
    BY DEF Reported
  <2>3. Foreign(s, c) /\ Foreign(s, d)
    BY <2>1, <2>2 DEF Foreign, SameBase
  <2>4. QED
    BY <2>3 DEF DistinctUuids
<1>4. QED
  BY <1>2, <1>3

\* Every service is in the database, waits, or is still to be asked for.
InDb(h) == \E i \in 1..Len(services) : services[i].start = h
Waits(h) == \E i \in 1..Len(vendor) : vendor[i].start = h
Reached(h) == InDb(h) \/ Waits(h)
FoundInv ==
  (DistinctUuids /\ want = NoUuid /\ ~skipped) =>
    /\ (pc = "prim" /\ ask.what = "services") =>
         ask.to = LastHandle /\ \A h \in Starts : h < ask.from => Reached(h)
    /\ pc \in {"vendor", "read", "redisc"} => \A h \in Starts : Reached(h)
    /\ (pc \in {"service", "chars", "char", "descs"} \/ (pc = "idle" /\ outcome = "success")) =>
         \A h \in Starts : InDb(h)

\* The services up to the end of the last one of an answer.
LEMMA ReachedNow ==
  ASSUME Typed, NameInv, NameInv', DistinctUuids, want = NoUuid,
         ask.to = LastHandle, \A h \in Starts : h < ask.from => Reached(h),
         NEW hs \in Listings(ask), OnServices(hs), NEW h \in Starts, h <= EndOfService(Last(hs))
  PROVE  Reached(h)'
<1>1. /\ peer \in Databases /\ peer' = peer /\ services \in Seq(ServiceRecords)
      /\ vendor \in Seq(VendorRecords) /\ ask.from \in Int
  BY DEF Typed, OnServices, Asks
<1>2. /\ ask.what = "services"
      /\ services' = AddServices(hs).services /\ vendor' = AddServices(hs).vendor
  BY DEF OnServices, Found
<1>3. /\ hs \in Seq(Starts) /\ Len(hs) \in Nat /\ DOMAIN hs = 1..Len(hs) /\ Last(hs) \in Starts
  BY <1>1, <1>2, ServicesListed
<1>4. /\ Gathered(AddServices(hs), hs, Len(hs)) /\ Extended(AddServices(hs))
  BY <1>1, <1>3, AllGathered DEF Gathered
<1>5. /\ services' \in Seq(ServiceRecords) /\ vendor' \in Seq(VendorRecords)
      /\ Len(services') >= Len(services) /\ Len(vendor') >= Len(vendor)
      /\ \A i \in 1..Len(services) : services'[i] = services[i]
      /\ \A i \in 1..Len(vendor) : vendor'[i] = vendor[i]
  BY <1>2, <1>4 DEF Gathered, Extended
<1>6. h \in DOMAIN Attrs /\ h \in Int /\ KindOf(h) = "service" /\ h <= LastHandle
  BY <1>1, AttributesOfPeer DEF Starts, Handles
<1>7. /\ \A i \in 1..Len(services) : i \in 1..Len(services')
      /\ \A i \in 1..Len(vendor) : i \in 1..Len(vendor')
  <2>1. Len(services) \in Nat /\ Len(services') \in Nat /\ Len(vendor) \in Nat /\ Len(vendor') \in Nat
    BY <1>1, <1>5
  <2>2. QED
    BY <1>5, <2>1
<1>8. CASE h < ask.from
  <2>1. Reached(h)
    BY <1>8
  <2>2. CASE InDb(h)
    BY <1>5, <1>7, <2>2 DEF InDb, Reached
  <2>3. CASE Waits(h)
    BY <1>5, <1>7, <2>3 DEF Waits, Reached
  <2>4. QED
    BY <2>1, <2>2, <2>3 DEF Reached
<1>9. CASE ~(h < ask.from)
  <2>1. Answered(ask, h)
    BY <1>1, <1>2, <1>6, <1>9 DEF Answered
  <2>2. h <= Last(hs)
    <3>1. Last(hs) \in Int /\ EndOfService(Last(hs)) \in Int
      BY <1>1, <1>3, ServiceEnds DEF Handles
    <3>2. ~(h > Last(hs))
      BY <1>1, <1>3, <1>6, <3>1, ServiceEnds
    <3>3. QED
      BY <1>6, <3>1, <3>2
  <2>3. PICK j \in 1..Len(hs) : hs[j] = h
    BY <1>1, <1>3, <1>6, <2>1, <2>2, Listed
  <2>4. \/ Reported(UuidOf(h)) \in UuidsOf(services')
        \/ \E i \in 1..Len(vendor') : vendor'[i].start = h
    BY <1>2, <1>4, <2>3 DEF Gathered
  <2>5. CASE Reported(UuidOf(h)) \in UuidsOf(services')
    <3>1. PICK i \in 1..Len(services') : services'[i].uuid = Reported(UuidOf(h))
      BY <1>5, <2>5 DEF UuidsOf
    <3>2. PICK g : g = services'[i].start /\ g \in Starts
      BY <1>5, <3>1 DEF ServiceRecords
    <3>3. services'[i].uuid = UuidOf(g)
      <4>1. UuidOf(g)' = UuidOf(g)
        BY <1>1, SamePeer
      <4>2. (services[i].uuid = UuidOf(services[i].start))'
        BY <3>1 DEF NameInv
      <4>3. QED
        BY <3>2, <4>1, <4>2
    <3>4. UuidOf(g) # Unknown
      BY <1>1, <3>2, AttributesOfPeer DEF Starts
    <3>5. UuidOf(g) = UuidOf(h)
      BY <3>1, <3>3, <3>4 DEF Reported
    <3>6. g = h
      BY <3>2, <3>5 DEF DistinctUuids
    <3>7. QED
      BY <3>1, <3>2, <3>6 DEF InDb, Reached
  <2>6. CASE \E i \in 1..Len(vendor') : vendor'[i].start = h
    BY <2>6 DEF Waits, Reached
  <2>7. QED
    BY <2>4, <2>5, <2>6
<1>10. QED
  BY <1>8, <1>9

LEMMA FoundStep ==
  ASSUME VendorPerResponse = 1, Typed, NameInv, NameInv', FoundInv, [Next]_discVars
  PROVE  FoundInv'
<1>1. /\ peer \in Databases /\ peer' = peer
      /\ services \in Seq(ServiceRecords) /\ vendor \in Seq(VendorRecords) /\ ask \in Asks
      /\ Len(services) \in Nat
  BY PeerFixed DEF Typed
<1>2. Starts' = Starts /\ (DistinctUuids' <=> DistinctUuids)
  BY <1>1, SamePeer, DistinctStays
<1> DEFINE Goal ==
      /\ (pc' = "prim" /\ ask'.what = "services") =>
           ask'.to = LastHandle /\ \A h \in Starts : h < ask'.from => Reached(h)'
      /\ pc' \in {"vendor", "read", "redisc"} => \A h \in Starts : Reached(h)'
      /\ (pc' \in {"service", "chars", "char", "descs"} \/ (pc' = "idle" /\ outcome' = "success")) =>
           \A h \in Starts : InDb(h)'
<1>3. SUFFICES ASSUME DistinctUuids, want' = NoUuid, ~skipped' PROVE Goal
  BY <1>2 DEF FoundInv
<1>4. ASSUME want' = want, skipped' = skipped
      PROVE  /\ (pc = "prim" /\ ask.what = "services") =>
                  ask.to = LastHandle /\ \A h \in Starts : h < ask.from => Reached(h)
             /\ pc \in {"vendor", "read", "redisc"} => \A h \in Starts : Reached(h)
             /\ (pc \in {"service", "chars", "char", "descs"} \/ (pc = "idle" /\ outcome = "success")) =>
                  \A h \in Starts : InDb(h)
  BY <1>3, <1>4 DEF FoundInv
<1>5. ASSUME services' = services, vendor' = vendor
      PROVE  \A h : (InDb(h)' <=> InDb(h)) /\ (Reached(h)' <=> Reached(h))
  BY <1>5 DEF InDb, Waits, Reached
<1>6. NoAsk.what = "nothing"
  BY DEF NoAsk
<1>7. \A h \in Starts : h \in DOMAIN Attrs /\ h \in Int /\ h >= 1 /\ h <= LastHandle /\ KindOf(h) = "service"
  BY <1>1, AttributesOfPeer DEF Starts, Handles
<1>10. ASSUME NEW u, Call(u) PROVE Goal
  <2>1. want' = u /\ services' = services
    BY <1>10 DEF Call
  <2>2. CASE u \in UuidsOf(services)
    <3>1. PICK i \in 1..Len(services) : services[i].uuid = NoUuid
      BY <1>1, <1>3, <2>1, <2>2 DEF UuidsOf
    <3>2. services[i].start \in Starts /\ services[i].uuid = UuidOf(services[i].start)
      <4>1. services[i] \in ServiceRecords
        BY <1>1
      <4>2. services[i].start \in Starts
        BY <4>1 DEF ServiceRecords
      <4>3. QED
        BY <4>2 DEF NameInv
    <3>3. QED
      BY <1>1, <3>1, <3>2, AttributesAssumption DEF UuidOf, Starts, Attrs
  <2>3. CASE u \notin UuidsOf(services)
    <3>1. pc' = "prim" /\ ask' = [what |-> "services", from |-> 1, to |-> LastHandle]
      BY <1>10, <2>3 DEF Call, Request
    <3>2. ask'.from = 1 /\ ask'.to = LastHandle
      BY <3>1
    <3>3. \A h \in Starts : ~(h < ask'.from)
      BY <1>7, <3>2
    <3>4. QED
      BY <3>1, <3>2, <3>3
  <2>4. QED
    BY <2>2, <2>3
<1>11. ASSUME NEW hs \in Listings(ask), OnServices(hs) PROVE Goal
  <2>1. /\ ask.what = "services" /\ pc = "prim" /\ want' = want /\ skipped' = skipped
    BY <1>11 DEF OnServices, Found
  <2>2. ask.to = LastHandle /\ \A h \in Starts : h < ask.from => Reached(h)
    BY <1>4, <2>1
  <2>3. \A h \in Starts : h <= EndOfService(Last(hs)) => Reached(h)'
    BY <1>3, <1>11, <2>1, <2>2, ReachedNow
  <2>4. Last(hs) \in Starts
    BY <1>1, <2>1, ServicesListed
  <2>5. PICK end \in Int : end = EndOfService(Last(hs)) /\ end = Service(Last(hs)).end
    BY <1>1, <2>4, ServiceEnds DEF Service, Handles
  <2>6. CASE end = LastHandle
    <3>1. pc' = "vendor"
      BY <1>11, <2>5, <2>6 DEF OnServices
    <3>2. \A h \in Starts : Reached(h)'
      BY <1>7, <2>3, <2>5, <2>6
    <3>3. QED
      BY <3>1, <3>2
  <2>7. CASE end # LastHandle
    <3>1. pc' = "prim" /\ ask' = [what |-> "services", from |-> end + 1, to |-> LastHandle]
      BY <1>11, <2>1, <2>5, <2>7 DEF OnServices, Request
    <3>2. ask'.from = end + 1 /\ ask'.to = LastHandle
      BY <3>1
    <3>3. \A h \in Starts : h < ask'.from => Reached(h)'
      BY <1>7, <2>3, <2>5, <3>2
    <3>4. QED
      BY <3>1, <3>2, <3>3
  <2>8. QED
    BY <2>6, <2>7
<1>12. CASE OnNoMoreServices
  <2>1. /\ pc = "prim" /\ ask.what = "services" /\ Listings(ask) = {} /\ want' = want /\ skipped' = skipped
        /\ pc' = "vendor" /\ services' = services /\ vendor' = vendor
    BY <1>12 DEF OnNoMoreServices, NotFound, dataVars
  <2>2. ask.to = LastHandle /\ \A h \in Starts : h < ask.from => Reached(h)
    BY <1>4, <2>1
  <2>3. ASSUME NEW h \in Starts
        PROVE  h < ask.from
    <3>1. ~Answered(ask, h)
      BY <1>1, <1>7, <2>1, NothingLeft
    <3>2. ask.from \in Int
      BY <1>1 DEF Asks
    <3>3. QED
      BY <1>3, <1>7, <2>1, <2>2, <3>1, <3>2 DEF Answered
  <2>4. QED
    BY <1>5, <2>1, <2>2, <2>3
<1>13. CASE NextVendor
  <2>1. /\ pc = "vendor" /\ want' = want /\ skipped' = skipped
        /\ services' = services /\ vendor' = vendor
    BY <1>13 DEF NextVendor, dataVars
  <2>2. \A h \in Starts : Reached(h)
    BY <1>4, <2>1
  <2>3. CASE vendor = <<>>
    <3>1. pc' = "service"
      BY <1>13, <2>3 DEF NextVendor
    <3>2. \A h : ~Waits(h)
      BY <2>3 DEF Waits
    <3>3. QED
      BY <1>5, <2>1, <2>2, <3>1, <3>2 DEF Reached
  <2>4. CASE vendor # <<>>
    <3>1. pc' = "read"
      BY <1>13, <2>4 DEF NextVendor
    <3>2. QED
      BY <1>5, <2>1, <2>2, <3>1
  <2>5. QED
    BY <2>3, <2>4
<1>14. CASE OnRead
  <2>1. /\ pc = "read" /\ pc' = "redisc" /\ want' = want /\ skipped' = skipped
        /\ services' = services /\ vendor' = vendor
    BY <1>14 DEF OnRead
  <2>2. QED
    BY <1>4, <1>5, <2>1
<1>15. ASSUME NEW hs \in Listings(ask), OnRediscovered(hs) PROVE Goal
  <2>1. /\ ask.what = "services" /\ pc = "redisc" /\ vendor # <<>> /\ pc' = "vendor"
        /\ want' = want /\ vendor' = Tail(vendor) /\ skipped' = skipped
    BY <1>15 DEF OnRediscovered, Found, Typed
  <2>2. PICK g : g = vendor[1].start /\ g \in Starts /\ UuidOf(g) \in Vendor /\ want \in {NoUuid, UuidOf(g)}
    <3>1. vendor[1] \in VendorRecords /\ 1 \in 1..Len(vendor)
      BY <1>1, <2>1
    <3>2. QED
      BY <3>1 DEF VendorRecords, ServiceRecords, NameInv
  <2>3. ask.from = g /\ ask.to = LastHandle
    BY <2>1, <2>2 DEF NameInv
  <2>4. Len(hs) = 1 /\ hs[1] = g
    BY <1>1, <2>1, <2>2, <2>3, ItselfAgain
  <2>5. InDb(g)'
    <3>1. PICK new : new = [i \in DOMAIN hs |-> Service(hs[i])]
      OBVIOUS
    <3>2. DOMAIN hs = 1..Len(hs) /\ Len(hs) \in Nat
      BY <1>1, Listed
    <3>3. new \in [1..Len(hs) -> ServiceRecords] /\ new[1] = Service(g)
      BY <1>1, <2>2, <2>4, <3>1, <3>2, ServiceTyped
    <3>4. new \in Seq(ServiceRecords) /\ Len(new) = Len(hs)
      BY <3>2, <3>3
    <3>5. services' = services \o new
      BY <1>15, <3>1 DEF OnRediscovered
    <3>6. /\ Len(services \o new) = Len(services) + Len(new)
          /\ (services \o new)[Len(services) + 1] = new[1]
      <4> DEFINE S == ServiceRecords
      <4>1. services \in Seq(S) /\ new \in Seq(S)
        BY <1>1, <3>4
      <4> HIDE DEF S
      <4>2. /\ Len(services \o new) = Len(services) + Len(new)
            /\ \A i \in 1..(Len(services) + Len(new)) :
                 (services \o new)[i] = IF i <= Len(services) THEN services[i] ELSE new[i - Len(services)]
        BY <4>1
      <4>3. /\ Len(services) + 1 \in 1..(Len(services) + Len(new)) /\ ~(Len(services) + 1 <= Len(services))
            /\ (Len(services) + 1) - Len(services) = 1
        BY <1>1, <2>4, <3>4
      <4>4. QED
        BY <4>2, <4>3
    <3>7. Len(services) + 1 \in 1..Len(services') /\ services'[Len(services) + 1].start = g
      BY <1>1, <2>4, <3>3, <3>4, <3>5, <3>6 DEF Service
    <3>8. QED
      BY <3>7 DEF InDb
  <2>6. \A h : InDb(h) => InDb(h)'
    <3>1. /\ \A i \in 1..Len(services) : services'[i] = services[i] /\ i \in 1..Len(services')
      BY <1>15, ServicesPut
    <3>2. QED
      BY <3>1 DEF InDb
  <2>7. ASSUME NEW h, Waits(h), h # g
        PROVE  Waits(h)'
    <3>1. PICK i \in 1..Len(vendor) : vendor[i].start = h
      BY <2>7 DEF Waits
    <3>2. i # 1 /\ Len(vendor) \in Nat
      BY <1>1, <2>2, <2>7, <3>1
    <3>3. i - 1 \in 1..Len(vendor') /\ vendor'[i - 1] = vendor[i]
      <4> DEFINE V == VendorRecords
      <4>1. vendor \in Seq(V)
        BY <1>1
      <4> HIDE DEF V
      <4>2. QED
        BY <2>1, <3>2, <4>1
    <3>4. QED
      BY <3>1, <3>3 DEF Waits
  <2>8. \A h \in Starts : Reached(h)
    BY <1>4, <2>1
  <2>9. \A h \in Starts : Reached(h)'
    BY <2>5, <2>6, <2>7, <2>8 DEF Reached
  <2>10. QED
    BY <2>1, <2>9
<1>16. CASE PassOverVendor
  BY <1>3, <1>16 DEF PassOverVendor
<1>17. CASE NextService
  <2>1. /\ pc = "service" /\ pc' \in {"idle", "chars"} /\ want' = want /\ skipped' = skipped
        /\ services' = services /\ vendor' = vendor
    BY <1>17 DEF NextService, Return, dataVars
  <2>2. QED
    BY <1>4, <1>5, <2>1
<1>18. ASSUME NEW hs \in Listings(ask), OnChars(hs) \/ OnDescs(hs) PROVE Goal
  <2>1. /\ want' = want /\ skipped' = skipped /\ pc \in {"chars", "descs"}
        /\ pc' \in {"chars", "char", "descs"}
    BY <1>18 DEF OnChars, OnDescs
  <2>2. \A i \in 1..Len(services) : services'[i].start = services[i].start /\ i \in 1..Len(services')
    BY <1>18, OneReplaced
  <2>3. \A h : InDb(h) => InDb(h)'
    BY <2>2 DEF InDb
  <2>4. QED
    BY <1>4, <2>1, <2>3
<1>19. CASE OnNoMoreChars \/ NextChar \/ OnNoMoreDescs
  <2>1. /\ pc \in {"chars", "char", "descs"} /\ pc' \in {"service", "char", "descs"}
        /\ want' = want /\ skipped' = skipped /\ services' = services /\ vendor' = vendor
    BY <1>19 DEF OnNoMoreChars, NextChar, OnNoMoreDescs, dataVars
  <2>2. QED
    BY <1>4, <1>5, <2>1
<1>20. CASE OnError \/ Raise \/ Refuse
  <2>1. pc' = "idle" /\ outcome' \in {"error", "raised"}
    BY <1>20 DEF OnError, Raise, Refuse, Return
  <2>2. QED
    BY <2>1
<1>21. CASE Lose
  <2>1. /\ pc' = pc /\ ask' = NoAsk /\ outcome' = outcome /\ pc \in {"prim", "chars", "descs"}
        /\ want' = want /\ skipped' = skipped /\ services' = services /\ vendor' = vendor
    BY <1>21 DEF Lose, dataVars
  <2>2. QED
    BY <1>4, <1>5, <1>6, <2>1
<1>22. CASE Disconnect \/ UNCHANGED discVars
  <2>1. /\ pc' = pc /\ ask' = ask /\ outcome' = outcome
        /\ want' = want /\ skipped' = skipped /\ services' = services /\ vendor' = vendor
    BY <1>22 DEF Disconnect, discVars, dataVars
  <2>2. QED
    BY <1>4, <1>5, <2>1
<1>23. QED
  BY <1>10, <1>11, <1>12, <1>13, <1>14, <1>15, <1>16, <1>17, <1>18, <1>19, <1>20, <1>21, <1>22
     DEF Next, Step

-----------------------------------------------------------------------------
(* The characteristics and descriptors of those peers.                      *)

\* The descriptors of a characteristic are its own; the value and the cccds have
\* the uuids they are looked for under.
DescOk(s, c, d) ==
  /\ d.handle \in DescsOf(s.start, c.decl)
  /\ d.handle = c.value => d.uuid = c.uuid
  /\ UuidOf(d.handle) = Cccd => d.uuid = Cccd
DescsOk(s) ==
  \A k \in 1..Len(s.chars) : \A m \in 1..Len(s.chars[k].descs) :
    DescOk(s, s.chars[k], s.chars[k].descs[m])

FullChars(s) == \A c \in CharsOf(s.start) : HasUuidOf(s, c)
HasDesc(c, h) == \E m \in 1..Len(c.descs) : c.descs[m].handle = h
FullDescs(s, k) == \A h \in DescsOf(s.start, s.chars[k].decl) : HasDesc(s.chars[k], h)
Full(s) == FullChars(s) /\ \A k \in 1..Len(s.chars) : FullDescs(s, k)

\* The descriptors of the characteristic k have been dealt with as far as from.
DescsPass(s, k, from) ==
  /\ s.chars[k].value <= from
  /\ \A h \in DescsOf(s.start, s.chars[k].decl) : h < from => HasDesc(s.chars[k], h)

\* What the loops have passed is whole.
LoopInv ==
  DistinctUuids =>
    /\ pc \in {"service", "chars", "char", "descs"} => \A j \in 1..(si - 1) : Full(services[j])
    /\ pc \in {"char", "descs"} =>
         /\ FullChars(services[si])
         /\ \A k \in 1..Len(services[si].chars) : k < ci => FullDescs(services[si], k)
    /\ (pc = "descs" /\ ask.what = "descs") => DescsPass(services[si], ci, ask.from)
    /\ (pc = "idle" /\ outcome = "success" /\ want = NoUuid) =>
         \A j \in 1..Len(services) : Full(services[j])
DescsInv == DistinctUuids => \A i \in 1..Len(services) : DescsOk(services[i])

LEMMA DescsOfStay ==
  ASSUME peer' = peer
  PROVE  \A s, c : DescsOf(s, c)' = DescsOf(s, c)
BY SamePeer DEF DescsOf, Within

LEMMA FullStays ==
  ASSUME peer' = peer, registered' = registered, NEW s
  PROVE  /\ FullChars(s)' <=> FullChars(s)
         /\ \A k : FullDescs(s, k)' <=> FullDescs(s, k)
         /\ Full(s)' <=> Full(s)
         /\ \A k, from : DescsPass(s, k, from)' <=> DescsPass(s, k, from)
<1>1. \A u : Reported(u)' = Reported(u)
  BY DEF Reported, Vendor
<1>2. \A c : UuidOf(c)' = UuidOf(c) /\ CharsOf(c)' = CharsOf(c)
  BY SamePeer
<1>3. \A c : HasUuidOf(s, c)' <=> HasUuidOf(s, c)
  BY <1>1, <1>2 DEF HasUuidOf, UuidsOf
<1>4. FullChars(s)' <=> FullChars(s)
  BY <1>2, <1>3 DEF FullChars
<1>5. \A k : FullDescs(s, k)' <=> FullDescs(s, k)
  BY DescsOfStay DEF FullDescs, HasDesc
<1>6. \A k, from : DescsPass(s, k, from)' <=> DescsPass(s, k, from)
  BY DescsOfStay DEF DescsPass, HasDesc
<1>7. QED
  BY <1>4, <1>5, <1>6 DEF Full

LEMMA LoopKept ==
  ASSUME peer' = peer, registered' = registered,
         DistinctUuids =>
           /\ pc' \in {"service", "chars", "char", "descs"} => \A j \in 1..(si' - 1) : Full(services'[j])
           /\ pc' \in {"char", "descs"} =>
                /\ FullChars(services'[si'])
                /\ \A k \in 1..Len(services'[si'].chars) : k < ci' => FullDescs(services'[si'], k)
           /\ (pc' = "descs" /\ ask'.what = "descs") => DescsPass(services'[si'], ci', ask'.from)
           /\ (pc' = "idle" /\ outcome' = "success" /\ want' = NoUuid) =>
                \A j \in 1..Len(services') : Full(services'[j])
  PROVE  LoopInv'
<1> SUFFICES ASSUME DistinctUuids
             PROVE  (/\ pc \in {"service", "chars", "char", "descs"} => \A j \in 1..(si - 1) : Full(services[j])
                     /\ pc \in {"char", "descs"} =>
                          /\ FullChars(services[si])
                          /\ \A k \in 1..Len(services[si].chars) : k < ci => FullDescs(services[si], k)
                     /\ (pc = "descs" /\ ask.what = "descs") => DescsPass(services[si], ci, ask.from)
                     /\ (pc = "idle" /\ outcome = "success" /\ want = NoUuid) =>
                          \A j \in 1..Len(services) : Full(services[j]))'
  BY DistinctStays DEF LoopInv
<1>1. ASSUME NEW j, Full(services'[j])
      PROVE  Full(services[j])'
  <2>1. PICK s : s = services'[j] /\ Full(s)
    BY <1>1
  <2>2. Full(s)'
    BY <2>1, FullStays
  <2>3. QED
    BY <2>1, <2>2
<1>2. PICK s : s = services'[si']
  OBVIOUS
<1>3. FullChars(s) => FullChars(services[si])'
  BY <1>2, FullStays
<1>4. ASSUME NEW k, FullDescs(s, k)
      PROVE  FullDescs(services[si], k)'
  BY <1>2, <1>4, FullStays
<1>5. ASSUME DescsPass(s, ci', ask'.from)
      PROVE  DescsPass(services[si], ci, ask.from)'
  <2>1. PICK k, from : k = ci' /\ from = ask'.from
    OBVIOUS
  <2>2. DescsPass(s, k, from)'
    BY <1>5, <2>1, FullStays
  <2>3. QED
    BY <1>2, <2>1, <2>2
<1>6. QED
  BY <1>1, <1>2, <1>3, <1>4, <1>5

\* A characteristic that is found is in its place.
LEMMA CharPresent ==
  ASSUME peer \in Databases, DistinctUuids, NEW s \in ServiceRecords, CharsOk(s),
         Reported(UuidOf(s.start)) # Unknown, NEW c \in CharsOf(s.start), HasUuidOf(s, c)
  PROVE  \E k \in 1..Len(s.chars) : s.chars[k].decl = c
<1>1. DOMAIN s.chars = 1..Len(s.chars) /\ s.start \in Starts
  BY DEF ServiceRecords
<1>2. PICK k \in 1..Len(s.chars) : s.chars[k].uuid = Reported(UuidOf(c))
  BY <1>1 DEF HasUuidOf, UuidsOf
<1>3. /\ s.chars[k].decl \in CharsOf(s.start)
      /\ s.chars[k].uuid = Reported(UuidOf(s.chars[k].decl))
  BY DEF CharsOk
<1>4. s.chars[k].decl = c
  BY <1>1, <1>2, <1>3, DistinctReports
<1>5. QED
  BY <1>4

\* The range of a characteristic holds its own descriptors.
LEMMA DescRange ==
  ASSUME peer \in Databases, DistinctUuids, NEW s \in ServiceRecords, CharsOk(s), FullChars(s),
         Reported(UuidOf(s.start)) # Unknown, NEW k \in 1..Len(s.chars)
  PROVE  \A h : h \in DescsOf(s.start, s.chars[k].decl) <=>
                  (h \in DOMAIN Attrs /\ s.chars[k].value <= h /\ h <= s.chars[k].end)
<1>1. /\ DOMAIN s.chars = 1..Len(s.chars) /\ Len(s.chars) \in Nat
      /\ s.start \in Starts /\ s.end = EndOfService(s.start)
  BY DEF ServiceRecords
<1>2. PICK c : c = s.chars[k].decl
  OBVIOUS
<1>3. /\ s.start \in Int /\ s.end \in Int /\ \A h \in DOMAIN Attrs : h \in Int
      /\ \A d \in CharsOf(s.start) : d \in DOMAIN Attrs /\ s.start <= d /\ d <= s.end
  BY <1>1, AttributesOfPeer, ServiceEnds DEF CharsOf, Within, Handles, Starts
<1>4. /\ c \in CharsOf(s.start) /\ s.chars[k].value = c + 1
      /\ s.chars[k].end = IF k = Len(s.chars) THEN s.end ELSE s.chars[k + 1].decl - 1
  BY <1>2 DEF CharsOk
<1>5. c \in Int /\ s.start <= c /\ c <= s.end
  BY <1>3, <1>4
<1>6. PICK e : e = s.chars[k].end
  OBVIOUS
<1>7. /\ e \in Int /\ e <= s.end
      /\ k # Len(s.chars) => e + 1 \in CharsOf(s.start) /\ c < e + 1
  <2>1. CASE k = Len(s.chars)
    BY <1>3, <1>4, <1>6, <2>1
  <2>2. CASE k # Len(s.chars)
    <3>1. k + 1 \in 1..Len(s.chars) /\ k < k + 1
      BY <1>1, <2>2
    <3>2. PICK n : n = s.chars[k + 1].decl
      OBVIOUS
    <3>3. n \in CharsOf(s.start) /\ c < n
      BY <1>2, <3>1, <3>2 DEF CharsOk
    <3>4. n \in Int /\ n <= s.end /\ e = n - 1
      BY <1>3, <1>4, <1>6, <2>2, <3>2, <3>3
    <3>5. e + 1 = n
      BY <3>4
    <3>6. QED
      BY <1>3, <3>3, <3>4, <3>5
  <2>3. QED
    BY <2>1, <2>2
<1>8. ASSUME NEW h \in DescsOf(s.start, c)
      PROVE  h \in DOMAIN Attrs /\ c + 1 <= h /\ h <= e
  <2>1. h \in DOMAIN Attrs /\ h \in Int /\ h > c /\ h <= s.end
    BY <1>1, <1>3 DEF DescsOf, Within
  <2>2. ~\E d \in CharsOf(s.start) : c < d /\ d <= h
    BY DEF DescsOf
  <2>3. CASE k = Len(s.chars)
    BY <1>4, <1>5, <1>6, <2>1, <2>3
  <2>4. CASE k # Len(s.chars)
    BY <1>5, <1>7, <2>1, <2>2, <2>4
  <2>5. QED
    BY <2>3, <2>4
<1>9. ASSUME NEW h \in DOMAIN Attrs, c + 1 <= h, h <= e
      PROVE  h \in DescsOf(s.start, c)
  <2>1. h \in Int /\ h > c /\ s.start <= h /\ h <= s.end
    BY <1>3, <1>5, <1>7, <1>9
  <2>2. ASSUME NEW d \in CharsOf(s.start), c < d, d <= h
        PROVE  FALSE
    <3>1. PICK j \in 1..Len(s.chars) : s.chars[j].decl = d
      BY <1>1, CharPresent DEF FullChars
    <3>2. d \in Int
      BY <1>3
    <3>3. ~(j < k) /\ j # k
      <4>1. j < k => d < c
        BY <1>2, <3>1 DEF CharsOk
      <4>2. j = k => d = c
        BY <1>2, <3>1
      <4>3. QED
        BY <1>5, <2>2, <3>2, <4>1, <4>2
    <3>4. k # Len(s.chars) /\ k + 1 \in 1..Len(s.chars) /\ (k + 1 = j \/ k + 1 < j)
      BY <1>1, <3>3
    <3>5. e + 1 = s.chars[k + 1].decl
      <4>1. s.chars[k + 1].decl \in Int
        BY <1>3, <3>4 DEF CharsOk
      <4>2. QED
        BY <1>4, <1>6, <3>4, <4>1
    <3>6. e + 1 <= d
      <4>1. k + 1 < j => s.chars[k + 1].decl < d
        BY <3>1, <3>4 DEF CharsOk
      <4>2. k + 1 = j => s.chars[k + 1].decl = d
        BY <3>1
      <4>3. QED
        BY <1>7, <3>2, <3>4, <3>5, <4>1, <4>2
    <3>7. QED
      BY <1>7, <1>9, <2>1, <2>2, <3>2, <3>6
  <2>3. h \in s.start..EndOfService(s.start)
    BY <1>1, <1>3, <2>1
  <2>4. QED
    BY <2>1, <2>2, <2>3 DEF DescsOf, Within
<1>10. QED
  BY <1>2, <1>4, <1>6, <1>8, <1>9

\* No service of the database is one of unknown uuid.
LEMMA AllKnown ==
  ASSUME Typed, NameInv, KnownInv, NEW i \in 1..Len(services)
  PROVE  /\ services[i] \in ServiceRecords /\ services[i].uuid = UuidOf(services[i].start)
         /\ services[i].uuid \notin {Unknown, NoUuid}
         /\ Reported(UuidOf(services[i].start)) # Unknown
<1>1. peer \in Databases /\ services[i] \in ServiceRecords
  BY DEF Typed
<1>2. services[i].start \in Starts
  BY <1>1 DEF ServiceRecords
<1>3. services[i].uuid = UuidOf(services[i].start)
  BY DEF NameInv
<1>4. UuidOf(services[i].start) \notin {Unknown, NoUuid}
  BY <1>1, <1>2, AttributesAssumption DEF UuidOf, Starts, Attrs
<1>5. QED
  BY <1>1, <1>3, <1>4 DEF KnownInv

\* The descriptors of the characteristic the loop is at, once an answer is added.
LEMMA DescsReached ==
  ASSUME Typed, OkInv, KnownInv, PassInv, NameInv, DistinctUuids, FullChars(services[si]),
         DescsPass(services[si], ci, ask.from), NEW hs \in Listings(ask), OnDescs(hs)
  PROVE  /\ DescsPass(services'[si], ci, Last(hs) + 1)
         /\ Last(hs) = services[si].chars[ci].end => FullDescs(services'[si], ci)
<1>1. /\ peer \in Databases /\ si \in 1..Len(services) /\ ask.what = "descs" /\ pc = "descs" /\ ask.from \in Int
  BY OneReplaced DEF Typed, OnDescs, Found, Asks
<1>2. PICK s \in ServiceRecords : s = services[si] /\ CharsOk(s) /\ FullChars(s)
                                  /\ Reported(UuidOf(s.start)) # Unknown
  BY <1>1, AllKnown DEF OkInv
<1>3. PICK new : new = services'[si]
  OBVIOUS
<1>4. PICK k \in 1..Len(s.chars) : k = ci /\ Described(s, new, k, hs)
  BY <1>2, <1>3, DescsPut
<1>5. PICK c : c = s.chars[k].decl
  OBVIOUS
<1>6. new.start = s.start /\ new.chars[k].decl = c /\ new.chars[k].value = s.chars[k].value
  BY <1>4, <1>5 DEF Described
<1>7. \A h : h \in DescsOf(s.start, c) <=>
               (h \in DOMAIN Attrs /\ s.chars[k].value <= h /\ h <= s.chars[k].end)
  BY <1>1, <1>2, <1>5, DescRange
<1>8. /\ Last(hs) \in DOMAIN Attrs /\ Last(hs) \in Int /\ \A h \in DOMAIN Attrs : h \in Int
      /\ ask.from <= Last(hs)
  BY <1>1, Listed, AttributesOfPeer DEF Answered
<1>9. /\ s.chars[k].value <= ask.from
      /\ \A h \in DescsOf(s.start, c) : h < ask.from => HasDesc(s.chars[k], h)
  BY <1>2, <1>4, <1>5 DEF DescsPass
<1>10. ask.to = s.chars[k].end
  BY <1>1, <1>2, <1>4 DEF PassInv
<1>11. s.chars[k].value \in Int /\ s.chars[k].end \in Int
  <2>1. DOMAIN s.chars = 1..Len(s.chars)
    BY DEF ServiceRecords
  <2>2. QED
    BY <2>1, CharTyped
<1>12. ASSUME NEW h \in DescsOf(s.start, c), h <= Last(hs)
       PROVE  HasDesc(new.chars[k], h)
  <2>1. h \in DOMAIN Attrs /\ h <= s.chars[k].end /\ h \in Int
    BY <1>7, <1>8
  <2>2. CASE h < ask.from
    <3>1. PICK m \in 1..Len(s.chars[k].descs) : s.chars[k].descs[m].handle = h
      BY <1>9, <2>2 DEF HasDesc
    <3>2. PICK n \in 1..Len(new.chars[k].descs) : new.chars[k].descs[n] = s.chars[k].descs[m]
      BY <1>4 DEF Described
    <3>3. QED
      BY <3>1, <3>2 DEF HasDesc
  <2>3. CASE ~(h < ask.from)
    <3>1. Answered(ask, h)
      BY <1>1, <1>10, <2>1, <2>3 DEF Answered
    <3>2. PICK j \in 1..Len(hs) : hs[j] = h
      BY <1>1, <1>12, <2>1, <3>1, Listed
    <3>3. PICK n \in 1..Len(new.chars[k].descs) : new.chars[k].descs[n] = Desc(hs[j])
      BY <1>4 DEF Described
    <3>4. QED
      BY <3>2, <3>3 DEF HasDesc, Desc
  <2>4. QED
    BY <2>2, <2>3
<1>13. DescsPass(new, k, Last(hs) + 1)
  <2>1. s.chars[k].value <= Last(hs) + 1
    BY <1>1, <1>8, <1>9, <1>11
  <2>2. \A h \in DescsOf(s.start, c) : h < Last(hs) + 1 => h <= Last(hs)
    BY <1>7, <1>8
  <2>3. QED
    BY <1>6, <1>12, <2>1, <2>2 DEF DescsPass
<1>14. ASSUME Last(hs) = s.chars[k].end
       PROVE  FullDescs(new, k)
  <2>1. \A h \in DescsOf(s.start, c) : h <= Last(hs)
    BY <1>7, <1>14
  <2>2. QED
    BY <1>6, <1>12, <2>1 DEF FullDescs
<1>15. QED
  BY <1>2, <1>3, <1>4, <1>13, <1>14

LEMMA LoopStep ==
  ASSUME Typed, RangeInv, NameInv, LoopInv, [Next]_discVars
  PROVE  LoopInv'
<1>1. /\ peer \in Databases /\ peer' = peer /\ services \in Seq(ServiceRecords)
      /\ ask \in Asks /\ si \in 1..(Len(services) + 1) /\ Len(services) \in Nat
  BY PeerFixed DEF Typed
<1>2. (DistinctUuids' <=> DistinctUuids) /\ (DistinctUuids => OwnBases)
  BY <1>1, DistinctStays DEF DistinctUuids
<1> SUFFICES ASSUME DistinctUuids PROVE LoopInv'
  BY <1>2 DEF LoopInv
<1>3. OkInv /\ KnownInv /\ PassInv
  BY <1>2 DEF RangeInv
<1>4. /\ pc \in {"service", "chars", "char", "descs"} => \A j \in 1..(si - 1) : Full(services[j])
      /\ pc \in {"char", "descs"} =>
           /\ FullChars(services[si])
           /\ \A k \in 1..Len(services[si].chars) : k < ci => FullDescs(services[si], k)
      /\ (pc = "descs" /\ ask.what = "descs") => DescsPass(services[si], ci, ask.from)
      /\ (pc = "idle" /\ outcome = "success" /\ want = NoUuid) =>
           \A j \in 1..Len(services) : Full(services[j])
  BY DEF LoopInv
<1>5. NoAsk.what = "nothing"
  BY DEF NoAsk
<1>6. ASSUME pc' \in {"prim", "vendor", "read", "redisc"} \/ (pc' = "idle" /\ outcome' \in {"error", "raised"})
      PROVE  LoopInv'
  BY <1>6 DEF LoopInv
<1>10. ASSUME NEW u, Call(u) PROVE LoopInv'
  <2>1. want' = u /\ services' = services /\ registered' = registered /\ pc' \in {"idle", "prim"}
    BY <1>10 DEF Call, Return
  <2>2. CASE pc' = "prim"
    BY <1>6, <2>2
  <2>3. CASE pc' = "idle"
    <3>1. u \in UuidsOf(services)
      BY <1>10, <2>3 DEF Call, Return
    <3>2. PICK i \in 1..Len(services) : services[i].uuid = u
      BY <1>1, <3>1 DEF UuidsOf
    <3>3. want' # NoUuid
      BY <1>3, <2>1, <3>2, AllKnown
    <3>4. QED
      BY <2>3, <3>3 DEF LoopInv
  <2>4. QED
    BY <2>1, <2>2, <2>3
<1>11. ASSUME NEW hs \in Listings(ask), OnServices(hs) \/ OnRediscovered(hs) PROVE LoopInv'
  <2>1. pc' \in {"prim", "vendor"}
    BY <1>11 DEF OnServices, OnRediscovered
  <2>2. QED
    BY <1>6, <2>1
<1>12. CASE OnNoMoreServices \/ OnRead \/ PassOverVendor
  BY <1>6, <1>12 DEF OnNoMoreServices, OnRead, PassOverVendor
<1>13. CASE NextVendor
  <2>1. /\ pc' \in {"service", "read"} /\ si' = 1 /\ registered' = registered
    BY <1>13 DEF NextVendor, dataVars, Typed
  <2>2. \A j \in 1..(si' - 1) : FALSE
    BY <2>1
  <2>3. QED
    BY <1>1, <2>1, <2>2, LoopKept
<1>14. CASE NextService
  <2>1. /\ pc = "service" /\ services' = services /\ registered' = registered /\ si' = si
    BY <1>14 DEF NextService, dataVars
  <2>2. \A j \in 1..(si - 1) : Full(services[j])
    BY <1>4, <2>1
  <2>3. CASE si > Len(services)
    <3>1. pc' = "idle"
      BY <1>14, <2>3 DEF NextService, Return
    <3>2. \A j \in 1..Len(services) : j \in 1..(si - 1)
      BY <1>1, <2>3
    <3>3. QED
      BY <1>1, <2>1, <2>2, <3>1, <3>2, LoopKept
  <2>4. CASE ~(si > Len(services))
    <3>1. pc' = "chars"
      BY <1>14, <2>4 DEF NextService
    <3>2. QED
      BY <1>1, <2>1, <2>2, <3>1, LoopKept
  <2>5. QED
    BY <2>3, <2>4
<1>15. ASSUME NEW hs \in Listings(ask), OnChars(hs) PROVE LoopInv'
  <2>1. pc = "chars" /\ pc' = "chars" /\ registered' = registered /\ si' = si
    BY <1>15 DEF OnChars
  <2>2. \A j \in 1..(si - 1) : services'[j] = services[j]
    <3>1. si \in 1..Len(services) /\ \A i \in 1..Len(services) : i # si => services'[i] = services[i]
      BY <1>15, OneReplaced
    <3>2. \A j \in 1..(si - 1) : j \in 1..Len(services) /\ j # si
      BY <1>1, <3>1
    <3>3. QED
      BY <3>1, <3>2
  <2>3. QED
    BY <1>1, <1>4, <2>1, <2>2, LoopKept
<1>16. CASE OnNoMoreChars
  <2>1. /\ pc = "chars" /\ pc' = "char" /\ services' = services /\ registered' = registered
        /\ si' = si /\ ci' = 1 /\ ask.what = "chars" /\ Listings(ask) = {} /\ si \in 1..Len(services)
    BY <1>1, <1>16 DEF OnNoMoreChars, NotFound, dataVars, Typed
  <2>2. PICK s \in ServiceRecords : s = services[si] /\ CharsPass(s)
    BY <1>1, <1>3, <2>1 DEF PassInv
  <2>3. FullChars(s)
    <3> SUFFICES ASSUME NEW c \in CharsOf(s.start) PROVE HasUuidOf(s, c)
      BY DEF FullChars
    <3>1. s.start \in Starts /\ s.end = EndOfService(s.start)
      BY <2>2 DEF ServiceRecords
    <3>2. s.start \in Int /\ s.end \in Int
      BY <1>1, <3>1, ServiceEnds DEF Handles
    <3>3. c \in DOMAIN Attrs /\ c \in Int /\ KindOf(c) = "char" /\ c <= s.end
      BY <1>1, <3>1, <3>2, AttributesOfPeer DEF CharsOf, Within
    <3>4. ~Answered(ask, c)
      BY <1>1, <2>1, <3>3, NothingLeft
    <3>5. ask.from \in Int
      BY <1>1 DEF Asks
    <3>6. c < ask.from
      BY <2>1, <2>2, <3>3, <3>4, <3>5 DEF Answered, CharsPass
    <3>7. QED
      BY <2>2, <3>6 DEF CharsPass
  <2>4. \A k \in 1..Len(s.chars) : ~(k < 1)
    OBVIOUS
  <2>5. QED
    BY <1>1, <1>4, <2>1, <2>2, <2>3, <2>4, LoopKept
<1>17. CASE NextChar
  <2>1. /\ pc = "char" /\ services' = services /\ registered' = registered /\ ci' = ci
        /\ pc' \in {"service", "descs"} /\ si \in 1..Len(services)
    BY <1>1, <1>17 DEF NextChar, dataVars, Typed
  <2>2. PICK s \in ServiceRecords : s = services[si]
    BY <1>1, <2>1
  <2>3. /\ \A j \in 1..(si - 1) : Full(services[j])
        /\ FullChars(s) /\ \A k \in 1..Len(s.chars) : k < ci => FullDescs(s, k)
    BY <1>4, <2>1, <2>2
  <2>4. Len(s.chars) \in Nat /\ ci \in Nat \ {0}
    BY DEF ServiceRecords, Typed
  <2>5. CASE NothingToAsk
    <3>1. pc' = "service" /\ si' = si + 1 /\ ci > Len(s.chars)
      BY <1>17, <2>1, <2>2, <2>5 DEF NextChar, NothingToAsk
    <3>2. \A k \in 1..Len(s.chars) : k < ci
      BY <2>4, <3>1
    <3>3. Full(services[si])
      BY <2>2, <2>3, <3>2 DEF Full
    <3>4. \A j \in 1..(si' - 1) : j \in 1..(si - 1) \/ j = si
      BY <1>1, <3>1
    <3>5. QED
      BY <1>1, <2>1, <2>3, <3>1, <3>3, <3>4, LoopKept
  <2>6. CASE ~NothingToAsk
    <3>1. ci \in 1..Len(s.chars)
      BY <2>1, <2>2, <2>4, <2>6 DEF NothingToAsk
    <3>2. /\ pc' = "descs" /\ si' = si
          /\ ask' = [what |-> "descs", from |-> s.chars[ci].value, to |-> s.chars[ci].end]
      BY <1>17, <2>2, <2>6 DEF NextChar, Request
    <3>3. ask'.from = s.chars[ci].value
      BY <3>2
    <3>4. PICK c : c = s.chars[ci].decl /\ c \in CharsOf(s.start) /\ s.chars[ci].value = c + 1
      BY <1>3, <2>1, <2>2, <3>1 DEF OkInv, CharsOk
    <3>5. \A h \in DescsOf(s.start, c) : ~(h < c + 1)
      BY <1>1, <3>4, AttributesOfPeer DEF DescsOf, CharsOf
    <3>6. c \in Int
      BY <1>1, <3>4, AttributesOfPeer DEF CharsOf
    <3>7. DescsPass(s, ci, s.chars[ci].value)
      BY <3>4, <3>5, <3>6 DEF DescsPass
    <3>8. QED
      BY <1>1, <2>1, <2>2, <2>3, <3>2, <3>3, <3>7, LoopKept
  <2>7. QED
    BY <2>5, <2>6
<1>18. ASSUME NEW hs \in Listings(ask), OnDescs(hs) PROVE LoopInv'
  <2>1. /\ ask.what = "descs" /\ pc = "descs" /\ pc' \in {"char", "descs"} /\ registered' = registered
        /\ si' = si /\ si \in 1..Len(services) /\ Len(services') = Len(services)
        /\ \A i \in 1..Len(services) : i # si => services'[i] = services[i]
    BY <1>18, OneReplaced DEF OnDescs, Found
  <2>2. /\ \A j \in 1..(si - 1) : Full(services[j])
        /\ FullChars(services[si]) /\ DescsPass(services[si], ci, ask.from)
        /\ \A k \in 1..Len(services[si].chars) : k < ci => FullDescs(services[si], k)
    BY <1>4, <2>1
  <2>3. \A j \in 1..(si - 1) : Full(services'[j])
    <3>1. \A j \in 1..(si - 1) : j \in 1..Len(services) /\ j # si
      BY <1>1, <2>1
    <3>2. QED
      BY <2>1, <2>2, <3>1
  <2>4. /\ DescsPass(services'[si], ci, Last(hs) + 1)
        /\ Last(hs) = services[si].chars[ci].end => FullDescs(services'[si], ci)
    BY <1>3, <1>18, <2>2, DescsReached
  <2>5. PICK s : s = services[si]
    OBVIOUS
  <2>6. PICK new \in ServiceRecords : new = services'[si] /\ Described(s, new, ci, hs)
    BY <1>18, <2>5, DescsPut
  <2>7. PICK n \in Nat : n = Len(s.chars) /\ n = Len(new.chars)
    BY <2>6 DEF Described, ServiceRecords
  <2>8. DOMAIN s.chars = 1..n /\ DOMAIN new.chars = 1..n
    <3>1. s \in ServiceRecords
      BY <1>1, <2>1, <2>5
    <3>2. \A r \in ServiceRecords : DOMAIN r.chars = 1..Len(r.chars)
      BY DEF ServiceRecords
    <3>3. QED
      BY <2>7, <3>1, <3>2
  <2>9. FullChars(new)
    <3>1. new.start = s.start /\ \A i \in 1..n : new.chars[i].uuid = s.chars[i].uuid
      BY <2>6, <2>7 DEF Described
    <3>2. UuidsOf(s.chars) \subseteq UuidsOf(new.chars)
      BY <2>8, <3>1 DEF UuidsOf
    <3>3. QED
      BY <2>2, <2>5, <3>1, <3>2 DEF FullChars, HasUuidOf
  <2>10. ASSUME NEW k \in 1..n, k < ci
         PROVE  FullDescs(new, k)
    <3>1. ci \in Nat
      BY DEF Typed
    <3>2. FullDescs(s, k)
      BY <2>2, <2>5, <2>7, <2>10
    <3>3. /\ new.start = s.start /\ new.chars[k].decl = s.chars[k].decl
          /\ k # ci => new.chars[k].descs = s.chars[k].descs
      BY <2>6, <2>7, <2>10 DEF Described
    <3>4. new.chars[k].descs = s.chars[k].descs
      BY <2>10, <3>1, <3>3
    <3>5. QED
      BY <3>2, <3>3, <3>4 DEF FullDescs, HasDesc
  <2>11. CASE Last(hs) = services[si].chars[ci].end
    <3>1. pc' = "char" /\ ci' = ci + 1
      BY <1>18, <2>11 DEF OnDescs
    <3>2. \A k \in 1..n : k < ci' => k < ci \/ k = ci
      BY <3>1 DEF Typed
    <3>3. FullDescs(new, ci)
      BY <2>4, <2>6, <2>11
    <3>4. \A k \in 1..n : k < ci' => FullDescs(new, k)
      BY <2>10, <3>2, <3>3
    <3>5. QED
      BY <1>1, <2>1, <2>3, <2>6, <2>7, <2>9, <3>1, <3>4, LoopKept
  <2>12. CASE Last(hs) # services[si].chars[ci].end
    <3>1. /\ pc' = "descs" /\ ci' = ci
          /\ ask' = [what |-> "descs", from |-> Last(hs) + 1, to |-> services[si].chars[ci].end]
      BY <1>18, <2>1, <2>12 DEF OnDescs, Request
    <3>2. ask'.from = Last(hs) + 1
      BY <3>1
    <3>3. QED
      BY <1>1, <2>1, <2>3, <2>4, <2>6, <2>7, <2>9, <2>10, <3>1, <3>2, LoopKept
  <2>13. QED
    BY <2>11, <2>12
<1>19. CASE OnNoMoreDescs
  <2>1. /\ pc = "descs" /\ pc' = "char" /\ services' = services /\ registered' = registered
        /\ si' = si /\ ci' = ci + 1 /\ ask.what = "descs" /\ Listings(ask) = {}
        /\ si \in 1..Len(services) /\ ci \in DOMAIN services[si].chars
    BY <1>1, <1>19 DEF OnNoMoreDescs, NotFound, dataVars, Typed
  <2>2. PICK s \in ServiceRecords : s = services[si] /\ CharsOk(s) /\ Reported(UuidOf(s.start)) # Unknown
    BY <1>3, <2>1, AllKnown DEF OkInv
  <2>3. /\ FullChars(s) /\ DescsPass(s, ci, ask.from)
        /\ \A k \in 1..Len(s.chars) : k < ci => FullDescs(s, k)
    BY <1>4, <2>1, <2>2
  <2>4. PICK k \in 1..Len(s.chars) : k = ci
    <3>1. DOMAIN s.chars = 1..Len(s.chars)
      BY DEF ServiceRecords
    <3>2. QED
      BY <2>1, <2>2, <3>1
  <2>5. \A h : h \in DescsOf(s.start, s.chars[k].decl) <=>
                 (h \in DOMAIN Attrs /\ s.chars[k].value <= h /\ h <= s.chars[k].end)
    BY <1>1, <2>2, <2>3, DescRange
  <2>6. ask.to = s.chars[k].end /\ ask.from \in Int
    BY <1>1, <1>3, <2>1, <2>2, <2>4 DEF PassInv, Asks
  <2>7. FullDescs(s, k)
    <3> SUFFICES ASSUME NEW h \in DescsOf(s.start, s.chars[k].decl) PROVE HasDesc(s.chars[k], h)
      BY DEF FullDescs
    <3>1. h \in DOMAIN Attrs /\ h <= s.chars[k].end
      BY <2>5
    <3>2. ~Answered(ask, h) /\ h \in Int
      <4>1. ~Answered(ask, h)
        BY <1>1, <2>1, <3>1, NothingLeft
      <4>2. h \in Int
        BY <1>1, <3>1, AttributesOfPeer
      <4>3. QED
        BY <4>1, <4>2
    <3>3. h < ask.from
      BY <2>1, <2>6, <3>1, <3>2 DEF Answered
    <3>4. QED
      BY <2>3, <2>4, <3>3 DEF DescsPass
  <2>8. \A i \in 1..Len(s.chars) : i < ci' => i < ci \/ i = ci
    BY <2>1 DEF Typed
  <2>9. \A i \in 1..Len(s.chars) : i < ci' => FullDescs(s, i)
    BY <2>3, <2>4, <2>7, <2>8
  <2>10. QED
    BY <1>1, <1>4, <2>1, <2>2, <2>3, <2>9, LoopKept
<1>20. CASE OnError \/ Raise \/ Refuse
  BY <1>6, <1>20 DEF OnError, Raise, Refuse, Return
<1>21. CASE Lose
  <2>1. /\ pc' = pc /\ ask' = NoAsk /\ outcome' = outcome /\ pc \in {"prim", "chars", "descs"}
        /\ services' = services /\ registered' = registered /\ si' = si /\ ci' = ci
    BY <1>21 DEF Lose, dataVars
  <2>2. QED
    BY <1>1, <1>4, <1>5, <2>1, LoopKept
<1>22. CASE Disconnect \/ UNCHANGED discVars
  <2>1. /\ pc' = pc /\ ask' = ask /\ outcome' = outcome /\ want' = want
        /\ services' = services /\ registered' = registered /\ si' = si /\ ci' = ci
    BY <1>22 DEF Disconnect, discVars, dataVars
  <2>2. QED
    BY <1>1, <1>4, <2>1, LoopKept
<1>23. QED
  BY <1>10, <1>11, <1>12, <1>13, <1>14, <1>15, <1>16, <1>17, <1>18, <1>19, <1>20, <1>21, <1>22
     DEF Next, Step

LEMMA DescsOkStable ==
  ASSUME peer' = peer, NEW s
  PROVE  DescsOk(s)' <=> DescsOk(s)
<1>1. \A c, d : DescOk(s, c, d)' <=> DescOk(s, c, d)
  BY DescsOfStay, SamePeer DEF DescOk
<1>2. QED
  BY <1>1 DEF DescsOk

LEMMA DescsKept ==
  ASSUME peer' = peer, DistinctUuids => \A i \in 1..Len(services') : DescsOk(services'[i])
  PROVE  DescsInv'
<1> SUFFICES ASSUME DistinctUuids, NEW i \in 1..Len(services') PROVE DescsOk(services[i])'
  BY DistinctStays DEF DescsInv
<1>1. PICK s : s = services'[i] /\ DescsOk(s)
  OBVIOUS
<1>2. DescsOk(s)'
  BY <1>1, DescsOkStable
<1>3. QED
  BY <1>1, <1>2

\* What an answer says of a handle in the range of a characteristic is right.
LEMMA DescRight ==
  ASSUME peer \in Databases, DistinctUuids, NEW s \in ServiceRecords, CharsOk(s), FullChars(s),
         Reported(UuidOf(s.start)) # Unknown, NEW k \in 1..Len(s.chars),
         NEW h \in DOMAIN Attrs, s.chars[k].value <= h, h <= s.chars[k].end
  PROVE  DescOk(s, s.chars[k], Desc(h))
<1>1. PICK c : c = s.chars[k].decl
  OBVIOUS
<1>2. /\ c \in CharsOf(s.start) /\ s.chars[k].value = c + 1
      /\ s.chars[k].uuid = Reported(UuidOf(c))
  BY <1>1 DEF CharsOk
<1>3. h \in DescsOf(s.start, c)
  BY <1>1, DescRange
<1>4. c \in DOMAIN Attrs /\ KindOf(c) = "char"
  BY <1>2 DEF CharsOf
<1>5. Desc(h).handle = h /\ Desc(h).uuid = IF KindOf(h) = "char" THEN Declaration ELSE Reported(UuidOf(h))
  BY DEF Desc
<1>6. h = c + 1 => Desc(h).uuid = Reported(UuidOf(c))
  <2>1. KindOf(c + 1) = "attr" /\ UuidOf(c + 1) = UuidOf(c)
    BY <1>4, AttributesAssumption DEF KindOf, UuidOf, Attrs
  <2>2. QED
    BY <1>5, <2>1
<1>7. UuidOf(h) = Cccd => Desc(h).uuid = Cccd
  <2>1. KindOf(h) # "char"
    <3>1. h > c /\ Within(s.start, h) /\ ~\E d \in CharsOf(s.start) : c < d /\ d <= h
      BY <1>3 DEF DescsOf
    <3>2. h \in Int /\ c \in Int
      BY <1>4, AttributesOfPeer
    <3>3. QED
      BY <3>1, <3>2 DEF CharsOf
  <2>2. Reported(Cccd) = Cccd
    BY AttributesAssumption DEF Reported, Vendor
  <2>3. QED
    BY <1>5, <2>1, <2>2
<1>8. QED
  BY <1>1, <1>2, <1>3, <1>5, <1>6, <1>7 DEF DescOk

LEMMA DescsStep ==
  ASSUME Typed, RangeInv, NameInv, LoopInv, DescsInv, [Next]_discVars
  PROVE  DescsInv'
<1>1. /\ peer \in Databases /\ peer' = peer /\ services \in Seq(ServiceRecords)
      /\ Len(services) \in Nat
  BY PeerFixed DEF Typed
<1> SUFFICES ASSUME DistinctUuids PROVE DescsInv'
  BY <1>1, DistinctStays DEF DescsInv
<1>2. OkInv /\ KnownInv /\ PassInv
  BY DEF RangeInv, DistinctUuids
<1>3. \A i \in 1..Len(services) : DescsOk(services[i])
  BY DEF DescsInv
<1>10. CASE services' = services
  BY <1>1, <1>3, <1>10, DescsKept
<1>11. ASSUME NEW hs \in Listings(ask), OnServices(hs) \/ OnRediscovered(hs) PROVE DescsInv'
  <2>1. ASSUME NEW i \in 1..Len(services') PROVE DescsOk(services'[i])
    <3>1. CASE i \in 1..Len(services)
      <4>1. services'[i] = services[i]
        BY <1>11, <3>1, ServicesPut
      <4>2. QED
        BY <1>3, <3>1, <4>1
    <3>2. CASE i \notin 1..Len(services)
      <4>1. services'[i].chars = <<>>
        BY <1>11, <3>2, ServicesPut
      <4>2. Len(services'[i].chars) = 0
        BY <4>1
      <4>3. QED
        BY <4>2 DEF DescsOk
    <3>3. QED
      BY <3>1, <3>2
  <2>2. QED
    BY <1>1, <2>1, DescsKept
<1>12. ASSUME NEW hs \in Listings(ask), OnChars(hs) PROVE DescsInv'
  <2>1. /\ ask.what = "chars" /\ pc = "chars" /\ si \in 1..Len(services)
        /\ Len(services') = Len(services) /\ \A i \in 1..Len(services) : i # si => services'[i] = services[i]
    BY <1>12, OneReplaced DEF OnChars, Found
  <2>2. PICK s \in ServiceRecords : s = services[si] /\ DescsOk(s)
    BY <1>1, <1>3, <2>1
  <2>3. PICK new : new = AddChars(s, hs) /\ services'[si] = new
    BY <1>1, <1>12, <2>1, <2>2 DEF OnChars
  <2>4. Grown(s, new)
    <3>1. Len(hs) \in Nat /\ DOMAIN hs = 1..Len(hs)
      BY <1>1, Listed
    <3>2. ASSUME NEW i \in 1..Len(hs) PROVE hs[i] \in CharsOf(s.start)
      <4>1. hs[i] \in DOMAIN Attrs /\ Answered(ask, hs[i]) /\ hs[i] \in Int
        BY <1>1, <3>1, Listed, AttributesOfPeer
      <4>2. s.start <= ask.from /\ ask.to = s.end /\ ask.from \in Int
        BY <1>2, <2>1, <2>2 DEF PassInv, CharsPass, Typed, Asks
      <4>3. s.start \in Int /\ s.end \in Int /\ s.end = EndOfService(s.start)
        BY <1>1, ServiceEnds DEF ServiceRecords, Handles
      <4>4. QED
        BY <2>1, <4>1, <4>2, <4>3 DEF Answered, CharsOf, Within
    <3>3. QED
      BY <1>1, <2>3, <3>1, <3>2, CharsGrown
  <2>5. Len(s.chars) \in Nat /\ Len(new.chars) \in Nat
    BY <2>4 DEF Grown, ServiceRecords
  <2>6. DescsOk(new)
    <3> SUFFICES ASSUME NEW k \in 1..Len(new.chars), NEW m \in 1..Len(new.chars[k].descs)
                 PROVE  DescOk(new, new.chars[k], new.chars[k].descs[m])
      BY DEF DescsOk
    <3>1. CASE k \in 1..Len(s.chars)
      <4>1. CharKept(s.chars[k], new.chars[k]) /\ new.start = s.start
        BY <2>4, <3>1 DEF Grown
      <4>2. DescOk(s, s.chars[k], new.chars[k].descs[m])
        BY <2>2, <3>1, <4>1 DEF DescsOk, CharKept
      <4>3. QED
        BY <4>1, <4>2 DEF DescOk, CharKept
    <3>2. CASE k \notin 1..Len(s.chars)
      <4>1. k > Len(s.chars)
        BY <2>5, <3>2
      <4>2. new.chars[k].descs = <<>>
        BY <2>4, <4>1 DEF Grown
      <4>3. Len(new.chars[k].descs) = 0
        BY <4>2
      <4>4. QED
        BY <4>3
    <3>3. QED
      BY <3>1, <3>2
  <2>7. QED
    BY <1>1, <1>3, <2>1, <2>3, <2>6, DescsKept
<1>13. ASSUME NEW hs \in Listings(ask), OnDescs(hs) PROVE DescsInv'
  <2>1. /\ ask.what = "descs" /\ pc = "descs" /\ si \in 1..Len(services)
        /\ Len(services') = Len(services) /\ \A i \in 1..Len(services) : i # si => services'[i] = services[i]
    BY <1>13, OneReplaced DEF OnDescs, Found
  <2>2. PICK s \in ServiceRecords : /\ s = services[si] /\ DescsOk(s) /\ CharsOk(s)
                                    /\ Reported(UuidOf(s.start)) # Unknown
    BY <1>2, <1>3, <2>1, AllKnown DEF OkInv
  <2>3. FullChars(s) /\ DescsPass(s, ci, ask.from)
    BY <2>1, <2>2 DEF LoopInv
  <2>4. PICK new : new = services'[si]
    OBVIOUS
  <2>5. PICK k \in 1..Len(s.chars) : k = ci /\ Described(s, new, k, hs)
    BY <1>13, <2>2, <2>4, DescsPut
  <2>6. ask.to = s.chars[k].end /\ s.chars[k].value <= ask.from /\ ask.from \in Int
    BY <1>2, <2>1, <2>2, <2>3, <2>5 DEF PassInv, DescsPass, Typed, Asks
  <2>7. ASSUME NEW j \in 1..Len(hs) PROVE DescOk(s, s.chars[k], Desc(hs[j]))
    <3>1. PICK h \in DOMAIN Attrs : h = hs[j] /\ Answered(ask, h)
      BY <1>1, Listed
    <3>2. s.chars[k].value <= h /\ h <= s.chars[k].end
      <4>1. DOMAIN s.chars = 1..Len(s.chars)
        BY DEF ServiceRecords
      <4>2. s.chars[k].value \in Int /\ h \in Int
        BY <1>1, <4>1, CharTyped, AttributesOfPeer
      <4>3. QED
        BY <2>6, <3>1, <4>2 DEF Answered
    <3>3. QED
      BY <1>1, <2>2, <2>3, <3>1, <3>2, DescRight
  <2>8. DescsOk(new)
    <3> SUFFICES ASSUME NEW i \in 1..Len(new.chars), NEW n \in 1..Len(new.chars[i].descs)
                 PROVE  DescOk(new, new.chars[i], new.chars[i].descs[n])
      BY DEF DescsOk
    <3>1. /\ i \in 1..Len(s.chars) /\ new.start = s.start /\ new.chars[i].decl = s.chars[i].decl
          /\ new.chars[i].value = s.chars[i].value /\ new.chars[i].uuid = s.chars[i].uuid
      BY <2>5 DEF Described
    <3>2. DescOk(s, s.chars[i], new.chars[i].descs[n])
      <4>1. CASE i = k
        <5>1. \/ \E m \in 1..Len(s.chars[k].descs) : new.chars[k].descs[n] = s.chars[k].descs[m]
              \/ \E j \in 1..Len(hs) : new.chars[k].descs[n] = Desc(hs[j])
          BY <2>5, <4>1 DEF Described
        <5>2. QED
          BY <2>2, <2>7, <4>1, <5>1 DEF DescsOk
      <4>2. CASE i # k
        <5>1. new.chars[i].descs = s.chars[i].descs
          BY <2>5, <3>1, <4>2 DEF Described
        <5>2. QED
          BY <2>2, <3>1, <5>1 DEF DescsOk
      <4>3. QED
        BY <4>1, <4>2
    <3>3. QED
      BY <3>1, <3>2 DEF DescOk
  <2>9. QED
    BY <1>1, <1>3, <2>1, <2>4, <2>8, DescsKept
<1>14. ASSUME NEW u, Call(u) PROVE services' = services
  BY <1>14 DEF Call
<1>15. OnNoMoreServices \/ NextVendor \/ OnRead \/ NextService \/ OnNoMoreChars \/ NextChar
          \/ OnNoMoreDescs \/ Raise \/ PassOverVendor \/ OnError \/ Refuse \/ Lose \/ Disconnect
          \/ UNCHANGED discVars => services' = services
  BY DEF OnNoMoreServices, NextVendor, OnRead, NextService, OnNoMoreChars, NextChar, OnNoMoreDescs, Raise,
         PassOverVendor, OnError, Refuse, Lose, Disconnect, discVars, dataVars
<1>16. QED
  BY <1>10, <1>11, <1>12, <1>13, <1>14, <1>15 DEF Next, Step

-----------------------------------------------------------------------------
(* The database of a call that has found everything.                        *)

LEMMA DatabaseHolds ==
  ASSUME VendorPerResponse = 1
  PROVE  Spec => [](NameInv /\ LoopInv /\ DescsInv /\ FoundInv)
<1>1. Init => LoopInv /\ DescsInv /\ FoundInv
  <2> SUFFICES ASSUME Init PROVE LoopInv /\ DescsInv /\ FoundInv
    OBVIOUS
  <2>1. services = <<>> /\ Len(services) = 0 /\ pc = "idle" /\ outcome = "none_yet"
    BY DEF Init
  <2>2. QED
    BY <2>1 DEF LoopInv, DescsInv, FoundInv
<1>2. Typed /\ RangeInv /\ NameInv /\ NameInv' /\ LoopInv /\ DescsInv /\ FoundInv /\ [Next]_discVars
        => LoopInv' /\ DescsInv' /\ FoundInv'
  BY LoopStep, DescsStep, FoundStep
<1>3. Spec => []NameInv
  BY NameHolds
<1>4. QED
  BY <1>1, <1>2, <1>3, TypedHolds, RangeHolds, PTL DEF Spec

WholeService(s) ==
  /\ s \in ServiceRecords
  /\ s.uuid = UuidOf(s.start) /\ Reported(UuidOf(s.start)) # Unknown
  /\ CharsOk(s) /\ Full(s) /\ DescsOk(s)
WholeDb == (\A i \in 1..Len(services) : WholeService(services[i])) /\ \A h \in Starts : InDb(h)
CallDone == pc = "idle" /\ outcome = "success" /\ want = NoUuid /\ ~skipped /\ DistinctUuids

LEMMA WholeWhenDone ==
  ASSUME Typed, RangeInv, NameInv, LoopInv, DescsInv, FoundInv, CallDone
  PROVE  WholeDb
<1>1. OkInv /\ KnownInv
  BY DEF RangeInv, CallDone, DistinctUuids
<1>2. ASSUME NEW i \in 1..Len(services)
      PROVE  WholeService(services[i])
  <2>1. /\ services[i] \in ServiceRecords /\ services[i].uuid = UuidOf(services[i].start)
        /\ Reported(UuidOf(services[i].start)) # Unknown
    BY <1>1, AllKnown
  <2>2. CharsOk(services[i])
    BY <1>1 DEF OkInv
  <2>3. Full(services[i]) /\ DescsOk(services[i])
    BY DEF LoopInv, DescsInv, CallDone
  <2>4. QED
    BY <2>1, <2>2, <2>3 DEF WholeService
<1>3. \A h \in Starts : InDb(h)
  BY DEF FoundInv, CallDone
<1>4. QED
  BY <1>2, <1>3 DEF WholeDb

\* The characteristics of a whole service, and their descriptors, are the peer's.
LEMMA CharsWhole ==
  ASSUME peer \in Databases, DistinctUuids, NEW s, WholeService(s)
  PROVE  {<<c.decl, c.uuid, {d.handle : d \in ToSet(c.descs)}>> : c \in ToSet(s.chars)}
           = {<<c, Reported(UuidOf(c)), DescsOf(s.start, c)>> : c \in CharsOf(s.start)}
<1>1. /\ s \in ServiceRecords /\ CharsOk(s) /\ Full(s) /\ DescsOk(s)
      /\ Reported(UuidOf(s.start)) # Unknown
  BY DEF WholeService
<1>2. s.chars \in Seq(CharRecords) /\ DOMAIN s.chars = 1..Len(s.chars)
  BY <1>1 DEF ServiceRecords
<1>3. ASSUME NEW k \in 1..Len(s.chars)
      PROVE  {d.handle : d \in ToSet(s.chars[k].descs)} = DescsOf(s.start, s.chars[k].decl)
  <2>1. PICK e \in Seq(DescRecords) : e = s.chars[k].descs
    <3>1. s.chars[k] \in CharRecords
      BY <1>1, <1>2, CharTyped
    <3>2. QED
      BY <3>1 DEF CharRecords
  <2>2. ToSet(e) = {e[m] : m \in 1..Len(e)}
    BY DEF ToSet
  <2>3. \A m \in 1..Len(e) : e[m].handle \in DescsOf(s.start, s.chars[k].decl)
    BY <1>1, <2>1 DEF DescsOk, DescOk
  <2>4. \A h \in DescsOf(s.start, s.chars[k].decl) : \E m \in 1..Len(e) : e[m].handle = h
    BY <1>1, <2>1 DEF Full, FullDescs, HasDesc
  <2>5. \A h : (\E d \in ToSet(e) : h = d.handle) <=> h \in DescsOf(s.start, s.chars[k].decl)
    BY <2>2, <2>3, <2>4
  <2>6. QED
    BY <2>1, <2>5
<1>4. ToSet(s.chars) = {s.chars[k] : k \in 1..Len(s.chars)}
  BY <1>2 DEF ToSet
<1>5. \A k \in 1..Len(s.chars) : /\ s.chars[k].decl \in CharsOf(s.start)
                                 /\ s.chars[k].uuid = Reported(UuidOf(s.chars[k].decl))
  BY <1>1 DEF CharsOk
<1>6. \A c \in CharsOf(s.start) : \E k \in 1..Len(s.chars) : s.chars[k].decl = c
  BY <1>1, CharPresent DEF Full, FullChars
<1> DEFINE Of(c) == <<c.decl, c.uuid, {d.handle : d \in ToSet(c.descs)}>>
           At(c) == <<c, Reported(UuidOf(c)), DescsOf(s.start, c)>>
<1>7. \A k \in 1..Len(s.chars) : Of(s.chars[k]) = At(s.chars[k].decl)
  BY <1>3, <1>5
<1> HIDE DEF Of, At
<1>8. {Of(c) : c \in ToSet(s.chars)} = {At(c) : c \in CharsOf(s.start)}
  <2>1. ASSUME NEW c \in ToSet(s.chars)
        PROVE  \E d \in CharsOf(s.start) : Of(c) = At(d)
    <3>1. PICK k \in 1..Len(s.chars) : c = s.chars[k]
      BY <1>4
    <3>2. Of(c) = At(s.chars[k].decl)
      BY <1>7, <3>1
    <3>3. QED
      BY <1>5, <3>2
  <2>2. ASSUME NEW d \in CharsOf(s.start)
        PROVE  \E c \in ToSet(s.chars) : At(d) = Of(c)
    <3>1. PICK k \in 1..Len(s.chars) : s.chars[k].decl = d
      BY <1>6
    <3>2. Of(s.chars[k]) = At(d)
      BY <1>7, <3>1
    <3>3. s.chars[k] \in ToSet(s.chars)
      BY <1>4
    <3>4. QED
      BY <3>2, <3>3
  <2>3. QED
    BY <2>1, <2>2
<1>9. QED
  BY <1>8 DEF Of, At

LEMMA TreeWhole ==
  ASSUME Typed, DistinctUuids, WholeDb
  PROVE  DbTree = PeerTree
<1>1. peer \in Databases /\ services \in Seq(ServiceRecords) /\ DOMAIN services = 1..Len(services)
  BY DEF Typed
<1> DEFINE OfDb(s) == {<<c.decl, c.uuid, {d.handle : d \in ToSet(c.descs)}>> : c \in ToSet(s.chars)}
           OfPeer(h) == {<<c, Reported(UuidOf(c)), DescsOf(h, c)>> : c \in CharsOf(h)}
<1>2. \A i \in 1..Len(services) : /\ services[i].start \in Starts
                                  /\ services[i].uuid = UuidOf(services[i].start)
  BY DEF WholeDb, WholeService, ServiceRecords
<1>3. ASSUME NEW i \in 1..Len(services)
      PROVE  OfDb(services[i]) = OfPeer(services[i].start)
  <2>1. PICK s : s = services[i] /\ WholeService(s)
    BY DEF WholeDb
  <2>2. OfDb(s) = OfPeer(s.start)
    BY <1>1, <2>1, CharsWhole
  <2>3. QED
    BY <2>1, <2>2
<1>4. ToSet(services) = {services[i] : i \in 1..Len(services)}
  BY <1>1 DEF ToSet
<1>5. \A h \in Starts : \E i \in 1..Len(services) : services[i].start = h
  BY DEF WholeDb, InDb
<1>6. /\ DbTree = {<<s.start, s.uuid, OfDb(s)>> : s \in ToSet(services)}
      /\ PeerTree = {<<h, UuidOf(h), OfPeer(h)>> : h \in Starts}
  BY DEF DbTree, PeerTree
<1> HIDE DEF OfDb, OfPeer
<1>7. QED
  BY <1>2, <1>3, <1>4, <1>5, <1>6

\* Services do not overlap.
LEMMA OneService ==
  ASSUME peer \in Databases, NEW s \in Starts, NEW t \in Starts, NEW h \in Int,
         s <= h, h <= EndOfService(s), t <= h, h <= EndOfService(t)
  PROVE  s = t
<1>1. s \in Int /\ t \in Int /\ EndOfService(s) \in Int /\ EndOfService(t) \in Int
  BY ServiceEnds DEF Handles
<1>2. ~(t > s) /\ ~(s > t)
  BY <1>1, ServiceEnds
<1>3. QED
  BY <1>1, <1>2

\* The place of a characteristic in a whole database.
LEMMA PlaceOf ==
  ASSUME Typed, DistinctUuids, WholeDb, NEW s \in Starts, NEW c \in CharsOf(s)
  PROVE  \E p \in Db!Places(services) :
           services[p[1]].start = s /\ services[p[1]].chars[p[2]].decl = c
<1>1. peer \in Databases /\ services \in Seq(ServiceRecords)
  BY DEF Typed
<1>2. PICK i \in 1..Len(services) : services[i].start = s
  BY DEF WholeDb, InDb
<1>3. PICK r \in ServiceRecords : r = services[i] /\ WholeService(r)
  BY DEF WholeDb, WholeService
<1>4. PICK k \in 1..Len(r.chars) : r.chars[k].decl = c
  BY <1>1, <1>2, <1>3, CharPresent DEF WholeService, Full, FullChars
<1>5. PICK p : p = <<i, k>>
  OBVIOUS
<1>6. p \in Db!Places(services)
  BY <1>1, <1>3, <1>5, PlacesOf
<1>7. QED
  BY <1>2, <1>3, <1>4, <1>5, <1>6

\* What is at a place of a whole database.
LEMMA WholeAt ==
  ASSUME Typed, WholeDb, NEW p \in Db!Places(services)
  PROVE  /\ services[p[1]] \in ServiceRecords /\ services[p[1]].start \in Starts
         /\ WholeService(services[p[1]]) /\ p[2] \in 1..Len(services[p[1]].chars)
         /\ Db!CharAt(services, p) = services[p[1]].chars[p[2]]
         /\ services[p[1]].chars[p[2]].decl \in CharsOf(services[p[1]].start)
         /\ services[p[1]].chars[p[2]].value = services[p[1]].chars[p[2]].decl + 1
         /\ services[p[1]].chars[p[2]].uuid = Reported(UuidOf(services[p[1]].chars[p[2]].decl))
<1>1. services \in Seq(ServiceRecords)
  BY DEF Typed
<1>2. p[1] \in 1..Len(services) /\ p[2] \in 1..Len(services[p[1]].chars)
      /\ Db!CharAt(services, p) = services[p[1]].chars[p[2]]
  BY <1>1, PlacesOf
<1>3. WholeService(services[p[1]])
  BY <1>2 DEF WholeDb
<1>4. services[p[1]] \in ServiceRecords /\ CharsOk(services[p[1]])
  BY <1>3 DEF WholeService
<1>5. services[p[1]].start \in Starts
  BY <1>4 DEF ServiceRecords
<1>6. QED
  BY <1>2, <1>3, <1>4, <1>5 DEF CharsOk

LEMMA CccdsRight ==
  ASSUME Typed, FitsInv, DescsInv, DistinctUuids, NoCccdTwin
  PROVE  CccdHandlesRight
<1> SUFFICES ASSUME NEW u \in UuidsOf(Attrs), NEW value \in {Db!NoHandle} \cup DOMAIN Attrs,
                    Db!GetCccdHandle(services, u, value) # Db!NoHandle
             PROVE  \E s \in Starts : \E c \in CharsOf(s) :
                      /\ UuidOf(c) = u /\ value \in {Db!NoHandle, c + 1}
                      /\ Db!GetCccdHandle(services, u, value) \in DescsOf(s, c)
                      /\ UuidOf(Db!GetCccdHandle(services, u, value)) = Cccd
  BY DEF CccdHandlesRight
<1>1. peer \in Databases /\ services \in Seq(ServiceRecords)
  BY DEF Typed
<1>2. u # Unknown
  <2>1. PICK g \in DOMAIN Attrs : u = Attrs[g].uuid
    BY DEF UuidsOf
  <2>2. QED
    BY <1>1, <2>1, AttributesAssumption DEF Attrs
<1>3. PICK ps : ps = {p \in Db!WithUuid(services, u) :
                        IF value = Db!NoHandle
                          THEN ~\E q \in Db!WithUuid(services, u) : q[1] = p[1] /\ q[2] < p[2]
                          ELSE Db!CharAt(services, p).value = value}
  OBVIOUS
<1>4. PICK h : h = Db!FirstDescHandle(services, ps, Cccd)
  OBVIOUS
<1>5. h = Db!GetCccdHandle(services, u, value)
  BY <1>3, <1>4 DEF Db!GetCccdHandle
<1>6. /\ ps \in SUBSET Db!Places(services) /\ \A p \in ps : Db!CharAt(services, p).uuid = u
      /\ \A p \in ps : value = Db!NoHandle \/ Db!CharAt(services, p).value = value
  BY <1>3 DEF Db!WithUuid
<1>7. PICK p \in ps : \E m : FirstAt(services, p, m, Cccd) /\ HandleAt(services, p, m) = h
  <2>1. Db!FirstDescHandle(services, ps, Cccd) # Db!NoHandle
    BY <1>4, <1>5
  <2>2. QED
    BY <1>1, <1>4, <1>6, <2>1, DescFound
<1>8. PICK m : HasValueAt(services, p, m, Cccd) /\ HandleAt(services, p, m) = h
  BY <1>7 DEF FirstAt
<1>9. p \in Db!Places(services) /\ p[1] \in 1..Len(services)
  BY <1>1, <1>6, <1>7, FitsAt
<1>10. PICK s \in ServiceRecords : s = services[p[1]] /\ DescsOk(s) /\ CharFits(s, p[2])
  BY <1>9, FitsAt DEF DescsInv
<1>11. PICK k \in 1..Len(s.chars) : k = p[2] /\ Db!CharAt(services, p) = s.chars[k]
  BY <1>9, <1>10, FitsAt
<1>12. PICK c : c = s.chars[k].decl
  OBVIOUS
<1>13. c \in CharsOf(s.start) /\ UuidOf(c) = u /\ s.chars[k].value = c + 1
  <2>1. s.chars[k].uuid = u
    BY <1>6, <1>7, <1>11
  <2>2. QED
    BY <1>2, <1>10, <1>11, <1>12, <2>1 DEF CharFits
<1>14. value \in {Db!NoHandle, c + 1}
  BY <1>6, <1>7, <1>11, <1>13
<1>15. PICK d : d = s.chars[k].descs[m]
  OBVIOUS
<1>16. /\ Value[d.uuid] = Value[Cccd] /\ d.handle = h /\ DescFits(s, d) /\ m \in 1..Len(s.chars[k].descs)
  <2>1. /\ m \in 1..Len(services[p[1]].chars[p[2]].descs)
        /\ Value[services[p[1]].chars[p[2]].descs[m].uuid] = Value[Cccd]
        /\ services[p[1]].chars[p[2]].descs[m].handle = HandleAt(services, p, m)
        /\ DescFits(services[p[1]], services[p[1]].chars[p[2]].descs[m])
    BY <1>8, <1>9, DescAt
  <2>2. QED
    BY <1>8, <1>10, <1>11, <1>15, <2>1
<1>17. h \in DescsOf(s.start, c)
  BY <1>10, <1>12, <1>15, <1>16 DEF DescsOk, DescOk
<1>18. UuidOf(h) = Cccd
  BY <1>16, AttributesAssumption DEF DescFits, NoCccdTwin
<1>19. s.start \in Starts
  BY DEF ServiceRecords
<1>20. QED
  BY <1>5, <1>13, <1>14, <1>17, <1>18, <1>19

\* The four lookups of a characteristic c of a service s, in a whole database.
LEMMA ValueFound ==
  ASSUME Typed, FirstInv, DistinctUuids, WholeDb, NEW s \in Starts, NEW c \in CharsOf(s),
         Reported(UuidOf(c)) # Unknown
  PROVE  /\ Db!GetCharValueHandle(services, Reported(UuidOf(c)), UuidOf(s)) = c + 1
         /\ Db!GetCharHandle(services, Reported(UuidOf(c))) # Db!NoHandle
<1>1. peer \in Databases /\ services \in Seq(ServiceRecords)
  BY DEF Typed
<1>2. PICK u : u = Reported(UuidOf(c)) /\ u = UuidOf(c) /\ u # Unknown
  BY DEF Reported
<1>3. /\ c \in DOMAIN Attrs /\ KindOf(c) = "char" /\ c \in Int /\ s \in DOMAIN Attrs
      /\ UuidOf(s) # NoUuid
      /\ c + 1 \in DOMAIN Attrs /\ KindOf(c + 1) = "attr"
  <2>1. c \in DOMAIN Attrs /\ KindOf(c) = "char" /\ s \in DOMAIN Attrs
    BY DEF CharsOf, Starts
  <2>2. UuidOf(s) # NoUuid
    BY <1>1, <2>1, AttributesAssumption DEF UuidOf, Attrs
  <2>3. QED
    BY <1>1, <2>1, <2>2, AttributesOfPeer
<1>4. PICK p \in Db!Places(services) : services[p[1]].start = s /\ services[p[1]].chars[p[2]].decl = c
  BY PlaceOf
<1>5. PICK r \in ServiceRecords : /\ r = services[p[1]] /\ r.start = s /\ WholeService(r)
                                  /\ Db!CharAt(services, p) = r.chars[p[2]]
  BY <1>4, WholeAt
<1>6. PICK k \in 1..Len(r.chars) : /\ k = p[2] /\ r.chars[k].decl = c /\ r.chars[k].value = c + 1
                                   /\ r.chars[k].uuid = u
  BY <1>2, <1>4, <1>5, WholeAt
<1>7. p \in Db!WithUuid(services, u)
  BY <1>4, <1>5, <1>6 DEF Db!WithUuid
<1>8. PICK ps : ps = {q \in Db!WithUuid(services, u) : UuidOf(s) \in {NoUuid, services[q[1]].uuid}}
  OBVIOUS
<1>9. /\ ps \in SUBSET Db!Places(services)
      /\ \A q \in ps : Db!CharAt(services, q).uuid = u /\ services[q[1]].uuid = UuidOf(s)
  BY <1>3, <1>8 DEF Db!WithUuid
<1>10. p \in ps
  BY <1>5, <1>7, <1>8 DEF WholeService
<1>11. c + 1 \in DescsOf(s, c)
  <2>1. s \in Int /\ EndOfService(s) \in Int /\ s <= c /\ c + 1 <= EndOfService(s)
    <3>1. s \in Int /\ EndOfService(s) \in Int
      BY <1>1, ServiceEnds DEF Handles
    <3>2. s <= c /\ c <= EndOfService(s)
      BY <3>1 DEF CharsOf, Within
    <3>3. QED
      BY <1>1, <1>3, <3>1, <3>2, ServiceEnds
  <2>2. ASSUME NEW d \in CharsOf(s), c < d, d <= c + 1
        PROVE  FALSE
    <3>1. d \in Int /\ KindOf(d) = "char"
      BY <1>1, AttributesOfPeer DEF CharsOf
    <3>2. d = c + 1
      BY <1>3, <2>2, <3>1
    <3>3. QED
      BY <1>3, <3>1, <3>2
  <2>3. c + 1 \in s..EndOfService(s) /\ c + 1 > c
    BY <1>3, <2>1
  <2>4. QED
    BY <1>3, <2>2, <2>3 DEF DescsOf, Within
<1>12. \E m : HasValueAt(services, p, m, u)
  <2>1. PICK m \in 1..Len(r.chars[k].descs) : r.chars[k].descs[m].handle = c + 1
    BY <1>5, <1>6, <1>11 DEF WholeService, Full, FullDescs, HasDesc
  <2>2. r.chars[k].descs[m].uuid = u
    BY <1>5, <1>6, <2>1 DEF WholeService, DescsOk, DescOk
  <2>3. QED
    BY <1>5, <1>6, <2>1, <2>2 DEF HasValueAt
<1>13. PICK h : h = Db!FirstDescHandle(services, ps, u)
  OBVIOUS
<1>14. PICK q \in ps : \E m : FirstAt(services, q, m, u) /\ HandleAt(services, q, m) = h
  <2>1. \E g \in ps : \E m : HasValueAt(services, g, m, u)
    BY <1>10, <1>12
  <2>2. QED
    BY <1>1, <1>9, <1>13, <2>1, DescFound
<1>15. PICK m : FirstAt(services, q, m, u) /\ HandleAt(services, q, m) = h
  BY <1>14
<1>16. q \in Db!Places(services)
  BY <1>9, <1>14
<1>17. PICK t \in ServiceRecords : t = services[q[1]] /\ WholeService(t) /\ t.start = s
  <2>1. services[q[1]] \in ServiceRecords /\ WholeService(services[q[1]]) /\ services[q[1]].start \in Starts
    BY <1>16, WholeAt
  <2>2. UuidOf(services[q[1]].start) = UuidOf(s)
    BY <1>9, <1>14, <2>1 DEF WholeService
  <2>3. services[q[1]].start = s
    BY <2>1, <2>2 DEF DistinctUuids
  <2>4. QED
    BY <2>1, <2>3
<1>18. PICK e : e = t.chars[q[2]]
  OBVIOUS
<1>19. /\ e.uuid = u /\ e.uuid = Reported(UuidOf(e.decl)) /\ e.value = e.decl + 1
       /\ e.decl \in CharsOf(s) /\ Db!CharAt(services, q) = e
  BY <1>9, <1>14, <1>16, <1>17, <1>18, WholeAt
<1>20. e.decl = c
  <2>1. UuidOf(e.decl) = UuidOf(c)
    BY <1>2, <1>19 DEF Reported
  <2>2. QED
    BY <1>19, <2>1 DEF DistinctUuids
<1>21. h = c + 1
  BY <1>2, <1>15, <1>16, <1>19, <1>20, ValueAt
<1>22. Db!GetCharValueHandle(services, u, UuidOf(s)) = h
  BY <1>8, <1>13 DEF Db!GetCharValueHandle
<1>23. Db!GetCharHandle(services, u) # Db!NoHandle
  <2>1. PICK ws : ws = Db!WithUuid(services, u)
    OBVIOUS
  <2>2. ws \in SUBSET Db!Places(services) /\ ws # {}
    BY <1>7, <2>1 DEF Db!WithUuid
  <2>3. PICK f \in Db!Places(services) : f = Db!FirstOf(ws)
    BY <1>1, <2>2, FirstFound
  <2>4. Db!CharAt(services, f).decl \in DOMAIN Attrs
    BY <2>3, WholeAt DEF CharsOf
  <2>5. Db!CharAt(services, f).decl # 0
    BY <1>1, <2>4, AttributesOfPeer
  <2>6. Db!GetCharHandle(services, u) = Db!CharAt(services, f).decl
    BY <2>1, <2>2, <2>3 DEF Db!GetCharHandle
  <2>7. QED
    BY <2>5, <2>6 DEF Db!NoHandle
<1>24. QED
  BY <1>2, <1>21, <1>22, <1>23

LEMMA CccdFound ==
  ASSUME Typed, FitsInv, DistinctUuids, NoCccdTwin, WholeDb, NEW s \in Starts,
         NEW c \in CharsOf(s), NEW g \in DescsOf(s, c), UuidOf(g) = Cccd
  PROVE  /\ Db!GetCccdHandle(services, Reported(UuidOf(c)), c + 1) \in DescsOf(s, c)
         /\ UuidOf(Db!GetCccdHandle(services, Reported(UuidOf(c)), c + 1)) = Cccd
<1>1. peer \in Databases /\ services \in Seq(ServiceRecords)
  BY DEF Typed
<1>2. PICK u : u = Reported(UuidOf(c))
  OBVIOUS
<1>3. c \in Int /\ c + 1 # 0 /\ s <= c /\ c <= EndOfService(s)
  <2>1. c \in Int /\ c >= 1
    BY <1>1, AttributesOfPeer DEF CharsOf
  <2>2. s <= c /\ c <= EndOfService(s)
    BY <1>1, ServiceEnds DEF CharsOf, Within, Handles
  <2>3. QED
    BY <2>1, <2>2
<1>4. PICK p \in Db!Places(services) : services[p[1]].start = s /\ services[p[1]].chars[p[2]].decl = c
  BY PlaceOf
<1>5. PICK r \in ServiceRecords : /\ r = services[p[1]] /\ r.start = s /\ WholeService(r)
                                  /\ Db!CharAt(services, p) = r.chars[p[2]]
  BY <1>4, WholeAt
<1>6. PICK k \in 1..Len(r.chars) : /\ k = p[2] /\ r.chars[k].decl = c /\ r.chars[k].value = c + 1
                                   /\ r.chars[k].uuid = u
  BY <1>2, <1>4, <1>5, WholeAt
<1>7. PICK ps : ps = {q \in Db!WithUuid(services, u) :
                        IF c + 1 = Db!NoHandle
                          THEN ~\E o \in Db!WithUuid(services, u) : o[1] = q[1] /\ o[2] < q[2]
                          ELSE Db!CharAt(services, q).value = c + 1}
  OBVIOUS
<1>8. c + 1 # Db!NoHandle
  BY <1>3 DEF Db!NoHandle
<1>9. /\ ps \in SUBSET Db!Places(services) /\ p \in ps
      /\ \A q \in ps : Db!CharAt(services, q).value = c + 1
  BY <1>4, <1>5, <1>6, <1>7, <1>8 DEF Db!WithUuid
<1>10. \E m : HasValueAt(services, p, m, Cccd)
  <2>1. PICK m \in 1..Len(r.chars[k].descs) : r.chars[k].descs[m].handle = g
    BY <1>5, <1>6 DEF WholeService, Full, FullDescs, HasDesc
  <2>2. r.chars[k].descs[m].uuid = Cccd
    BY <1>5, <2>1 DEF WholeService, DescsOk, DescOk
  <2>3. QED
    BY <1>5, <1>6, <2>1, <2>2 DEF HasValueAt
<1>11. PICK h : h = Db!FirstDescHandle(services, ps, Cccd)
  OBVIOUS
<1>12. PICK q \in ps : \E m : FirstAt(services, q, m, Cccd) /\ HandleAt(services, q, m) = h
  <2>1. \E o \in ps : \E m : HasValueAt(services, o, m, Cccd)
    BY <1>9, <1>10
  <2>2. QED
    BY <1>1, <1>9, <1>11, <2>1, DescFound
<1>13. PICK m : HasValueAt(services, q, m, Cccd) /\ HandleAt(services, q, m) = h
  BY <1>12 DEF FirstAt
<1>14. q \in Db!Places(services)
  BY <1>9, <1>12
<1>15. PICK t \in ServiceRecords : /\ t = services[q[1]] /\ WholeService(t) /\ t.start \in Starts
                                   /\ Db!CharAt(services, q) = t.chars[q[2]]
  BY <1>14, WholeAt
<1>16. PICK j \in 1..Len(t.chars) : /\ j = q[2] /\ t.chars[j].decl \in CharsOf(t.start)
                                    /\ t.chars[j].value = t.chars[j].decl + 1
  BY <1>14, <1>15, WholeAt
<1>17. t.chars[j].decl = c
  <2>1. t.chars[j].value = c + 1
    BY <1>9, <1>12, <1>15, <1>16
  <2>2. t.chars[j].decl \in Int
    BY <1>1, <1>16, AttributesOfPeer DEF CharsOf
  <2>3. QED
    BY <1>3, <1>16, <2>1, <2>2
<1>18. t.start = s
  <2>1. t.start <= c /\ c <= EndOfService(t.start)
    BY <1>1, <1>15, <1>16, <1>17, ServiceEnds DEF CharsOf, Within, Handles
  <2>2. QED
    BY <1>1, <1>3, <1>15, <2>1, OneService
<1>19. PICK d : d = t.chars[j].descs[m]
  OBVIOUS
<1>20. Value[d.uuid] = Value[Cccd] /\ d.handle = h /\ DescFits(t, d) /\ m \in 1..Len(t.chars[j].descs)
  <2>1. /\ m \in 1..Len(services[q[1]].chars[q[2]].descs)
        /\ Value[services[q[1]].chars[q[2]].descs[m].uuid] = Value[Cccd]
        /\ services[q[1]].chars[q[2]].descs[m].handle = HandleAt(services, q, m)
        /\ DescFits(services[q[1]], services[q[1]].chars[q[2]].descs[m])
    BY <1>13, <1>14, DescAt
  <2>2. QED
    BY <1>13, <1>15, <1>16, <1>19, <2>1
<1>21. h \in DescsOf(s, c)
  BY <1>15, <1>17, <1>18, <1>19, <1>20 DEF WholeService, DescsOk, DescOk
<1>22. UuidOf(h) = Cccd
  BY <1>20, AttributesAssumption DEF DescFits, NoCccdTwin
<1>23. Db!GetCccdHandle(services, u, c + 1) = h
  BY <1>7, <1>11 DEF Db!GetCccdHandle
<1>24. QED
  BY <1>2, <1>21, <1>22, <1>23

LEMMA UuidFound ==
  ASSUME Typed, DistinctUuids, WholeDb, NEW s \in Starts, NEW c \in CharsOf(s), NEW h \in DescsOf(s, c)
  PROVE  Db!GetCharUuid(services, h, NoUuid) = Reported(UuidOf(c))
<1>1. peer \in Databases /\ services \in Seq(ServiceRecords)
  BY DEF Typed
<1>2. /\ h \in DOMAIN Attrs /\ h \in Int /\ s \in Int /\ EndOfService(s) \in Int
      /\ h > c /\ s <= h /\ h <= EndOfService(s) /\ c \in Int
      /\ ~\E d \in CharsOf(s) : c < d /\ d <= h
  <2>1. h \in DOMAIN Attrs /\ h > c /\ Within(s, h) /\ ~\E d \in CharsOf(s) : c < d /\ d <= h
    BY DEF DescsOf
  <2>2. h \in Int /\ s \in Int /\ EndOfService(s) \in Int /\ c \in Int
    BY <1>1, <2>1, AttributesOfPeer, ServiceEnds DEF Handles, CharsOf
  <2>3. QED
    BY <2>1, <2>2 DEF Within
<1>3. PICK ps : ps = Db!CharsAt(services, h)
  OBVIOUS
<1>4. /\ ps \in SUBSET Db!Places(services)
      /\ \A p \in Db!Places(services) :
           p \in ps <=> Db!CharAt(services, p).decl <= h /\ h <= Db!CharAt(services, p).end
  BY <1>3 DEF Db!CharsAt
<1>5. ps # {}
  <2>1. PICK p \in Db!Places(services) : services[p[1]].start = s /\ services[p[1]].chars[p[2]].decl = c
    BY PlaceOf
  <2>2. PICK r \in ServiceRecords : /\ r = services[p[1]] /\ r.start = s /\ WholeService(r)
                                    /\ Db!CharAt(services, p) = r.chars[p[2]]
    BY <2>1, WholeAt
  <2>3. PICK k \in 1..Len(r.chars) : k = p[2] /\ r.chars[k].decl = c
    BY <2>1, <2>2, WholeAt
  <2>4. h <= r.chars[k].end
    BY <1>1, <2>2, <2>3, DescRange DEF WholeService, Full
  <2>5. p \in ps
    BY <1>2, <1>4, <2>1, <2>2, <2>3, <2>4
  <2>6. QED
    BY <2>5
<1>6. PICK p \in ps : p = Db!FirstOf(ps)
  BY <1>1, <1>4, <1>5, FirstFound
<1>7. p \in Db!Places(services)
  BY <1>4, <1>6
<1>8. PICK r \in ServiceRecords : /\ r = services[p[1]] /\ WholeService(r) /\ r.start \in Starts
                                  /\ Db!CharAt(services, p) = r.chars[p[2]]
  BY <1>7, WholeAt
<1>9. PICK k \in 1..Len(r.chars) : /\ k = p[2] /\ r.chars[k].decl \in CharsOf(r.start)
                                   /\ r.chars[k].value = r.chars[k].decl + 1
                                   /\ r.chars[k].uuid = Reported(UuidOf(r.chars[k].decl))
  BY <1>7, <1>8, WholeAt
<1>10. PICK d : d = r.chars[k].decl
  OBVIOUS
<1>11. d <= h /\ h <= r.chars[k].end
  BY <1>4, <1>6, <1>7, <1>8, <1>9, <1>10
<1>12. d \in Int /\ r.start <= d /\ r.end = EndOfService(r.start) /\ r.start \in Int /\ r.end \in Int
  <2>1. r.end = EndOfService(r.start) /\ r.start \in Int /\ r.end \in Int
    BY <1>1, <1>8, ServiceEnds DEF ServiceRecords, Handles
  <2>2. d \in Int
    BY <1>1, <1>9, <1>10, AttributesOfPeer DEF CharsOf
  <2>3. r.start <= d
    BY <1>9, <1>10, <2>1, <2>2 DEF CharsOf, Within
  <2>4. QED
    BY <2>1, <2>2, <2>3
<1>13. r.chars[k].end \in Int /\ r.chars[k].end <= r.end
  <2>1. CharsOk(r) /\ DOMAIN r.chars = 1..Len(r.chars) /\ Len(r.chars) \in Nat
    BY <1>8 DEF WholeService, ServiceRecords
  <2>2. r.chars[k].end \in Int
    BY <2>1, CharTyped
  <2>3. CASE k = Len(r.chars)
    BY <1>12, <2>1, <2>3 DEF CharsOk
  <2>4. CASE k # Len(r.chars)
    <3>1. k + 1 \in 1..Len(r.chars)
      BY <2>1, <2>4
    <3>2. r.chars[k].end = r.chars[k + 1].decl - 1 /\ r.chars[k + 1].decl \in CharsOf(r.start)
      BY <2>1, <2>4, <3>1 DEF CharsOk
    <3>3. r.chars[k + 1].decl \in Int /\ r.chars[k + 1].decl <= r.end
      BY <1>1, <1>12, <3>2, AttributesOfPeer DEF CharsOf, Within
    <3>4. QED
      BY <1>12, <2>2, <3>2, <3>3
  <2>5. QED
    BY <2>2, <2>3, <2>4
<1>14. r.start = s
  <2>1. r.start <= h /\ h <= EndOfService(r.start)
    BY <1>2, <1>11, <1>12, <1>13
  <2>2. QED
    BY <1>1, <1>2, <1>8, <2>1, OneService
<1>15. ~(c < d)
  BY <1>2, <1>9, <1>10, <1>11, <1>14
<1>16. ~(d < c)
  <2> SUFFICES ASSUME d < c PROVE FALSE
    OBVIOUS
  <2>1. r.chars[k].value <= h
    BY <1>2, <1>9, <1>10, <1>12
  <2>2. h \in DescsOf(s, d)
    BY <1>1, <1>2, <1>8, <1>10, <1>11, <1>14, <2>1, DescRange DEF WholeService, Full
  <2>3. QED
    BY <1>2, <2>2 DEF DescsOf
<1>17. d = c
  BY <1>2, <1>12, <1>15, <1>16
<1>18. Db!GetCharUuid(services, h, NoUuid) = Db!CharAt(services, p).uuid
  BY <1>3, <1>5, <1>6 DEF Db!GetCharUuid
<1>19. QED
  BY <1>8, <1>9, <1>10, <1>17, <1>18

(* The value handle that is looked up for a uuid is, at any moment of any   *)
(* discovery (get_char_value_handle), that of a characteristic with it.     *)
THEOREM ValueHandlesAreRight == Spec => []ValueHandlesRight
<1>1. Typed /\ FitsInv /\ FirstInv => ValueHandlesRight
  BY ValuesRight
<1>2. QED
  BY <1>1, TypedHolds, FitsHolds, FirstHolds, PTL

(* And so is what get_cccd_handle finds, although it looks at values only,  *)
(* with one vendor service in an answer, if the peer's uuids are distinct   *)
(* and none of them has the value of the cccd and another base.             *)
THEOREM LookupsAreRight ==
  ASSUME VendorPerResponse = 1
  PROVE  Spec => []LookupsFindRightAttributes
<1>1. Typed /\ FitsInv /\ FirstInv /\ DescsInv => LookupsFindRightAttributes
  BY ValuesRight, CccdsRight DEF LookupsFindRightAttributes
<1>2. Spec => [](NameInv /\ LoopInv /\ DescsInv /\ FoundInv)
  BY DatabaseHolds
<1>3. QED
  BY <1>1, <1>2, TypedHolds, FitsHolds, FirstHolds, PTL

(* A call without uuid that returns success has found every service,        *)
(* characteristic and descriptor where it belongs, whatever the sizes of    *)
(* the answers (service_discovery), with one vendor service in an answer.   *)
THEOREM DatabaseIsComplete ==
  ASSUME VendorPerResponse = 1
  PROVE  Spec => []DatabaseComplete
<1>1. Typed /\ RangeInv /\ NameInv /\ LoopInv /\ DescsInv /\ FoundInv => DatabaseComplete
  BY WholeWhenDone, TreeWhole DEF DatabaseComplete, CallDone
<1>2. Spec => [](NameInv /\ LoopInv /\ DescsInv /\ FoundInv)
  BY DatabaseHolds
<1>3. QED
  BY <1>1, <1>2, TypedHolds, RangeHolds, PTL

(* After such a call every characteristic is found by its uuid, with its    *)
(* value handle and, if the peer has no twin of it, its cccd, and from the  *)
(* handle of a notification.                                                *)
THEOREM LookupsAreComplete ==
  ASSUME VendorPerResponse = 1
  PROVE  Spec => []LookupsComplete
<1>1. ASSUME Typed, RangeInv, FitsInv, FirstInv, NameInv, LoopInv, DescsInv, FoundInv
      PROVE  LookupsComplete
  <2> SUFFICES ASSUME CallDone, NEW s \in Starts, NEW c \in CharsOf(s)
               PROVE  LET u == Reported(UuidOf(c))
                          cccds == {h \in DescsOf(s, c) : UuidOf(h) = Cccd}
                      IN  /\ u # Unknown =>
                               /\ Db!GetCharValueHandle(services, u, UuidOf(s)) = c + 1
                               /\ Db!GetCharHandle(services, u) # Db!NoHandle
                               /\ cccds # {} /\ NoCccdTwin => Db!GetCccdHandle(services, u, c + 1) \in cccds
                          /\ \A h \in DescsOf(s, c) : Db!GetCharUuid(services, h, NoUuid) = u
    BY DEF LookupsComplete, CallDone
  <2>1. WholeDb /\ DistinctUuids
    BY <1>1, WholeWhenDone DEF CallDone
  <2>2. Reported(UuidOf(c)) # Unknown =>
          /\ Db!GetCharValueHandle(services, Reported(UuidOf(c)), UuidOf(s)) = c + 1
          /\ Db!GetCharHandle(services, Reported(UuidOf(c))) # Db!NoHandle
    BY <1>1, <2>1, ValueFound
  <2>3. NoCccdTwin => \A g \in DescsOf(s, c) : UuidOf(g) = Cccd =>
          /\ Db!GetCccdHandle(services, Reported(UuidOf(c)), c + 1) \in DescsOf(s, c)
          /\ UuidOf(Db!GetCccdHandle(services, Reported(UuidOf(c)), c + 1)) = Cccd
    BY <1>1, <2>1, CccdFound
  <2>4. \A h \in DescsOf(s, c) : Db!GetCharUuid(services, h, NoUuid) = Reported(UuidOf(c))
    BY <1>1, <2>1, UuidFound
  <2>5. QED
    BY <2>2, <2>3, <2>4
<1>2. Spec => [](NameInv /\ LoopInv /\ DescsInv /\ FoundInv)
  BY DatabaseHolds
<1>3. Typed /\ RangeInv /\ FitsInv /\ FirstInv /\ NameInv /\ LoopInv /\ DescsInv /\ FoundInv => LookupsComplete
  BY <1>1
<1>4. QED
  BY <1>2, <1>3, TypedHolds, RangeHolds, FitsHolds, FirstHolds, PTL
=============================================================================
