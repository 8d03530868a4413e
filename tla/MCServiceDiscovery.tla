------------------------- MODULE MCServiceDiscovery -------------------------
(* ServiceDiscovery for TLC: a few peers.                                  *)
EXTENDS ServiceDiscovery

S(u) == [kind |-> "service", uuid |-> u]
C(u) == [kind |-> "char", uuid |-> u]
A(u) == [kind |-> "attr", uuid |-> u]

\* Two services with a characteristic of the same uuid, each with a cccd.
Plain == <<S("s1"), C("c1"), A("c1"), A("cccd"), C("c2"), A("c2"), S("s2"), C("c1"), A("c1"), A("cccd")>>
\* A vendor service between two others, one of them empty.
WithVendor == <<S("s1"), S("v1"), C("c1"), A("c1"), S("s2"), C("c2"), A("c2"), A("cccd")>>
\* Two vendor services.
TwoVendor == <<S("v1"), C("c1"), A("c1"), S("v2"), C("c2"), A("c2")>>
\* A vendor service with two characteristics of its base and one of another.
OwnVendor == <<S("v1"), C("v1a"), A("v1a"), C("c1"), A("c1"), C("v1b"), A("v1b"), A("cccd"), C("w"), A("w")>>
\* Two vendor services, the second with a standard characteristic between two of its base.
MixedVendor == <<S("v1"), S("v2"), C("v2a"), A("v2a"), C("c1"), A("c1"), C("v2b"), A("v2b"), A("cccd")>>
\* Services and characteristics with equal uuids.
Equal == <<S("s1"), C("c1"), A("c1"), C("c1"), A("c1"), A("cccd"), S("s1")>>
\* Two vendor services, the second of the value that stands for unknown, with a
\* characteristic of the value of the cccd before one.
Twins == <<S("v1"), C("c1"), A("c1"), S("v0"), C("t"), A("t"), A("cccd")>>

Peers ==
  [attrs : {Plain, WithVendor, TwoVendor, OwnVendor, MixedVendor, Equal, Twins}, top : BOOLEAN]
SimplePeers == [attrs : {Plain}, top : {TRUE}]
Bases ==
  [v1 |-> "base1", v1a |-> "base1", v1b |-> "base1", v2 |-> "base2", v2a |-> "base2",
   v2b |-> "base2", v0 |-> "base2", t |-> "base2", w |-> "base3"]
\* Three uuids with bases have the value of another one.
Values ==
  [u \in UNION {UuidsOf(p.attrs) : p \in Peers} \cup {Unknown, Declaration, NoUuid} |->
     CASE u = "v0" -> Unknown [] u = "t" -> Cccd [] u = "v1a" -> "c1" [] OTHER -> u]
=============================================================================
