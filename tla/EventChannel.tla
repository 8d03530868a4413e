---------------------------- MODULE EventChannel ----------------------------
(***************************************************************************)
(* What the event path of a driver promises to its observers: a channel    *)
(* that takes items in, hands them over in the order it took them in, each *)
(* at most once, and may drop everything it still holds (close does).      *)
(* Items are numbered in the order in which they are taken in.             *)
(***************************************************************************)
EXTENDS Integers, Sequences

CONSTANTS
  Channels   \* one for each driver and stream

VARIABLES
  accepted,  \* accepted[c]: how many items c has taken in
  pending,   \* pending[c]: the items it holds, oldest first
  handed     \* handed[c]: the items it has handed over, in order

channelVars == <<accepted, pending, handed>>

TypeOK ==
  /\ accepted \in [Channels -> Nat]
  /\ pending \in [Channels -> Seq(Nat)]
  /\ handed \in [Channels -> Seq(Nat)]

Init ==
  /\ accepted = [c \in Channels |-> 0]
  /\ pending = [c \in Channels |-> <<>>]
  /\ handed = [c \in Channels |-> <<>>]

Accept(c) ==
  /\ accepted' = [accepted EXCEPT ![c] = @ + 1]
  /\ pending' = [pending EXCEPT ![c] = Append(@, accepted[c] + 1)]
  /\ UNCHANGED handed

HandOver(c) ==
  /\ pending[c] # <<>>
  /\ handed' = [handed EXCEPT ![c] = Append(@, Head(pending[c]))]
  /\ pending' = [pending EXCEPT ![c] = Tail(@)]
  /\ UNCHANGED accepted

Drop(c) ==
  /\ pending' = [pending EXCEPT ![c] = <<>>]
  /\ UNCHANGED <<accepted, handed>>

Next == \E c \in Channels : Accept(c) \/ HandOver(c) \/ Drop(c)

Spec == Init /\ [][Next]_channelVars

Increasing(s) == \A i, j \in 1..Len(s) : i < j => s[i] < s[j]

(* Items are handed over in the order in which they came, none twice.       *)
InOrder == \A c \in Channels : Increasing(handed[c])
=============================================================================
