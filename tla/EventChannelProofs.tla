------------------------- MODULE EventChannelProofs -------------------------
(***************************************************************************)
(* A channel hands items over in order, for any number of channels.        *)
(* BLEDriver implements the channel (BLEDriverProofs), so its observers    *)
(* get events, status messages and log messages in order and none twice.   *)
(***************************************************************************)
EXTENDS EventChannel, TLAPS

\* What a channel took in, holds and handed over keeps its type.
LEMMA TypeCorrect == Spec => []TypeOK
<1>1. Init => TypeOK
  BY DEF Init, TypeOK
<1>2. TypeOK /\ [Next]_channelVars => TypeOK'
  <2> SUFFICES ASSUME TypeOK, [Next]_channelVars PROVE TypeOK'
    OBVIOUS
  <2>1. ASSUME NEW c \in Channels, Accept(c) PROVE TypeOK'
    BY <2>1 DEF TypeOK, Accept
  <2>2. ASSUME NEW c \in Channels, HandOver(c) PROVE TypeOK'
    <3>1. Head(pending[c]) \in Nat /\ Tail(pending[c]) \in Seq(Nat)
      BY <2>2 DEF TypeOK, HandOver
    <3>2. QED
      BY <2>2, <3>1 DEF TypeOK, HandOver
  <2>3. ASSUME NEW c \in Channels, Drop(c) PROVE TypeOK'
    BY <2>3 DEF TypeOK, Drop
  <2>4. CASE UNCHANGED channelVars
    BY <2>4 DEF TypeOK, channelVars
  <2>5. QED
    BY <2>1, <2>2, <2>3, <2>4 DEF Next
<1>3. QED
  BY <1>1, <1>2, PTL DEF Spec

-----------------------------------------------------------------------------
(* What makes InOrder inductive: what a channel holds is in order too, came *)
(* after all that it has handed over, and before all that is still to come. *)
HeldInOrder(c) ==
  /\ Increasing(pending[c])
  /\ \A i \in 1..Len(pending[c]) : pending[c][i] <= accepted[c]
  /\ \A i \in 1..Len(handed[c]) :
       /\ handed[c][i] <= accepted[c]
       /\ \A j \in 1..Len(pending[c]) : handed[c][i] < pending[c][j]

OrderInv == InOrder /\ \A c \in Channels : HeldInOrder(c)

\* A sequence in order stays so without its first item, which is below all
\* that remain, and with a new last item that is above all the others.
LEMMA IncreasingTail ==
  ASSUME NEW s \in Seq(Nat), s # <<>>, Increasing(s)
  PROVE  /\ Increasing(Tail(s))
         /\ \A i \in 1..Len(Tail(s)) : Head(s) < Tail(s)[i] /\ Tail(s)[i] = s[i + 1]
BY DEF Increasing

LEMMA IncreasingAppend ==
  ASSUME NEW s \in Seq(Nat), NEW n \in Nat, Increasing(s), \A i \in 1..Len(s) : s[i] < n
  PROVE  Increasing(Append(s, n))
BY DEF Increasing

(* Items are handed over in the order in which they came, none twice.       *)
THEOREM HandedOverInOrder == Spec => []InOrder
<1>1. Init => OrderInv
  BY DEF Init, OrderInv, InOrder, HeldInOrder, Increasing
<1>2. TypeOK /\ OrderInv /\ [Next]_channelVars => OrderInv'
  <2> SUFFICES ASSUME TypeOK, OrderInv, [Next]_channelVars PROVE OrderInv'
    OBVIOUS
  <2>1. ASSUME NEW c \in Channels, Accept(c) PROVE OrderInv'
    <3>1. ASSUME NEW d \in Channels PROVE Increasing(handed[d])' /\ HeldInOrder(d)'
      <4>1. CASE d # c
        BY <2>1, <4>1 DEF Accept, TypeOK, OrderInv, InOrder, HeldInOrder, Increasing
      <4>2. CASE d = c
        <5>1. /\ pending'[c] = Append(pending[c], accepted[c] + 1)
              /\ accepted'[c] = accepted[c] + 1
              /\ handed' = handed
          BY <2>1 DEF Accept, TypeOK
        <5>2. /\ pending[c] \in Seq(Nat) /\ handed[c] \in Seq(Nat) /\ accepted[c] \in Nat
              /\ \A i \in 1..Len(pending[c]) : pending[c][i] \in Nat
              /\ \A i \in 1..Len(handed[c]) : handed[c][i] \in Nat
              /\ HeldInOrder(c) /\ Increasing(handed[c])
          BY DEF TypeOK, OrderInv, InOrder
        <5>3. Increasing(pending'[c])
          <6>1. accepted[c] + 1 \in Nat /\ \A i \in 1..Len(pending[c]) : pending[c][i] < accepted[c] + 1
            BY <5>2 DEF HeldInOrder
          <6>2. QED
            BY <5>1, <5>2, <6>1, IncreasingAppend DEF HeldInOrder
        <5>4. /\ Len(pending'[c]) = Len(pending[c]) + 1
              /\ \A i \in 1..Len(pending'[c]) :
                   pending'[c][i] = IF i <= Len(pending[c]) THEN pending[c][i] ELSE accepted[c] + 1
          BY <5>1, <5>2
        <5>5. ASSUME NEW i \in 1..Len(pending'[c]) PROVE pending'[c][i] <= accepted'[c]
          <6>1. CASE i <= Len(pending[c])
            <7>1. i \in 1..Len(pending[c])
              BY <5>2, <5>4, <6>1
            <7>2. pending[c][i] \in Nat /\ pending[c][i] <= accepted[c]
              BY <5>2, <7>1 DEF HeldInOrder
            <7>3. pending'[c][i] = pending[c][i]
              BY <5>4, <6>1
            <7>4. QED
              BY <5>1, <5>2, <7>2, <7>3
          <6>2. CASE ~(i <= Len(pending[c]))
            <7>1. pending'[c][i] = accepted[c] + 1
              BY <5>4, <6>2
            <7>2. QED
              BY <5>1, <5>2, <7>1
          <6>3. QED
            BY <6>1, <6>2
        <5>6. ASSUME NEW i \in 1..Len(handed[c])
              PROVE  /\ handed[c][i] <= accepted'[c]
                     /\ \A j \in 1..Len(pending'[c]) : handed[c][i] < pending'[c][j]
          <6>1. /\ handed[c][i] \in Nat /\ handed[c][i] <= accepted[c]
                /\ \A j \in 1..Len(pending[c]) : handed[c][i] < pending[c][j]
            BY <5>2 DEF HeldInOrder
          <6>2. handed[c][i] <= accepted'[c] /\ handed[c][i] < accepted[c] + 1
            BY <5>1, <5>2, <6>1
          <6>3. ASSUME NEW j \in 1..Len(pending'[c]) PROVE handed[c][i] < pending'[c][j]
            <7>1. CASE j <= Len(pending[c])
              <8>1. Len(pending[c]) \in Nat /\ Len(pending'[c]) = Len(pending[c]) + 1
                BY <5>2, <5>4
              <8>2. j \in 1..Len(pending[c])
                BY <7>1, <8>1
              <8>3. pending'[c][j] = pending[c][j]
                BY <5>4, <7>1
              <8>4. QED
                BY <6>1, <8>2, <8>3
            <7>2. CASE ~(j <= Len(pending[c]))
              <8>1. pending'[c][j] = accepted[c] + 1
                BY <5>4, <7>2
              <8>2. QED
                BY <6>2, <8>1
            <7>3. QED
              BY <7>1, <7>2
          <6>4. QED
            BY <6>2, <6>3
        <5>7. QED
          BY <4>2, <5>1, <5>2, <5>3, <5>5, <5>6 DEF HeldInOrder
      <4>3. QED
        BY <4>1, <4>2
    <3>2. QED
      BY <3>1 DEF OrderInv, InOrder
  <2>2. ASSUME NEW c \in Channels, HandOver(c) PROVE OrderInv'
    <3>1. ASSUME NEW d \in Channels PROVE Increasing(handed[d])' /\ HeldInOrder(d)'
      <4>1. CASE d # c
        BY <2>2, <4>1 DEF HandOver, TypeOK, OrderInv, InOrder, HeldInOrder, Increasing
      <4>2. CASE d = c
        <5>1. /\ pending[c] # <<>>
              /\ pending'[c] = Tail(pending[c])
              /\ handed'[c] = Append(handed[c], Head(pending[c]))
              /\ accepted' = accepted
          BY <2>2 DEF HandOver, TypeOK
        <5>2. /\ pending[c] \in Seq(Nat) /\ handed[c] \in Seq(Nat) /\ accepted[c] \in Nat
              /\ \A i \in 1..Len(pending[c]) : pending[c][i] \in Nat
              /\ \A i \in 1..Len(handed[c]) : handed[c][i] \in Nat
              /\ HeldInOrder(c) /\ Increasing(handed[c])
          BY DEF TypeOK, OrderInv, InOrder
        <5>3. /\ Head(pending[c]) = pending[c][1] /\ Head(pending[c]) \in Nat
              /\ 1 \in 1..Len(pending[c])
              /\ Len(Tail(pending[c])) = Len(pending[c]) - 1
          BY <5>1, <5>2
        <5>4. Increasing(handed'[c])
          BY <5>1, <5>2, <5>3, IncreasingAppend DEF HeldInOrder
        <5>5. /\ Increasing(Tail(pending[c]))
              /\ \A i \in 1..Len(Tail(pending[c])) :
                   Head(pending[c]) < Tail(pending[c])[i] /\ Tail(pending[c])[i] = pending[c][i + 1]
          BY <5>1, <5>2, IncreasingTail DEF HeldInOrder
        <5>6. /\ Len(handed'[c]) = Len(handed[c]) + 1
              /\ \A i \in 1..Len(handed'[c]) :
                   handed'[c][i] = IF i <= Len(handed[c]) THEN handed[c][i] ELSE pending[c][1]
          BY <5>1, <5>2, <5>3
        <5>7. ASSUME NEW i \in 1..Len(pending'[c])
              PROVE  /\ i + 1 \in 1..Len(pending[c])
                     /\ pending'[c][i] = pending[c][i + 1]
                     /\ pending[c][1] < pending'[c][i]
          BY <5>1, <5>2, <5>3, <5>5
        <5>8. ASSUME NEW i \in 1..Len(handed'[c])
              PROVE  /\ handed'[c][i] <= accepted[c]
                     /\ \A j \in 1..Len(pending'[c]) : handed'[c][i] < pending'[c][j]
          <6>1. CASE i <= Len(handed[c])
            <7>1. i \in 1..Len(handed[c]) /\ handed'[c][i] = handed[c][i]
              BY <5>2, <5>6, <6>1
            <7>2. QED
              BY <5>2, <5>7, <7>1 DEF HeldInOrder
          <6>2. CASE ~(i <= Len(handed[c]))
            <7>1. handed'[c][i] = pending[c][1]
              BY <5>6, <6>2
            <7>2. QED
              BY <5>2, <5>3, <5>7, <7>1 DEF HeldInOrder
          <6>3. QED
            BY <6>1, <6>2
        <5>9. QED
          BY <4>2, <5>1, <5>2, <5>4, <5>5, <5>7, <5>8 DEF HeldInOrder
      <4>3. QED
        BY <4>1, <4>2
    <3>2. QED
      BY <3>1 DEF OrderInv, InOrder
  <2>3. ASSUME NEW c \in Channels, Drop(c) PROVE OrderInv'
    BY <2>3 DEF Drop, TypeOK, OrderInv, InOrder, HeldInOrder, Increasing
  <2>4. CASE UNCHANGED channelVars
    BY <2>4 DEF channelVars, OrderInv, InOrder, HeldInOrder
  <2>5. QED
    BY <2>1, <2>2, <2>3, <2>4 DEF Next
<1>3. QED
  BY <1>1, <1>2, TypeCorrect, PTL DEF Spec, OrderInv
=============================================================================
