------------------------------ MODULE WriteCmd ------------------------------
(***************************************************************************)
(* BLEAdapter.write_cmd (ble_adapter.py): the SoftDevice takes a packet    *)
(* into one of a few buffers; when all are full the call waits for a       *)
(* transmit-complete event and tries again.                                *)
(*                                                                         *)
(* It is composed with authenticate: threads call both, also on one        *)
(* connection, whose EvtSync object and its slot they share, and           *)
(* transmit-complete events are notified whether or not anybody waits.     *)
(***************************************************************************)
EXTENDS Authenticate

CONSTANTS
  TxComplete,   \* the id of the transmit-complete event
  MaxTries,     \* MAX_TRIES
  Buffers       \* transmit buffers of a connection

ASSUME WriteAssumption ==
  /\ TxComplete \in OtherEvents
  /\ {MaxTries, Buffers} \subseteq Nat \ {0}
  /\ \A p \in Programs, g \in Conns : p.packets[g] <= Buffers

VARIABLES
  used,      \* SoftDevice: the buffers of each connection that are full
  tries,     \* how often the loop of each thread has gone round
  accepted   \* history: how often the packet of its last call was taken

writeVars == <<used, tries, accepted>>
vars == <<pairingVars, writeVars>>

WriteTypeOK ==
  /\ TypeOK
  /\ used \in [Conns -> 0..Buffers]
  /\ tries \in [Callers -> 0..MaxTries]
  /\ accepted \in [Callers -> 0..MaxTries]

WriteInit ==
  /\ \E p \in Programs : Init(p) /\ used = p.packets
  /\ tries = [c \in Callers |-> 0]
  /\ accepted = [c \in Callers |-> 0]

-----------------------------------------------------------------------------
\* The SoftDevice has sent a packet.
DeviceTransmits(g) ==
  /\ g \in up /\ used[g] > 0
  /\ used' = [used EXCEPT ![g] = @ - 1]
  /\ Deliver(g, TxComplete, NoVal)
  /\ UNCHANGED <<syncVars, known, worker, deviceVars, appVars, keyVars, authVars, orderly,
                 tries, accepted>>

\* The call, up to the loop: without an attr_handle the Connection is needed
\* (KeyError) and must have the characteristic.
BeginWrite(c, g) ==
  /\ Begins(c, "write_cmd", g)
  /\ mine' = [mine EXCEPT ![c] = NoPairing]
  /\ tries' = [tries EXCEPT ![c] = 0]
  /\ accepted' = [accepted EXCEPT ![c] = 0]
  /\ \/ EndCall(c, IF g \in known THEN "error" ELSE "key_error")
     \/ /\ stage' = [stage EXCEPT ![c] = "write"]
        /\ outcome' = [outcome EXCEPT ![c] = "none_yet"]
  /\ UNCHANGED <<syncVars, known, queue, worker, deviceVars, lescOn, keyVars, inWait, heard,
                 crossed, orderly, used>>

\* Mutant of Send: the loop goes on after a packet was taken.
SendGoesOn(c) ==
  LET g == conn[c] IN
  /\ stage[c] = "write"
  /\ \/ /\ g \in up /\ used[g] < Buffers /\ tries[c] < MaxTries
        /\ used' = [used EXCEPT ![g] = @ + 1]
        /\ accepted' = [accepted EXCEPT ![c] = @ + 1]
        /\ tries' = [tries EXCEPT ![c] = @ + 1]
        /\ UNCHANGED <<stage, outcome>>
     \/ g \in up /\ tries[c] = MaxTries /\ EndCall(c, "exhausted") /\ UNCHANGED <<used, accepted, tries>>
     \/ g \in up /\ used[g] = Buffers /\ NextStage(c, TxComplete) /\ UNCHANGED <<used, accepted, tries>>
     \/ EndCall(c, "error") /\ UNCHANGED <<used, accepted, tries>>
  /\ UNCHANGED <<syncVars, known, queue, worker, deviceVars, appVars, keyVars, inWait, conn, mine,
                 heard, crossed, orderly>>

\* driver.ble_gattc_write: taken, no buffer free, or another error, which may
\* come on a good connection too and, when the answer of the SoftDevice got
\* lost, after the packet was taken.
Send(c) ==
  LET g == conn[c] IN
  /\ stage[c] = "write"
  /\ \/ /\ g \in up /\ used[g] < Buffers
        /\ used' = [used EXCEPT ![g] = @ + 1]
        /\ accepted' = [accepted EXCEPT ![c] = @ + 1]
        /\ EndCall(c, "sent") \/ EndCall(c, "error")
     \/ g \in up /\ used[g] = Buffers /\ NextStage(c, TxComplete) /\ UNCHANGED <<used, accepted>>
     \/ EndCall(c, "error") /\ UNCHANGED <<used, accepted>>
  /\ UNCHANGED <<syncVars, known, queue, worker, deviceVars, appVars, keyVars, inWait, conn, mine,
                 heard, crossed, orderly, tries>>

\* Mutant of GotTxComplete: a wait that timed out does not count.
GotTxCompleteOnly(c) ==
  /\ WaitedFor(c, TxComplete)
  /\ inWait' = [inWait EXCEPT ![c] = FALSE]
  /\ IF result[c] = Sync!None THEN NextStage(c, "write") /\ UNCHANGED tries
     ELSE /\ tries' = [tries EXCEPT ![c] = @ + 1]
          /\ IF tries[c] + 1 = MaxTries THEN EndCall(c, "exhausted") ELSE NextStage(c, "write")
  /\ UNCHANGED <<syncVars, known, queue, worker, deviceVars, appVars, keyVars, conn, mine, heard,
                 crossed, orderly, used, accepted>>

\* Mutant of GotTxComplete: the loop goes round once more than MAX_TRIES.
GotTxCompleteLate(c) ==
  /\ WaitedFor(c, TxComplete)
  /\ inWait' = [inWait EXCEPT ![c] = FALSE]
  /\ tries' = [tries EXCEPT ![c] = @ + 1]
  /\ IF tries[c] = MaxTries THEN EndCall(c, "exhausted") ELSE NextStage(c, "write")
  /\ UNCHANGED <<syncVars, known, queue, worker, deviceVars, appVars, keyVars, conn, mine, heard,
                 crossed, orderly, used, accepted>>

\* The wait has returned, whatever it returned; after the last round, in
\* which it waited too, the call raises.
GotTxComplete(c) ==
  /\ WaitedFor(c, TxComplete)
  /\ inWait' = [inWait EXCEPT ![c] = FALSE]
  /\ tries' = [tries EXCEPT ![c] = @ + 1]
  /\ IF tries[c] + 1 = MaxTries THEN EndCall(c, "exhausted") ELSE NextStage(c, "write")
  /\ UNCHANGED <<syncVars, known, queue, worker, deviceVars, appVars, keyVars, conn, mine, heard,
                 crossed, orderly, used, accepted>>

-----------------------------------------------------------------------------
CallStep(c) ==
  \/ (BeginWait(c) \/ WaitStep(c) \/ AuthStep(c)) /\ UNCHANGED writeVars
  \/ Send(c) \/ GotTxComplete(c)

Next ==
  \/ DeviceStep /\ UNCHANGED writeVars
  \/ Handler /\ UNCHANGED writeVars
  \/ \E g \in Conns : DeviceTransmits(g)
  \/ \E c \in Callers :
       \/ CallStep(c)
       \/ \E g \in Conns :
            \/ BeginWrite(c, g)
            \/ /\ Authenticate(c, g)
               /\ accepted' = [accepted EXCEPT ![c] = 0]
               /\ UNCHANGED <<used, tries>>

Spec == WriteInit /\ [][Next]_vars

(* Threads keep running, timeouts expire, and a lock that is released again *)
(* and again is obtained.  The SoftDevice and the peers owe nothing.        *)
Fairness ==
  /\ WF_vars(Handler /\ UNCHANGED writeVars)
  /\ \A c \in Callers : SF_vars(CallStep(c))

FairSpec == Spec /\ Fairness

-----------------------------------------------------------------------------
\* How often the packet of a call with the outcome o may have been taken.
TimesTaken(o) == CASE o = "sent" -> {1} [] o = "error" -> {0, 1} [] OTHER -> {0}

(* write_cmd returns only if its packet was taken exactly once, and gives up *)
(* after MAX_TRIES only if it was never taken.  Nor does any round of the    *)
(* loop send a packet a second time: one that another error hides was taken  *)
(* once at most, and while the call goes on it was not taken yet.            *)
SentOnce == \A c \in Callers : accepted[c] \in TimesTaken(outcome[c])

(* Every authenticate and every write_cmd returns or raises, whatever is    *)
(* lost, late, refused or disconnected: transmit-complete events that never *)
(* come included.                                                           *)
CallReturns == \A c \in Callers : []<>(stage[c] = "idle")
=============================================================================
