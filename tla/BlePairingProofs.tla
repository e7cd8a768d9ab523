--------------------------- MODULE BlePairingProofs ---------------------------
(* Type correctness and the safety of pairing, for any ids a vehicle may   *)
(* notify.  Init and the actions keep IInv, which implies the properties.  *)
EXTENDS BlePairing, TLAPS

(* What a handler holds was notified to it in this attempt.                *)
DataHeard == \A h \in Handlers : data[h] # None => data[h] \in heard[h]

(* Behind the comparison of the ids the expected one has been heard.       *)
IdHeard == at \in {"write_nonce", "wait_nonce"} => VehicleId \in heard["id"]

(* An attempt is about to end only while it disconnects, and has ended with*)
(* True only while no new one is under way.                                *)
EndInv ==
  /\ pending = "true" => at = "disconnect" /\ bonded
  /\ result = "true" => at = "idle"

IInv == TypeOK /\ DataHeard /\ IdHeard /\ EndInv /\ ExchangeComplete /\ TrueMeansBonded

-----------------------------------------------------------------------------
(* Where an operation of the stack leads to: never to bonding, and to the  *)
(* nonce only behind the id.                                               *)
LEMMA ThenLeads ==
  ASSUME NEW a \in DOMAIN Then
  PROVE  /\ Then[a] \in Inside \ {"bond", "write_nonce"}
         /\ Then[a] = "wait_nonce" => a = "write_nonce"
         /\ a # "idle" /\ a # "disconnect" /\ a # "bond"
BY DEF Then, Inside

(* The initial states satisfy the invariant.                               *)
LEMMA InitInv == Init => IInv
BY IdAssumption DEF Init, IInv, TypeOK, DataHeard, IdHeard, EndInv, ExchangeComplete,
  TrueMeansBonded, Handlers, Inside

(* Every step of an attempt keeps it.                                      *)
LEMMA NextInv == IInv /\ [Next]_vars => IInv'
<1> SUFFICES ASSUME IInv, [Next]_vars PROVE IInv'
  OBVIOUS
<1> USE IdAssumption DEF IInv, TypeOK, DataHeard, IdHeard, EndInv, ExchangeComplete,
  TrueMeansBonded, Handlers, Inside
<1>1. CASE PairPhone
  BY <1>1 DEF PairPhone
<1>2. CASE OperationSucceeds
  <2>1. at \in DOMAIN Then /\ at' = Then[at]
    BY <1>2 DEF OperationSucceeds
  <2>2. /\ at' \in Inside \ {"bond", "write_nonce"}
        /\ at' = "wait_nonce" => at = "write_nonce"
        /\ at # "idle" /\ at # "disconnect" /\ at # "bond"
    BY <2>1, ThenLeads
  <2>3. at \in DOMAIN Started => Started[at] \subseteq Handlers
    BY DEF Started
  <2>4. listening' \subseteq Handlers \cup {"active_entry"}
    BY <1>2, <2>3 DEF OperationSucceeds
  <2> QED
    BY <1>2, <2>2, <2>4 DEF OperationSucceeds
<1>3. CASE Bonds
  BY <1>3 DEF Bonds, Leaves
<1>4. ASSUME NEW how \in {"false", "cancelled"}, at \in Inside \cup {"connect"}, Aborts(how)
      PROVE  IInv'
  BY <1>4 DEF Aborts, Leaves, Returns
<1>5. CASE OperationRaises
  <2>1. at \in Inside \cup {"connect"}
    BY <1>5 DEF OperationRaises, Then
  <2> QED
    BY <1>4, <1>5, <2>1 DEF OperationRaises
<1>6. CASE Cancel
  BY <1>4, <1>6 DEF Cancel
<1>7. CASE Notify
  <2>1. PICK h \in listening \cap Handlers, r \in Ids :
          /\ data' = [data EXCEPT ![h] = r]
          /\ heard' = [heard EXCEPT ![h] = @ \cup {r}]
    BY <1>7 DEF Notify
  <2> QED
    BY <1>7, <2>1 DEF Notify
<1>8. CASE WaitTimesOut
  BY <1>8 DEF WaitTimesOut, Waits, Leaves
<1>9. CASE IdArrived
  BY <1>9 DEF IdArrived, Waits, Leaves
<1>10. CASE NonceArrived
  BY <1>10 DEF NonceArrived, Waits
<1>11. CASE Disconnect
  BY <1>11 DEF Disconnect, Returns
<1>12. CASE UNCHANGED vars
  BY <1>12 DEF vars
<1> QED
  BY <1>1, <1>2, <1>3, <1>5, <1>6, <1>7, <1>8, <1>9, <1>10, <1>11, <1>12 DEF Next

LEMMA Invariance == Spec => []IInv
  BY InitInv, NextInv, PTL DEF Spec

-----------------------------------------------------------------------------
(* Every variable of pair_phone keeps its type, whatever is notified.      *)
THEOREM PairingTypes == Spec => []TypeOK
<1>1. IInv => TypeOK
  BY DEF IInv
<1> QED
  BY Invariance, <1>1, PTL

(* Bonding is started, and True returned, only behind the exchange of the  *)
(* id and the nonce of the same attempt.                                   *)
THEOREM BondingFollowsExchange == Spec => []ExchangeComplete
<1>1. IInv => ExchangeComplete
  BY DEF IInv
<1> QED
  BY Invariance, <1>1, PTL

(* pair_phone returns True only with the phone bonded and the client       *)
(* disconnected, whatever disconnecting raises.                            *)
THEOREM TrueIsBonded == Spec => []TrueMeansBonded
<1>1. IInv => TrueMeansBonded
  BY DEF IInv
<1> QED
  BY Invariance, <1>1, PTL
=============================================================================
