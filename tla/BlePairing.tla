----------------------------- MODULE BlePairing -----------------------------
(***************************************************************************)
(* The phone side of local pairing, translated from pair_phone in          *)
(* src/rivian/ble.py, attempt after attempt.                               *)
(*                                                                         *)
(* What the vehicle notifies, and when, is free: answers may be missing,   *)
(* early, repeated or wrong.  The BLE stack may fail at each operation,    *)
(* the task of the application may be cancelled at each await.             *)
(***************************************************************************)
CONSTANTS
  Systems,    \* values of platform.system()
  Ids,        \* what a notification may carry: vehicle ids and
  Empty,      \* nothing
  VehicleId,  \* vas_vehicle_id, the id that is expected
  None

ASSUME IdAssumption ==
  /\ Empty \in Ids /\ VehicleId \in Ids \ {Empty}
  /\ None \notin Ids \cup {"true", "false", "cancelled"}

Handlers == {"id", "nonce"}

VARIABLES
  system,     \* platform.system()
  at,         \* "idle" or the await pair_phone is suspended at
  pending,    \* how the block is being left while the client disconnects
  result,     \* how the last attempt has ended
  connected,  \* the BLE client of the last attempt is connected
  listening,  \* characteristics whose notifications are started
  data,       \* data[h]: the data of handler h, None until its event is set
  heard,      \* heard[h]: all that was notified to handler h
  bonded      \* this attempt has bonded the phone with the vehicle

vars == <<system, at, pending, result, connected, listening, data, heard, bonded>>

Init ==
  /\ system \in Systems
  /\ at = "idle" /\ pending = None /\ result = None
  /\ connected = FALSE /\ listening = {}
  /\ data = [h \in Handlers |-> None] /\ heard = [h \in Handlers |-> {}]
  /\ bonded = FALSE

-----------------------------------------------------------------------------
Inside == {"notify_id", "notify_nonce", "write_id", "wait_id", "write_nonce",
           "wait_nonce", "bond"}

(* Mutant: the handlers are made once, not for each client.                *)
HandlersKept ==
  /\ at = "idle" /\ at' = "connect" /\ result' = None /\ connected' = FALSE
  /\ heard' = [h \in Handlers |-> {}] /\ bonded' = FALSE
  /\ UNCHANGED <<system, pending, listening, data>>

(* A new attempt, with a client and handlers of its own.                   *)
PairPhone ==
  /\ at = "idle" /\ at' = "connect" /\ result' = None /\ connected' = FALSE
  /\ data' = [h \in Handlers |-> None] /\ heard' = [h \in Handlers |-> {}]
  /\ bonded' = FALSE
  /\ UNCHANGED <<system, pending, listening>>

(* The block of "async with" is left: the client disconnects first.        *)
Leaves(how)  == at' = "disconnect" /\ pending' = how /\ UNCHANGED result
Returns(how) == at' = "idle" /\ pending' = None /\ result' = how

(* The next await after each that goes on when the stack has answered.     *)
Then == [connect     |-> "notify_id",    notify_id   |-> "notify_nonce",
         notify_nonce |-> "write_id",    write_id    |-> "wait_id",
         write_nonce |-> "wait_nonce"]
Started == [notify_id |-> {"id"}, notify_nonce |-> {"nonce"}]

OperationSucceeds ==
  /\ at \in DOMAIN Then /\ at' = Then[at]
  /\ connected' = TRUE
  /\ listening' = listening \cup (IF at \in DOMAIN Started THEN Started[at] ELSE {})
  /\ UNCHANGED <<system, pending, result, data, heard, bonded>>

(* Bonding: pair(), or on Darwin the start of the notifications of a       *)
(* protected characteristic.                                               *)
Bonds ==
  /\ at = "bond" /\ bonded' = TRUE /\ Leaves("true")
  /\ listening' = IF system = "Darwin" THEN listening \cup {"active_entry"} ELSE listening
  /\ UNCHANGED <<system, connected, data, heard>>

(* Mutant: the block is left although it was not entered.                  *)
NeverEntered(how) ==
  /\ Leaves(how)
  /\ bonded' \in (IF at = "bond" THEN {bonded, TRUE} ELSE {bonded})
  /\ UNCHANGED <<system, connected, listening, data, heard>>

(* An exception at an await: connect has not yet entered the block, and    *)
(* bonding may have taken effect nevertheless.                             *)
Aborts(how) ==
  /\ IF at = "connect" THEN Returns(how) ELSE Leaves(how)
  /\ bonded' \in (IF at = "bond" THEN {bonded, TRUE} ELSE {bonded})
  /\ UNCHANGED <<system, connected, listening, data, heard>>

OperationRaises == at \in DOMAIN Then \cup {"bond"} /\ Aborts("false")
Cancel          == at \in Inside \cup {"connect"} /\ Aborts("cancelled")

(* notification_handler: the data is replaced and the event set; it is     *)
(* never cleared.                                                          *)
Notify ==
  /\ \E h \in listening \cap Handlers, r \in Ids :
       data' = [data EXCEPT ![h] = r] /\ heard' = [heard EXCEPT ![h] = @ \cup {r}]
  /\ UNCHANGED <<system, at, pending, result, connected, listening, bonded>>

Waits(h) == at = (IF h = "id" THEN "wait_id" ELSE "wait_nonce")

(* Mutant: a wait has no timeout.                                          *)
WaitsForever == FALSE /\ UNCHANGED vars

(* asyncio.wait_for raises after NOTIFICATION_TIMEOUT.                     *)
WaitTimesOut ==
  /\ \E h \in Handlers : Waits(h) /\ data[h] = None
  /\ Leaves("false")
  /\ UNCHANGED <<system, connected, listening, data, heard, bonded>>

(* The wait for the id is over, whichever write the notification answers;  *)
(* what it carries last is compared.  Empty data fails the assertion.      *)
IdArrived ==
  /\ Waits("id") /\ data["id"] # None
  /\ IF data["id"] = VehicleId
     THEN at' = "write_nonce" /\ UNCHANGED <<pending, result>>
     ELSE Leaves("false")
  /\ UNCHANGED <<system, connected, listening, data, heard, bonded>>

(* That for the nonce is over; what it carries is not looked at.           *)
NonceArrived ==
  /\ Waits("nonce") /\ data["nonce"] # None /\ at' = "bond"
  /\ UNCHANGED <<system, pending, result, connected, listening, data, heard, bonded>>

(* Mutant: what disconnecting raises does not replace the result.          *)
DisconnectIgnored ==
  /\ at = "disconnect" /\ Returns(pending)
  /\ connected' \in BOOLEAN /\ listening' = {}
  /\ UNCHANGED <<system, data, heard, bonded>>

(* The client disconnects and the attempt ends as it was about to.  What   *)
(* disconnecting raises replaces "return True", and a cancellation too; a  *)
(* cancellation while it waits leaves the connection in any state.         *)
Disconnect ==
  /\ at = "disconnect"
  /\ \/ connected' = FALSE /\ Returns(pending)
     \/ connected' \in BOOLEAN /\ \E how \in {"false", "cancelled"} : Returns(how)
  /\ listening' = {}
  /\ UNCHANGED <<system, data, heard, bonded>>

Next ==
  \/ PairPhone \/ OperationSucceeds \/ Bonds \/ OperationRaises \/ Cancel
  \/ Notify \/ WaitTimesOut \/ IdArrived \/ NonceArrived \/ Disconnect

Spec == Init /\ [][Next]_vars

(* NOTIFICATION_TIMEOUT ends each wait.  That every other operation is     *)
(* answered is asked of the BLE stack: only connect has a timeout here.    *)
Answers == OperationSucceeds \/ Bonds \/ OperationRaises \/ Disconnect
FairSpec ==
  /\ Spec
  /\ WF_vars(Answers)
  /\ WF_vars(WaitTimesOut \/ IdArrived \/ NonceArrived)

-----------------------------------------------------------------------------
(* Type invariant; the client is connected inside the block, and a handler *)
(* has data exactly when it has got a notification.                        *)
TypeOK ==
  /\ system \in Systems
  /\ at \in {"idle", "connect", "disconnect"} \cup Inside
  /\ pending \in {"true", "false", "cancelled", None}
  /\ result \in {"true", "false", "cancelled", None}
  /\ connected \in BOOLEAN /\ bonded \in BOOLEAN
  /\ listening \subseteq Handlers \cup {"active_entry"}
  /\ data \in [Handlers -> Ids \cup {None}]
  /\ heard \in [Handlers -> SUBSET Ids]
  /\ at \in Inside \cup {"disconnect"} => connected

(* Bonding is started, and True returned, only in an attempt whose client  *)
(* has been notified of the expected id and of a nonce: no answer to an    *)
(* earlier attempt, no timed-out wait and no wrong id stands in for them.  *)
ExchangeComplete ==
  at = "bond" \/ pending = "true" \/ result = "true" =>
    VehicleId \in heard["id"] /\ heard["nonce"] # {}

(* An attempt that returns True has bonded the phone itself, an earlier    *)
(* bonding does not count, and leaves it disconnected.                     *)
TrueMeansBonded == result = "true" => bonded /\ ~connected

(* An attempt ends whatever the vehicle notifies, or nothing, provided the *)
(* BLE stack answers.                                                      *)
AttemptEnds == at # "idle" ~> at = "idle"
=============================================================================
