---------------------------- MODULE MCRivianSession ----------------------------
(* Instances of RivianSession for TLC.                                     *)
EXTENDS RivianSession, TLC

CONSTANTS t1, t2

TwoTasks == {t1, t2}

(* One error of each way an error is classified, and two in either order  *)
(* where the order decides.                                                *)
Logout  == <<"UNAUTHENTICATED", NoReason>>
Expired == <<"UNAUTHENTICATED", "OTP_TOKEN_EXPIRED">>
ShortErrorLists ==
  {<<e>> : e \in {NoExtensions, NoCode, Logout, Expired}} \cup
  {<<NoExtensions, Logout>>, <<Expired, Logout>>, <<Logout, Expired>>}

(* A level at its limit and one past it, and the temperature HI.           *)
EdgeParameters ==
  {[key |-> "level", type |-> "int", half |-> h] : h \in {8, 10}} \cup
  {[key |-> "HVAC_set_temp", type |-> "float", half |-> 127]}

OwnSet == {"own"}

(* One task logs in and reads, the other logs in and controls; of methods  *)
(* with the same headers and the same kind of answer one, of commands one  *)
(* of each way to check and change the dictionary.                         *)
ReadAndControl ==
  t1 :> TokenCalls \cup {"get_vehicle_state"}
  @@ t2 :> {"authenticate", "enroll_phone", "CABIN_HVAC", "CABIN_HVAC_THIRD_ROW",
            "CABIN_PRECONDITIONING_SET_TEMP"}
=============================================================================
