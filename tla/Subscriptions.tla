---------------------------- MODULE Subscriptions ----------------------------
(* What a client promises about its subscriptions: the server begins to    *)
(* serve one only for a call that is under way or has returned, and stops  *)
(* serving it only on request or when the connection, and all that it      *)
(* served, is lost.  An unsubscribe that returns has ended the service for *)
(* good.  Of a call that fails, in subscribing or in unsubscribing, the    *)
(* server may know more than the client: it may go on serving that one     *)
(* until the connection is lost, and never begins again.                   *)

CONSTANT Calls  \* subscribe_for_* calls

VARIABLES
  status,  \* status[c]: "idle", "pending", "active", "over" or "failed"
  served   \* the calls whose subscription the server serves

vars == <<status, served>>

Init == status = [c \in Calls |-> "idle"] /\ served = {}

Becomes(c, from, to) == status[c] \in from /\ status' = [status EXCEPT ![c] = to]

Begin(c)  == Becomes(c, {"idle"}, "pending") /\ UNCHANGED served
Return(c) == Becomes(c, {"pending"}, "active") /\ UNCHANGED served
Fail(c)   == Becomes(c, {"idle", "pending", "active"}, "failed") /\ UNCHANGED served

Unsubscribe(c) == Becomes(c, {"active"}, "over") /\ served' = served \ {c}

(* The first time, and again after each loss of the connection.            *)
Serve(c) ==
  /\ Becomes(c, {"idle", "pending"}, "pending") \/ Becomes(c, {"active"}, "active")
  /\ c \notin served /\ served' = served \cup {c}

Lose == served' = {} /\ UNCHANGED status

Next ==
  \/ \E c \in Calls : Begin(c) \/ Return(c) \/ Fail(c) \/ Unsubscribe(c) \/ Serve(c)
  \/ Lose

Spec == Init /\ [][Next]_vars
=============================================================================
