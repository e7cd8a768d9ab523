-------------------------- MODULE SubscriptionsProofs --------------------------
(***************************************************************************)
(* RivianClient implements Subscriptions: every effect of a step of the    *)
(* shared connection is a step of the promise or changes nothing it knows. *)
(***************************************************************************)
EXTENDS RivianClientProofs

-----------------------------------------------------------------------------
(* Nothing is served on a socket that has not been opened yet: that a      *)
(* replacement starts empty is what makes a reconnect a loss.              *)
FreshInv == \A s \in Sockets : s > ws => live[s] = {}

LEMMA FreshNext ==
  ASSUME TypeInv, FreshInv, Effect
  PROVE  FreshInv'
<1>. USE DEF FreshInv, TypeInv, TypeOK, SocketTypes, Sockets
<1>1. CASE UNCHANGED <<ws, live>>
  BY <1>1
<1>2. ASSUME UNCHANGED ws, NEW X, live' = [live EXCEPT ![ws] = X] PROVE FreshInv'
  BY <1>2
<1>3. ASSUME NEW c, Served(c), UNCHANGED ws PROVE FreshInv'
  BY <1>2, <1>3 DEF Served
<1>4. ASSUME NEW c \in Calls, CallContinues(c) PROVE FreshInv'
  <2>1. UNCHANGED ws /\ (UNCHANGED live \/ Served(c))
    BY <1>4 DEF CallContinues, CallMoves
  <2>. QED BY <1>1, <1>3, <2>1
<1>5. ASSUME NEW c \in Calls, CallRests(c) PROVE FreshInv'
  <2>1. UNCHANGED ws /\ (UNCHANGED live \/ live' = [live EXCEPT ![ws] = @ \ {c}])
    BY <1>5 DEF CallRests, CallRest, Rests
  <2>. QED BY <1>1, <1>2, <2>1
<1>6. ASSUME NEW t \in Tasks, SocketConnected(t) PROVE FreshInv'
  <2>1. ws' = ws + 1 /\ UNCHANGED live
    BY <1>6 DEF SocketConnected, ConnectFrame
  <2>. QED BY <2>1, ConstantsAssumption DEF ConstantsAssumption
<1>7. CASE MonitorActs
  <2>1. UNCHANGED ws /\ (UNCHANGED live \/ \E c \in subs : Served(c))
    BY <1>7 DEF MonitorActs, MonitorMoves
  <2>. QED BY <1>1, <1>3, <2>1
<1>. QED
  BY <1>1, <1>4, <1>5, <1>6, <1>7
  DEF Effect, FinishClosing, TaskReplaces, ReceiverMoves, ReceiverRestarts, CloserActs, server

(* Once the client is disconnected, and a replacement that new_connection  *)
(* was already connecting is open nevertheless, nobody is left who would   *)
(* send a subscription on it: no call that has checked the connection, and *)
(* no monitor that is on its way to restore.                               *)
CheckedInv ==
  \A c \in Calls : pc[c] = "sub_lock" => ~(disconnect /\ sock[ws] = "open")
QuietInv ==
  disconnect /\ (sock[ws] = "open" \/ ReplacementConnecting) =>
    mcancel \/ pc[Monitor] \in Quiet
UnservedInv == disconnect /\ sock[ws] = "open" => live[ws] = {}

(* What these invariants rest on: an open socket and a disconnected client *)
(* do not come together except by a replacement that was being connected.  *)
Opens == disconnect' /\ sock'[ws'] = "open"
LEMMA OpenWhileDisconnected ==
  ASSUME IInv, Effect, Opens
  PROVE  \/ disconnect /\ sock[ws] = "open" /\ UNCHANGED ws
         \/ disconnect /\ \E t \in Tasks : SocketConnected(t)
<1>. USE TasksFact DEF Opens, IInv, TypeInv, TypeOK, SocketTypes
<1>1. CASE UNCHANGED <<ws, sock>> /\ (disconnect' => disconnect)
  BY <1>1
<1>2. ASSUME NEW t \in Tasks, SocketConnected(t) PROVE disconnect
  BY <1>2 DEF SocketConnected, ConnectFrame
<1>3. CASE MonitorActs
  BY <1>3 DEF MonitorActs, MonitorMoves, SocketsShut
<1>4. CASE ReceiverMoves
  BY <1>4 DEF ReceiverMoves, OneOpenSocket
<1>5. CASE CloserActs
  BY <1>5 DEF CloserActs, SocketsShut
<1>6. ASSUME NEW s \in Sockets, FinishClosing(s)
      PROVE  disconnect /\ sock[ws] = "open" /\ UNCHANGED ws
  BY <1>6 DEF FinishClosing
<1>. QED
  BY <1>1, <1>2, <1>3, <1>4, <1>5, <1>6
  DEF Effect, CallContinues, CallRests, TaskReplaces, ReceiverRestarts

LEMMA CheckedNext ==
  ASSUME IInv, CheckedInv, Effect
  PROVE  CheckedInv'
<1>. SUFFICES ASSUME NEW c \in Calls, pc'[c] = "sub_lock", Opens PROVE FALSE
  BY DEF CheckedInv, Opens
<1>. USE TasksFact DEF IInv, TypeInv, TypeOK, TaskTypes
<1>1. CASE pc[c] = "sub_lock"
  <2>1. PICK t \in Tasks : SocketConnected(t)
    BY <1>1, OpenWhileDisconnected DEF CheckedInv
  <2>2. pc[t] = "nc_connect" /\ c \in Tasks
    BY <2>1 DEF SocketConnected
  <2>. QED
    BY <1>1, <2>2
    DEF LockInv, ConnectionExclusion, At, ConnectionHolders, NewConnectionPcs
<1>2. CASE pc[c] # "sub_lock"
  <2>1. CallContinues(c)
    <3>1. ASSUME NEW d \in Calls, CallContinues(d) PROVE d = c
      BY <1>2, <3>1, ContinueFacts
    <3>2. ASSUME NEW d \in Calls, CallRests(d) PROVE FALSE
      BY <1>2, <3>2 DEF CallRests, CallRest
    <3>3. ASSUME NEW t \in Tasks, TaskReplaces(t) PROVE FALSE
      BY <1>2, <3>3 DEF TaskReplaces
    <3>4. ASSUME NEW t \in Tasks, SocketConnected(t) PROVE FALSE
      BY <1>2, <3>4 DEF SocketConnected, Goto
    <3>5. CASE MonitorActs
      BY <1>2, <3>5 DEF MonitorActs, MonitorMoves, MonitorGoes
    <3>6. CASE ReceiverMoves
      BY <1>2, <3>6 DEF ReceiverMoves, Woken
    <3>. QED
      BY <1>2, <3>1, <3>2, <3>3, <3>4, <3>5, <3>6
      DEF Effect, FinishClosing, ReceiverRestarts, CloserActs
  <2>2. Connected /\ UNCHANGED disconnect
    BY <1>2, <2>1, ContinueFacts DEF CallContinues
  <2>. QED BY <2>2 DEF Connected, Opens
<1>. QED BY <1>1, <1>2

LEMMA QuietNext ==
  ASSUME IInv, QuietInv, Effect
  PROVE  QuietInv'
<1>. USE TasksFact
     DEF QuietInv, ReplacementConnecting, IInv, TypeInv, TypeOK, SocketTypes, TaskTypes,
         MonitorTypes
<1>. DEFINE May(d, s, p) == d /\ (s = "open" \/ \E t \in Tasks : p[t] = "nc_connect")
<1>1. CASE /\ May(disconnect', sock'[ws'], pc') => May(disconnect, sock[ws], pc)
           /\ mcancel /\ pc'[Monitor] # "off" => mcancel'
           /\ pc[Monitor] \in Quiet => mcancel' \/ pc'[Monitor] \in Quiet
  BY <1>1 DEF Quiet
<1>2. ASSUME NEW c \in Calls, CallContinues(c) PROVE QuietInv'
  <2>1. \A t \in Tasks : pc'[t] = "nc_connect" => pc[t] = "nc_connect"
    BY <1>2, ContinueFacts DEF CallStops, Tasks
  <2>2. pc[Monitor] \in Quiet => pc'[Monitor] \in Quiet
    BY <1>2, ContinueFacts DEF Quiet
  <2>. QED BY <1>1, <1>2, <2>1, <2>2 DEF CallContinues, monitor
<1>3. ASSUME NEW c \in Calls, CallRests(c) PROVE QuietInv'
  BY <1>1, <1>3 DEF CallRests, CallRest, monitor
<1>4. ASSUME NEW t \in Tasks, TaskReplaces(t) PROVE QuietInv'
  <2>. SUFFICES ASSUME May(disconnect', sock'[ws'], pc')
                PROVE  mcancel' \/ pc'[Monitor] \in Quiet
    OBVIOUS
  <2>1. PICK l \in {"nc_lock", "nc_cancel", "nc_connect"} :
          /\ pc' = [pc EXCEPT ![t] = l]
          /\ \/ pc[t] = "nc_cancel" /\ l = "nc_connect"
             \/ MayReplace(t)
          /\ disconnect' = (disconnect /\ l # "nc_connect")
    BY <1>4 DEF TaskReplaces
  <2>2. l # "nc_connect" /\ disconnect /\ MayReplace(t) /\ UNCHANGED <<ws, sock>>
    BY <1>4, <2>1 DEF TaskReplaces
  <2>3. May(disconnect, sock[ws], pc)
    BY <2>1, <2>2
  <2>4. UNCHANGED mcancel
    BY <1>4, <2>2 DEF TaskReplaces, MayReplace
  <2>5. t = Monitor => pc[t] = "nc_lock" /\ ~mcancel
    BY <2>2 DEF MayReplace
  <2>6. t # Monitor
    BY <2>3, <2>5 DEF Quiet
  <2>. QED BY <2>1, <2>3, <2>4, <2>6
<1>5. ASSUME NEW t \in Tasks, SocketConnected(t) PROVE QuietInv'
  <2>1. /\ pc[t] = "nc_connect" /\ UNCHANGED <<disconnect, mcancel>>
        /\ pc' = [pc EXCEPT ![t] = "nc_init"] /\ (t = Monitor => ~mcancel)
    BY <1>5 DEF SocketConnected, ConnectFrame, Goto, Runs, monitor
  <2>2. disconnect => t # Monitor
    BY <2>1 DEF Quiet
  <2>. QED BY <2>1, <2>2
<1>6. CASE MonitorActs
  <2>1. PICK l \in MonitorStops : MonitorGoes(l)
    BY <1>6 DEF MonitorActs, MonitorMoves
  <2>2. /\ pc' = [pc EXCEPT ![Monitor] = l] /\ (l # "off" => mcancel' = mcancel)
        /\ l \notin Quiet => MayRestore
    BY <2>1 DEF MonitorGoes, MonitorStops, Quiet
  <2>3. May(disconnect', sock'[ws'], pc') => May(disconnect, sock[ws], pc)
    BY <1>6, <2>2 DEF MonitorActs, MonitorMoves, SocketsShut, MonitorStops
  <2>4. May(disconnect, sock[ws], pc) /\ l \notin Quiet => FALSE
    BY <2>2 DEF MayRestore
  <2>. QED BY <2>2, <2>3, <2>4
<1>7. CASE ReceiverMoves
  <2>1. /\ \A t \in Tasks : pc'[t] = "nc_connect" => pc'[t] = pc[t]
        /\ UNCHANGED <<ws, mcancel>> /\ sock'[ws] \in {sock[ws], "closed"}
        /\ pc[Monitor] \in Quiet => pc'[Monitor] = pc[Monitor]
    BY <1>7 DEF ReceiverMoves, Woken, monitor, Quiet
  <2>2. disconnect' => disconnect \/ (sock[ws] = "open" /\ sock'[ws] = "closed")
    BY <1>7 DEF ReceiverMoves, OneOpenSocket
  <2>3. May(disconnect', sock'[ws'], pc') => May(disconnect, sock[ws], pc)
    BY <2>1, <2>2 DEF NoOpenWhileReplacing, At
  <2>. QED BY <1>1, <2>1, <2>3
<1>8. CASE CloserActs
  <2>1. /\ UNCHANGED <<ws, pc>> /\ (mcancel => mcancel')
        /\ sock'[ws] = "open" => sock[ws] = "open"
    BY <1>8 DEF CloserActs, SocketsShut
  <2>2. CASE UNCHANGED disconnect
    BY <2>1, <2>2
  <2>3. CASE /\ closing = "idle" /\ disconnect' = TRUE /\ sock'[ws] # "open"
             /\ sock[ws] = "closed" /\ pc[Monitor] # "off" => mcancel'
    <3>1. ReplacementConnecting => sock[ws] = "closed"
      BY <2>3 DEF NoOpenWhileReplacing, CloseInv, At
    <3>. QED BY <2>1, <2>3, <3>1 DEF Quiet
  <2>. QED BY <1>8, <2>2, <2>3 DEF CloserActs
<1>9. ASSUME NEW s \in Sockets, FinishClosing(s) PROVE QuietInv'
  BY <1>9 DEF FinishClosing, monitor
<1>. QED
  BY <1>1, <1>2, <1>3, <1>4, <1>5, <1>6, <1>7, <1>8, <1>9
  DEF Effect, ReceiverRestarts, monitor

LEMMA UnservedNext ==
  ASSUME IInv, FreshInv, CheckedInv, QuietInv, UnservedInv, Effect
  PROVE  UnservedInv'
<1>. SUFFICES ASSUME Opens PROVE live'[ws'] = {}
  BY DEF UnservedInv, Opens
<1>. USE TasksFact DEF IInv, TypeInv, TypeOK, SocketTypes, TaskTypes
<1>1. ASSUME NEW t \in Tasks, SocketConnected(t) PROVE live'[ws'] = {}
  <2>1. ws' = ws + 1 /\ ws < MaxSockets /\ UNCHANGED live
    BY <1>1 DEF SocketConnected, ConnectFrame
  <2>2. ws + 1 \in Sockets /\ ws + 1 > ws
    BY <2>1, ConstantsAssumption DEF ConstantsAssumption, Sockets
  <2>. QED BY <2>1, <2>2 DEF FreshInv
<1>2. CASE disconnect /\ sock[ws] = "open" /\ UNCHANGED ws
  <2>1. live[ws] = {} /\ ~Connected /\ ~MayRestore
    BY <1>2 DEF UnservedInv, Connected, QuietInv, MayRestore
  <2>2. CASE UNCHANGED live
    BY <1>2, <2>1, <2>2
  <2>3. ASSUME NEW c \in Calls, CallContinues(c) PROVE UNCHANGED live
    BY <1>2, <2>1, <2>3, ContinueFacts DEF CheckedInv
  <2>4. ASSUME NEW c \in Calls, CallRests(c) PROVE live'[ws] \subseteq live[ws]
    BY <2>4 DEF CallRests, Rests
  <2>5. CASE MonitorActs
    BY <2>1, <2>2, <2>5 DEF MonitorActs, MonitorMoves
  <2>. QED
    BY <1>1, <1>2, <2>1, <2>2, <2>3, <2>4, <2>5
    DEF Effect, FinishClosing, TaskReplaces, ReceiverMoves, ReceiverRestarts, CloserActs, server
<1>. QED BY <1>1, <1>2, OpenWhileDisconnected

PromiseInv == IInv /\ FreshInv /\ CheckedInv /\ QuietInv /\ UnservedInv

LEMMA PromiseInvariant == Spec => []PromiseInv
<1>1. Init => PromiseInv
  <2>. SUFFICES ASSUME Init PROVE PromiseInv
    OBVIOUS
  <2>1. FreshInv /\ ~disconnect /\ IInv
    BY InitIInv DEF Init, FreshInv
  <2>. QED BY <2>1 DEF PromiseInv, CheckedInv, QuietInv, UnservedInv
<1>2. PromiseInv /\ [Next]_vars => PromiseInv'
  <2>1. ASSUME PromiseInv, Next PROVE PromiseInv'
    <3>1. IInv' /\ Effect /\ TypeInv
      BY <2>1, StepIInv DEF PromiseInv, IInv
    <3>. QED
      BY <2>1, <3>1, FreshNext, CheckedNext, QuietNext, UnservedNext DEF PromiseInv
  <2>2. ASSUME PromiseInv, UNCHANGED vars PROVE PromiseInv'
    BY <2>2, StutterIInv
    DEF PromiseInv, FreshInv, CheckedInv, QuietInv, UnservedInv, ReplacementConnecting, vars,
        server, monitor
  <2>. QED BY <2>1, <2>2
<1>. QED BY <1>1, <1>2, PTL DEF Spec

-----------------------------------------------------------------------------
(* The mapping: what happens to the status of the calls and to what is     *)
(* served.                                                                 *)
StepOrStutter == [Promise!Next]_(Promise!vars)

LEMMA StatusMoves ==
  ASSUME NEW c \in Calls, \A d \in Calls \ {c} : pc'[d] = pc[d]
  PROVE  /\ Status[c] = Kind(pc[c])
         /\ Status' = [Status EXCEPT ![c] = Kind(pc'[c])]
BY DEF Status

LEMMA StatusRests ==
  ASSUME \A c \in Calls : Kind(pc'[c]) = Kind(pc[c])
  PROVE  Status' = Status
BY DEF Status

LEMMA ServedRests ==
  ASSUME TypeInv, UNCHANGED <<ws, live>>, sock'[ws] = "open" <=> sock[ws] = "open"
  PROVE  ServedNow' = ServedNow
BY DEF ServedNow

LEMMA ServedLost ==
  ASSUME TypeInv, UNCHANGED <<ws, live>>, sock'[ws] = "open" => sock[ws] = "open"
  PROVE  ServedNow' \in {ServedNow, {}}
BY DEF ServedNow

LEMMA ServedGrows ==
  ASSUME TypeInv, NEW c, Served(c), UNCHANGED <<ws, sock>>
  PROVE  ServedNow' \in {ServedNow, ServedNow \cup {c}}
BY DEF ServedNow, Served, TypeInv, TypeOK, SocketTypes

LEMMA ServedShrinks ==
  ASSUME TypeInv, NEW c, live' = [live EXCEPT ![ws] = @ \ {c}], UNCHANGED <<ws, sock>>
  PROVE  ServedNow' = ServedNow \ {c}
BY DEF ServedNow, TypeInv, TypeOK, SocketTypes

(* A connection is lost, or nothing happens that the promise knows of.     *)
LEMMA LossStep ==
  ASSUME UNCHANGED Status, ServedNow' \in {ServedNow, {}}
  PROVE  StepOrStutter
BY DEF StepOrStutter, Promise!Next, Promise!Lose, Promise!vars

(* Call c is served, or is served already.                                 *)
LEMMA ServeStep ==
  ASSUME NEW c \in Calls,
         \/ Status[c] \in {"idle", "pending"} /\ Status' = [Status EXCEPT ![c] = "pending"]
         \/ Status[c] = "active" /\ UNCHANGED Status,
         ServedNow' \in {ServedNow, ServedNow \cup {c}}
  PROVE  StepOrStutter
<1>1. DOMAIN Status = Calls /\ Status = [d \in Calls |-> Status[d]]
  BY DEF Status
<1>2. CASE ServedNow' = ServedNow
  BY <1>1, <1>2
  DEF StepOrStutter, Promise!Next, Promise!Begin, Promise!Becomes, Promise!vars
<1>3. CASE ServedNow' # ServedNow
  <2>1. c \notin ServedNow /\ ServedNow' = ServedNow \cup {c}
    BY <1>3
  <2>2. \/ Promise!Becomes(c, {"idle", "pending"}, "pending")
        \/ Promise!Becomes(c, {"active"}, "active")
    BY <1>1 DEF Promise!Becomes
  <2>. QED BY <2>1, <2>2 DEF StepOrStutter, Promise!Next, Promise!Serve
<1>. QED BY <1>2, <1>3

-----------------------------------------------------------------------------
(* One lemma for each effect that the promise may know of.                 *)

(* A call that goes on inside subscribe_for_* begins or fails, and is      *)
(* served if its first frame goes out.                                     *)
LEMMA ContinueKeeps ==
  ASSUME TypeInv, NEW c \in Calls, CallContinues(c)
  PROVE  StepOrStutter
<1>1. /\ pc'[c] \in CallStops /\ \A d \in Calls \ {c} : pc'[d] = pc[d]
      /\ Kind(pc[c]) \in {"idle", "pending"}
  BY ContinueFacts DEF CallContinues, Kind
<1>2. UNCHANGED <<ws, sock>> /\ (UNCHANGED live \/ (pc'[c] = "sending" /\ Served(c)))
  BY ContinueFacts DEF CallContinues
<1>3. Status[c] = Kind(pc[c]) /\ Status' = [Status EXCEPT ![c] = Kind(pc'[c])]
  BY <1>1, StatusMoves
<1>4. CASE pc'[c] # "failed"
  <2>1. Kind(pc'[c]) = "pending"
    BY <1>1, <1>4 DEF CallStops, Kind
  <2>2. ServedNow' \in {ServedNow, ServedNow \cup {c}}
    BY <1>2, ServedGrows, ServedRests
  <2>. QED BY <1>1, <1>3, <2>1, <2>2, ServeStep
<1>5. CASE pc'[c] = "failed"
  <2>1. Kind(pc'[c]) = "failed"
    BY <1>5 DEF Kind
  <2>2. UNCHANGED ServedNow
    BY <1>2, <1>5, ServedRests
  <2>. QED
    BY <1>1, <1>3, <2>1, <2>2
    DEF StepOrStutter, Promise!Next, Promise!Fail, Promise!Becomes
<1>. QED BY <1>4, <1>5

(* Begin, Return, Fail and Unsubscribe, and the waits in between.          *)
LEMMA RestKeeps ==
  ASSUME TypeInv, UnservedInv, NEW c \in Calls, CallRests(c)
  PROVE  StepOrStutter
<1>. DEFINE Becomes(from, to) ==
       Status[c] \in from /\ Status' = [Status EXCEPT ![c] = to]
<1>1. PICK l \in CallRest :
        pc' = [pc EXCEPT ![c] = l] /\ Rests(c, l)
  BY DEF CallRests
<1>2. UNCHANGED <<ws, sock>> /\ pc'[c] = l /\ \A d \in Calls \ {c} : pc'[d] = pc[d]
  BY <1>1, TasksFact DEF CallRests, TypeInv, TypeOK, TaskTypes
<1>3. Status[c] = Kind(pc[c]) /\ Status' = [Status EXCEPT ![c] = Kind(l)]
  BY <1>2, StatusMoves
<1>4. UNCHANGED live => UNCHANGED ServedNow
  BY <1>2, ServedRests
<1>5. CASE l = "connect_lock" /\ pc[c] = "idle" /\ UNCHANGED live
  <2>1. Becomes({"idle"}, "pending")
    BY <1>3, <1>5 DEF Kind
  <2>. QED
    BY <1>4, <1>5, <2>1 DEF StepOrStutter, Promise!Next, Promise!Begin, Promise!Becomes
<1>6. CASE l = "active" /\ pc[c] = "sending" /\ UNCHANGED live
  <2>1. Becomes({"pending"}, "active")
    BY <1>3, <1>6 DEF Kind
  <2>. QED
    BY <1>4, <1>6, <2>1 DEF StepOrStutter, Promise!Next, Promise!Return, Promise!Becomes
<1>7. CASE /\ UNCHANGED live
           /\ \/ l = "failed" /\ pc[c] \notin Over \cup {"active", "un_lock"}
              \/ l = "un_fail" /\ pc[c] \in {"active", "un_lock"}
  <2>1. Becomes({"idle", "pending", "active"}, "failed")
    BY <1>3, <1>7 DEF Kind, Over
  <2>. QED
    BY <1>4, <1>7, <2>1 DEF StepOrStutter, Promise!Next, Promise!Fail, Promise!Becomes
<1>8. CASE /\ UNCHANGED live
           /\ <<pc[c], l>> \in {<<"active", "un_lock">>, <<"un_lock", "active">>,
                               <<"un_send", "ended">>, <<"un_fail", "failed">>}
  <2>1. Kind(l) = Kind(pc[c])
    BY <1>8 DEF Kind
  <2>2. UNCHANGED Status
    BY <1>2, <2>1, StatusRests
  <2>. QED BY <1>4, <1>8, <2>2, LossStep
<1>9. CASE /\ pc[c] \in {"active", "un_lock"}
           /\ \/ l = "un_send" /\ live' = [live EXCEPT ![ws] = @ \ {c}]
              \/ l = "ended" /\ ~Connected /\ UNCHANGED live
  <2>1. Becomes({"active"}, "over")
    BY <1>3, <1>9 DEF Kind
  <2>2. ~Connected => ServedNow = {}
    BY DEF Connected, ServedNow, UnservedInv
  <2>3. ServedNow' = ServedNow \ {c}
    BY <1>2, <1>4, <1>9, <2>2, ServedShrinks
  <2>. QED
    BY <2>1, <2>3 DEF StepOrStutter, Promise!Next, Promise!Unsubscribe, Promise!Becomes
<1>. QED BY <1>1, <1>5, <1>6, <1>7, <1>8, <1>9 DEF Rests

(* A call that starts to replace the socket begins; the monitor's moves    *)
(* are not the promise's business.                                         *)
LEMMA ReplaceKeeps ==
  ASSUME TypeInv, NEW t \in Tasks, TaskReplaces(t)
  PROVE  StepOrStutter
<1>1. PICK l \in {"nc_lock", "nc_cancel", "nc_connect"} :
        /\ pc' = [pc EXCEPT ![t] = l]
        /\ pc[t] = "nc_cancel" \/ MayReplace(t)
  BY DEF TaskReplaces
<1>2. UNCHANGED ServedNow
  BY ServedRests DEF TaskReplaces, server
<1>3. CASE t \in Calls
  <2>1. Kind(pc[t]) \in {"idle", "pending"} /\ Kind(l) = "pending"
    BY <1>1, <1>3, TasksFact DEF MayReplace, Kind
  <2>2. pc'[t] = l /\ \A d \in Calls \ {t} : pc'[d] = pc[d]
    BY <1>1, TasksFact DEF TypeInv, TypeOK, TaskTypes
  <2>. QED BY <1>2, <1>3, <2>1, <2>2, StatusMoves, ServeStep
<1>4. CASE t = Monitor
  <2>1. UNCHANGED Status
    BY <1>1, <1>4, TasksFact, StatusRests DEF TypeInv, TypeOK, TaskTypes
  <2>. QED BY <1>2, <2>1, LossStep
<1>. QED BY <1>3, <1>4 DEF Tasks

(* The new socket serves nothing yet.                                      *)
LEMMA ConnectedKeeps ==
  ASSUME TypeInv, FreshInv, NEW t \in Tasks, SocketConnected(t)
  PROVE  StepOrStutter
<1>1. /\ pc[t] = "nc_connect" /\ pc' = [pc EXCEPT ![t] = "nc_init"]
      /\ ws' = ws + 1 /\ ws < MaxSockets /\ UNCHANGED live
  BY DEF SocketConnected, ConnectFrame, Goto
<1>2. \A c \in Calls : Kind(pc'[c]) = Kind(pc[c])
  BY <1>1, TasksFact DEF Kind, TypeInv, TypeOK, TaskTypes
<1>3. UNCHANGED Status
  BY <1>2, StatusRests
<1>4. ws + 1 \in Sockets /\ ws + 1 > ws
  BY <1>1, ConstantsAssumption
  DEF ConstantsAssumption, TypeInv, TypeOK, SocketTypes, Sockets
<1>5. ServedNow' = {}
  BY <1>1, <1>4 DEF FreshInv, ServedNow
<1>. QED BY <1>3, <1>5, LossStep

(* The monitor restores a subscription, or gives up a connection.          *)
LEMMA MonitorKeeps ==
  ASSUME TypeInv, NoGhostSubscription, MonitorActs
  PROVE  StepOrStutter
<1>1. /\ UNCHANGED <<ws, subs>> /\ SocketsShut /\ \A c \in Calls : pc'[c] = pc[c]
      /\ UNCHANGED live \/ (UNCHANGED sock /\ \E c \in subs : Served(c))
  BY TasksFact DEF MonitorActs, MonitorMoves, MonitorGoes, TypeInv, TypeOK, TaskTypes
<1>2. UNCHANGED Status
  BY <1>1, StatusRests
<1>3. CASE UNCHANGED live
  <2>1. sock'[ws] = "open" => sock[ws] = "open"
    BY <1>1 DEF SocketsShut, TypeInv, TypeOK, SocketTypes
  <2>. QED BY <1>1, <1>2, <1>3, <2>1, ServedLost, LossStep
<1>4. ASSUME UNCHANGED sock, NEW c \in subs, Served(c) PROVE StepOrStutter
  <2>1. c \in Calls /\ pc[c] \in {"sending", "active", "un_lock"}
    BY DEF NoGhostSubscription, TypeInv, TypeOK, SocketTypes
  <2>2. ServedNow' \in {ServedNow, ServedNow \cup {c}}
    BY <1>1, <1>4, ServedGrows
  <2>3. Status[c] = Kind(pc[c]) /\ Kind(pc[c]) \in {"pending", "active"}
    BY <2>1 DEF Status, Kind
  <2>4. Status = [Status EXCEPT ![c] = Status[c]]
    BY <2>1 DEF Status
  <2>. QED BY <1>2, <2>1, <2>2, <2>3, <2>4, ServeStep
<1>. QED BY <1>1, <1>3, <1>4

(* A receiver, close() and a socket that has finished closing can lose the *)
(* connection.                                                             *)
LEMMA ReceiverKeeps ==
  ASSUME TypeInv, ReceiverMoves
  PROVE  StepOrStutter
<1>1. \A c \in Calls : Kind(pc'[c]) = Kind(pc[c])
  BY TasksFact DEF ReceiverMoves, Woken, Kind
<1>2. UNCHANGED <<ws, live>> /\ (sock'[ws] = "open" => sock[ws] = "open")
  BY DEF ReceiverMoves, TypeInv, TypeOK, SocketTypes
<1>. QED BY <1>1, <1>2, StatusRests, ServedLost, LossStep

LEMMA ShutKeeps ==
  ASSUME TypeInv, CloserActs \/ ReceiverRestarts \/ (\E s \in Sockets : FinishClosing(s))
  PROVE  StepOrStutter
<1>1. UNCHANGED <<ws, live, pc>>
  BY DEF CloserActs, ReceiverRestarts, FinishClosing, server
<1>2. sock'[ws] = "open" => sock[ws] = "open"
  BY DEF CloserActs, SocketsShut, ReceiverRestarts, FinishClosing, TypeInv, TypeOK, SocketTypes
<1>. QED BY <1>1, <1>2, StatusRests, ServedLost, LossStep

LEMMA PromiseStep ==
  ASSUME PromiseInv, [Next]_vars
  PROVE  StepOrStutter
<1>1. CASE Next
  <2>1. Effect /\ TypeInv /\ NoGhostSubscription /\ FreshInv /\ UnservedInv
    BY <1>1, StepIInv DEF PromiseInv, IInv
  <2>. QED
    BY <2>1, ContinueKeeps, RestKeeps, ReplaceKeeps, ConnectedKeeps, MonitorKeeps,
       ReceiverKeeps, ShutKeeps DEF Effect
<1>2. CASE UNCHANGED vars
  BY <1>2, LossStep DEF vars, server, Status, ServedNow
<1>. QED BY <1>1, <1>2

(* Whatever fails, is replaced, restored or closed, and whichever calls    *)
(* and tasks share the connection: the server begins to serve a            *)
(* subscription only for a call that is under way or has returned, stops   *)
(* only on request or with the connection, and an unsubscribe that does    *)
(* not raise has ended the service for good.                               *)
THEOREM SubscriptionsImplemented == Spec => ImplementsSubscriptions
<1>1. Init => Promise!Init
  <2>. SUFFICES ASSUME Init PROVE Promise!Init
    OBVIOUS
  <2>1. \A c \in Calls : Kind(pc[c]) = "idle"
    BY TasksFact DEF Init, Kind
  <2>2. ServedNow = {}
    BY ConstantsAssumption DEF ConstantsAssumption, Init, ServedNow, Sockets
  <2>. QED BY <2>1, <2>2 DEF Promise!Init, Status
<1>2. PromiseInv /\ [Next]_vars => [Promise!Next]_(Promise!vars)
  BY PromiseStep DEF StepOrStutter
<1>. QED
  BY PromiseInvariant, <1>1, <1>2, PTL DEF Spec, ImplementsSubscriptions, Promise!Spec

-----------------------------------------------------------------------------
(* What the monitor has sent while it restores is served, unless a call    *)
(* replaces the socket under it.                                           *)
RestoreInv == pc[Monitor] = "m_send" => subs \ todo \subseteq live[ws]

Undisturbed == pc[Monitor] = "m_send" => UNCHANGED ws

LEMMA RestoreNext ==
  ASSUME IInv, RestoreInv, Effect, Undisturbed
  PROVE  RestoreInv'
<1>. USE TasksFact DEF IInv, TypeInv, TypeOK, SocketTypes, TaskTypes
<1>. DEFINE Stays == /\ pc'[Monitor] = "m_send" => pc[Monitor] = "m_send"
                     /\ UNCHANGED <<subs, todo, live>>
<1>1. CASE Stays
  BY <1>1 DEF RestoreInv, Undisturbed
<1>2. ASSUME NEW c \in Calls, CallContinues(c) PROVE RestoreInv'
  <2>. SUFFICES ASSUME pc'[Monitor] = "m_send" PROVE subs' \ todo' \subseteq live'[ws']
    BY DEF RestoreInv
  <2>1. pc[Monitor] = "m_send" /\ UNCHANGED todo
    BY <1>2, ContinueFacts DEF CallContinues, monitor
  <2>2. pc'[c] # "sending"
    BY <1>2, <2>1, ContinueFacts DEF OthersAt, SubscriptionHolders
  <2>. QED BY <1>1, <1>2, <2>1, <2>2, ContinueFacts DEF RestoreInv
<1>3. ASSUME NEW c \in Calls, CallRests(c) PROVE RestoreInv'
  <2>. SUFFICES ASSUME pc'[Monitor] = "m_send" PROVE subs' \ todo' \subseteq live'[ws']
    BY DEF RestoreInv
  <2>1. PICK l \in CallRest :
          /\ pc' = [pc EXCEPT ![c] = l] /\ Rests(c, l)
          /\ l \notin Registered /\ subs' = subs => pc[c] \notin Registered \/ c \notin subs
    BY <1>3 DEF CallRests
  <2>2. pc[Monitor] = "m_send" /\ UNCHANGED <<ws, todo>>
    BY <1>3, <2>1 DEF CallRests, monitor
  <2>3. pc[c] # "sending" /\ OthersAt(c, SubscriptionHolders)
    BY <2>2 DEF LockInv, SubscriptionExclusion, At, SubscriptionHolders, OthersAt
  <2>4. subs' = subs
    BY <1>3, <2>3 DEF CallRests
  <2>5. ~(l = "un_send" /\ pc[c] \in {"active", "un_lock"})
    BY <2>1, <2>4 DEF NoGhostSubscription, Registered
  <2>. QED BY <2>1, <2>2, <2>4, <2>5 DEF Rests, RestoreInv
<1>4. ASSUME NEW t \in Tasks, TaskReplaces(t) PROVE RestoreInv'
  BY <1>1, <1>4 DEF TaskReplaces, server
<1>5. ASSUME NEW t \in Tasks, SocketConnected(t) PROVE RestoreInv'
  BY <1>1, <1>5 DEF SocketConnected, ConnectFrame, Goto, monitor
<1>6. CASE MonitorActs
  <2>. SUFFICES ASSUME pc'[Monitor] = "m_send" PROVE subs' \ todo' \subseteq live'[ws']
    BY DEF RestoreInv
  <2>1. UNCHANGED <<ws, subs>> /\ SendsNext
    BY <1>6 DEF MonitorActs, MonitorMoves, MonitorGoes
  <2>2. PICK c \in subs : /\ Served(c)
                          /\ \/ todo' = subs \ {c}
                             \/ pc[Monitor] = "m_send" /\ todo' = todo \ {c}
    BY <2>1 DEF SendsNext
  <2>3. live'[ws] = live[ws] \cup {c}
    BY <2>2 DEF Served
  <2>. QED BY <2>1, <2>2, <2>3 DEF RestoreInv
<1>7. CASE ReceiverMoves
  BY <1>1, <1>7 DEF ReceiverMoves, Woken, monitor
<1>. QED
  BY <1>1, <1>2, <1>3, <1>4, <1>5, <1>6, <1>7
  DEF Effect, FinishClosing, ReceiverRestarts, CloserActs, server, monitor

LEMMA RestoreResets ==
  ASSUME IInv, RestoreInv, Effect, attempt # 0, attempt' = 0
  PROVE  pc'[Monitor] = "off" \/ subs \subseteq live'[ws]
<1>1. MonitorActs
  BY DEF Effect, CallContinues, CallRests, TaskReplaces, SocketConnected, FinishClosing,
         ReceiverMoves, ReceiverRestarts, CloserActs, monitor
<1>2. PICK l \in MonitorStops : MonitorGoes(l)
  BY <1>1 DEF MonitorActs, MonitorMoves
<1>3. pc'[Monitor] = l
  BY <1>2, TasksFact DEF MonitorGoes, IInv, TypeInv, TypeOK, TaskTypes
<1>4. l = "off" \/ HasSentAll
  BY <1>2 DEF MonitorGoes
<1>5. HasSentAll => subs \subseteq live'[ws]
  BY DEF HasSentAll, RestoreInv
<1>. QED BY <1>3, <1>4, <1>5

LEMMA RestoreStep ==
  ASSUME IInv, RestoreInv, [Next]_vars, [Undisturbed]_vars
  PROVE  RestoreInv'
<1>1. CASE UNCHANGED vars
  BY <1>1 DEF RestoreInv, vars, server, monitor
<1>2. CASE Next /\ ~UNCHANGED vars
  BY <1>2, StepIInv, RestoreNext
<1>. QED BY <1>1, <1>2

Resets == attempt # 0 /\ attempt' = 0 => pc'[Monitor] = "off" \/ subs \subseteq live'[ws]

LEMMA ResetsStep ==
  ASSUME IInv, RestoreInv, [Next]_vars
  PROVE  [Resets]_vars
<1>1. CASE Next
  BY <1>1, StepIInv, RestoreResets DEF Resets
<1>. QED BY <1>1

(* With one call the backoff starts over only when its subscription is     *)
(* served: while it replaces the socket itself, nothing is registered.     *)
THEOREM OneCallRestoreIsComplete ==
  ASSUME \A c, d \in Calls : c = d
  PROVE  Spec => BackoffResetsWhenRestored
<1>1. Init => RestoreInv
  BY TasksFact DEF Init, RestoreInv
<1>2. ASSUME IInv, RestoreInv, [Next]_vars
      PROVE  RestoreInv'
  <2>1. CASE [Undisturbed]_vars
    BY <1>2, <2>1, RestoreStep
  <2>2. CASE Next /\ pc[Monitor] = "m_send" /\ ws' # ws
    <3>1. PICK t \in Tasks : SocketConnected(t)
      BY <1>2, <2>2, StepIInv
      DEF Effect, CallContinues, CallRests, TaskReplaces, FinishClosing, MonitorActs,
          ReceiverMoves, ReceiverRestarts, CloserActs
    <3>2. t \in Calls /\ pc[t] = "nc_connect" /\ UNCHANGED subs
      BY <2>2, <3>1 DEF SocketConnected, ConnectFrame, Tasks
    <3>3. subs = {}
      BY <1>2, <3>2 DEF IInv, NoGhostSubscription, TypeInv, TypeOK, SocketTypes
    <3>. QED BY <3>2, <3>3 DEF RestoreInv
  <2>. QED BY <1>2, <2>1, <2>2 DEF Undisturbed
<1>3. Spec => []RestoreInv
  BY <1>1, <1>2, InductiveInvariant, PTL DEF Spec
<1>4. Spec => [][Resets]_vars
  BY <1>3, InductiveInvariant, ResetsStep, PTL DEF Spec
<1>. QED BY <1>4 DEF BackoffResetsWhenRestored, Resets
=============================================================================
