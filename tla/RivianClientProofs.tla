-------------------------- MODULE RivianClientProofs --------------------------
(***************************************************************************)
(* Proofs about RivianClient, for every set of calls and every bound.      *)
(*                                                                         *)
(* The actions are compositions (a call that gets the connection goes on   *)
(* into start_subscription, the monitor into _resubscribe_all), so each is *)
(* first reduced to its effect on the variables: a receiver moves, a call  *)
(* moves, a task works on replacing the socket, or the monitor moves.  The *)
(* invariants are then proved by cases on the effects.                     *)
(***************************************************************************)
EXTENDS RivianClient, TLAPS

-----------------------------------------------------------------------------
(* The inductive invariant                                                 *)

(* TypeOK is not inductive alone: cancel_task must not reach receiver 0,   *)
(* which is None, and the exponent is below its limit where the monitor    *)
(* sleeps.                                                                 *)
TypeInv ==
  /\ TypeOK
  /\ rst[0] = "done"
  /\ pc[Monitor] = "m_backoff" => attempt < ExponentLimit

(* _connection_lock, _subscription_lock and _ws_connect_lock have at most  *)
(* one holder each.                                                        *)
Connecting == NewConnectionPcs \cup {"nc_lock"}
ConnectionExclusion ==
  \A t, u \in Tasks : At(t, ConnectionHolders) /\ At(u, ConnectionHolders) => t = u
SubscriptionExclusion ==
  \A t, u \in Tasks : At(t, SubscriptionHolders) /\ At(u, SubscriptionHolders) => t = u
ConnectExclusion ==
  \A c, d \in Calls : At(c, Connecting) /\ At(d, Connecting) => c = d
LockInv == ConnectionExclusion /\ SubscriptionExclusion /\ ConnectExclusion

(* What the monitor still has to send is registered.                       *)
SnapshotInv == todo \subseteq subs /\ (pc[Monitor] # "m_send" => todo = {})

(* A task that replaces the socket has found no open one, and has cleared  *)
(* the acknowledgement when it connects.                                   *)
NoOpenWhileReplacing ==
  \A t \in Tasks : At(t, {"nc_cancel", "nc_connect"}) => sock[ws] # "open"
AckClear == \A t \in Tasks : pc[t] = "nc_connect" => ~ack

(* Once close() has set _disconnect while a replacement is connecting, or  *)
(* has been opened, no task is left that would open yet another one: the   *)
(* monitor is cancelled, and no call waits for _connection_lock.           *)
ReplacementConnecting == \E t \in Tasks : pc[t] = "nc_connect"
CloseInv ==
  /\ disconnect /\ sock[ws] # "closed" => closing # "idle"
  /\ disconnect /\ ReplacementConnecting => closing # "idle"
  /\ \A t \in Tasks :
       At(t, {"nc_cancel", "nc_connect"}) /\ sock[ws] = "closing" => closing # "idle"
QueueInv ==
  disconnect /\ (sock[ws] = "open" \/ ReplacementConnecting) =>
    /\ At(Monitor, {"nc_lock", "nc_connect"}) => mcancel
    /\ sock[ws] = "open" => \A c \in Calls : pc[c] # "nc_lock"

-----------------------------------------------------------------------------
(* Effects                                                                 *)

(* Frames sent in this step belong to registered subscriptions.            *)
ServerGrows ==
  /\ live' \in [Sockets -> SUBSET Calls]
  /\ twice' \subseteq Calls
  /\ \A c \in Calls, s \in Sockets : c \in live'[s] \ live[s] => c \in subs'
  /\ UNCHANGED acked

(* The frame of id c has gone out on the current socket.                   *)
Served(c) == sock[ws] # "closed" /\ live' = [live EXCEPT ![ws] = @ \cup {c}]

NewReceiver == UNCHANGED receivers \/ CreateReceiver

(* Call c runs from one await to the next inside subscribe_for_*; p is pc  *)
(* or MonitorStarted.                                                      *)
CallStops == {"failed", "await_ack", "await_ack_again", "conn_lock", "spin",
              "sub_lock", "sending"}
CallMoves(p, c) ==
  \E l \in CallStops :
    /\ pc' = [p EXCEPT ![c] = l]
    /\ bound' \in [Tasks -> Sockets] /\ \A u \in Tasks \ {c} : bound'[u] = bound[u]
    /\ l \in {"sub_lock", "sending"} =>
         \/ ack /\ Connected /\ bound'[c] = ws /\ ~OthersAt(c, ConnectionHolders)
         \/ pc[c] = "sub_lock" /\ bound'[c] = bound[c]
    /\ l = "sending" => ~OthersAt(c, SubscriptionHolders)
    /\ subs' = IF l = "sending" THEN subs \cup {c} ELSE subs
    /\ UNCHANGED live \/ (l = "sending" /\ Served(c))
    /\ ServerGrows /\ UNCHANGED inited

(* The monitor runs from one await to the next outside new_connection.     *)
MonitorStops == {"off", "watch", "m_ack", "m_lock", "m_send", "m_close", "m_backoff"}
SocketsShut ==
  /\ sock' \in [Sockets -> {"open", "closing", "closed"}]
  /\ \A s \in Sockets :
       \/ sock'[s] \in {sock[s], "closed"}
       \/ sock[s] = "open" /\ sock'[s] = "closing"
MonitorMayEnd == disconnect \/ mcancel \/ attempt = ExponentLimit
(* The monitor is in _resubscribe_all, or comes to it: from where it is not*)
(* on its way to it, only if it has not been disconnected.                 *)
Quiet == {"off", "watch", "nc_cancel", "m_close", "m_backoff"}
MayRestore == ~mcancel /\ (disconnect => pc[Monitor] \notin Quiet)
(* The next frame of the snapshot goes out, or there is none left.         *)
SendsNext ==
  \E c \in subs : /\ Served(c)
                 /\ \/ todo' = subs \ {c}
                    \/ pc[Monitor] = "m_send" /\ todo' = todo \ {c}
HasSentAll ==
  UNCHANGED live /\ (subs = {} \/ (pc[Monitor] = "m_send" /\ todo = {}))
MonitorGoes(l) ==
  /\ l = "off" => MonitorMayEnd
  /\ l = "m_send" => SendsNext
  /\ l \in {"m_ack", "m_lock", "m_send"} => MayRestore
  /\ attempt # 0 /\ attempt' = 0 => l = "off" \/ (l = "watch" /\ HasSentAll)
  /\ pc' = [pc EXCEPT ![Monitor] = l]
  /\ bound' \in [Tasks -> Sockets] /\ \A c \in Calls : bound'[c] = bound[c]
  /\ l = "m_send" => pc[Monitor] = "m_send" \/ ~OthersAt(Monitor, SubscriptionHolders)
  /\ todo' \subseteq subs /\ (l # "m_send" => todo' = {})
  /\ attempt' \in 0 .. ExponentLimit /\ (l = "m_backoff" => attempt' < ExponentLimit)
  /\ mcancel' \in BOOLEAN /\ (l # "off" => mcancel' = mcancel)
  /\ closing' = closing \/ (closing = "monitor" /\ closing' = "monitor_done")
  /\ UNCHANGED <<csocket, creceiver>>
MonitorMoves ==
  /\ (\E l \in MonitorStops : MonitorGoes(l)) /\ SocketsShut /\ ServerGrows
  /\ UNCHANGED live \/ (MayRestore /\ UNCHANGED sock /\ \E c \in subs : Served(c))

CallContinues(c) ==
  /\ pc[c] \in {"idle", "connect_lock", "nc_lock", "nc_init", "acked", "acked_again",
                "conn_lock", "sub_lock"}
  /\ \E p \in {pc, MonitorStarted} : CallMoves(p, c)
  /\ NewReceiver /\ UNCHANGED <<ws, sock, disconnect, ack, monitor, closer, faults>>

(* A call queues for _ws_connect_lock, gives up, or works on what it has   *)
(* registered.                                                             *)
Registered == {"sending", "active", "un_lock"}
Over == {"un_send", "un_fail", "ended", "failed"}
CallRest == {"connect_lock", "active", "failed", "un_lock", "un_send", "un_fail", "ended"}
Rests(c, l) ==
  \/ l = "connect_lock" /\ pc[c] = "idle" /\ UNCHANGED live
  \/ l = "active" /\ pc[c] \in {"sending", "un_lock"} /\ UNCHANGED live
  \/ l = "failed" /\ pc[c] \notin Over \cup {"active", "un_lock"} /\ UNCHANGED live
  \/ l = "un_lock" /\ pc[c] = "active" /\ UNCHANGED live
  \/ l = "ended" /\ pc[c] \in {"active", "un_lock"} /\ ~Connected /\ UNCHANGED live
  \/ /\ l = "un_send" /\ pc[c] \in {"active", "un_lock"}
     /\ live' = [live EXCEPT ![ws] = @ \ {c}]
  \/ l = "un_fail" /\ pc[c] \in {"active", "un_lock"} /\ UNCHANGED live
  \/ l = "ended" /\ pc[c] = "un_send" /\ UNCHANGED live
  \/ l = "failed" /\ pc[c] = "un_fail" /\ UNCHANGED live
CallRests(c) ==
  /\ \E l \in CallRest :
       /\ pc' = [pc EXCEPT ![c] = l] /\ Rests(c, l)
       /\ l \in {"un_send", "un_fail"} => ~OthersAt(c, SubscriptionHolders)
       /\ l \in Registered => subs' = subs /\ pc[c] \in Registered
       /\ l \notin Registered /\ subs' = subs => pc[c] \notin Registered \/ c \notin subs
  /\ subs' \in {subs, subs \ {c}}
  /\ subs' # subs => pc[c] = "sending" \/ ~OthersAt(c, SubscriptionHolders)
  /\ inited' \subseteq Sockets /\ faults' \in 0 .. MaxFaults /\ ServerGrows
  /\ UNCHANGED <<ws, sock, disconnect, ack, receivers, bound, monitor, closer>>

(* Task t queues for _connection_lock, waits for the old receiver, or      *)
(* starts to connect.                                                      *)
MayReplace(t) ==
  \/ pc[t] = "nc_lock" /\ (t = Monitor => ~mcancel)
  \/ t \in Calls /\ pc[t] \in {"idle", "connect_lock"} /\ sock[ws] = "closed"
     /\ MayTakeConnectLock(t)
  \/ t = Monitor /\ pc[t] = "watch" /\ ~disconnect /\ ~mcancel
TaskReplaces(t) ==
  /\ \E l \in {"nc_lock", "nc_cancel", "nc_connect"} :
       /\ pc' = [pc EXCEPT ![t] = l]
       /\ \/ pc[t] = "nc_cancel" /\ l = "nc_connect"
          \/ MayReplace(t) /\ l = "nc_lock"
          \/ MayReplace(t) /\ ~OthersAt(t, ConnectionHolders) /\ ~Connected
       /\ disconnect' = (disconnect /\ l # "nc_connect")
       /\ ack' = (ack /\ l # "nc_connect")
  /\ rcancel' \subseteq Receivers
  /\ mcancel' = mcancel \/ (t = Monitor /\ pc[t] = "nc_cancel" /\ mcancel' = FALSE)
  /\ UNCHANGED <<ws, sock, server, subs, rtask, rst, rsock, bound, todo, attempt,
                 closer, faults>>

MonitorActs ==
  /\ MonitorMoves /\ NewReceiver
  /\ inited' \subseteq Sockets /\ faults' \in 0 .. MaxFaults
  /\ UNCHANGED <<ws, disconnect, ack, subs>>

(* A receiver moves; s is the socket it reads.                             *)
Woken ==
  /\ pc' \in [Tasks -> CallPcs \cup MonitorPcs]
  /\ \A t \in Tasks : <<pc[t], pc'[t]>> \in {<<pc[t], pc[t]>>, <<"await_ack", "acked">>,
                        <<"await_ack_again", "acked_again">>, <<"m_ack", "m_acked">>}
ReceiverMoves ==
  /\ Woken
  /\ sock' \in [Sockets -> {"open", "closing", "closed"}]
  /\ \A s \in Sockets : sock'[s] \in {sock[s], "closed"}
  /\ ack' \in BOOLEAN
  /\ ack' => ack \/ \E s \in Sockets : sock[s] = "open" /\ s \in acked'
  /\ acked \subseteq acked' /\ acked' \subseteq Sockets
  /\ disconnect' \in BOOLEAN
  /\ disconnect' => disconnect \/ \E s \in Sockets : sock[s] = "open" /\ sock'[s] = "closed"
  /\ ReceiverTypes' /\ rst'[0] = "done" /\ faults' \in 0 .. MaxFaults
  /\ UNCHANGED <<ws, inited, live, twice, subs, bound, monitor, closer>>

ReceiverRestarts ==
  CreateReceiver /\ UNCHANGED <<ws, sock, server, disconnect, ack, subs, pc, bound, monitor,
                                closer, faults>>

CloserActs ==
  /\ CloserTypes' /\ closing' # "idle" /\ SocketsShut
  /\ rcancel' \subseteq Receivers /\ mcancel' \in BOOLEAN /\ (mcancel => mcancel')
  /\ \/ UNCHANGED disconnect
     \/ /\ closing = "idle" /\ disconnect' = TRUE /\ sock'[ws] # "open"
        /\ sock[ws] = "closed" /\ pc[Monitor] # "off" => mcancel'
  /\ UNCHANGED <<ws, server, ack, subs, rtask, rst, rsock, pc, bound, todo, attempt>>

LEMMA TasksFact == Monitor \in Tasks /\ Monitor \notin Calls /\ \A c \in Calls : c \in Tasks
BY ConstantsAssumption DEF ConstantsAssumption, Tasks

LEMMA SendSubscribeEffect ==
  ASSUME TypeInv, NEW c \in Calls, SendSubscribe(c), c \in subs'
  PROVE  ServerGrows /\ Served(c) /\ UNCHANGED <<inited, acked>>
BY DEF SendSubscribe, Served, ServerGrows, TypeInv, TypeOK, SocketTypes

LEMMA CheckAndSendEffect ==
  ASSUME TypeInv, NEW c \in Calls, NEW p, NEW s \in Sockets, CheckAndSend(p, c, s)
  PROVE  CallMoves(p, c)
<1>. USE TasksFact DEF TypeInv, TypeOK, SocketTypes, TaskTypes
<1>1. ASSUME MayTakeConnectionLock(c, "conn_lock"), LockAndSend(p, c), ack, Connected,
             bound' = [bound EXCEPT ![c] = ws]
      PROVE  CallMoves(p, c)
  <2>1. CASE pc' = [p EXCEPT ![c] = "sending"] /\ subs' = subs \cup {c} /\ SendSubscribe(c)
             /\ MayTakeSubscriptionLock(c, "sub_lock")
    <3>1. ServerGrows /\ Served(c) /\ UNCHANGED <<inited, acked>>
      BY <2>1, SendSubscribeEffect
    <3>. QED BY <1>1, <2>1, <3>1 DEF CallMoves, CallStops, MayTakeConnectionLock, MayTakeSubscriptionLock, MayTake
  <2>2. CASE GotoIn(p, c, "failed")
    BY <1>1, <2>2 DEF CallMoves, CallStops, GotoIn, ServerGrows, server
  <2>3. CASE GotoIn(p, c, "sub_lock")
    BY <1>1, <2>3 DEF CallMoves, CallStops, GotoIn, ServerGrows, server, MayTakeConnectionLock, MayTake
  <2>. QED BY <1>1, <2>1, <2>2, <2>3 DEF LockAndSend, RegisterAndSend
<1>2. ASSUME NEW l \in {"failed", "await_ack", "await_ack_again", "conn_lock", "spin"},
             GotoIn(p, c, l), NEW b \in Sockets, bound' = [bound EXCEPT ![c] = b]
      PROVE  CallMoves(p, c)
  BY <1>2 DEF CallMoves, CallStops, GotoIn, ServerGrows, server
<1>. QED BY <1>1, <1>2 DEF CheckAndSend

LEMMA StartSubscriptionEffect ==
  ASSUME TypeInv, NEW c \in Calls, NEW p, StartSubscription(p, c)
  PROVE  CallMoves(p, c)
<1>. USE TasksFact DEF TypeInv, TypeOK, SocketTypes, TaskTypes
<1>1. CASE GotoIn(p, c, "failed") /\ UNCHANGED bound
  BY <1>1 DEF CallMoves, CallStops, GotoIn, ServerGrows, server
<1>2. CASE GotoIn(p, c, "await_ack_again") /\ bound' = [bound EXCEPT ![c] = ws]
  BY <1>2 DEF CallMoves, CallStops, GotoIn, ServerGrows, server
<1>3. CASE CheckAndSend(p, c, ws)
  BY <1>3, CheckAndSendEffect
<1>. QED BY <1>1, <1>2, <1>3 DEF StartSubscription

LEMMA AwaitAckEffect ==
  ASSUME TypeInv, NEW c \in Calls, NEW p, AwaitAck(p, c)
  PROVE  CallMoves(p, c)
<1>. USE TasksFact DEF TypeInv, TypeOK, SocketTypes, TaskTypes
<1>1. CASE GotoIn(p, c, "await_ack") /\ UNCHANGED bound
  BY <1>1 DEF CallMoves, CallStops, GotoIn, ServerGrows, server
<1>. QED BY <1>1, StartSubscriptionEffect DEF AwaitAck

-----------------------------------------------------------------------------
LEMMA NothingShut ==
  ASSUME TypeInv, UNCHANGED sock
  PROVE  SocketsShut
BY DEF SocketsShut, TypeInv, TypeOK, SocketTypes

LEMMA NothingSent ==
  ASSUME TypeInv, UNCHANGED <<acked, live, twice>>
  PROVE  ServerGrows
BY DEF ServerGrows, TypeInv, TypeOK, SocketTypes

LEMMA MonitorEndsEffect ==
  ASSUME TypeInv, MonitorEnds, UNCHANGED bound, MonitorMayEnd
  PROVE  MonitorGoes("off")
<1>1. 0 \in 0 .. ExponentLimit
  BY ConstantsAssumption DEF ConstantsAssumption
<1>2. closing' = closing \/ (closing = "monitor" /\ closing' = "monitor_done")
  BY DEF MonitorEnds
<1>. QED
  BY <1>1, <1>2, TasksFact DEF MonitorEnds, Goto, MonitorGoes, TypeInv, TypeOK, TaskTypes

LEMMA BackoffEffect ==
  ASSUME TypeInv, Backoff, UNCHANGED bound
  PROVE  MonitorGoes("off") \/ MonitorGoes("m_backoff")
<1>1. CASE attempt < ExponentLimit
  BY <1>1, TasksFact
  DEF Backoff, Goto, MonitorGoes, TypeInv, TypeOK, TaskTypes, MonitorTypes, closer
<1>2. CASE ~(attempt < ExponentLimit)
  <2>1. attempt = ExponentLimit
    BY <1>2, ConstantsAssumption DEF ConstantsAssumption, TypeInv, TypeOK, MonitorTypes
  <2>. QED BY <1>2, <2>1, MonitorEndsEffect DEF Backoff, MonitorMayEnd
<1>. QED BY <1>1, <1>2

LEMMA CloseSocketEffect ==
  ASSUME TypeInv, CloseSocket(ws)
  PROVE  SocketsShut
BY DEF CloseSocket, SocketsShut, TypeInv, TypeOK, SocketTypes

LEMMA ReconnectFailsEffect ==
  ASSUME TypeInv, ReconnectFails, UNCHANGED <<acked, live, twice>>
  PROVE  MonitorMoves
<1>1. CASE sock[ws] # "closed"
  <2>1. MonitorGoes("m_close")
    BY <1>1, TasksFact
    DEF ReconnectFails, Goto, MonitorGoes, TypeInv, TypeOK, SocketTypes, TaskTypes, MonitorTypes, closer
  <2>. QED BY <1>1, <2>1, CloseSocketEffect, NothingSent DEF ReconnectFails, MonitorMoves, MonitorStops
<1>. QED BY <1>1, BackoffEffect, NothingShut, NothingSent DEF ReconnectFails, MonitorMoves, MonitorStops

LEMMA SendSnapshotEffect ==
  ASSUME TypeInv, NEW rest \in SUBSET subs, SendSnapshot(rest), UNCHANGED subs,
         pc[Monitor] = "m_send" \/ ~OthersAt(Monitor, SubscriptionHolders),
         rest = subs \/ (pc[Monitor] = "m_send" /\ rest = todo), MayRestore
  PROVE  MonitorMoves /\ UNCHANGED inited
<1>. USE TasksFact DEF TypeInv, TypeOK, SocketTypes, TaskTypes, MonitorTypes
<1>1. CASE rest = {} /\ Goto(Monitor, "watch") /\ todo' = {} /\ attempt' = 0
           /\ UNCHANGED <<sock, server, bound, mcancel, closer>>
  <2>1. MonitorGoes("watch")
    BY <1>1, ConstantsAssumption
    DEF ConstantsAssumption, Goto, MonitorGoes, HasSentAll, closer, server
  <2>. QED BY <1>1, <2>1, NothingShut, NothingSent DEF MonitorMoves, MonitorStops, server
<1>2. ASSUME NEW c \in rest, SendSubscribe(c), todo' = rest \ {c}, Goto(Monitor, "m_send"),
             UNCHANGED <<sock, bound, attempt, mcancel, closer>>
      PROVE  MonitorMoves /\ UNCHANGED inited
  <2>1. ServerGrows /\ Served(c) /\ UNCHANGED inited
    BY <1>2, SendSubscribeEffect
  <2>2. SendsNext
    BY <1>2, <2>1 DEF SendsNext
  <2>3. MonitorGoes("m_send")
    BY <1>2, <2>2 DEF Goto, MonitorGoes, closer
  <2>. QED BY <1>2, <2>1, <2>3, NothingShut DEF MonitorMoves, MonitorStops
<1>3. CASE ReconnectFails /\ UNCHANGED server
  BY <1>3, ReconnectFailsEffect DEF server
<1>. QED BY <1>1, <1>2, <1>3 DEF SendSnapshot

LEMMA MonitorWaitsEffect ==
  ASSUME TypeInv, NEW l \in {"m_ack", "m_lock"}, MonitorWaits(l), todo = {}, MayRestore
  PROVE  MonitorMoves /\ UNCHANGED inited
<1>1. MonitorGoes(l)
  BY TasksFact
  DEF MonitorWaits, Goto, MonitorGoes, monitor, closer,
      TypeInv, TypeOK, TaskTypes, MonitorTypes
<1>. QED BY <1>1, NothingShut, NothingSent DEF MonitorWaits, MonitorMoves, MonitorStops, server

LEMMA LockAndResubscribeEffect ==
  ASSUME TypeInv, LockAndResubscribe, UNCHANGED subs, todo = {}, MayRestore
  PROVE  MonitorMoves /\ UNCHANGED inited
<1>1. CASE MayTakeSubscriptionLock(Monitor, "m_lock") /\ SendSnapshot(subs)
  BY <1>1, SendSnapshotEffect DEF MayTakeSubscriptionLock, MayTake
<1>2. CASE MonitorWaits("m_lock")
  BY <1>2, MonitorWaitsEffect
<1>. QED BY <1>1, <1>2 DEF LockAndResubscribe

LEMMA ResubscribeAllEffect ==
  ASSUME TypeInv, ResubscribeAll, UNCHANGED subs, todo = {}, MayRestore
  PROVE  MonitorMoves /\ UNCHANGED inited
BY LockAndResubscribeEffect, MonitorWaitsEffect DEF ResubscribeAll
-----------------------------------------------------------------------------
(* The actions have these effects.                                         *)

LEMMA RealReceiver ==
  ASSUME TypeInv
  PROVE  /\ \A r \in Receivers : r \in 0 .. MaxReceivers /\ r # 0
         /\ \A r \in 0 .. MaxReceivers : rst[r] # "done" => r \in Receivers
BY ConstantsAssumption DEF ConstantsAssumption, TypeInv, Receivers

LEMMA ReceiverDoneEffect ==
  ASSUME TypeInv, NEW r \in Receivers, NEW a, ReceiverDone(r, a), UNCHANGED rtask
  PROVE  ReceiverTypes' /\ rst'[0] = "done" /\ ack' = a
BY RealReceiver, ConstantsAssumption
DEF ConstantsAssumption, TypeInv, TypeOK, ReceiverTypes, ReceiverDone, Sockets

LEMMA ReceiverEffect ==
  ASSUME TypeInv, NEW r \in Receivers, ReceiverStep(r) \/ ReceiverEvent(r)
  PROVE  ReceiverMoves
<1>. USE ConstantsAssumption, RealReceiver
     DEF ConstantsAssumption, TypeInv, TypeOK, SocketTypes, ReceiverTypes, TaskTypes,
         CloserTypes, ReceiverStep, ReceiverEvent, ReceiverMoves
<1>. DEFINE Shuts == \E q \in Sockets : sock[q] = "open" /\ sock'[q] = "closed"
<1>1. ASSUME NEW a \in BOOLEAN, ReceiverDone(r, a), a => ack, UNCHANGED <<pc, acked>>,
             sock' \in [Sockets -> {"open", "closing", "closed"}],
             \A q \in Sockets : sock'[q] \in {sock[q], "closed"},
             disconnect' \in BOOLEAN, disconnect' => disconnect \/ Shuts,
             faults' \in 0 .. MaxFaults
      PROVE  ReceiverMoves
  <2>1. Woken
    BY <1>1 DEF Woken
  <2>2. ReceiverTypes' /\ rst'[0] = "done" /\ ack' = a
    BY <1>1, ReceiverDoneEffect
  <2>3. UNCHANGED <<ws, inited, live, twice, subs, bound, monitor, closer>>
    OBVIOUS
  <2>. HIDE DEF ReceiverTypes, ReceiverStep, ReceiverEvent
  <2>. QED BY <1>1, <2>1, <2>2, <2>3
<1>2. CASE ReceiverRuns(r)
  <2>1. CASE rst' = [rst EXCEPT ![r] = "recv"]
    <3>1. Woken
      BY <1>2 DEF ReceiverRuns, Woken
    <3>2. rsock' \in [0 .. MaxReceivers -> Sockets] /\ UNCHANGED <<sock, ack, rcancel>>
      BY <1>2, <2>1 DEF ReceiverRuns, ReceiverDone
    <3>3. ReceiverTypes' /\ rst'[0] = "done"
      BY <1>2, <2>1, <3>2
    <3>. QED BY <1>2, <3>1, <3>2, <3>3 DEF ReceiverRuns
  <2>2. CASE ReceiverDone(r, FALSE)
    BY <1>1, <1>2, <2>2 DEF ReceiverRuns
  <2>. QED BY <1>2, <2>1, <2>2 DEF ReceiverRuns
<1>3. CASE ReceiveNext(r)
  <2>1. Woken
    BY <1>3 DEF ReceiveNext, Woken
  <2>. QED BY <1>3, <2>1 DEF ReceiveNext
<1>4. CASE ReceiveAck(r)
  <2>1. Woken
    BY <1>4, TasksFact
    DEF ReceiveAck, Woken, CallPcs, MonitorPcs, NewConnectionPcs, ConnectionHolders,
        ConnectionWaiters
  <2>. QED BY <1>4, <2>1 DEF ReceiveAck, InReceive
<1>5. CASE ReceiveClosing(r)
  BY <1>1, <1>5 DEF ReceiveClosing
<1>6. CASE ReceiveClose(r)
  <2>1. faults' \in 0 .. MaxFaults
    BY <1>6 DEF ReceiveClose, Fault
  <2>2. rsock[r] \in Sockets /\ sock[rsock[r]] = "open" /\ sock' = [sock EXCEPT ![rsock[r]] = "closed"]
    BY <1>6 DEF ReceiveClose
  <2>3. /\ sock' \in [Sockets -> {"open", "closing", "closed"}]
        /\ \A q \in Sockets : sock'[q] \in {sock[q], "closed"}
    BY <2>2
  <2>4. Shuts
    BY <2>2
  <2>5. disconnect' \in BOOLEAN
    BY <1>6 DEF ReceiveClose
  <2>. QED BY <1>1, <1>6, <2>1, <2>3, <2>4, <2>5 DEF ReceiveClose
<1>7. CASE ReceiverFails(r)
  <2>1. faults' \in 0 .. MaxFaults
    BY <1>7 DEF ReceiverFails, Fault
  <2>. QED BY <1>1, <1>7, <2>1 DEF ReceiverFails
<1>8. CASE ReceiverCancelled(r)
  BY <1>1, <1>8 DEF ReceiverCancelled
<1>. QED BY <1>2, <1>3, <1>4, <1>5, <1>6, <1>7, <1>8

LEMMA CancelTasksEffect ==
  ASSUME TypeInv, CancelTasks \/ (CancelReceiver(creceiver) /\ UNCHANGED mcancel)
  PROVE  /\ closing' \in {"monitor", "receiver", "closed"} /\ creceiver' \in 0 .. MaxReceivers
         /\ rcancel' \subseteq Receivers /\ mcancel' \in BOOLEAN /\ (mcancel => mcancel')
BY RealReceiver
DEF CancelTasks, CancelReceiver, TypeInv, TypeOK, ReceiverTypes, MonitorTypes, CloserTypes

LEMMA CloserEffect ==
  ASSUME TypeInv, Close \/ CloseStep
  PROVE  CloserActs
<1>. USE DEF CloseFrame, CloserActs, TypeInv, TypeOK, CloserTypes
<1>1. CASE CloseStep
  <2>1. SocketsShut /\ rcancel' \subseteq Receivers /\ mcancel' \in BOOLEAN /\ (mcancel => mcancel')
        /\ closing' \in {"monitor", "receiver", "closed"} /\ creceiver' \in 0 .. MaxReceivers
    BY <1>1, CancelTasksEffect, NothingShut DEF CloseStep, ReceiverTypes, MonitorTypes
  <2>. QED BY <1>1, <2>1 DEF CloseStep
<1>2. CASE Close /\ sock[ws] # "closed"
  <2>1. SocketsShut /\ sock'[ws] # "open"
    BY <1>2, CloseSocketEffect DEF Close, CloseSocket, SocketTypes
  <2>2. /\ closing = "idle" /\ closing' = "socket" /\ csocket' = ws /\ disconnect' = TRUE
        /\ UNCHANGED <<creceiver, rcancel, mcancel>>
    BY <1>2 DEF Close
  <2>. QED BY <1>2, <2>1, <2>2 DEF Close, SocketTypes, ReceiverTypes, MonitorTypes
<1>3. CASE Close /\ sock[ws] = "closed"
  <2>1. SocketsShut /\ rcancel' \subseteq Receivers /\ mcancel' \in BOOLEAN /\ (mcancel => mcancel')
        /\ closing' \in {"monitor", "receiver", "closed"} /\ creceiver' \in 0 .. MaxReceivers
    BY <1>3, CancelTasksEffect, NothingShut DEF Close
  <2>2. pc[Monitor] # "off" => mcancel'
    BY <1>3 DEF Close, CancelTasks
  <2>. QED BY <1>3, <2>1, <2>2 DEF Close
<1>. QED BY <1>1, <1>2, <1>3

LEMMA FaultEffect ==
  ASSUME TypeInv, NEW e, Fault(e)
  PROVE  faults' \in 0 .. MaxFaults
BY ConstantsAssumption DEF ConstantsAssumption, Fault, TypeInv, TypeOK, CloserTypes

LEMMA GiveUpEffect ==
  ASSUME TypeInv, NEW c \in Calls, GiveUp(c), pc[c] \notin Over \cup {"active", "un_lock"},
         faults' \in 0 .. MaxFaults
  PROVE  CallRests(c)
<1>1. ServerGrows /\ UNCHANGED live /\ inited' \subseteq Sockets
  BY NothingSent DEF GiveUp, server, TypeInv, TypeOK, SocketTypes
<1>. QED BY <1>1 DEF GiveUp, Goto, CallFrame, CallRests, CallRest, Rests, Over, Registered

LEMMA SubscriptionEffect ==
  ASSUME TypeInv, NEW c \in Calls,
         \/ SubscribeSent(c) \/ SubscribeRaises(c) \/ TimesOut(c) \/ CallerCancels(c)
         \/ Unsubscribe(c) \/ UnsubscribeSent(c)
  PROVE  CallRests(c)
<1>. USE DEF TypeInv, TypeOK, SocketTypes, CloserTypes
<1>1. CASE UNCHANGED server /\ ~Unsubscribe(c)
  <2>1. ServerGrows /\ UNCHANGED live /\ inited' \subseteq Sockets
    BY <1>1, NothingSent DEF server
  <2>2. CASE SubscribeSent(c)
    BY <2>1, <2>2
    DEF SubscribeSent, GotoIn, CallFrame, CallRests, CallRest, Rests, Over, Registered
  <2>3. CASE SubscribeRaises(c)
    BY <2>3, FaultEffect, GiveUpEffect DEF SubscribeRaises, Over
  <2>4. CASE TimesOut(c)
    BY <2>4, GiveUpEffect DEF TimesOut, At, Over
  <2>5. CASE CallerCancels(c)
    <3>1. faults' \in 0 .. MaxFaults
      BY <2>5, FaultEffect DEF CallerCancels
    <3>2. CASE pc[c] \notin Over \cup {"active", "un_lock"} /\ GiveUp(c)
      BY <3>1, <3>2, GiveUpEffect
    <3>3. ASSUME UNCHANGED subs, CallFrame, UNCHANGED bound,
                 NEW l, pc' = [pc EXCEPT ![c] = l],
                 <<pc[c], l>> \in {<<"un_lock", "active">>, <<"un_send", "ended">>,
                                  <<"un_fail", "failed">>}
          PROVE  CallRests(c)
      BY <2>1, <3>1, <3>3 DEF CallFrame, CallRests, CallRest, Rests, Over, Registered
    <3>. QED BY <2>5, <3>2, <3>3 DEF CallerCancels, At, GotoIn, Over
  <2>6. CASE UnsubscribeSent(c)
    BY <2>1, <2>6
    DEF UnsubscribeSent, GotoIn, CallFrame, CallRests, CallRest, Rests, Over, Registered
  <2>. QED BY <1>1, <2>2, <2>3, <2>4, <2>5, <2>6
<1>2. CASE Unsubscribe(c) /\ MayTakeSubscriptionLock(c, "un_lock") /\ subs' = subs \ {c}
           /\ Complete(c) /\ UNCHANGED <<inited, acked, twice>> /\ At(c, {"active", "un_lock"})
           /\ CallFrame /\ UNCHANGED bound
  <2>1. ServerGrows
    BY <1>2 DEF Complete, ServerGrows
  <2>2. ~OthersAt(c, SubscriptionHolders)
    BY <1>2 DEF MayTakeSubscriptionLock, MayTake
  <2>3. faults' \in 0 .. MaxFaults
    BY <1>2, FaultEffect DEF Complete
  <2>4. PICK l \in {"ended", "un_send", "un_fail"} : pc' = [pc EXCEPT ![c] = l] /\ Rests(c, l)
    BY <1>2 DEF Complete, Goto, Rests, At
  <2>. QED BY <1>2, <2>1, <2>2, <2>3, <2>4 DEF CallFrame, CallRests, CallRest, Registered
<1>3. CASE Unsubscribe(c)
  <2>1. CASE GotoIn(pc, c, "un_lock") /\ pc[c] = "active" /\ UNCHANGED faults
    BY <1>3, <2>1, NothingSent
    DEF Unsubscribe, GotoIn, server, CallFrame, CallRests, CallRest, Rests, Over, Registered
  <2>. QED BY <1>2, <1>3, <2>1 DEF Unsubscribe
<1>. QED
  BY <1>1, <1>3
  DEF SubscribeSent, SubscribeRaises, TimesOut, CallerCancels, GiveUp, UnsubscribeSent, GotoIn

LEMMA ContinueEffect ==
  ASSUME TypeInv, NEW c \in Calls, ContinueSubscription(c)
  PROVE  CallContinues(c)
<1>. USE DEF TypeInv, TypeOK, TaskTypes
<1>1. CASE pc[c] = "acked" /\ StartSubscription(pc, c)
  BY <1>1, StartSubscriptionEffect DEF ContinueSubscription, CallContinues, CallFrame, NewReceiver
<1>2. CASE pc[c] \in {"acked_again", "conn_lock"} /\ CheckAndSend(pc, c, bound[c])
  BY <1>2, CheckAndSendEffect, TasksFact
  DEF ContinueSubscription, CallContinues, CallFrame, NewReceiver
<1>3. CASE /\ pc[c] = "sub_lock" /\ MayTakeSubscriptionLock(c, "sub_lock")
           /\ RegisterAndSend(pc, c) /\ UNCHANGED bound
  <2>1. CallMoves(pc, c)
    <3>1. CASE pc' = [pc EXCEPT ![c] = "sending"] /\ subs' = subs \cup {c} /\ SendSubscribe(c)
      BY <1>3, <3>1, SendSubscribeEffect
      DEF CallMoves, CallStops, MayTakeSubscriptionLock, MayTake
    <3>2. CASE GotoIn(pc, c, "failed")
      BY <1>3, <3>2, NothingSent DEF CallMoves, CallStops, GotoIn, server
    <3>. QED BY <1>3, <3>1, <3>2 DEF RegisterAndSend
  <2>. QED BY <1>3, <2>1 DEF ContinueSubscription, CallContinues, CallFrame, NewReceiver
<1>. QED BY <1>1, <1>2, <1>3 DEF ContinueSubscription

-----------------------------------------------------------------------------
NewConnectionEffects(t) ==
  \/ TaskReplaces(t)
  \/ t \in Calls /\ CallContinues(t)
  \/ t = Monitor /\ MonitorActs

LEMMA ConnectionReturnsEffect ==
  ASSUME TypeInv, SnapshotInv, NEW t \in Tasks, ConnectionReturns(t), NewReceiver,
         t \in Calls => pc[t] \in {"idle", "connect_lock", "nc_lock", "nc_init"},
         t = Monitor => pc[t] # "m_send" /\ MayRestore,
         UNCHANGED <<ws, disconnect, ack, faults>>
  PROVE  NewConnectionEffects(t)
<1>. USE DEF NewConnectionEffects
<1>1. CASE t # Monitor
  BY <1>1, AwaitAckEffect DEF ConnectionReturns, CallContinues, Tasks
<1>2. CASE t = Monitor
  <2>1. MonitorMoves /\ UNCHANGED <<subs, inited>>
    BY <1>2, ResubscribeAllEffect, ReconnectFailsEffect
    DEF ConnectionReturns, SnapshotInv, server
  <2>. QED BY <1>2, <2>1 DEF MonitorActs, TypeInv, TypeOK, SocketTypes, CloserTypes
<1>. QED BY <1>1, <1>2

LEMMA NewConnectionEffect ==
  ASSUME TypeInv, SnapshotInv, NEW t \in Tasks, MayReplace(t), NewConnection(t),
         UNCHANGED <<ws, rtask, rst, rsock, faults>>
  PROVE  NewConnectionEffects(t)
<1>1. CASE UNCHANGED rcancel /\ UNCHANGED <<disconnect, ack>> /\ ConnectionReturns(t)
  <2>1. /\ t \in Calls => pc[t] \in {"idle", "connect_lock", "nc_lock", "nc_init"}
        /\ t = Monitor => pc[t] # "m_send" /\ MayRestore
    BY TasksFact DEF MayReplace, MayRestore, Quiet
  <2>. QED BY <1>1, <2>1, ConnectionReturnsEffect DEF NewReceiver, receivers
<1>2. CASE /\ Goto(t, "nc_lock")
           /\ UNCHANGED <<sock, server, disconnect, ack, subs, rcancel, bound, monitor, closer>>
  BY <1>2 DEF Goto, NewConnectionEffects, TaskReplaces, monitor, TypeInv, TypeOK,
              SocketTypes, ReceiverTypes
<1>3. CASE /\ MayTakeConnectionLock(t, "nc_lock") /\ ~Connected
           /\ rst[rtask] # "done" /\ rcancel' = rcancel \cup {rtask}
           /\ Goto(t, "nc_cancel") /\ UNCHANGED <<disconnect, ack>>
           /\ UNCHANGED <<sock, server, subs, bound, monitor, closer>>
  BY <1>3, RealReceiver
  DEF Goto, MayTakeConnectionLock, MayTake, NewConnectionEffects, TaskReplaces, monitor,
      TypeInv, TypeOK, SocketTypes, ReceiverTypes
<1>4. CASE /\ MayTakeConnectionLock(t, "nc_lock") /\ ~Connected
           /\ StartConnecting(t) /\ UNCHANGED rcancel
           /\ UNCHANGED <<sock, server, subs, bound, monitor, closer>>
  BY <1>4
  DEF StartConnecting, Goto, MayTakeConnectionLock, MayTake, NewConnectionEffects,
      TaskReplaces, monitor, TypeInv, TypeOK, SocketTypes, ReceiverTypes
<1>. QED BY <1>1, <1>2, <1>3, <1>4 DEF NewConnection

LEMMA ConnectEffect ==
  ASSUME TypeInv, SnapshotInv, NEW c \in Calls, Subscribe(c) \/ TakeConnectLock(c)
  PROVE  NewConnectionEffects(c) \/ CallRests(c)
<1>1. CASE MayTakeConnectLock(c) /\ WsConnect(c) /\ pc[c] \in {"idle", "connect_lock"}
  <2>1. CASE sock[ws] = "closed" /\ NewConnection(c)
    BY <1>1, <2>1, TasksFact, NewConnectionEffect DEF Subscribe, TakeConnectLock, MayReplace
  <2>2. CASE AwaitAck(MonitorStarted, c)
             /\ UNCHANGED <<sock, disconnect, ack, rcancel, monitor, closer>>
    BY <1>1, <2>2, AwaitAckEffect
    DEF Subscribe, TakeConnectLock, NewConnectionEffects, CallContinues, NewReceiver, receivers
  <2>. QED BY <1>1, <2>1, <2>2 DEF WsConnect
<1>2. CASE pc[c] = "idle" /\ GotoIn(pc, c, "connect_lock") /\ Subscribe(c)
           /\ UNCHANGED <<sock, disconnect, ack, rcancel, bound, monitor, closer>>
  BY <1>2, NothingSent
  DEF GotoIn, Subscribe, CallRests, CallRest, Rests, Over, Registered, receivers, server, TypeInv, TypeOK, SocketTypes,
      CloserTypes
<1>. QED BY <1>1, <1>2 DEF Subscribe, TakeConnectLock

LEMMA NewConnectionStepEffect ==
  ASSUME TypeInv, SnapshotInv, NEW t \in Tasks, NewConnectionStep(t)
  PROVE  NewConnectionEffects(t) \/ SocketConnected(t)
<1>1. CASE EnterNewConnection(t)
  BY <1>1, NewConnectionEffect DEF EnterNewConnection, MayReplace, Runs
<1>2. CASE OldReceiverCancelled(t)
  BY <1>2
  DEF OldReceiverCancelled, StartConnecting, Goto, NewConnectionEffects, TaskReplaces,
      receivers, TypeInv, TypeOK, SocketTypes, ReceiverTypes, MonitorTypes
<1>3. CASE ConnectionInitDone(t)
  BY <1>3, ConnectionReturnsEffect DEF ConnectionInitDone, NewReceiver, Runs, MayRestore, Quiet
<1>. QED BY <1>1, <1>2, <1>3 DEF NewConnectionStep

LEMMA ConnectRaisesEffect ==
  ASSUME TypeInv, NEW t \in Tasks, ConnectRaises(t)
  PROVE  (t \in Calls /\ CallRests(t)) \/ MonitorActs
<1>1. faults' \in 0 .. MaxFaults /\ inited' \subseteq Sockets
  BY FaultEffect DEF ConnectRaises, TypeInv, TypeOK, SocketTypes
<1>2. CASE t # Monitor
  BY <1>1, <1>2, NothingSent
  DEF ConnectRaises, ConnectFrame, Goto, CallRests, CallRest, Rests, Over, Registered, Tasks
<1>3. CASE t = Monitor
  BY <1>1, <1>3, TasksFact, ReconnectFailsEffect
  DEF ConnectRaises, ConnectFrame, MonitorActs, NewReceiver
<1>. QED BY <1>2, <1>3

LEMMA MonitorEffect ==
  ASSUME TypeInv, SnapshotInv,
         \/ MonitorWatches \/ ContinueResubscribe \/ RestoreRaises
         \/ FailedSocketClosed \/ BackoffDone \/ MonitorCancelled
  PROVE  \/ NewConnectionEffects(Monitor)
         \/ ReceiverRestarts
<1>. USE DEF NewConnectionEffects
<1>1. ASSUME MonitorMoves, NewReceiver, inited' = inited, faults' \in 0 .. MaxFaults,
             UNCHANGED <<ws, disconnect, ack, subs>>
      PROVE  NewConnectionEffects(Monitor)
  BY <1>1 DEF MonitorActs, TypeInv, TypeOK, SocketTypes
<1>2. ASSUME MonitorGoes("off") \/ MonitorGoes("m_backoff") \/ MonitorGoes("watch"), MonitorFrame
      PROVE  NewConnectionEffects(Monitor)
  <2>1. MonitorMoves
    BY <1>2, NothingShut, NothingSent DEF MonitorMoves, MonitorStops, MonitorFrame, server
  <2>. QED
    BY <1>1, <1>2, <2>1
    DEF MonitorFrame, NewReceiver, server, receivers, TypeInv, TypeOK, CloserTypes
<1>3. CASE MonitorCancelled
  BY <1>2, <1>3, MonitorEndsEffect
  DEF MonitorCancelled, MonitorFrame, MonitorMayEnd
<1>4. CASE FailedSocketClosed
  BY <1>2, <1>4, BackoffEffect DEF FailedSocketClosed, MonitorFrame
<1>5. CASE BackoffDone
  <2>1. attempt + 1 \in 0 .. ExponentLimit
    BY <1>5, ConstantsAssumption
    DEF ConstantsAssumption, BackoffDone, MonitorAt, TypeInv, TypeOK, MonitorTypes
  <2>2. MonitorGoes("watch")
    BY <1>5, <2>1, TasksFact
    DEF BackoffDone, MonitorAt, MonitorFrame, Goto, MonitorGoes, SnapshotInv, closer,
        TypeInv, TypeOK, TaskTypes, MonitorTypes
  <2>. QED BY <1>2, <1>5, <2>2 DEF BackoffDone
<1>6. CASE RestoreRaises
  <2>1. faults' \in 0 .. MaxFaults
    BY <1>6, FaultEffect DEF RestoreRaises, TypeInv, TypeOK, CloserTypes
  <2>2. MonitorMoves
    BY <1>6, ReconnectFailsEffect DEF RestoreRaises, server
  <2>. QED BY <1>1, <1>6, <2>1, <2>2 DEF RestoreRaises, NewReceiver, server
<1>7. CASE ContinueResubscribe
  <2>1. MonitorMoves /\ UNCHANGED inited
    BY <1>7, LockAndResubscribeEffect, SendSnapshotEffect
    DEF ContinueResubscribe, MonitorAt, SnapshotInv, MayTakeSubscriptionLock, MayTake,
        MayRestore, Quiet
  <2>. QED BY <1>1, <1>7, <2>1 DEF ContinueResubscribe, NewReceiver, TypeInv, TypeOK, CloserTypes
<1>8. CASE MonitorWatches
  <2>1. CASE /\ disconnect /\ MonitorEnds
             /\ UNCHANGED <<sock, server, disconnect, ack, subs, receivers, bound>>
    BY <1>2, <1>8, <2>1, MonitorEndsEffect
    DEF MonitorWatches, MonitorFrame, MonitorMayEnd
  <2>2. CASE ~disconnect /\ NewConnection(Monitor) /\ UNCHANGED <<rtask, rst, rsock>>
    BY <1>8, <2>2, TasksFact, NewConnectionEffect
    DEF MonitorWatches, MonitorAt, MayReplace
  <2>. QED BY <1>8, <2>1, <2>2 DEF MonitorWatches, ReceiverRestarts
<1>. QED BY <1>3, <1>4, <1>5, <1>6, <1>7, <1>8

Effect ==
  \/ \E s \in Sockets : FinishClosing(s)
  \/ \E c \in Calls : CallContinues(c) \/ CallRests(c)
  \/ \E t \in Tasks : TaskReplaces(t) \/ SocketConnected(t)
  \/ MonitorActs \/ ReceiverMoves \/ ReceiverRestarts \/ CloserActs

LEMMA NextEffect ==
  ASSUME TypeInv, SnapshotInv, Next
  PROVE  Effect
<1>. USE TasksFact DEF Effect, NewConnectionEffects
<1>1. ASSUME NEW s \in Sockets, FinishClosing(s) PROVE Effect
  BY <1>1
<1>2. ASSUME NEW r \in Receivers, ReceiverStep(r) \/ ReceiverEvent(r) PROVE Effect
  BY <1>2, ReceiverEffect
<1>3. ASSUME NEW c \in Calls, Subscribe(c) \/ TakeConnectLock(c) PROVE Effect
  BY <1>3, ConnectEffect
<1>4. ASSUME NEW t \in Tasks, NewConnectionStep(t) PROVE Effect
  BY <1>4, NewConnectionStepEffect
<1>5. ASSUME NEW c \in Calls, ContinueSubscription(c) PROVE Effect
  BY <1>5, ContinueEffect
<1>6. ASSUME NEW c \in Calls,
             \/ SubscribeSent(c) \/ SubscribeRaises(c) \/ TimesOut(c) \/ CallerCancels(c)
             \/ Unsubscribe(c) \/ UnsubscribeSent(c)
      PROVE  Effect
  BY <1>6, SubscriptionEffect
<1>7. ASSUME NEW t \in Tasks, ConnectRaises(t) PROVE Effect
  BY <1>7, ConnectRaisesEffect
<1>8. CASE \/ MonitorWatches \/ ContinueResubscribe \/ RestoreRaises
           \/ FailedSocketClosed \/ BackoffDone \/ MonitorCancelled
  BY <1>8, MonitorEffect
<1>9. CASE Close \/ CloseStep
  BY <1>9, CloserEffect
<1>. QED
  BY <1>1, <1>2, <1>3, <1>4, <1>5, <1>6, <1>7, <1>8, <1>9
  DEF Next, CallStep, SubscriptionStep, MonitorStep, ClientClose

-----------------------------------------------------------------------------
(* Types                                                                   *)

LEMMA PcFact ==
  /\ CallPcs = {"idle", "connect_lock", "nc_lock", "nc_cancel", "nc_connect", "nc_init",
                "conn_lock", "await_ack", "acked", "await_ack_again", "acked_again", "spin",
                "sub_lock", "sending", "active", "un_lock", "un_send", "un_fail", "ended",
                "failed"}
  /\ MonitorPcs = {"off", "watch", "nc_lock", "nc_cancel", "nc_connect", "nc_init", "m_ack",
                   "m_acked", "m_lock", "m_send", "m_close", "m_backoff"}
BY DEF CallPcs, MonitorPcs, NewConnectionPcs, ConnectionHolders, ConnectionWaiters

LEMMA NewReceiverTypes ==
  ASSUME TypeInv, NewReceiver
  PROVE  ReceiverTypes' /\ rst'[0] = "done"
<1>1. CASE UNCHANGED receivers
  BY <1>1 DEF TypeInv, TypeOK, ReceiverTypes, receivers
<1>2. CASE CreateReceiver
  BY <1>2, ConstantsAssumption
  DEF ConstantsAssumption, CreateReceiver, TypeInv, TypeOK, ReceiverTypes
<1>. QED BY <1>1, <1>2 DEF NewReceiver

LEMMA TypeNext ==
  ASSUME TypeInv, Effect
  PROVE  TypeInv'
<1>. USE TasksFact, PcFact
     DEF TypeInv, TypeOK, SocketTypes, TaskTypes, MonitorTypes, CloserTypes
<1>1. ASSUME NEW s \in Sockets, FinishClosing(s) PROVE TypeInv'
  BY <1>1 DEF FinishClosing, server, receivers, monitor, closer, ReceiverTypes
<1>2. ASSUME NEW c \in Calls, CallContinues(c) PROVE TypeInv'
  <2>1. ReceiverTypes' /\ rst'[0] = "done"
    BY <1>2, NewReceiverTypes DEF CallContinues
  <2>2. SocketTypes'
    BY <1>2 DEF CallContinues, CallMoves, ServerGrows
  <2>3. TaskTypes' /\ (pc'[Monitor] = "m_backoff" => pc[Monitor] = "m_backoff")
    <3>1. PICK p \in {pc, MonitorStarted} : CallMoves(p, c)
      BY <1>2 DEF CallContinues
    <3>2. /\ p \in [Tasks -> CallPcs \cup MonitorPcs]
          /\ p[Monitor] \in {pc[Monitor], "watch"} /\ \A d \in Calls : p[d] = pc[d]
      BY DEF MonitorStarted
    <3>3. PICK l \in CallStops : pc' = [p EXCEPT ![c] = l]
      BY <3>1 DEF CallMoves
    <3>4. bound' \in [Tasks -> Sockets]
      BY <3>1 DEF CallMoves
    <3>. QED BY <3>2, <3>3, <3>4 DEF CallStops
  <2>. QED BY <1>2, <2>1, <2>2, <2>3 DEF CallContinues, monitor, closer
<1>3. ASSUME NEW c \in Calls, CallRests(c) PROVE TypeInv'
  <2>1. SocketTypes'
    BY <1>3 DEF CallRests, ServerGrows
  <2>2. TaskTypes' /\ pc'[Monitor] = pc[Monitor]
    BY <1>3 DEF CallRests, CallRest
  <2>. QED BY <1>3, <2>1, <2>2 DEF CallRests, receivers, monitor, closer, ReceiverTypes
<1>4. ASSUME NEW t \in Tasks, TaskReplaces(t) PROVE TypeInv'
  <2>1. TaskTypes' /\ (pc'[Monitor] = "m_backoff" => pc[Monitor] = "m_backoff")
    BY <1>4 DEF TaskReplaces, Tasks
  <2>. QED BY <1>4, <2>1 DEF TaskReplaces, server, closer, ReceiverTypes
<1>5. ASSUME NEW t \in Tasks, SocketConnected(t) PROVE TypeInv'
  <2>1. TaskTypes' /\ (pc'[Monitor] = "m_backoff" => pc[Monitor] = "m_backoff")
    BY <1>5 DEF SocketConnected, Goto, Tasks
  <2>2. SocketTypes'
    BY <1>5, ConstantsAssumption
    DEF ConstantsAssumption, SocketConnected, ConnectFrame, Sockets
  <2>. QED BY <1>5, <2>1, <2>2 DEF SocketConnected, ConnectFrame, receivers, monitor, closer, ReceiverTypes
<1>6. CASE MonitorActs
  <2>1. ReceiverTypes' /\ rst'[0] = "done"
    BY <1>6, NewReceiverTypes DEF MonitorActs
  <2>2. SocketTypes'
    BY <1>6 DEF MonitorActs, MonitorMoves, SocketsShut, ServerGrows
  <2>3. PICK l \in MonitorStops : MonitorGoes(l)
    BY <1>6 DEF MonitorActs, MonitorMoves
  <2>4. TaskTypes' /\ pc'[Monitor] = l
    BY <2>3 DEF MonitorGoes, MonitorStops
  <2>. QED BY <1>6, <2>1, <2>2, <2>3, <2>4 DEF MonitorActs, MonitorGoes
<1>7. CASE ReceiverMoves
  <2>1. TaskTypes' /\ (pc'[Monitor] = "m_backoff" => pc[Monitor] = "m_backoff")
    BY <1>7 DEF ReceiverMoves, Woken
  <2>. QED BY <1>7, <2>1 DEF ReceiverMoves, monitor, closer
<1>8. CASE ReceiverRestarts
  BY <1>8, NewReceiverTypes DEF ReceiverRestarts, NewReceiver, server, monitor, closer
<1>9. CASE CloserActs
  BY <1>9 DEF CloserActs, SocketsShut, server, ReceiverTypes
<1>. QED BY <1>1, <1>2, <1>3, <1>4, <1>5, <1>6, <1>7, <1>8, <1>9 DEF Effect

-----------------------------------------------------------------------------
(* Locks                                                                   *)

(* What CallContinues says of each task and of the subscriptions.          *)
LEMMA ContinueFacts ==
  ASSUME TypeInv, NEW c \in Calls, CallContinues(c)
  PROVE  /\ pc'[c] \in CallStops
         /\ \A d \in Calls \ {c} : pc'[d] = pc[d] /\ bound'[d] = bound[d]
         /\ pc'[Monitor] = pc[Monitor] \/ (pc[Monitor] = "off" /\ pc'[Monitor] = "watch")
         /\ pc'[c] \in {"sub_lock", "sending"} =>
              \/ ack /\ Connected /\ bound'[c] = ws /\ ~OthersAt(c, ConnectionHolders)
              \/ pc[c] = "sub_lock" /\ bound'[c] = bound[c]
         /\ pc'[c] = "sending" => ~OthersAt(c, SubscriptionHolders)
         /\ subs' = IF pc'[c] = "sending" THEN subs \cup {c} ELSE subs
         /\ UNCHANGED live \/ (pc'[c] = "sending" /\ Served(c))
         /\ ServerGrows
<1>1. PICK p \in {pc, MonitorStarted} : CallMoves(p, c)
  BY DEF CallContinues
<1>2. /\ p \in [Tasks -> CallPcs \cup MonitorPcs] /\ \A d \in Calls : p[d] = pc[d]
      /\ p[Monitor] = pc[Monitor] \/ (pc[Monitor] = "off" /\ p[Monitor] = "watch")
  BY TasksFact, PcFact DEF MonitorStarted, TypeInv, TypeOK, TaskTypes
<1>3. PICK l \in CallStops :
        /\ pc' = [p EXCEPT ![c] = l]
        /\ \A u \in Tasks \ {c} : bound'[u] = bound[u]
        /\ l \in {"sub_lock", "sending"} =>
             \/ ack /\ Connected /\ bound'[c] = ws /\ ~OthersAt(c, ConnectionHolders)
             \/ pc[c] = "sub_lock" /\ bound'[c] = bound[c]
        /\ l = "sending" => ~OthersAt(c, SubscriptionHolders)
        /\ subs' = IF l = "sending" THEN subs \cup {c} ELSE subs
        /\ UNCHANGED live \/ (l = "sending" /\ Served(c))
        /\ ServerGrows
  BY <1>1 DEF CallMoves
<1>. QED BY <1>2, <1>3, TasksFact

LEMMA ExclusionKept ==
  ASSUME NEW t \in Tasks, NEW Holders,
         \A u \in Tasks \ {t} : pc'[u] \in Holders => pc[u] \in Holders,
         pc'[t] \in Holders => pc[t] \in Holders \/ ~OthersAt(t, Holders),
         \A u, v \in Tasks : pc[u] \in Holders /\ pc[v] \in Holders => u = v
  PROVE  \A u, v \in Tasks : pc'[u] \in Holders /\ pc'[v] \in Holders => u = v
BY DEF OthersAt

LEMMA ExclusionNext ==
  ASSUME TypeInv, ConnectionExclusion, SubscriptionExclusion, Effect
  PROVE  ConnectionExclusion' /\ SubscriptionExclusion'
<1>. USE TasksFact, PcFact
     DEF ConnectionHolders, NewConnectionPcs, SubscriptionHolders, TypeInv, TypeOK, TaskTypes
<1>. DEFINE Kept(t, H) == /\ \A u \in Tasks \ {t} : pc'[u] \in H => pc[u] \in H
                          /\ pc'[t] \in H => pc[t] \in H \/ ~OthersAt(t, H)
<1>0. ASSUME NEW t \in Tasks, Kept(t, ConnectionHolders), Kept(t, SubscriptionHolders)
      PROVE  ConnectionExclusion' /\ SubscriptionExclusion'
  <2>. HIDE DEF ConnectionHolders, SubscriptionHolders
  <2>1. \A u, v \in Tasks : pc'[u] \in ConnectionHolders /\ pc'[v] \in ConnectionHolders => u = v
    BY <1>0, ExclusionKept DEF ConnectionExclusion, At
  <2>2. \A u, v \in Tasks : pc'[u] \in SubscriptionHolders /\ pc'[v] \in SubscriptionHolders => u = v
    BY <1>0, ExclusionKept DEF SubscriptionExclusion, At
  <2>. QED BY <2>1, <2>2 DEF ConnectionExclusion, SubscriptionExclusion, At, ConnectionHolders, SubscriptionHolders, NewConnectionPcs
<1>1. CASE UNCHANGED pc
  BY <1>1 DEF ConnectionExclusion, SubscriptionExclusion, At
<1>2. ASSUME NEW c \in Calls, CallContinues(c)
      PROVE  Kept(c, ConnectionHolders) /\ Kept(c, SubscriptionHolders)
  BY <1>2, ContinueFacts DEF CallStops, Tasks
<1>3. ASSUME NEW c \in Calls, CallRests(c)
      PROVE  Kept(c, ConnectionHolders) /\ Kept(c, SubscriptionHolders)
  BY <1>3 DEF CallRests, CallRest
<1>4. ASSUME NEW t \in Tasks, TaskReplaces(t)
      PROVE  Kept(t, ConnectionHolders) /\ Kept(t, SubscriptionHolders)
  BY <1>4 DEF TaskReplaces
<1>5. ASSUME NEW t \in Tasks, SocketConnected(t)
      PROVE  Kept(t, ConnectionHolders) /\ Kept(t, SubscriptionHolders)
  BY <1>5 DEF SocketConnected, Goto
<1>6. CASE MonitorActs
  <2>1. PICK l \in MonitorStops : MonitorGoes(l)
    BY <1>6 DEF MonitorActs, MonitorMoves
  <2>2. Kept(Monitor, ConnectionHolders) /\ Kept(Monitor, SubscriptionHolders)
    BY <2>1 DEF MonitorGoes, MonitorStops
  <2>. QED BY <2>2, <1>0
<1>7. CASE ReceiverMoves
  <2>1. Kept(Monitor, ConnectionHolders) /\ Kept(Monitor, SubscriptionHolders)
    BY <1>7 DEF ReceiverMoves, Woken
  <2>. QED BY <2>1, <1>0
<1>. QED
  BY <1>0, <1>1, <1>2, <1>3, <1>4, <1>5, <1>6, <1>7
  DEF Effect, FinishClosing, ReceiverRestarts, CloserActs

LEMMA ConnectExclusionNext ==
  ASSUME TypeInv, ConnectExclusion, Effect
  PROVE  ConnectExclusion'
<1>. USE TasksFact, PcFact DEF ConnectExclusion, At, Connecting, NewConnectionPcs, TypeInv, TypeOK, TaskTypes
<1>1. CASE \A d \in Calls : pc'[d] \in Connecting => pc[d] \in Connecting
  BY <1>1
<1>2. ASSUME NEW c \in Calls, TaskReplaces(c) PROVE ConnectExclusion'
  <2>1. \A d \in Calls \ {c} : pc'[d] = pc[d]
    BY <1>2 DEF TaskReplaces
  <2>2. pc[c] \in Connecting \/ \A d \in Calls \ {c} : pc[d] \notin Connecting
    BY <1>2 DEF TaskReplaces, MayReplace, MayTakeConnectLock
  <2>. QED BY <2>1, <2>2
<1>3. ASSUME NEW c \in Calls, CallContinues(c) PROVE ConnectExclusion'
  BY <1>3, ContinueFacts DEF CallStops
<1>4. ASSUME NEW c \in Calls, CallRests(c) PROVE ConnectExclusion'
  BY <1>4 DEF CallRests, CallRest
<1>5. ASSUME NEW t \in Tasks, SocketConnected(t) PROVE ConnectExclusion'
  BY <1>5 DEF SocketConnected, Goto
<1>6. CASE TaskReplaces(Monitor)
  BY <1>6 DEF TaskReplaces
<1>7. CASE MonitorActs
  BY <1>7 DEF MonitorActs, MonitorMoves, MonitorGoes
<1>8. CASE ReceiverMoves
  BY <1>8 DEF ReceiverMoves, Woken
<1>. QED
  BY <1>1, <1>2, <1>3, <1>4, <1>5, <1>6, <1>7, <1>8
  DEF Effect, FinishClosing, ReceiverRestarts, CloserActs, Tasks

-----------------------------------------------------------------------------
(* Subscriptions                                                           *)

LEMMA RegistrationNext ==
  ASSUME TypeInv, NoGhostSubscription, Effect
  PROVE  NoGhostSubscription'
<1>. USE TasksFact DEF NoGhostSubscription, TypeInv, TypeOK, SocketTypes, TaskTypes
<1>1. CASE UNCHANGED subs /\ \A c \in Calls : pc'[c] \in Registered <=> pc[c] \in Registered
  BY <1>1 DEF Registered
<1>2. ASSUME NEW c \in Calls, CallContinues(c) PROVE NoGhostSubscription'
  <2>1. pc[c] \notin Registered
    BY <1>2 DEF CallContinues, Registered
  <2>. QED BY <1>2, <2>1, ContinueFacts DEF CallStops, Registered
<1>3. ASSUME NEW c \in Calls, CallRests(c) PROVE NoGhostSubscription'
  <2>1. PICK l \in CallRest :
          /\ pc' = [pc EXCEPT ![c] = l]
          /\ l \in Registered => subs' = subs /\ pc[c] \in Registered
          /\ l \notin Registered /\ subs' = subs => pc[c] \notin Registered \/ c \notin subs
    BY <1>3 DEF CallRests, CallRest
  <2>2. subs' \in {subs, subs \ {c}}
    BY <1>3 DEF CallRests
  <2>. QED BY <2>1, <2>2 DEF Registered, CallRest
<1>4. ASSUME NEW t \in Tasks, TaskReplaces(t) PROVE NoGhostSubscription'
  <2>1. UNCHANGED subs
    BY <1>4 DEF TaskReplaces
  <2>2. \A c \in Calls : pc'[c] \in Registered <=> pc[c] \in Registered
    BY <1>4 DEF TaskReplaces, MayReplace, Registered
  <2>. QED BY <1>1, <2>1, <2>2
<1>5. ASSUME NEW t \in Tasks, SocketConnected(t) PROVE NoGhostSubscription'
  BY <1>1, <1>5 DEF SocketConnected, ConnectFrame, Goto, Registered
<1>6. CASE MonitorActs
  BY <1>1, <1>6 DEF MonitorActs, MonitorMoves, MonitorGoes, Registered
<1>7. CASE ReceiverMoves
  BY <1>1, <1>7 DEF ReceiverMoves, Woken, Registered
<1>. QED
  BY <1>1, <1>2, <1>3, <1>4, <1>5, <1>6, <1>7
  DEF Effect, FinishClosing, ReceiverRestarts, CloserActs

LEMMA SnapshotNext ==
  ASSUME TypeInv, SubscriptionExclusion, SnapshotInv, Effect
  PROVE  SnapshotInv'
<1>. USE TasksFact DEF SnapshotInv, TypeInv, TypeOK, SocketTypes, TaskTypes
<1>1. CASE UNCHANGED todo /\ subs \subseteq subs'
           /\ (pc[Monitor] = "m_send" => pc'[Monitor] = "m_send")
  BY <1>1
<1>2. ASSUME NEW c \in Calls, CallContinues(c) PROVE SnapshotInv'
  BY <1>1, <1>2, ContinueFacts DEF CallContinues, monitor
<1>3. ASSUME NEW c \in Calls, CallRests(c) PROVE SnapshotInv'
  <2>1. UNCHANGED todo /\ pc'[Monitor] = pc[Monitor]
    BY <1>3 DEF CallRests, CallRest, monitor
  <2>2. CASE subs' = subs
    BY <2>1, <2>2
  <2>3. CASE subs' # subs
    <3>1. pc[Monitor] # "m_send"
      BY <1>3, <2>3 DEF CallRests, OthersAt, SubscriptionExclusion, SubscriptionHolders, At
    <3>. QED BY <2>1, <3>1
  <2>. QED BY <2>2, <2>3
<1>4. ASSUME NEW t \in Tasks, TaskReplaces(t) PROVE SnapshotInv'
  BY <1>1, <1>4 DEF TaskReplaces, MayReplace
<1>5. ASSUME NEW t \in Tasks, SocketConnected(t) PROVE SnapshotInv'
  BY <1>1, <1>5 DEF SocketConnected, ConnectFrame, Goto, monitor
<1>6. CASE MonitorActs
  BY <1>6 DEF MonitorActs, MonitorMoves, MonitorGoes
<1>7. CASE ReceiverMoves
  BY <1>1, <1>7 DEF ReceiverMoves, Woken, monitor
<1>. QED
  BY <1>1, <1>2, <1>3, <1>4, <1>5, <1>6, <1>7
  DEF Effect, FinishClosing, ReceiverRestarts, CloserActs, monitor

-----------------------------------------------------------------------------
(* The socket and its acknowledgement                                      *)

LEMMA SocketNext ==
  ASSUME TypeInv, ConnectionExclusion, OneOpenSocket, NoOpenWhileReplacing, QueueInv, Effect
  PROVE  OneOpenSocket' /\ NoOpenWhileReplacing'
<1>. USE TasksFact
     DEF OneOpenSocket, NoOpenWhileReplacing, At, TypeInv, TypeOK, SocketTypes, TaskTypes
<1>1. CASE /\ UNCHANGED ws /\ \A s \in Sockets : sock'[s] = "open" => sock[s] = "open"
           /\ \A t \in Tasks : pc'[t] \in {"nc_cancel", "nc_connect"} =>
                                 pc[t] \in {"nc_cancel", "nc_connect"} \/ sock[ws] # "open"
  BY <1>1
<1>2. ASSUME NEW c \in Calls, CallContinues(c) PROVE OneOpenSocket' /\ NoOpenWhileReplacing'
  BY <1>1, <1>2, ContinueFacts DEF CallContinues, CallStops, Tasks
<1>3. ASSUME NEW c \in Calls, CallRests(c) PROVE OneOpenSocket' /\ NoOpenWhileReplacing'
  BY <1>1, <1>3 DEF CallRests, CallRest
<1>4. ASSUME NEW t \in Tasks, TaskReplaces(t) PROVE OneOpenSocket' /\ NoOpenWhileReplacing'
  <2>1. pc[t] = "nc_cancel" \/ pc'[t] = "nc_lock" \/ sock[ws] # "open"
    BY <1>4 DEF TaskReplaces, MayReplace, Connected, QueueInv, Tasks
  <2>2. UNCHANGED <<ws, sock>> /\ \A u \in Tasks \ {t} : pc'[u] = pc[u]
    BY <1>4 DEF TaskReplaces
  <2>. QED BY <1>1, <2>1, <2>2
<1>5. ASSUME NEW t \in Tasks, SocketConnected(t) PROVE OneOpenSocket' /\ NoOpenWhileReplacing'
  <2>1. \A s \in Sockets : sock[s] # "open"
    BY <1>5 DEF SocketConnected
  <2>2. \A u \in Tasks : pc'[u] \notin {"nc_cancel", "nc_connect"}
    BY <1>5 DEF SocketConnected, Goto, ConnectionExclusion, ConnectionHolders, NewConnectionPcs
  <2>. QED BY <1>5, <2>1, <2>2 DEF SocketConnected
<1>6. CASE MonitorActs
  BY <1>1, <1>6 DEF MonitorActs, MonitorMoves, MonitorGoes, MonitorStops, SocketsShut
<1>7. CASE ReceiverMoves
  BY <1>1, <1>7 DEF ReceiverMoves, Woken
<1>8. CASE CloserActs
  BY <1>1, <1>8 DEF CloserActs, SocketsShut
<1>9. ASSUME NEW s \in Sockets, FinishClosing(s) PROVE OneOpenSocket' /\ NoOpenWhileReplacing'
  BY <1>1, <1>9 DEF FinishClosing
<1>. QED
  BY <1>1, <1>2, <1>3, <1>4, <1>5, <1>6, <1>7, <1>8, <1>9 DEF Effect, ReceiverRestarts

LEMMA AckNext ==
  ASSUME TypeInv, ConnectionExclusion, OneOpenSocket, NoOpenWhileReplacing, AckClear,
         AckIsCurrent, Effect
  PROVE  AckClear' /\ AckIsCurrent'
<1>. USE TasksFact DEF AckClear, AckIsCurrent, TypeInv, TypeOK, SocketTypes, TaskTypes
<1>1. CASE /\ UNCHANGED <<ws, ack>> /\ acked \subseteq acked'
           /\ \A t \in Tasks : pc'[t] = "nc_connect" => pc[t] = "nc_connect"
  BY <1>1
<1>2. ASSUME NEW c \in Calls, CallContinues(c) PROVE AckClear' /\ AckIsCurrent'
  BY <1>1, <1>2, ContinueFacts DEF CallContinues, CallStops, ServerGrows, Tasks
<1>3. ASSUME NEW c \in Calls, CallRests(c) PROVE AckClear' /\ AckIsCurrent'
  BY <1>1, <1>3 DEF CallRests, CallRest, ServerGrows
<1>4. ASSUME NEW t \in Tasks, TaskReplaces(t) PROVE AckClear' /\ AckIsCurrent'
  BY <1>4 DEF TaskReplaces, server
<1>5. ASSUME NEW t \in Tasks, SocketConnected(t) PROVE AckClear' /\ AckIsCurrent'
  BY <1>5 DEF SocketConnected, ConnectFrame, Goto
<1>6. CASE MonitorActs
  BY <1>1, <1>6 DEF MonitorActs, MonitorMoves, MonitorGoes, MonitorStops, ServerGrows
<1>7. CASE ReceiverMoves
  <2>1. ack' => ack \/ (sock[ws] = "open" /\ ws \in acked')
    BY <1>7 DEF ReceiverMoves, OneOpenSocket
  <2>2. \A t \in Tasks : pc'[t] = "nc_connect" => pc[t] = "nc_connect"
    BY <1>7 DEF ReceiverMoves, Woken
  <2>. QED BY <1>7, <2>1, <2>2 DEF ReceiverMoves, NoOpenWhileReplacing, At
<1>. QED
  BY <1>1, <1>2, <1>3, <1>4, <1>5, <1>6, <1>7
  DEF Effect, FinishClosing, ReceiverRestarts, CloserActs, server

LEMMA FirstSendNext ==
  ASSUME TypeInv, ConnectionExclusion, AckIsCurrent, FirstSendAcknowledged, Effect
  PROVE  FirstSendAcknowledged'
<1>. USE TasksFact DEF FirstSendAcknowledged, TypeInv, TypeOK, SocketTypes, TaskTypes
<1>. DEFINE FirstSend == {"sub_lock", "sending"}
<1>1. CASE /\ UNCHANGED ws /\ acked \subseteq acked' /\ \A c \in Calls : bound'[c] = bound[c]
           /\ \A c \in Calls : pc'[c] \in FirstSend => pc[c] \in FirstSend
  BY <1>1
<1>2. ASSUME NEW c \in Calls, CallContinues(c) PROVE FirstSendAcknowledged'
  <2>1. UNCHANGED <<ws, acked>>
    BY <1>2, ContinueFacts DEF CallContinues, ServerGrows
  <2>2. pc'[c] \in FirstSend => (bound'[c] = ws /\ ws \in acked)
    BY <1>2, ContinueFacts DEF AckIsCurrent
  <2>3. \A d \in Calls \ {c} : pc'[d] = pc[d] /\ bound'[d] = bound[d]
    BY <1>2, ContinueFacts
  <2>. QED BY <2>1, <2>2, <2>3
<1>3. ASSUME NEW c \in Calls, CallRests(c) PROVE FirstSendAcknowledged'
  BY <1>1, <1>3 DEF CallRests, CallRest, ServerGrows
<1>4. ASSUME NEW t \in Tasks, TaskReplaces(t) PROVE FirstSendAcknowledged'
  BY <1>1, <1>4 DEF TaskReplaces, server
<1>5. ASSUME NEW t \in Tasks, SocketConnected(t) PROVE FirstSendAcknowledged'
  <2>1. \A c \in Calls : pc'[c] \notin FirstSend
    BY <1>5
    DEF SocketConnected, Goto, ConnectionExclusion, ConnectionHolders, NewConnectionPcs, At
  <2>. QED BY <2>1
<1>6. CASE MonitorActs
  BY <1>1, <1>6 DEF MonitorActs, MonitorMoves, MonitorGoes, ServerGrows
<1>7. CASE ReceiverMoves
  BY <1>1, <1>7 DEF ReceiverMoves, Woken
<1>. QED
  BY <1>1, <1>2, <1>3, <1>4, <1>5, <1>6, <1>7
  DEF Effect, FinishClosing, ReceiverRestarts, CloserActs, server

LEMMA CloseNext ==
  ASSUME TypeInv, OneOpenSocket, NoOpenWhileReplacing, CloseInv, Effect
  PROVE  CloseInv'
<1>. USE TasksFact
     DEF CloseInv, ReplacementConnecting, At, TypeInv, TypeOK, SocketTypes, TaskTypes, CloserTypes
<1>1. CASE UNCHANGED <<ws, sock, disconnect, closing>>
           /\ \A t \in Tasks : pc'[t] \in {"nc_cancel", "nc_connect"} => pc'[t] = pc[t]
  BY <1>1
<1>2. ASSUME NEW c \in Calls, CallContinues(c) PROVE CloseInv'
  BY <1>1, <1>2, ContinueFacts DEF CallContinues, CallStops, Tasks, closer
<1>3. ASSUME NEW c \in Calls, CallRests(c) PROVE CloseInv'
  BY <1>1, <1>3 DEF CallRests, CallRest, closer
<1>4. ASSUME NEW t \in Tasks, TaskReplaces(t) PROVE CloseInv'
  <2>1. /\ UNCHANGED <<ws, sock, closing>>
        /\ pc'[t] = "nc_connect" => ~disconnect'
        /\ pc'[t] # "nc_connect" => disconnect' = disconnect
        /\ \A u \in Tasks \ {t} : pc'[u] = pc[u]
    BY <1>4 DEF TaskReplaces, closer
  <2>2. \/ pc[t] = "nc_cancel" \/ pc'[t] = "nc_lock" \/ disconnect \/ sock[ws] = "closed"
    BY <1>4 DEF TaskReplaces, Connected
  <2>3. disconnect' => disconnect
    BY <1>4 DEF TaskReplaces
  <2>. QED BY <2>1, <2>2, <2>3
<1>5. ASSUME NEW t \in Tasks, SocketConnected(t) PROVE CloseInv'
  <2>1. /\ sock'[ws'] = "open" /\ pc[t] = "nc_connect" /\ UNCHANGED <<disconnect, closing>>
    BY <1>5, ConstantsAssumption
    DEF ConstantsAssumption, SocketConnected, ConnectFrame, Sockets, closer
  <2>. QED BY <2>1
<1>6. CASE MonitorActs
  <2>1. closing # "idle" => closing' # "idle"
    BY <1>6 DEF MonitorActs, MonitorMoves, MonitorGoes
  <2>2. /\ \A t \in Tasks : pc'[t] \in {"nc_cancel", "nc_connect"} => pc'[t] = pc[t]
        /\ SocketsShut /\ UNCHANGED <<ws, disconnect>>
    BY <1>6 DEF MonitorActs, MonitorMoves, MonitorGoes, MonitorStops
  <2>3. \A t \in Tasks : pc'[t] \in {"nc_cancel", "nc_connect"} /\ sock'[ws] = "closing" =>
          sock[ws] = "closing"
    BY <2>2 DEF SocketsShut, NoOpenWhileReplacing
  <2>. QED BY <2>1, <2>2, <2>3 DEF SocketsShut
<1>7. CASE ReceiverMoves
  <2>1. /\ \A t \in Tasks : pc'[t] \in {"nc_cancel", "nc_connect"} => pc'[t] = pc[t]
        /\ UNCHANGED <<ws, closing>> /\ sock'[ws] \in {sock[ws], "closed"}
    BY <1>7 DEF ReceiverMoves, Woken, closer
  <2>2. disconnect' => disconnect \/ (sock[ws] = "open" /\ sock'[ws] = "closed")
    BY <1>7 DEF ReceiverMoves, OneOpenSocket
  <2>. QED BY <2>1, <2>2 DEF NoOpenWhileReplacing
<1>8. CASE CloserActs
  BY <1>8 DEF CloserActs
<1>9. ASSUME NEW s \in Sockets, FinishClosing(s) PROVE CloseInv'
  BY <1>9 DEF FinishClosing, closer
<1>. QED
  BY <1>1, <1>2, <1>3, <1>4, <1>5, <1>6, <1>7, <1>8, <1>9 DEF Effect, ReceiverRestarts, closer

LEMMA QueueNext ==
  ASSUME TypeInv, LockInv, OneOpenSocket, NoOpenWhileReplacing, CloseInv, QueueInv, Effect
  PROVE  QueueInv'
<1>. USE TasksFact
     DEF QueueInv, ReplacementConnecting, At, TypeInv, TypeOK, SocketTypes, TaskTypes,
         MonitorTypes
<1>1. CASE UNCHANGED <<ws, sock, disconnect, mcancel>>
           /\ \A t \in Tasks : pc'[t] \in {"nc_lock", "nc_connect"} => pc'[t] = pc[t]
  BY <1>1
<1>2. ASSUME NEW c \in Calls, CallContinues(c) PROVE QueueInv'
  <2>1. \A t \in Tasks : pc'[t] \in {"nc_lock", "nc_connect"} => pc'[t] = pc[t]
    BY <1>2, ContinueFacts DEF CallStops, Tasks
  <2>. QED BY <1>1, <1>2, <2>1 DEF CallContinues, monitor
<1>3. ASSUME NEW c \in Calls, CallRests(c) PROVE QueueInv'
  BY <1>1, <1>3 DEF CallRests, CallRest, monitor
<1>4. ASSUME NEW t \in Tasks, TaskReplaces(t) PROVE QueueInv'
  <2>1. CASE pc'[t] = "nc_connect"
    BY <1>4, <2>1 DEF TaskReplaces
  <2>2. CASE pc'[t] # "nc_connect"
    <3>1. PICK l \in {"nc_lock", "nc_cancel"} :
            /\ pc' = [pc EXCEPT ![t] = l] /\ MayReplace(t)
            /\ disconnect' = (disconnect /\ l # "nc_connect")
      BY <1>4, <2>2 DEF TaskReplaces
    <3>2. disconnect' = disconnect
      BY <3>1
    <3>3. UNCHANGED <<ws, sock>> /\ mcancel' = mcancel
      BY <1>4, <3>1 DEF TaskReplaces, MayReplace
    <3>4. \A u \in Tasks \ {t} : pc'[u] = pc[u]
      BY <3>1
    <3>5. ReplacementConnecting' => ReplacementConnecting
      BY <2>2, <3>4
    <3>6. disconnect /\ t = Monitor => pc[t] = "nc_lock" /\ ~mcancel
      BY <3>1 DEF MayReplace
    <3>7. sock[ws] = "open" /\ t \in Calls => pc[t] = "nc_lock"
      BY <3>1 DEF MayReplace
    <3>. QED BY <3>1, <3>2, <3>3, <3>4, <3>5, <3>6, <3>7
  <2>. QED BY <2>1, <2>2
<1>5. ASSUME NEW t \in Tasks, SocketConnected(t) PROVE QueueInv'
  <2>1. /\ pc[t] = "nc_connect" /\ UNCHANGED <<disconnect, mcancel>>
        /\ pc' = [pc EXCEPT ![t] = "nc_init"] /\ (t = Monitor => ~mcancel)
    BY <1>5 DEF SocketConnected, ConnectFrame, Goto, Runs, monitor
  <2>2. disconnect => t # Monitor /\ (At(Monitor, {"nc_lock", "nc_connect"}) => mcancel)
    BY <2>1
  <2>3. t \in Calls => \A c \in Calls : pc'[c] # "nc_lock"
    BY <2>1 DEF LockInv, ConnectExclusion, Connecting, NewConnectionPcs
  <2>. QED BY <2>1, <2>2, <2>3 DEF Tasks
<1>6. CASE MonitorActs
  <2>1. /\ \A t \in Tasks : pc'[t] \in {"nc_lock", "nc_connect"} => pc'[t] = pc[t]
        /\ pc'[Monitor] \in {"nc_lock", "nc_connect"} => mcancel' = mcancel
        /\ SocketsShut /\ UNCHANGED <<ws, disconnect>>
    BY <1>6 DEF MonitorActs, MonitorMoves, MonitorGoes, MonitorStops
  <2>2. sock'[ws] = "open" => sock[ws] = "open"
    BY <2>1 DEF SocketsShut
  <2>. QED BY <2>1, <2>2
<1>7. CASE ReceiverMoves
  <2>1. /\ \A t \in Tasks : pc'[t] \in {"nc_lock", "nc_connect"} => pc'[t] = pc[t]
        /\ UNCHANGED <<ws, mcancel>> /\ sock'[ws] \in {sock[ws], "closed"}
    BY <1>7 DEF ReceiverMoves, Woken, monitor
  <2>2. disconnect' => disconnect \/ (sock[ws] = "open" /\ sock'[ws] = "closed")
    BY <1>7 DEF ReceiverMoves, OneOpenSocket
  <2>. QED BY <2>1, <2>2 DEF NoOpenWhileReplacing
<1>8. CASE CloserActs
  <2>1. /\ UNCHANGED <<ws, pc>> /\ (mcancel => mcancel')
        /\ sock'[ws] = "open" => sock[ws] = "open"
    BY <1>8 DEF CloserActs, SocketsShut
  <2>2. CASE UNCHANGED disconnect
    BY <2>1, <2>2
  <2>3. CASE /\ closing = "idle" /\ disconnect' = TRUE /\ sock'[ws] # "open"
             /\ sock[ws] = "closed" /\ pc[Monitor] # "off" => mcancel'
    <3>1. ReplacementConnecting => sock[ws] = "closed"
      BY <2>3 DEF NoOpenWhileReplacing, CloseInv
    <3>. QED BY <2>1, <2>3, <3>1
  <2>. QED BY <1>8, <2>2, <2>3 DEF CloserActs
<1>9. ASSUME NEW s \in Sockets, FinishClosing(s) PROVE QueueInv'
  BY <1>9 DEF FinishClosing, monitor
<1>. QED
  BY <1>1, <1>2, <1>3, <1>4, <1>5, <1>6, <1>7, <1>8, <1>9
  DEF Effect, ReceiverRestarts, monitor

-----------------------------------------------------------------------------
(* The inductive invariant, and what follows from it                       *)

IInv ==
  /\ TypeInv /\ LockInv /\ SnapshotInv /\ NoGhostSubscription
  /\ OneOpenSocket /\ NoOpenWhileReplacing /\ AckClear /\ AckIsCurrent
  /\ FirstSendAcknowledged /\ CloseInv /\ QueueInv

LEMMA InitTypes ==
  ASSUME Init
  PROVE  TypeInv
<1>. USE TasksFact DEF Init
<1>. /\ 0 \in Sockets /\ 0 \in 0 .. MaxReceivers /\ 0 \in 0 .. ExponentLimit
     /\ 0 \in 0 .. MaxFaults
  BY ConstantsAssumption DEF ConstantsAssumption, Sockets
<1>1. SocketTypes
  BY DEF SocketTypes
<1>2. ReceiverTypes
  BY DEF ReceiverTypes
<1>3. TaskTypes
  BY DEF TaskTypes, Tasks, CallPcs, MonitorPcs
<1>4. MonitorTypes /\ CloserTypes
  BY DEF MonitorTypes, CloserTypes
<1>. QED BY <1>1, <1>2, <1>3, <1>4 DEF TypeInv, TypeOK

LEMMA InitIInv ==
  ASSUME Init
  PROVE  IInv
<1>. USE TasksFact DEF Init
<1>1. \A t \in Tasks : pc[t] \in {"idle", "off"}
  OBVIOUS
<1>2. LockInv
  BY <1>1
  DEF LockInv, ConnectionExclusion, SubscriptionExclusion, ConnectExclusion, At, Connecting,
      ConnectionHolders, SubscriptionHolders, NewConnectionPcs
<1>3. SnapshotInv /\ NoGhostSubscription /\ FirstSendAcknowledged
  BY <1>1 DEF SnapshotInv, NoGhostSubscription, FirstSendAcknowledged
<1>4. OneOpenSocket /\ NoOpenWhileReplacing /\ AckClear /\ AckIsCurrent
  BY <1>1 DEF OneOpenSocket, NoOpenWhileReplacing, AckClear, AckIsCurrent, At
<1>5. CloseInv /\ QueueInv
  BY <1>1 DEF CloseInv, QueueInv, ReplacementConnecting, At
<1>. QED BY <1>2, <1>3, <1>4, <1>5, InitTypes DEF IInv

LEMMA StutterIInv ==
  ASSUME IInv, UNCHANGED vars
  PROVE  IInv'
<1>. USE DEF vars, server, receivers, monitor, closer
<1>1. TypeInv'
  BY DEF IInv, TypeInv, TypeOK, SocketTypes, ReceiverTypes, TaskTypes, MonitorTypes,
         CloserTypes
<1>2. LockInv' /\ SnapshotInv' /\ NoGhostSubscription' /\ FirstSendAcknowledged'
  BY DEF IInv, LockInv, ConnectionExclusion, SubscriptionExclusion, ConnectExclusion, At,
         SnapshotInv, NoGhostSubscription, FirstSendAcknowledged
<1>3. OneOpenSocket' /\ NoOpenWhileReplacing' /\ AckClear' /\ AckIsCurrent'
  BY DEF IInv, OneOpenSocket, NoOpenWhileReplacing, AckClear, AckIsCurrent, At
<1>4. CloseInv' /\ QueueInv'
  BY DEF IInv, CloseInv, QueueInv, ReplacementConnecting, At
<1>. QED BY <1>1, <1>2, <1>3, <1>4 DEF IInv

LEMMA StepIInv ==
  ASSUME IInv, Next
  PROVE  IInv' /\ Effect
<1>. USE DEF IInv
<1>1. Effect
  BY NextEffect
<1>2. TypeInv'
  BY <1>1, TypeNext
<1>3. LockInv'
  BY <1>1, ExclusionNext, ConnectExclusionNext DEF LockInv
<1>4. SnapshotInv' /\ NoGhostSubscription'
  BY <1>1, SnapshotNext, RegistrationNext DEF LockInv
<1>5. OneOpenSocket' /\ NoOpenWhileReplacing'
  BY <1>1, SocketNext DEF LockInv
<1>6. AckClear' /\ AckIsCurrent' /\ FirstSendAcknowledged'
  BY <1>1, AckNext, FirstSendNext DEF LockInv
<1>7. CloseInv' /\ QueueInv'
  BY <1>1, CloseNext, QueueNext
<1>. QED BY <1>1, <1>2, <1>3, <1>4, <1>5, <1>6, <1>7

LEMMA InductiveInvariant == Spec => []IInv
<1>1. IInv /\ [Next]_vars => IInv'
  BY StepIInv, StutterIInv
<1>. QED BY InitIInv, <1>1, PTL DEF Spec

LEMMA EffectRegistered ==
  ASSUME Effect
  PROVE  \A c \in Calls, s \in Sockets : c \in live'[s] \ live[s] => c \in subs'
<1>1. CASE ServerGrows
  BY <1>1 DEF ServerGrows
<1>2. CASE UNCHANGED live
  BY <1>2
<1>. QED
  BY <1>1, <1>2
  DEF Effect, CallContinues, CallMoves, CallRests, TaskReplaces, SocketConnected, ConnectFrame,
      MonitorActs, MonitorMoves, ReceiverMoves, ReceiverRestarts, CloserActs, FinishClosing,
      server

LEMMA EffectMonitorStops ==
  ASSUME TypeInv, Effect, pc[Monitor] # "off", pc'[Monitor] = "off"
  PROVE  MonitorMayEnd
<1>. USE TasksFact DEF TypeInv, TypeOK, TaskTypes
<1>1. CASE MonitorActs
  <2>1. PICK l \in MonitorStops : MonitorGoes(l)
    BY <1>1 DEF MonitorActs, MonitorMoves
  <2>. QED BY <2>1 DEF MonitorGoes
<1>2. ASSUME NEW c \in Calls, CallContinues(c) PROVE FALSE
  BY <1>2, ContinueFacts
<1>3. ASSUME NEW c \in Calls, CallRests(c) PROVE FALSE
  BY <1>3 DEF CallRests, CallRest
<1>4. ASSUME NEW t \in Tasks, TaskReplaces(t) PROVE FALSE
  BY <1>4 DEF TaskReplaces
<1>5. ASSUME NEW t \in Tasks, SocketConnected(t) PROVE FALSE
  BY <1>5 DEF SocketConnected, Goto
<1>6. CASE ReceiverMoves
  BY <1>6 DEF ReceiverMoves, Woken
<1>. QED
  BY <1>1, <1>2, <1>3, <1>4, <1>5, <1>6
  DEF Effect, ReceiverRestarts, CloserActs, FinishClosing

(* Every variable keeps the values of its Python counterpart, for any      *)
(* number of calls and whatever the bounds are.                            *)
THEOREM TypeCorrectness == Spec => []TypeOK
<1>1. IInv => TypeOK
  BY DEF IInv, TypeInv
<1>. QED BY <1>1, InductiveInvariant, PTL

(* An acknowledgement never outlives its socket: new_connection clears the *)
(* event, and the receiver of an earlier socket cannot set it again.       *)
THEOREM AcknowledgementIsCurrent == Spec => []AckIsCurrent
<1>1. IInv => AckIsCurrent
  BY DEF IInv
<1>. QED BY <1>1, InductiveInvariant, PTL

(* The checks start_subscription makes under _connection_lock still hold   *)
(* when it has waited for _subscription_lock and for its send.             *)
THEOREM FirstSendsAreAcknowledged == Spec => []FirstSendAcknowledged
<1>1. IInv => FirstSendAcknowledged
  BY DEF IInv
<1>. QED BY <1>1, InductiveInvariant, PTL

(* _subscriptions holds exactly the calls that can still unsubscribe, or   *)
(* are about to: no failure leaves an id behind, none takes another's.     *)
THEOREM RegistrationIsExact == Spec => []NoGhostSubscription
<1>1. IInv => NoGhostSubscription
  BY DEF IInv
<1>. QED BY <1>1, InductiveInvariant, PTL

(* new_connection, called by any calls and the monitor, never leaves two   *)
(* sockets open, even if close() comes while one is being connected.       *)
THEOREM OneConnection == Spec => []OneOpenSocket
<1>1. IInv => OneOpenSocket
  BY DEF IInv
<1>. QED BY <1>1, InductiveInvariant, PTL

(* While new_connection connects, nothing can acknowledge the socket that  *)
(* is about to be opened.                                                  *)
THEOREM NothingAcknowledgesEarly == Spec => []AckClearWhileConnecting
<1>1. IInv => AckClearWhileConnecting
  <2>. SUFFICES ASSUME IInv, NEW t \in Tasks, pc[t] = "nc_connect"
                PROVE  ~ack /\ \A r \in Receivers : rst[r] = "recv" => sock[rsock[r]] # "open"
    BY DEF AckClearWhileConnecting
  <2>1. ~ack /\ sock[ws] # "open"
    BY DEF IInv, AckClear, NoOpenWhileReplacing, At
  <2>2. \A r \in Receivers : rsock[r] \in Sockets
    BY RealReceiver DEF IInv, TypeInv, TypeOK, ReceiverTypes
  <2>. QED BY <2>1, <2>2 DEF IInv, OneOpenSocket
<1>. QED BY <1>1, InductiveInvariant, PTL

(* _resubscribe_all works on a snapshot, yet it never sends a subscription *)
(* again whose complete frame may have gone out since.                     *)
THEOREM NothingIsReplayed == Spec => NoReplayAfterComplete
<1>. DEFINE Sends == \A c \in Calls, s \in Sockets : c \in live'[s] \ live[s] => c \in subs'
<1>1. IInv /\ [Next]_vars => [Sends]_vars
  BY StepIInv, EffectRegistered
<1>2. Spec => [][Sends]_vars
  BY <1>1, InductiveInvariant, PTL DEF Spec
<1>. QED BY <1>2 DEF NoReplayAfterComplete

(* No exception of a reconnect ends the monitor: it stops for _disconnect, *)
(* for a cancellation, or for a backoff whose exponent is at the limit.    *)
THEOREM MonitorSurvives == Spec => MonitorStopsOnRequest
<1>. DEFINE Stops == pc[Monitor] # "off" /\ pc'[Monitor] = "off" =>
                       disconnect \/ mcancel \/ attempt = ExponentLimit
<1>1. IInv /\ [Next]_vars => [Stops]_vars
  BY StepIInv, EffectMonitorStops DEF MonitorMayEnd, IInv
<1>2. Spec => [][Stops]_vars
  BY <1>1, InductiveInvariant, PTL DEF Spec
<1>. QED BY <1>2 DEF MonitorStopsOnRequest
=============================================================================
