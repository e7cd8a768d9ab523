--------------------------- MODULE WebSocketMonitor ---------------------------
(***************************************************************************)
(* The shared graphql-transport-ws connection of one client, translated    *)
(* from src/rivian/ws_monitor.py: new_connection, start_subscription with  *)
(* its unsubscribe closure, _resubscribe_all, the _receiver and _monitor   *)
(* tasks, and close.                                                       *)
(*                                                                         *)
(* asyncio runs one task at a time and switches only where a task          *)
(* suspends, so an action is the code from one suspension to the next and  *)
(* pc names the await a task is suspended at.  Locks and the event suspend *)
(* a task only when it has to wait; an await on the network or on another  *)
(* task may always suspend.  The locks are not variables: a lock is held   *)
(* while some task is at an await inside its "async with" block.           *)
(***************************************************************************)
EXTENDS Naturals

CONSTANTS
  Calls,          \* subscribe_for_* calls; a call stands for its uuid4 id too
  Monitor,        \* the task running _monitor
  MaxSockets,     \* bound: sockets opened by ws_connect
  MaxReceivers,   \* bound: receiver tasks created
  MaxFaults,      \* bound: faults of the environment
  ExponentLimit,  \* first exponent whose power of two is no float; 1024 in the code
  Events          \* the faults and external events that may happen

ASSUME ConstantsAssumption ==
  /\ Monitor \notin Calls
  /\ MaxSockets \in Nat /\ MaxReceivers \in Nat /\ MaxFaults \in Nat
  /\ ExponentLimit \in Nat
  /\ Events \subseteq {"peer_close", "unauthenticated", "connect_fail", "send_fail",
                       "ack_timeout", "pong_fail", "cancel", "slow_callback",
                       "slow_send", "close"}

VARIABLES
  ws,          \* self._ws: 0 is None, n the n-th socket that was opened
  sock,        \* ClientWebSocketResponse: "open", "closing" or "closed"
  inited,      \* sockets the server received connection_init on
  acked,       \* sockets the server sent connection_ack on
  live,        \* live[s]: the subscriptions the server serves on socket s
  twice,       \* subscriptions the server was sent again while it served them
  disconnect,  \* self._disconnect
  ack,         \* self._connection_ack.is_set()
  subs,        \* keys of self._subscriptions
  rtask,       \* self._receiver_task: 0 is None, n the n-th receiver created
  rst,         \* rst[r]: the await receiver r is suspended at
  rsock,       \* rsock[r]: its local variable websocket
  rcancel,     \* receivers with a requested cancellation
  pc,          \* pc[t]: the await task t is suspended at
  bound,       \* bound[t]: its local variable websocket (the socket it closes, for Monitor)
  todo,        \* rest of the snapshot _resubscribe_all is sending
  attempt,     \* _monitor's local variable attempt
  mcancel,     \* the monitor task has a requested cancellation
  closing,     \* the await the task running close() is suspended at
  csocket,     \* the socket that task closes
  creceiver,   \* the receiver task it was given to cancel
  faults       \* faults that have happened

server    == <<inited, acked, live, twice>>
receivers == <<rtask, rst, rsock, rcancel>>
monitor   == <<todo, attempt, mcancel>>
closer    == <<closing, csocket, creceiver>>
vars == <<ws, sock, server, disconnect, ack, subs, receivers, pc, bound, monitor,
          closer, faults>>

Tasks     == Calls \cup {Monitor}
Sockets   == 0 .. MaxSockets
Receivers == 1 .. MaxReceivers

(* The awaits at which a task holds a lock, and those at which it is queued*)
(* for it.  A wait for the event ends in "acked", "acked_again" or         *)
(* "m_acked": the waiter is scheduled and has yet to run.                  *)
NewConnectionPcs    == {"nc_cancel", "nc_connect", "nc_init"}
ConnectionHolders   == NewConnectionPcs \cup {"sub_lock", "sending"}
ConnectionWaiters   == {"nc_lock", "conn_lock"}
SubscriptionHolders == {"sending", "un_send", "un_fail", "m_send"}
SubscriptionWaiters == {"sub_lock", "un_lock", "m_lock"}
CallPcs == ConnectionHolders \cup ConnectionWaiters \cup
           {"idle", "connect_lock", "await_ack", "acked", "await_ack_again",
            "acked_again", "spin", "active", "un_lock", "un_send", "un_fail", "ended", "failed"}
MonitorPcs == NewConnectionPcs \cup {"off", "watch", "nc_lock", "m_ack", "m_acked",
                                     "m_lock", "m_send", "m_close", "m_backoff"}

At(t, labels)       == pc[t] \in labels
OthersAt(t, labels) == \E u \in Tasks \ {t} : pc[u] \in labels
Goto(t, l)          == pc' = [pc EXCEPT ![t] = l]

(* acquire() of asyncio.Lock does not suspend if the lock is free and      *)
(* nobody is queued; a task queued for it (at l) may take it once it is    *)
(* free, in any order.                                                     *)
MayTake(t, l, holders, waiters) ==
  ~OthersAt(t, holders) /\ (pc[t] = l \/ ~OthersAt(t, waiters))

(* Mutant: the code has no such lock.                                      *)
TakeNoLock(t, l) == TRUE

MayTakeConnectionLock(t, l) == MayTake(t, l, ConnectionHolders, ConnectionWaiters)
MayTakeSubscriptionLock(t, l) == MayTake(t, l, SubscriptionHolders, SubscriptionWaiters)

Connected    == ~disconnect /\ sock[ws] # "closed"
Receiving(s) == \E r \in Receivers : rst[r] = "recv" /\ rsock[r] = s

(* One more fault of the kind e is allowed.                                *)
Fault(e) == e \in Events /\ faults < MaxFaults /\ faults' = faults + 1

Init ==
  /\ ws = 0 /\ sock = [s \in Sockets |-> "closed"]
  /\ inited = {} /\ acked = {} /\ live = [s \in Sockets |-> {}] /\ twice = {}
  /\ disconnect = FALSE /\ ack = FALSE /\ subs = {}
  /\ rtask = 0 /\ rst = [r \in 0 .. MaxReceivers |-> "done"]
  /\ rsock = [r \in 0 .. MaxReceivers |-> 0] /\ rcancel = {}
  /\ pc = [t \in Tasks |-> IF t = Monitor THEN "off" ELSE "idle"]
  /\ bound = [t \in Tasks |-> 0]
  /\ todo = {} /\ attempt = 0 /\ mcancel = FALSE
  /\ closing = "idle" /\ csocket = 0 /\ creceiver = 0
  /\ faults = 0

-----------------------------------------------------------------------------
(* The socket (aiohttp) and the server.                                    *)

(* ClientWebSocketResponse.close up to its first suspension: while a task  *)
(* is inside receive() the socket is only "closing" until that task is out.*)
CloseSocket(s) ==
  sock' = [sock EXCEPT ![s] = IF @ = "open" /\ Receiving(s) THEN "closing" ELSE "closed"]

FinishClosing(s) ==
  /\ sock[s] = "closing" /\ ~Receiving(s)
  /\ sock' = [sock EXCEPT ![s] = "closed"]
  /\ UNCHANGED <<ws, server, disconnect, ack, subs, receivers, pc, bound, monitor,
                 closer, faults>>

(* _subscribe: the frame of id c goes out on self._ws.  Of a send that     *)
(* then raises the server may have the frame or not; it is taken to have   *)
(* it, the case that leaves something behind.                              *)
SendSubscribe(c) ==
  /\ sock[ws] # "closed"
  /\ live' = [live EXCEPT ![ws] = @ \cup {c}]
  /\ twice' = twice \cup ({c} \cap live[ws])
  /\ UNCHANGED <<inited, acked>>

-----------------------------------------------------------------------------
(* _receiver.  What none of its steps changes is stated once, in           *)
(* ReceiverStep and ReceiverEvent.                                         *)

(* self._receiver_task = asyncio.ensure_future(self._receiver())           *)
CreateReceiver ==
  /\ rtask < MaxReceivers
  /\ rtask' = rtask + 1
  /\ rst' = [rst EXCEPT ![rtask + 1] = "created"]
  /\ UNCHANGED <<rsock, rcancel>>

(* The task is done and leaves the acknowledgement at a.                   *)
ReceiverDone(r, a) ==
  /\ rst' = [rst EXCEPT ![r] = "done"] /\ rsock' = [rsock EXCEPT ![r] = 0]
  /\ rcancel' = rcancel \ {r}
  /\ ack' = a

InReceive(r) == rst[r] = "recv" /\ r \notin rcancel

(* The first step of the task, and the loop head after a callback: receive *)
(* on an open socket; a second receive() raises, a closing socket is       *)
(* closed by receive(), and both ways out run the finally clause.          *)
ReceiverRuns(r) ==
  LET s == IF rst[r] = "created" THEN ws ELSE rsock[r] IN
  /\ rst[r] \in {"created", "callback"} /\ r \notin rcancel
  /\ \/ /\ sock[s] = "open" /\ ~Receiving(s)
        /\ rst' = [rst EXCEPT ![r] = "recv"] /\ rsock' = [rsock EXCEPT ![r] = s]
        /\ UNCHANGED <<sock, ack, rcancel>>
     \/ /\ sock[s] # "open" \/ Receiving(s)
        /\ sock' = IF Receiving(s) THEN sock ELSE [sock EXCEPT ![s] = "closed"]
        /\ ReceiverDone(r, FALSE)
  /\ UNCHANGED <<acked, disconnect, pc, faults>>

(* connection_ack arrives: the event is set and every waiter is scheduled, *)
(* whatever happens to the event before the waiter runs.                   *)
ReceiveAck(r) ==
  /\ InReceive(r) /\ sock[rsock[r]] = "open" /\ rsock[r] \in inited \ acked
  /\ acked' = acked \cup {rsock[r]}
  /\ ack' = TRUE
  /\ pc' = [t \in Tasks |-> CASE pc[t] = "await_ack" -> "acked"
                              [] pc[t] = "await_ack_again" -> "acked_again"
                              [] pc[t] = "m_ack" -> "m_acked"
                              [] OTHER -> pc[t]]
  /\ UNCHANGED <<sock, disconnect, rst, rsock, rcancel, faults>>

(* A "next" frame of a registered id whose callback suspends.              *)
ReceiveNext(r) ==
  /\ "slow_callback" \in Events
  /\ InReceive(r) /\ sock[rsock[r]] = "open" /\ live[rsock[r]] \cap subs # {}
  /\ rst' = [rst EXCEPT ![r] = "callback"]
  /\ UNCHANGED <<sock, acked, disconnect, ack, rsock, rcancel, pc, faults>>

(* A CLOSE, CLOSING or CLOSED message ends the loop and the finally clause *)
(* clears the acknowledgement: this client is closing the socket, or the   *)
(* peer has closed it and receive() shuts it.                              *)
ReceiveClosing(r) ==
  /\ InReceive(r) /\ sock[rsock[r]] # "open"
  /\ ReceiverDone(r, FALSE)
  /\ UNCHANGED <<sock, acked, disconnect, pc, faults>>

ReceiveClose(r) ==
  /\ InReceive(r) /\ sock[rsock[r]] = "open"
  /\ sock' = [sock EXCEPT ![rsock[r]] = "closed"]
  /\ \/ Fault("peer_close") /\ UNCHANGED disconnect
     \/ Fault("unauthenticated") /\ disconnect' = TRUE
  /\ ReceiverDone(r, FALSE)
  /\ UNCHANGED <<acked, pc>>

(* An exception leaves the loop with the socket open: the pong cannot be   *)
(* sent, or a frame's id is not hashable.                                  *)
ReceiverFails(r) ==
  /\ InReceive(r) /\ sock[rsock[r]] = "open" /\ Fault("pong_fail")
  /\ ReceiverDone(r, FALSE)
  /\ UNCHANGED <<sock, acked, disconnect, pc>>

(* CancelledError: a task that has not started has no finally to run.      *)
ReceiverCancelled(r) ==
  /\ r \in rcancel
  /\ ReceiverDone(r, ack /\ rst[r] = "created")
  /\ UNCHANGED <<sock, acked, disconnect, pc, faults>>

ReceiverStep(r) ==
  /\ ReceiverRuns(r) \/ ReceiveAck(r) \/ ReceiveClosing(r) \/ ReceiverCancelled(r)
  /\ UNCHANGED <<ws, inited, live, twice, subs, rtask, bound, monitor, closer>>

ReceiverEvent(r) ==
  /\ ReceiveNext(r) \/ ReceiveClose(r) \/ ReceiverFails(r)
  /\ UNCHANGED <<ws, inited, live, twice, subs, rtask, bound, monitor, closer>>

-----------------------------------------------------------------------------
(* close                                                                   *)

(* Mutant: cancel_task without its test for None and for a finished task.  *)
CancelReceiverUnchecked(r) ==
  /\ closing' = "receiver" /\ creceiver' = r
  /\ rcancel' = rcancel \cup {r}

(* cancel_task on receiver r, the last step of close().                    *)
CancelReceiver(r) ==
  /\ creceiver' = r
  /\ \/ rst[r] = "done" /\ closing' = "closed" /\ UNCHANGED rcancel
     \/ rst[r] # "done" /\ closing' = "receiver" /\ rcancel' = rcancel \cup {r}

(* cancel_task(self._monitor_task, self._receiver_task)                    *)
CancelTasks ==
  \/ pc[Monitor] = "off" /\ CancelReceiver(rtask) /\ UNCHANGED mcancel
  \/ /\ pc[Monitor] # "off" /\ mcancel' = TRUE
     /\ closing' = "monitor" /\ creceiver' = rtask
     /\ UNCHANGED rcancel

CloseFrame == UNCHANGED <<ws, server, ack, subs, rtask, rst, rsock, pc, bound, todo,
                          attempt, faults>>

Close ==
  /\ "close" \in Events /\ closing = "idle"
  /\ disconnect' = TRUE
  /\ \/ /\ sock[ws] # "closed" /\ CloseSocket(ws)
        /\ closing' = "socket" /\ csocket' = ws
        /\ UNCHANGED <<creceiver, rcancel, mcancel>>
     \/ sock[ws] = "closed" /\ CancelTasks /\ UNCHANGED <<sock, csocket>>
  /\ CloseFrame

(* The socket is closed, the monitor is done, the receiver is done.        *)
CloseStep ==
  /\ \/ closing = "socket" /\ sock[csocket] = "closed" /\ CancelTasks
     \/ closing = "monitor_done" /\ CancelReceiver(creceiver) /\ UNCHANGED mcancel
     \/ /\ closing = "receiver" /\ rst[creceiver] = "done" /\ closing' = "closed"
        /\ UNCHANGED <<creceiver, rcancel, mcancel>>
  /\ UNCHANGED <<sock, disconnect, csocket>> /\ CloseFrame

-----------------------------------------------------------------------------
(* The end and the except clause of _monitor                               *)

(* The task is done: a new one starts with fresh local variables, and a    *)
(* close() that waits for this one can go on.                              *)
MonitorEnds ==
  /\ Goto(Monitor, "off")
  /\ todo' = {} /\ attempt' = 0 /\ mcancel' = FALSE
  /\ closing' = IF closing = "monitor" THEN "monitor_done" ELSE closing
  /\ UNCHANGED <<csocket, creceiver>>

(* Mutant: the attempts start from zero again whenever the monitor sleeps. *)
BackoffFromZero ==
  /\ Goto(Monitor, "m_backoff")
  /\ todo' = {} /\ attempt' = 0
  /\ UNCHANGED <<mcancel, closer>>

(* asyncio.sleep(min(1 * 2**attempt + uniform(0, 1), 300)): the sum turns  *)
(* the integer into a float and raises OverflowError from ExponentLimit on.*)
Backoff ==
  IF attempt < ExponentLimit
  THEN Goto(Monitor, "m_backoff") /\ todo' = {} /\ UNCHANGED <<attempt, mcancel, closer>>
  ELSE MonitorEnds

(* Mutant: the exception of a failed reconnect ends the monitor.           *)
ReconnectKillsMonitor == MonitorEnds /\ UNCHANGED <<sock, bound>>

ReconnectFails ==
  IF sock[ws] = "closed"
  THEN Backoff /\ UNCHANGED <<sock, bound>>
  ELSE /\ CloseSocket(ws)
       /\ bound' = [bound EXCEPT ![Monitor] = ws]
       /\ Goto(Monitor, "m_close") /\ todo' = {}
       /\ UNCHANGED <<attempt, mcancel, closer>>

-----------------------------------------------------------------------------
(* start_subscription and the unsubscribe function it returns.  p is pc,   *)
(* or pc with the monitor task that the same step has just started.        *)

CallFrame == UNCHANGED <<ws, sock, disconnect, ack, receivers, monitor, closer>>

GotoIn(p, c, l) == pc' = [p EXCEPT ![c] = l] /\ UNCHANGED <<subs, server>>

(* Both locks are held: register the id and send its frame; an exception   *)
(* takes the id out again.                                                 *)
RegisterAndSend(p, c) ==
  \/ SendSubscribe(c) /\ subs' = subs \cup {c} /\ pc' = [p EXCEPT ![c] = "sending"]
  \/ sock[ws] = "closed" /\ GotoIn(p, c, "failed")

LockAndSend(p, c) ==
  \/ MayTakeSubscriptionLock(c, "sub_lock") /\ RegisterAndSend(p, c)
  \/ ~MayTakeSubscriptionLock(c, "sub_lock") /\ GotoIn(p, c, "sub_lock")

(* Mutant: the socket is not checked again with the lock held.             *)
CheckAndSendUnchecked(p, c, s) ==
  /\ bound' = [bound EXCEPT ![c] = s]
  /\ \/ ~MayTakeConnectionLock(c, "conn_lock") /\ GotoIn(p, c, "conn_lock")
     \/ MayTakeConnectionLock(c, "conn_lock") /\ LockAndSend(p, c)

(* The loop body from "async with self._connection_lock" on, s being the   *)
(* socket read before the wait for the acknowledgement.  If it is stale    *)
(* the loop starts over with the current socket: it suspends if there is   *)
(* no acknowledgement or if others are queued for the lock it has just     *)
(* released.  Acknowledged but not connected, the loop never suspends.     *)
CheckAndSend(p, c, s) ==
  \/ /\ ~MayTakeConnectionLock(c, "conn_lock")
     /\ bound' = [bound EXCEPT ![c] = s]
     /\ GotoIn(p, c, "conn_lock")
  \/ /\ MayTakeConnectionLock(c, "conn_lock")
     /\ bound' = [bound EXCEPT ![c] = ws]
     /\ LET queue == OthersAt(c, ConnectionWaiters) IN
        \/ ack /\ Connected /\ (s = ws \/ ~queue) /\ LockAndSend(p, c)
        \/ ~ack /\ GotoIn(p, c, "await_ack_again")
        \/ ack /\ ~(s = ws /\ Connected) /\ queue /\ GotoIn(p, c, "conn_lock")
        \/ ack /\ ~Connected /\ ~queue /\ GotoIn(p, c, "spin")

StartSubscription(p, c) ==
  \/ ~Connected /\ GotoIn(p, c, "failed") /\ UNCHANGED bound
  \/ /\ Connected /\ ~ack
     /\ bound' = [bound EXCEPT ![c] = ws]
     /\ GotoIn(p, c, "await_ack_again")
  \/ Connected /\ ack /\ CheckAndSend(p, c, ws)

(* connection_ack.wait() in subscribe_for_*, then start_subscription.      *)
AwaitAck(p, c) ==
  \/ ack /\ StartSubscription(p, c)
  \/ ~ack /\ GotoIn(p, c, "await_ack") /\ UNCHANGED bound

(* The call's next step once the event or the lock it waited for is there. *)
ContinueSubscription(c) ==
  /\ \/ pc[c] = "acked" /\ StartSubscription(pc, c)
     \/ pc[c] = "acked_again" /\ CheckAndSend(pc, c, bound[c])
     \/ /\ pc[c] = "conn_lock" /\ MayTakeConnectionLock(c, "conn_lock")
        /\ CheckAndSend(pc, c, bound[c])
     \/ /\ pc[c] = "sub_lock" /\ MayTakeSubscriptionLock(c, "sub_lock")
        /\ RegisterAndSend(pc, c) /\ UNCHANGED bound
  /\ CallFrame /\ UNCHANGED faults

SubscribeSent(c) ==
  /\ pc[c] = "sending" /\ GotoIn(pc, c, "active")
  /\ CallFrame /\ UNCHANGED <<bound, faults>>

(* Mutant: a call that is interrupted while sending keeps its id.          *)
GiveUpKeepingId(c) == GotoIn(pc, c, "failed") /\ CallFrame /\ UNCHANGED bound

(* An exception, a cancellation or the request timeout ends subscribe_for_**)
(* at an await: inside _subscribe its id is popped.                        *)
GiveUp(c) ==
  /\ Goto(c, "failed")
  /\ subs' = IF pc[c] = "sending" THEN subs \ {c} ELSE subs
  /\ CallFrame /\ UNCHANGED <<server, bound>>

SubscribeRaises(c) ==
  pc[c] = "sending" /\ (Fault("send_fail") \/ Fault("slow_send")) /\ GiveUp(c)

(* Mutant: the waits of a call have no timeout.                            *)
NeverTimesOut(c) == pc[c] = "await_ack" /\ FALSE /\ GiveUp(c) /\ UNCHANGED faults

TimesOut(c) ==
  /\ At(c, {"await_ack", "await_ack_again", "conn_lock", "sub_lock"})
  /\ GiveUp(c) /\ UNCHANGED faults

(* A cancelled unsubscribe leaves things as they are at its await: queued  *)
(* for the lock it has deleted nothing and may be called again.            *)
CallerCancels(c) ==
  /\ Fault("cancel")
  /\ \/ /\ At(c, {"connect_lock", "nc_lock", "nc_connect", "nc_init", "await_ack", "acked",
                 "await_ack_again", "acked_again", "conn_lock", "sub_lock", "sending"})
        /\ GiveUp(c)
     \/ /\ \/ pc[c] = "un_lock" /\ GotoIn(pc, c, "active")
           \/ pc[c] = "un_send" /\ GotoIn(pc, c, "ended")
           \/ pc[c] = "un_fail" /\ GotoIn(pc, c, "failed")
        /\ CallFrame /\ UNCHANGED bound

(* The last statement of unsubscribe: there is no connection to complete   *)
(* the subscription on, or its frame goes out, or it cannot be sent.       *)
Complete(c) ==
  \/ ~Connected /\ Goto(c, "ended") /\ UNCHANGED <<live, faults>>
  \/ /\ Connected /\ Goto(c, "un_send") /\ UNCHANGED faults
     /\ live' = [live EXCEPT ![ws] = @ \ {c}]
  \/ Connected /\ Fault("send_fail") /\ Goto(c, "un_fail") /\ UNCHANGED live

(* Mutant: unsubscribe completes the subscription but keeps its id.        *)
UnsubscribeKeepingId(c) ==
  /\ At(c, {"active", "un_lock"})
  /\ MayTakeSubscriptionLock(c, "un_lock") /\ Complete(c)
  /\ UNCHANGED <<subs, inited, acked, twice>>
  /\ CallFrame /\ UNCHANGED bound

(* unsubscribe: delete the id, and complete it on a connected socket.      *)
Unsubscribe(c) ==
  /\ At(c, {"active", "un_lock"})
  /\ \/ /\ ~MayTakeSubscriptionLock(c, "un_lock") /\ pc[c] = "active"
        /\ GotoIn(pc, c, "un_lock") /\ UNCHANGED faults
     \/ /\ MayTakeSubscriptionLock(c, "un_lock")
        /\ subs' = subs \ {c} /\ Complete(c)
        /\ UNCHANGED <<inited, acked, twice>>
  /\ CallFrame /\ UNCHANGED bound

(* The send returns, or raises.                                            *)
UnsubscribeSent(c) ==
  /\ \/ pc[c] = "un_send" /\ GotoIn(pc, c, "ended")
     \/ pc[c] = "un_fail" /\ GotoIn(pc, c, "failed")
  /\ CallFrame /\ UNCHANGED <<bound, faults>>

SubscriptionStep(c) ==
  \/ ContinueSubscription(c) \/ SubscribeSent(c) \/ TimesOut(c) \/ UnsubscribeSent(c)
  \/ pc[c] = "un_lock" /\ Unsubscribe(c)

-----------------------------------------------------------------------------
(* _resubscribe_all                                                        *)

(* Send what is left of the snapshot, one frame at a time, each on the     *)
(* socket that is current then; at the end return to the loop of _monitor. *)
SendSnapshot(rest) ==
  \/ /\ rest = {} /\ Goto(Monitor, "watch") /\ todo' = {} /\ attempt' = 0
     /\ UNCHANGED <<sock, server, bound, mcancel, closer>>
  \/ /\ \E c \in rest : SendSubscribe(c) /\ todo' = rest \ {c}
     /\ Goto(Monitor, "m_send")
     /\ UNCHANGED <<sock, bound, attempt, mcancel, closer>>
  \/ rest # {} /\ sock[ws] = "closed" /\ ReconnectFails /\ UNCHANGED server

MonitorWaits(l) == Goto(Monitor, l) /\ UNCHANGED <<sock, server, bound, monitor, closer>>

(* Mutant: the monitor goes back to its loop without restoring anything.   *)
RestoreNothing ==
  /\ Goto(Monitor, "watch") /\ attempt' = 0
  /\ UNCHANGED <<sock, server, bound, todo, mcancel, closer>>

LockAndResubscribe ==
  \/ MayTakeSubscriptionLock(Monitor, "m_lock") /\ SendSnapshot(subs)
  \/ ~MayTakeSubscriptionLock(Monitor, "m_lock") /\ MonitorWaits("m_lock")

ResubscribeAll == (ack /\ LockAndResubscribe) \/ (~ack /\ MonitorWaits("m_ack"))

(* The monitor goes on with the code of its await l.                       *)
MonitorAt(l) == pc[Monitor] = l /\ ~mcancel

ContinueResubscribe ==
  /\ \/ MonitorAt("m_acked") /\ LockAndResubscribe
     \/ /\ MonitorAt("m_lock") /\ MayTakeSubscriptionLock(Monitor, "m_lock")
        /\ SendSnapshot(subs)
     \/ MonitorAt("m_send") /\ SendSnapshot(todo)
  /\ UNCHANGED <<ws, disconnect, ack, subs, receivers, faults>>

(* A frame of the restore cannot be sent, or no acknowledgement comes in   *)
(* request_timeout: late (a fault) or never.                               *)
AckDue == sock[ws] = "open" /\ ws \in inited \ acked /\ rst[rtask] # "done"

RestoreRaises ==
  /\ \/ MonitorAt("m_send") /\ Fault("send_fail")
     \/ MonitorAt("m_ack") /\ Fault("ack_timeout")
     \/ MonitorAt("m_ack") /\ ~AckDue /\ UNCHANGED faults
  /\ ReconnectFails
  /\ UNCHANGED <<ws, server, disconnect, ack, subs, receivers>>

-----------------------------------------------------------------------------
(* new_connection, in the task of a call or in the monitor                 *)

MonitorStarted == [pc EXCEPT ![Monitor] = IF @ = "off" THEN "watch" ELSE @]

(* Task t goes on when new_connection has returned: a call has started the *)
(* monitor if none runs, the monitor checks the socket and restores the    *)
(* subscriptions.                                                          *)
ConnectionReturns(t) ==
  \/ t # Monitor /\ AwaitAck(MonitorStarted, t) /\ UNCHANGED <<sock, monitor, closer>>
  \/ t = Monitor /\ sock[ws] # "closed" /\ ResubscribeAll /\ UNCHANGED subs
  \/ t = Monitor /\ sock[ws] = "closed" /\ ReconnectFails /\ UNCHANGED <<subs, server>>

(* The reset between cancel_task and ws_connect.                           *)
StartConnecting(t) == disconnect' = FALSE /\ ack' = FALSE /\ Goto(t, "nc_connect")

(* new_connection up to its first suspension.                              *)
NewConnection(t) ==
  \/ /\ ~MayTakeConnectionLock(t, "nc_lock") /\ Goto(t, "nc_lock")
     /\ UNCHANGED <<sock, server, disconnect, ack, subs, rcancel, bound, monitor, closer>>
  \/ /\ MayTakeConnectionLock(t, "nc_lock") /\ Connected
     /\ ConnectionReturns(t)
     /\ UNCHANGED <<disconnect, ack, rcancel>>
  \/ /\ MayTakeConnectionLock(t, "nc_lock") /\ ~Connected
     /\ \/ /\ rst[rtask] # "done" /\ rcancel' = rcancel \cup {rtask}
           /\ Goto(t, "nc_cancel") /\ UNCHANGED <<disconnect, ack>>
        \/ rst[rtask] = "done" /\ StartConnecting(t) /\ UNCHANGED rcancel
     /\ UNCHANGED <<sock, server, subs, bound, monitor, closer>>

(* The task t is not the monitor with a requested cancellation.            *)
Runs(t) == t = Monitor => ~mcancel

EnterNewConnection(t) ==
  /\ pc[t] = "nc_lock" /\ MayTakeConnectionLock(t, "nc_lock") /\ Runs(t)
  /\ NewConnection(t)
  /\ UNCHANGED <<ws, rtask, rst, rsock, faults>>

(* cancel_task returns on any CancelledError, also on one meant for t.     *)
OldReceiverCancelled(t) ==
  /\ pc[t] = "nc_cancel" /\ rst[rtask] = "done"
  /\ StartConnecting(t)
  /\ mcancel' = (mcancel /\ t # Monitor)
  /\ UNCHANGED <<ws, sock, server, subs, receivers, bound, todo, attempt, closer, faults>>

ConnectFrame == UNCHANGED <<acked, live, twice, disconnect, subs, receivers>>

(* Mutant: connection_init alone counts as an acknowledged connection.     *)
SocketConnectedAcknowledged(t) ==
  /\ pc[t] = "nc_connect" /\ Runs(t) /\ ws < MaxSockets
  /\ ws' = ws + 1 /\ sock' = [sock EXCEPT ![ws + 1] = "open"]
  /\ inited' = inited \cup {ws + 1} /\ ack' = TRUE
  /\ Goto(t, "nc_init")
  /\ ConnectFrame /\ UNCHANGED <<bound, monitor, closer, faults>>

(* ws_connect returns and connection_init goes out.                        *)
SocketConnected(t) ==
  /\ pc[t] = "nc_connect" /\ Runs(t) /\ ws < MaxSockets
  /\ ws' = ws + 1 /\ sock' = [sock EXCEPT ![ws + 1] = "open"]
  /\ inited' = inited \cup {ws + 1}
  /\ Goto(t, "nc_init")
  /\ ConnectFrame /\ UNCHANGED <<ack, bound, monitor, closer, faults>>

ConnectionInitDone(t) ==
  /\ pc[t] = "nc_init" /\ Runs(t)
  /\ CreateReceiver /\ ConnectionReturns(t)
  /\ UNCHANGED <<ws, disconnect, ack, faults>>

(* An exception in ws_connect or in connection_init, whose frame may or    *)
(* may not have gone out.                                                  *)
ConnectRaises(t) ==
  /\ Runs(t)
  /\ \/ pc[t] = "nc_connect" /\ Fault("connect_fail") /\ UNCHANGED inited
     \/ /\ pc[t] = "nc_init" /\ Fault("send_fail")
        /\ inited' \in {inited, inited \ ({ws} \ acked)}
  /\ \/ t = Monitor /\ ReconnectFails
     \/ t # Monitor /\ Goto(t, "failed") /\ UNCHANGED <<sock, bound, monitor, closer>>
  /\ ConnectFrame /\ UNCHANGED <<ws, ack>>

NewConnectionStep(t) ==
  \/ EnterNewConnection(t) \/ OldReceiverCancelled(t)
  \/ SocketConnected(t) \/ ConnectionInitDone(t)

-----------------------------------------------------------------------------
(* _monitor                                                                *)

(* Mutant: the monitor does not restart a receiver.                        *)
MonitorWatchesOnly ==
  /\ MonitorAt("watch")
  /\ \/ /\ disconnect /\ MonitorEnds
        /\ UNCHANGED <<sock, server, disconnect, ack, subs, receivers, bound>>
     \/ ~disconnect /\ ~Connected /\ NewConnection(Monitor) /\ UNCHANGED <<rtask, rst, rsock>>
  /\ UNCHANGED <<ws, faults>>

(* The loop heads, at the start and after each sleep: leave, restart a     *)
(* receiver that is done, or reconnect.                                    *)
MonitorWatches ==
  /\ MonitorAt("watch")
  /\ \/ /\ disconnect /\ MonitorEnds
        /\ UNCHANGED <<sock, server, disconnect, ack, subs, receivers, bound>>
     \/ /\ Connected /\ rtask # 0 /\ rst[rtask] = "done" /\ CreateReceiver
        /\ UNCHANGED <<sock, server, disconnect, ack, subs, pc, bound, monitor, closer>>
     \/ ~disconnect /\ ~Connected /\ NewConnection(Monitor) /\ UNCHANGED <<rtask, rst, rsock>>
  /\ UNCHANGED <<ws, faults>>

MonitorFrame == UNCHANGED <<ws, sock, server, disconnect, ack, subs, receivers, bound, faults>>

(* self._ws.close() has returned in the except clause.                     *)
FailedSocketClosed ==
  MonitorAt("m_close") /\ sock[bound[Monitor]] = "closed" /\ Backoff /\ MonitorFrame

BackoffDone ==
  /\ MonitorAt("m_backoff") /\ Goto(Monitor, "watch") /\ attempt' = attempt + 1
  /\ MonitorFrame /\ UNCHANGED <<todo, mcancel, closer>>

(* Mutant: close() waits for the monitor without cancelling it, as if every*)
(* await of the monitor swallowed the request.                             *)
CancellationSwallowed ==
  /\ mcancel /\ pc[Monitor] # "nc_cancel" /\ mcancel' = FALSE
  /\ MonitorFrame /\ UNCHANGED <<pc, todo, attempt, closer>>

(* The cancellation is delivered where the monitor is suspended; in        *)
(* cancel_task it is swallowed (OldReceiverCancelled).                     *)
MonitorCancelled ==
  mcancel /\ pc[Monitor] # "nc_cancel" /\ MonitorEnds /\ MonitorFrame

MonitorStep ==
  \/ MonitorWatches \/ NewConnectionStep(Monitor) \/ ContinueResubscribe
  \/ pc[Monitor] = "m_ack" /\ RestoreRaises
  \/ FailedSocketClosed \/ BackoffDone \/ MonitorCancelled

=============================================================================
