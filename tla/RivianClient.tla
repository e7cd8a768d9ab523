----------------------------- MODULE RivianClient -----------------------------
(***************************************************************************)
(* The subscription path of the Rivian client, translated from             *)
(* src/rivian/rivian.py, over the connection of WebSocketMonitor: every    *)
(* subscribe_for_vehicle_updates and subscribe_for_parallax_messages call, *)
(* _ws_connect under _ws_connect_lock, and close, for a client whose aiohttp *)
(* session was passed in by the application.  Here the system is put       *)
(* together and its properties are stated.                                 *)
(***************************************************************************)
EXTENDS WebSocketMonitor

(* _ws_connect_lock: a call holds it while it is inside new_connection.    *)
MayTakeConnectLock(c) ==
  \A d \in Calls \ {c} :
    /\ ~At(d, NewConnectionPcs \cup {"nc_lock"})
    /\ pc[c] # "connect_lock" => pc[d] # "connect_lock"

(* _ws_connect with its lock held, up to the wait for the acknowledgement: *)
(* connect if there is no open socket, and see to it that a monitor runs.  *)
WsConnect(c) ==
  \/ sock[ws] = "closed" /\ NewConnection(c)
  \/ /\ sock[ws] # "closed"
     /\ AwaitAck(MonitorStarted, c)
     /\ UNCHANGED <<sock, disconnect, ack, rcancel, monitor, closer>>

(* subscribe_for_* is called and takes _ws_connect_lock or queues for it.  *)
Subscribe(c) ==
  /\ pc[c] = "idle"
  /\ \/ MayTakeConnectLock(c) /\ WsConnect(c)
     \/ /\ ~MayTakeConnectLock(c) /\ GotoIn(pc, c, "connect_lock")
        /\ UNCHANGED <<sock, disconnect, ack, rcancel, bound, monitor, closer>>
  /\ UNCHANGED <<ws, rtask, rst, rsock, faults>>

TakeConnectLock(c) ==
  /\ pc[c] = "connect_lock" /\ MayTakeConnectLock(c) /\ WsConnect(c)
  /\ UNCHANGED <<ws, rtask, rst, rsock, faults>>

(* Rivian.close: there is a WebSocketMonitor once a call was in _ws_connect.*)
ClientClose ==
  /\ \E c \in Calls : pc[c] \notin {"idle", "connect_lock"}
  /\ Close

CallStep(c) == TakeConnectLock(c) \/ NewConnectionStep(c) \/ SubscriptionStep(c)

(* A call that spins in start_subscription keeps the event loop: no other  *)
(* task, timer or message is served.                                       *)
LoopRuns == \A c \in Calls : pc[c] # "spin"

Next ==
  /\ LoopRuns
  /\ \/ \E s \in Sockets : FinishClosing(s)
     \/ \E r \in Receivers : ReceiverStep(r) \/ ReceiverEvent(r)
     \/ \E c \in Calls :
          \/ Subscribe(c) \/ CallStep(c) \/ SubscribeRaises(c) \/ CallerCancels(c)
          \/ Unsubscribe(c)
     \/ \E t \in Tasks : ConnectRaises(t)
     \/ MonitorStep \/ RestoreRaises
     \/ ClientClose \/ CloseStep

Spec == Init /\ [][Next]_vars

(* The event loop runs every task that is ready, the network answers, a    *)
(* callback returns; nothing is assumed of faults, of the application or   *)
(* of the arrival of data.                                                 *)
Fairness ==
  /\ \A s \in Sockets : WF_vars(LoopRuns /\ FinishClosing(s))
  /\ \A r \in Receivers : WF_vars(LoopRuns /\ ReceiverStep(r))
  /\ \A c \in Calls : WF_vars(LoopRuns /\ CallStep(c))
  /\ WF_vars(LoopRuns /\ MonitorStep)
  /\ WF_vars(LoopRuns /\ CloseStep)

FairSpec == Spec /\ Fairness

(* Spec lets a task that is scheduled wait while the network answers and   *)
(* the application calls; the ready queue of asyncio is not that unfair.   *)
(* PromptSpec keeps the behaviours in which every scheduled task has had   *)
(* its turn before the next outside event is served.                       *)
Turn ==
  \/ \E s \in Sockets : FinishClosing(s)
  \/ \E r \in Receivers : rst[r] # "callback" /\ ReceiverStep(r) /\ UNCHANGED acked
  \/ \E c \in Calls :
       \/ TakeConnectLock(c) \/ ContinueSubscription(c)
       \/ pc[c] = "un_lock" /\ Unsubscribe(c)
  \/ \E t \in Tasks : EnterNewConnection(t) \/ OldReceiverCancelled(t)
  \/ pc[Monitor] # "m_send" /\ ContinueResubscribe
  \/ FailedSocketClosed \/ MonitorCancelled \/ CloseStep

PromptSpec == Init /\ [][Next /\ (ENABLED Turn => Turn)]_vars
PromptFairSpec == PromptSpec /\ Fairness

-----------------------------------------------------------------------------
(* Type invariant: every variable holds a value of its Python counterpart. *)
SocketTypes ==
  /\ ws \in Sockets
  /\ sock \in [Sockets -> {"open", "closing", "closed"}]
  /\ inited \subseteq Sockets /\ acked \subseteq Sockets
  /\ live \in [Sockets -> SUBSET Calls]
  /\ twice \subseteq Calls
  /\ disconnect \in BOOLEAN /\ ack \in BOOLEAN
  /\ subs \subseteq Calls
ReceiverTypes ==
  /\ rtask \in 0 .. MaxReceivers
  /\ rst \in [0 .. MaxReceivers -> {"done", "created", "recv", "callback"}]
  /\ rsock \in [0 .. MaxReceivers -> Sockets]
  /\ rcancel \subseteq Receivers
TaskTypes ==
  /\ pc \in [Tasks -> CallPcs \cup MonitorPcs]
  /\ \A c \in Calls : pc[c] \in CallPcs
  /\ pc[Monitor] \in MonitorPcs
  /\ bound \in [Tasks -> Sockets]
MonitorTypes ==
  /\ todo \subseteq Calls
  /\ attempt \in 0 .. ExponentLimit
  /\ mcancel \in BOOLEAN
CloserTypes ==
  /\ closing \in {"idle", "socket", "monitor", "monitor_done", "receiver", "closed"}
  /\ csocket \in Sockets /\ creceiver \in 0 .. MaxReceivers
  /\ faults \in 0 .. MaxFaults
TypeOK == SocketTypes /\ ReceiverTypes /\ TaskTypes /\ MonitorTypes /\ CloserTypes

(* connection_ack is set only for the current socket, and only once the    *)
(* server has acknowledged that socket: an acknowledgement or a receiver   *)
(* of an earlier socket never counts for its replacement.                  *)
AckIsCurrent == ack => ws \in acked

(* While a call registers and sends its first frame the socket it checked  *)
(* is still the current one and acknowledged, however long it waited.      *)
FirstSendAcknowledged ==
  \A c \in Calls : pc[c] \in {"sub_lock", "sending"} => bound[c] = ws /\ ws \in acked

(* A subscription is registered exactly while its call is sending its      *)
(* frame or has returned an unsubscribe function that has not yet run.     *)
NoGhostSubscription ==
  \A c \in Calls : c \in subs <=> pc[c] \in {"sending", "active", "un_lock"}

(* A subscribe frame goes out only for a registered subscription: nothing  *)
(* is replayed after its complete frame, whatever the snapshot holds.      *)
NoReplayAfterComplete ==
  [][\A c \in Calls, s \in Sockets : c \in live'[s] \ live[s] => c \in subs']_vars

(* There is one connection: only the current socket can be open.           *)
OneOpenSocket == \A s \in Sockets : sock[s] = "open" => s = ws

(* While a replacement is being connected the acknowledgement is clear and *)
(* no receiver is left that could set it.                                  *)
AckClearWhileConnecting ==
  (\E t \in Tasks : pc[t] = "nc_connect") =>
    ~ack /\ \A r \in Receivers : rst[r] = "recv" => sock[rsock[r]] # "open"

(* Whatever fails in a reconnect, the monitor stops only when the client is*)
(* disconnected, on request, or when the power of two of its backoff is no *)
(* float any more.                                                         *)
MonitorStopsOnRequest ==
  [][pc[Monitor] # "off" /\ pc'[Monitor] = "off" =>
       disconnect \/ mcancel \/ attempt = ExponentLimit]_vars

(* What a call has come to, from the await l it is suspended at, and what  *)
(* the server serves on an open connection.                                *)
Kind(l) ==
  CASE l = "idle" -> "idle"
    [] l \in {"active", "un_lock"} -> "active"
    [] l \in {"un_send", "ended"} -> "over"
    [] l \in {"un_fail", "failed"} -> "failed"
    [] OTHER -> "pending"
Status == [c \in Calls |-> Kind(pc[c])]
ServedNow == IF sock[ws] = "open" THEN live[ws] ELSE {}

Promise == INSTANCE Subscriptions WITH status <- Status, served <- ServedNow

(* The shared connection with its locks, tasks and faults implements the   *)
(* promise: a subscription is lost only on request or with its connection, *)
(* one that has been unsubscribed is not served and never comes back, and  *)
(* what a call that failed has left behind ends with the connection,       *)
(* whatever the monitor restores.                                          *)
ImplementsSubscriptions == Promise!Spec

(* Every call returns: no lock order, lost wakeup or dead receiver keeps a *)
(* subscribe or unsubscribe call waiting for ever.                         *)
CallsReturn ==
  \A c \in Calls :
    pc[c] \notin {"idle", "active"} ~> pc[c] \in {"active", "ended", "failed"}

(* close() returns, unless a call has frozen the event loop.               *)
CloseReturns == closing # "idle" ~> closing = "closed" \/ ~LoopRuns

(* An open socket is in the end read by a receiver.                        *)
SocketServed == sock[ws] = "open" ~> Receiving(ws) \/ sock[ws] # "open"

(* The backoff starts from zero again only once every registered           *)
(* subscription is served on the new socket.                               *)
BackoffResetsWhenRestored ==
  [][attempt # 0 /\ attempt' = 0 =>
       pc'[Monitor] = "off" \/ subs \subseteq live'[ws]]_vars

(* An active subscription is in the end served on an open socket.          *)
SubscriptionRestored ==
  \A c \in Calls :
    <>[](pc[c] = "active" /\ ~disconnect => sock[ws] = "open" /\ c \in live[ws])

(* After close() has returned no socket stays open, unless a later call    *)
(* has connected anew.                                                     *)
ClosedStaysClosed ==
  closing = "closed" /\ disconnect => \A s \in Sockets : sock[s] = "closed"

(* No id is subscribed twice on one socket.                                *)
NoDuplicateSubscribe == twice = {}
=============================================================================
