# Specifications of the Rivian Python client

TLA+ modules for `rivian-python-client`: the one web socket connection that every
subscription of a client shares, with its reconnection and its shutdown; the
requests of a client, with the tokens and the session they share; the messages of
a Parallax subscription and their decoding; and local pairing of a phone. The
modules are translated from `src/src/rivian/` (the paths and lines of every
definition are in `PROJECT.json`, "map") and checked with TLC on small instances. Every
safety property that a run shows to hold, and both refinements, are proved with TLAPS for
every value of the constants, `BackoffResetsWhenRestored` for a single call only.

## The system

| Part | State it keeps | Operations | What makes it correct |
|---|---|---|---|
| **WebSocketMonitor** (`ws_monitor.py`) | current socket, `_disconnect`, the acknowledgement event, `_subscriptions`, monitor task, receiver task, two locks | `new_connection`, `start_subscription`, `unsubscribe`, `_resubscribe_all`, `_receiver`, `_monitor`, `start_monitor`, `close` | one open socket; frames only on the acknowledged current socket; registered ids = live calls; a lost connection is restored; every call and `close` return |
| **Subscription path** (`rivian.py` 601-726, 790-795) | `_ws_monitor`, `_ws_connect_lock`, `_session` | `subscribe_for_vehicle_updates`, `subscribe_for_parallax_messages`, `_ws_connect`, `close` | one monitor object; concurrent calls share one connection |
| **GraphQL session** (`rivian.py` 143-241, 728-795) | csrf, session, access and OTP tokens, `_session`, `_close_session` | `create_csrf_token`, `authenticate`, `validate_otp`, `__graphql_query`, `close` | tokens of one answer are replaced together and sent together; errors are classified by reason before code; every request ends; `close` closes what the client created and nothing else |
| **Vehicle commands** (`rivian.py` 243-302, 500-599) | none; converts the temperature in its argument | `enroll_phone`, `disenroll_phone`, `_validate_vehicle_command`, `send_vehicle_command` | a dictionary that is rejected is neither changed nor sent |
| **Queries** (`rivian.py` 304-498, `const.py`) | none; `get_vehicle_state` changes its argument | `get_vehicle_state` and the other queries | a caller's set is filtered, the library's sets stay as they are |
| **Parallax** (`rivian.py` 628-694, `parallax.py`) | none | `handle_frame`, `decode_*`, `decode_parallax_message` | frames are handled in order, none stops the stream; decoding keeps presence and stops apart |
| **BLE pairing** (`ble.py`) | one event and one value per notification handler | `pair_phone`, `find_phone_key`, `set_bluez_pairable` | bonding only after the id and nonce exchange of this attempt; every attempt ends |
| Utilities, constants, exceptions, Protobuf and schemas | none | library calls, tables, generated code | - |

How the parts interact: a `subscribe_for_*` call enters `_ws_connect` under
`_ws_connect_lock`, which creates the `WebSocketMonitor` and, if there is no open
socket, calls `new_connection` under `_connection_lock`. The call then waits for
the acknowledgement event, which the receiver task sets when the server's
`connection_ack` arrives, and runs `start_subscription`, which takes
`_connection_lock` and then `_subscription_lock`. The monitor task polls the
connection once a second: it restarts a receiver that is done, and after a loss
calls `new_connection` itself and then `_resubscribe_all` under
`_subscription_lock`. `close` cancels both tasks and takes no lock. The
application may cancel any call at any await.

The requests of a client use no lock. A call reads the tokens when it builds its
headers, suspends for the response and for its body, and writes tokens afterwards;
other calls run in between. `subscribe_for_*` and the requests create the session,
whoever comes first, and `close` closes it after waiting for the monitor. A frame of
a Parallax subscription goes from the receiver through `handle_frame` to the
application's callback, which the receiver awaits, and the application decodes the
message it was given. Pairing shares nothing with a client.

The hard behaviours of the connection are therefore: several calls, the monitor and `close` meeting in
`new_connection`; a socket replaced while a call waits; acknowledgements and
receivers of an earlier socket; cancellation in the middle of a send; failing
reconnects; a retry loop that must suspend somewhere. Those of the rest: overlapping
log-ins and requests, answers that fail at each of two awaits, arguments the library
changes and the application uses again, callbacks slower than their messages,
absent values that look like zeros, notifications that are early, late or repeated,
a block whose exit may raise. `PROJECT.json` lists each at its line ("hazards").

## Modules

| Module | Models |
|---|---|
| `WebSocketMonitor` | all of `ws_monitor.py`, with the socket (aiohttp) and the server as far as that code depends on them |
| `RivianClient` | the subscription path of `rivian.py` over it: the whole system, its fairness and its properties |
| `Subscriptions` | abstract: what a client promises about its subscriptions; `RivianClient` implements it |
| `RivianSession` | the requests of a client: log-in, enrolment, commands, queries, errors, the session |
| `TokenStore` | abstract: tokens of one answer are replaced together; `RivianSession` implements it |
| `ParallaxDecoders` | the 24 decoders of `parallax.py` as operators on messages |
| `Parallax` | a Parallax subscription: argument checks, `handle_frame`, callbacks, decoding |
| `BlePairing` | `pair_phone` |
| `MCRivianClient`, `MCRivianSession`, `MCParallax`, `MCBlePairing` | instances for TLC |
| `RivianClientProofs`, `BlePairingProofs`, `RivianSessionProofs`, `ParallaxProofs` | inductive invariants and theorems of these modules |
| `SubscriptionsProofs` | over `RivianClientProofs`: the refinement of `Subscriptions`, and the restore |
| `IntegerLemmas` | least elements and induction, for the two proofs about sequences |

### The connection: state

Every attribute of `WebSocketMonitor` is a variable of the same meaning (`ws`,
`disconnect`, `ack`, `subs`, `rtask`); sockets and receiver tasks are numbered in
the order of their creation, 0 being `None`. `sock` is the state of each
`ClientWebSocketResponse`, `rst` and `rsock` those of each receiver task, `pc`
the await at which each call and the monitor are suspended, `bound` and `todo`
their local variables. `closing`, `csocket` and `creceiver` belong to the task
that runs `close()`. `inited`, `acked`, `live` and `twice` are the server's
side: which sockets it received `connection_init` on, which it acknowledged,
which subscriptions it serves on each, and which it was sent a second time.
A call stands for the `uuid4` id it makes. The locks are no variables: a lock is
held exactly while some task is at an await inside the `async with` block, so
`MayTakeConnectionLock` and `MayTakeSubscriptionLock` read `pc`.

### The connection: steps

asyncio runs one task at a time and switches only where a task suspends. An
action is therefore all the code from one suspension to the next, across
functions: a call that finds the connection up runs `_ws_connect`,
`connection_ack.wait()` and `start_subscription` up to its first send in one
step, and the operators (`WsConnect`, `NewConnection`, `ConnectionReturns`,
`AwaitAck`, `StartSubscription`, `CheckAndSend`, `LockAndSend`,
`RegisterAndSend`) are the pieces of code it passes through.

- `asyncio.Lock.acquire` does not suspend when the lock is free and nobody is
  queued. A queued task takes the lock in any order, which allows more than the
  FIFO queue does.
- `Event.wait` does not suspend when the event is set. Waiters that `set()` has
  scheduled go on even when the event is cleared before they run (`"acked"`,
  `"acked_again"`, `"m_acked"`).
- An await on the network or on another task may always suspend. The test doubles
  of the repository suspend in `send_json` too (`ws_monitor_test.py` 101-114).
- A cancelled task gets its `CancelledError` where it is suspended, except inside
  `cancel_task`, which swallows it.
- `ClientWebSocketResponse.close()` waits until a `receive()` in progress has ended
  (`"closing"`), a second concurrent `receive()` raises, and `receive()` shuts a
  socket the peer has closed.

`spin` is a call inside the `while True` of `start_subscription` with the event set
and `connected` false: neither the set event nor the free lock suspends it, and
`LoopRuns` disables every other step.

### The connection: faults and outside events

`Events` names the kinds an instance allows and `MaxFaults` how many happen: the
peer closes (`peer_close`), also because the session is refused
(`unauthenticated`), `ws_connect` or a send fails, the acknowledgement is late,
the receiver fails with its socket open (`pong_fail`), the application cancels a
call, a callback or a send is slow, `close` is called. Calls and unsubscribes
come whenever they like. Requests that time out because nothing answers are no
faults.

A failing or cancelled send is one whose frame may have gone out. A subscribe frame is
taken to have reached the server, the worse case, while the call forgets its id; the
complete frame of an unsubscribe either reaches it (and the call may still be cancelled)
or does not (`un_fail`). Either way the server may serve what the client no longer
knows, until the connection is lost.

### Requests

`RivianSession` has a variable for each attribute of `Rivian` (`session`, `owned`,
`tokens`, `otpNeeded`, `monitor`), one for the dictionary the application may pass
again and one for the sets of property names. Each task of the application has at
most one request: `at` is its await, `op` its method, `sent` what it carries,
`issue` the number of the answer it has got. A call is three steps: up to the request
(`SimpleCall`, `SendVehicleCommand`, `GetVehicleState`, all through `Request`), the
response (`ResponseArrives` or `RequestRaises`), and the body (`DataArrives`,
`ErrorsArrive` or `BodyRaises`). aiohttp keeps the body, so reading it again does
not suspend. A token is the number of the answer that issued it, 0 for those of the
constructor, which need not be given.

An answer is data, a body that cannot be read, or a list of errors,
of which `ErrorRaised` chooses the exception as the loop does. Data follows the schema
of the gateway (`schemas/gateway.graphql`): a mutation may be null (32, 39-46), and then
the log-in calls raise before they store anything, but an object has all the fields the
query names (236-239, 304-312). Were one missing, `KeyError` would come between two of
the assignments of lines 160-161, 189-191 or 229-231 and leave the tokens of two answers
together; `HeadersBelongTogether` and `ImplementsTokenStore` rest on this assumption, and
no property is stated about an answer that breaks it. Properties are abstracted to one of
each kind: a state property, a subscription-only one, and one that is both, as
`activeDriverName` is. Values of commands are counted in halves, for the 63.5 of HI.

### Parallax

A message is a function on the names of its present fields, a payload is a message
or `Malformed`. `HandleFrame` is a step of the receiver: it takes the next
frame only when the callback of the one before has returned. The callback suspends
and then keeps its message or raises. `Reconnect` loses the frames on their way and
cancels the callback, as `RivianClient` shows a replaced connection to do. What
`decode_parallax_message` makes of the kept messages is evaluated by the properties.

### Pairing

`at` is the await of `pair_phone`, `pending` how the `async with` block is being left
while the client disconnects, `data` what each handler holds, which is also its
event. Every operation of the stack may raise and every await may be cancelled;
`Notify` happens whenever notifications are started. `heard` only remembers, per
attempt, what was notified.

## Specifications and fairness

For the connection, `Spec` is `Init` and `[][Next]_vars`. `FairSpec` adds weak
fairness of the event loop: each receiver, each call that is inside the library, the monitor, a task in
`close` and a closing socket take their next step if it stays possible. This is
what asyncio's ready queue and timers give. No fault, no arrival of data, no new
call and no `unsubscribe` or `close` is ever assumed to happen. A pending
`connection_ack` of a served socket does arrive, since losing it is the fault
`ack_timeout` or `peer_close`.

`Spec` also contains behaviours in which a scheduled task waits while the network
answers several times. `PromptSpec` keeps those in which everything that is ready
runs before the next outside event, as in the event loop of an idle process
(`PromptFairSpec` adds fairness). Runs that exhibit a misbehaviour use it, so that
it is not an artefact of scheduling; `shutdown` uses it because without it the
misbehaviour of `close_hang` occurs under any schedule that delays a receiver.

`RivianSession`: weak fairness of the timeouts only. `request_timeout` ends each wait
for a response; the total timeout of an aiohttp session ends that for the body, but
only a session the client created is known to have one. No answer is assumed to come.

`Parallax`: the receiver runs (weak fairness of `HandleFrame`), and a callback
ends, which the code cannot enforce and the application must provide.

`BlePairing`: `NOTIFICATION_TIMEOUT` ends each wait, and the BLE stack answers or
fails every operation. Of these only `connect` has a timeout in this code; for the
others it is an assumption about bleak. No notification is assumed to come.

## Runs

Deadlock is checked in `pairing`, where another attempt is always possible. The other
runs say `CHECK_DEADLOCK FALSE`: when all calls have ended and `close` has returned,
or the bounds are reached, the system has stopped.

| Run | Instance | Question | States |
|---|---|---|---|
| `share` | 2 calls (symmetric), 3 sockets, 4 receivers, 1 fault, all events | connection safety, see below | 835,000 |
| `restore` | 1 call, 5 sockets, 7 receivers, 3 faults, no `close` | a lost connection is restored; the backoff resets only then | 24,000 |
| `returns` | 2 calls, 3 sockets, 5 receivers, 1 fault | every call returns, every open socket is read | 15,000 |
| `shutdown` | 1 call, 5 sockets, 7 receivers, 3 faults, exponent limit 1 | `close` returns | 19,000 |
| `session` | 2 tasks, 2 token answers, 7 lists of errors, 3 dictionaries | tokens, errors, sets, the session; every call ends | 308,000 |
| `pairing` | Linux and Darwin, 3 ids, any number of attempts | bonding only behind the exchange; every attempt ends | 4,900 |
| `parallax` | 25 topics and an unknown one, 2 frames | order and progress of the frames; what decoding keeps | 134,000 |
| `duplicate_subscribe`, `stranded`, `close_leak`, `close_hang`, `event_loop_spin` | the least that shows it | a statement of the repository that the code does not keep | - |

What `share` checks, with the hazard it is for:

- `AckIsCurrent`: the acknowledgement event never counts for another socket than
  the one the server acknowledged.
- `AckClearWhileConnecting`: while a replacement is being connected the event is
  clear and no receiver can set it, so `connection_ack.wait()` cannot return early.
- `FirstSendAcknowledged`: what `start_subscription` has checked under
  `_connection_lock` still holds while it waits for `_subscription_lock` and sends.
- `NoGhostSubscription`: no failure or cancellation leaves an id behind in
  `_subscriptions`, and none removes one that is in use.
- `OneOpenSocket`: concurrent reconnects and `close` never leave two sockets open.
- `NoReplayAfterComplete`: the restore works on a snapshot, but no subscribe frame
  follows the complete frame of its id.
- `ImplementsSubscriptions`: under the mapping of `RivianClient`!`Promise` every step is
  one of `Subscriptions`. The server *begins* to serve a subscription only for a call
  that is under way or has returned. It stops only for an
  unsubscribe that does not raise, which is over for good with that step, or with the
  loss of the connection and of all it served. What a *failed* call has left behind (a
  subscribe whose send was interrupted, a complete frame that could not be sent) may be
  served until that loss and is never served anew. The sockets, the locks, the snapshot
  and the registry behind it are hidden.
- `MonitorStopsOnRequest`: no failure of a reconnect ends the monitor, except the
  overflow described below.
- `TypeOK`, for which the mutant shows why `cancel_task` must test for `None`.

The liveness properties: `SubscriptionRestored` (an active call's subscription is
in the end served on an open socket, unless the client is disconnected),
`CallsReturn` (three nested locks, an event, and timeouts: nobody waits for ever),
`SocketServed`, `CloseReturns`. `BackoffResetsWhenRestored` is the action property
of the backoff.

What `session` checks:

- `ImplementsTokenStore`: whatever overlaps or fails, each step of the requests
  replaces the tokens of one answer together, or none.
- `HeadersBelongTogether`: no request mixes the csrf token of one answer with the
  session token of another, although both are replaced while requests are under way.
- `LogoutMeansLogout`: `RivianUnauthenticated` is raised for a lost login only, and
  not for an expired one-time password, whose code is the same, in whatever order
  the errors are listed.
- `DefaultsWhole`: while the application passes sets of its own, `get_vehicle_state`
  never filters the default.
- `OwnSessionClosed`: `close` closes the session the client created, at once or when it
  has waited for the monitor; no sequence of calls makes the application's session one
  that `close` closes.
- `CallsEnd`: liveness, as far as the timeouts reach.

No property is about the parameters of commands: what the code accepts is `ValidParams`
and a property would only repeat it. Where that differs from the docstring is listed
under the behaviours below.

What `pairing` checks: `ExchangeComplete` (bonding starts only when this attempt has
heard the expected id and a nonce), `TrueMeansBonded` (nothing an exit of the block
raises turns into a `True` for a phone that this attempt has not bonded or left
connected),
`AttemptEnds`.

What `parallax` checks: `NewestKept` (an older message never replaces a newer one,
however slow the callback), `FramesHandled` (no malformed frame, infinite timestamp or
raising callback stops the stream), `PresenceKept` (every field of every decoder is
`None` exactly if it was absent, a zero is a zero, and lists keep all records),
`DestinationIsOneStop` (name and coordinates are those of the last stop with a place).
`PresenceKept` states for each field where its value comes from, so
that a decoder that reads a wrong submessage violates it; `TypeOK` compares the
fields of the decoded data with those of the dataclasses.

### Bounds

A behaviour of interest needs at most one socket for the first connection and one
per loss. `share` has 3 sockets and 4 receivers so that a replacement can itself be
replaced (by a failed restore, which costs no fault) while both calls and the
monitor queue in `new_connection`; the runs of liveness have one socket and one
receiver more than their faults can consume, so that no task ever waits for a bound.
Two calls are the least with which a call meets another call and the monitor at each
lock; the proofs remove this bound. `ExponentLimit` is 1024 in the code (the first
power of two that is no float). `shutdown` sets it to 1 so that the overflow happens.
`close` is called once and each call subscribes once: in the code another call is
another id, and `TwoCalls` subscribes before, during and after `close`.

`restore` has one call because with a second one the property fails (`stranded`); it
leaves `close` out, after which nothing is to be restored. `returns` leaves
out `close` (`event_loop_spin`) and what can interrupt `connection_init`, a failing
send or a cancelled call (the second of the behaviours without a run below). `shutdown` leaves `slow_callback` out (`close_hang`).

`session` has two tasks because tokens, sets and the dictionary are shared pairwise,
and two answers with tokens (`MaxTokens`) because a mixture of two is what can go
wrong. `Offered` gives one task the log-in calls and a query of the state, the other a
log-in, a phone call and the commands; of methods with the same headers and the same
kind of answer, and of commands that are checked alike, one is called.
The lists of errors hold each way an error is classified and both orders of the pair
whose order matters; the dictionaries hold a level at its limit and one past it, and HI.
`Passed` is `{"own"}`: `DefaultsWhole` is about applications that do not pass the
library's sets.

`parallax` has two frames, the least with an order. Flat messages have no field, all
fields, one field or all but one; nested ones and lists all combinations of
a few. All values are 0, the default Protobuf gives to an absent field, except where
a property compares values. `GpsOffset` is a constant, 7 in the run, because TLC's
integers are too small for 315,964,782,000; that the offset is the right one is not
checked. `pairing` needs no bound: every attempt
starts from scratch, and the state space of all of them is finite.

## Where the code does not do what the repository says

Each is a run of its own whose counterexample TLC prints; all were reproduced with
`ws_monitor.py` and a scripted session.

- `duplicate_subscribe`: `_resubscribe_all` takes its snapshot after the
  acknowledgement, so a call that has just subscribed on the new socket is in it
  and its id is sent twice.
- `stranded`: a call notices the closed socket before the monitor's poll and
  reconnects. The monitor then finds itself connected and never restores the
  earlier subscriptions.
- `close_leak`: `close` takes no lock; a `new_connection` suspended in
  `ws_connect` stores its open socket after `close` has returned.
- `close_hang`: `close` cancels the monitor while it waits in
  `cancel_task(self._receiver_task)` for a receiver that is inside a callback. The
  cancellation is swallowed, the monitor reconnects, and `close` waits for it.
- `event_loop_spin`: `close` while a call is about to take
  `_connection_lock` with the event still set: the loop never suspends again and
  its timeout cannot fire.

The models also contain these behaviours, which no run asks about:

- The frames of a restore go to whatever `self._ws` is at each send, so a call that
  reconnects during a restore makes the rest go out on a socket that is not
  acknowledged. `FirstSendAcknowledged` is about calls only.
- When `connection_init` fails on the first connection, the open socket has no
  receiver and no `_receiver_task` that line 238 could restart; all later calls wait
  for an acknowledgement nobody reads (hence `SocketServed` without failing sends).
- A receiver that ends with its socket open clears the acknowledgement; its
  successor never gets another `connection_ack`, so later calls time out.
- `2**attempt + uniform(0, 1)` overflows at attempt 1024 in the `except` clause and
  ends the monitor: the third disjunct of `MonitorStopsOnRequest`. With delays of
  up to 300 seconds that is three to four days without a connection.
- After `close` has closed a session the client created, `_session` is that closed
  session for ever: later requests raise `RuntimeError`, later subscriptions fail.
- The docstring of `send_vehicle_command` (`rivian.py` 561) says that the temperature
  is "a string value between 16 and 29 or 0/63.5"; line 534 rejects strings and line
  540 makes one of the number in the caller's dictionary. The same dictionary is
  therefore rejected the second time.
- `False` is an integer between the limits, so a temperature of `False` is sent
  as the text `False`. The third-row seats (`const.py` 214-215) are not among the
  commands whose level is validated, although the docstring gives `CABIN_HVAC_*` levels
  from 0 to 4.
- A set that holds subscription-only properties alone is emptied and asks for nothing
  (`{  }`); passed again it asks for the default. Passing the library's own
  `VEHICLE_STATES_SUBSCRIPTION_PROPERTIES` changes it for all later users.
- Extensions without a code raise `KeyError` and hide the errors behind them.
- `_otp_needed` and `_otp_token` survive the validation, and a token of an earlier
  challenge is sent with a later one. Of two overlapping log-ins the one whose body is
  read last wins.
- `pair_phone` takes the notification it gets first, before the write too, for the
  answer; the comment "Vehicle is authenticated" (`ble.py` 105) follows a nonce
  whose content is never looked at. An exception of the disconnect turns a bonded
  phone into `False`, and swallows a cancellation.

## Proofs

Every module is proved about under its named `ASSUME`s only, which TLC evaluates in its
runs: bounds are natural numbers, sets of inputs have their types, and the payloads
follow `parallax.proto`. In particular no theorem bounds the number of calls, tasks,
faults, sockets, frames, log-ins, errors or stops.

### The connection

`RivianClientProofs` proves, for every finite or infinite set of calls, all bounds
and every choice of `Events`, from the one assumption `ConstantsAssumption`:

| Theorem | Property |
|---|---|
| `TypeCorrectness` | `TypeOK` |
| `AcknowledgementIsCurrent` | `AckIsCurrent` |
| `FirstSendsAreAcknowledged` | `FirstSendAcknowledged` |
| `RegistrationIsExact` | `NoGhostSubscription` |
| `OneConnection` | `OneOpenSocket` |
| `NothingAcknowledgesEarly` | `AckClearWhileConnecting` |
| `NothingIsReplayed` | `NoReplayAfterComplete` |
| `MonitorSurvives` | `MonitorStopsOnRequest` |

The actions are long compositions, so the proof has two layers. First each action is
reduced to its *effect* (`Effect`: a call goes on or rests, a task replaces the
socket, a socket is connected, the monitor acts, a receiver moves or restarts, the
closing task acts), a relation between the variables with nothing of the control
flow left: lemma `NextEffect`. Then every part of the invariant is shown to be kept
by every effect.

The inductive invariant is `IInv`. Beside the properties themselves it needs:

- `TypeInv`: receiver 0 (`None`) is never running, and the monitor sleeps only
  with an exponent below the limit.
- `LockInv`: each of the three locks has one holder. Everything rests on it, since
  the locks exist only as positions.
- `SnapshotInv`: what the restore still has to send is registered, because
  `unsubscribe` cannot run while the monitor holds `_subscription_lock`.
- `NoOpenWhileReplacing` and `AckClear`: a task in `cancel_task` or `ws_connect`
  has found no open socket, and the event is clear from the reset on.
- `CloseInv` and `QueueInv`, which `OneOpenSocket` needs: `close` sets
  `_disconnect` while a socket is being connected, so `connected` is false although
  the new socket is open. Nobody opens yet another one then: the monitor has been
  cancelled, and no other call is waiting for `_connection_lock`, because
  `_ws_connect_lock` lets one call at a time into `new_connection`.

### What the connection promises

`SubscriptionsProofs` rests on the same effects.

- `SubscriptionsImplemented`: `Spec => ImplementsSubscriptions`. The status of a call is
  where it is (`Kind`), and what is served is what the server runs on the open current
  socket (`ServedNow`). One lemma for each effect shows it to be `Begin`, `Return`,
  `Fail`, `Unsubscribe`, `Serve` or `Lose` of the promise, or a stutter
  (`ContinueKeeps`, `RestKeeps`, `ReplaceKeeps`, `ConnectedKeeps`, `MonitorKeeps`,
  `ReceiverKeeps`, `ShutKeeps`). It needs `NoGhostSubscription`, so that the monitor
  serves no call that is over, and more invariants. `FreshInv`: no socket that is yet
  to be opened serves anything, so that a replacement is a loss. `UnservedInv`: an
  unsubscribe that finds `connected` false sends no complete frame, and yet nothing of
  its call may be served. A socket can be open then, the one that `new_connection` was
  opening when `close` came (`close_leak`); it serves nothing, because no call has checked
  it (`CheckedInv`) and the monitor is cancelled or on no way to restore (`QuietInv`).
- `OneCallRestoreIsComplete`: with a single call, as in the run `restore`, the backoff
  starts over only when the subscription is served. The invariant is `RestoreInv`: what
  the monitor has sent in `_resubscribe_all` is served. A call that replaces the socket
  in between could break it, but a lone call that still connects has registered nothing, so
  that there is nothing to restore. With two calls the property fails: `_resubscribe_all` holds `_subscription_lock` and not `_connection_lock`, so
  that `_ws_connect` of another call can replace the socket under it.

### Pairing

`BlePairingProofs` proves `TypeOK`, `ExchangeComplete` and `TrueMeansBonded` of
`BlePairing` (theorems `PairingTypes`, `BondingFollowsExchange`, `TrueIsBonded`) for any
set of ids and platforms, from `IdAssumption`. The inductive invariant adds that the
data of a handler was notified in this attempt (`DataHeard`), that the expected id was
heard once the comparison is over (`IdHeard`), and when an attempt may be ending
(`EndInv`).

### Requests

`RivianSessionProofs` proves, for any set of tasks, lists of errors, dictionaries and
number of answers, from `SessionAssumption`:

| Theorem | Property |
|---|---|
| `SessionTypesHold` | `TypeOK` |
| `HeadersTogether` | `HeadersBelongTogether` |
| `LogoutIsLogout` | `LogoutMeansLogout` |
| `DefaultsStayWhole` | `DefaultsWhole` |
| `OnlyOwnSessionClosed` | `OwnSessionClosed` |
| `TokenStoreImplemented` | `ImplementsTokenStore` |

Again each action is reduced to an effect first. `TypeInv` adds to `TypeOK` the
types of what is sent, of the dictionary and of the sets of property names.
`HeadersBelongTogether` alone is not inductive: `HeaderInv` adds that the two
tokens of the client agree whenever a request may pick them up. `OwnSessionClosed`
needs `OwnedInv`: the flag `_close_session` is only set with a session. Which exception
a list of errors raises is decided by the first that counts, so `LogoutIsLogout`
rests on lemma `FirstErrorDecides`, for which a set of positions must have a least
element (`LeastElement` of `IntegerLemmas`).

### Parallax

`ParallaxProofs` proves, from `ParallaxAssumption` and `DecoderAssumption`:

| Theorem | Property |
|---|---|
| `StreamTyped` | `TypeOK` |
| `NewestIsKept` | `NewestKept` |
| `PresenceIsKept` | `PresenceKept` |
| `OneStopIsShown` | `DestinationIsOneStop` |

The invariant has two parts. `StreamInv` says that what is on the wire, running and kept
for a topic is a frame or a message of that topic. `OrderInv` says that
numbers grow along the way: kept messages are older than the one whose callback runs, of
which there is one because `HandleFrame` awaits it, this one is older than all frames
on the wire, and those are in order. With the payload of a kept message
being one of its topic, the properties of decoding are about single messages: lemma
`DecodersFaithful` goes through the 24 decoders and shows for each that the fields of its
data are those of a dataclass (`ShapeOf`) and that `None` means absent (`PresenceOf`).

What messages there are is the assumption `Conforms`, read off `parallax.proto`: what is
neither a submessage nor a list is a scalar, `gps_timestamp_ms`, `eta` and `hold_end_time`
are fields of one topic each, and a motion and its coordinates have the fields
they have there. The last matters: the decoder flattens both into one dataclass, which
keeps presence only because no name occurs in both.

`OneStopIsShown` is about a loop of any length. `PlacesUpto` is that loop as a
recursive function; that it is well defined (`PlacesDefined`) and what its last element
is (`LastPlace`) are proved by induction on the number of stops. The library's
theorems take a predicate and cannot be used here, so `IntegerLemmas` states induction
about a set (`InductionUpto`) and derives it from `LeastElement`, and that from the
pigeonhole principle for finite sets.

### Only model-checked

The liveness properties (`SubscriptionRestored`, `CallsReturn`, `SocketServed`,
`CloseReturns`, `CallsEnd`, `AttemptEnds`, `FramesHandled`): fairness and `ENABLED` are
beyond the prover. The five counterexamples are TLC's.

## Not modelled

- The text of queries and headers that are not tokens, logging, `_last_received`.
- `stop_monitor`, which nothing calls.
- Frames the receiver ignores (malformed JSON, unknown ids, `ERROR`), and its
  60-second timeout, which change nothing.
- `find_phone_key` and `set_bluez_pairable` (`ble.py` 129-167): sequences of library
  calls without state of their own. The latter leaves its bus connected when a
  call after `connect` fails.
- `utils.py`: calls of a cryptography library, whose results are bytes no property
  here tells apart. Protobuf bindings and GraphQL schemas: generated or reference code; the
  parser is a library, as is base64.
- The deprecated aliases (`authenticate_graphql`, `validate_otp_graphql`), which warn
  and call the methods that are modelled.
- A cancelled request: like one that raises, it changes no attribute.

## Plan

1. *Done:* `WebSocketMonitor`, `RivianClient`, their runs and their safety proofs.
2. *Done:* `Subscriptions`, the abstract service a call sees, which `RivianClient`
   implements; `RivianSession` over `TokenStore`; `Parallax`; `BlePairing` with
   its proofs.
3. *Done:* all safety properties, action properties and refinements as theorems.
4. Left: that the holders of the three locks never wait for each other in a circle, as
   the safety part of `CallsReturn`; an abstract cache of newest messages that
   `Parallax` implements, and an abstract exchange that `BlePairing` implements.
