# TLA+ models of atlas-sdk-go

Models, model-checking instances and machine-checked proofs for the client SDK in this repository.
The SDK keeps long-lived connections to a gateway (`client/`) and to battle servers (`direct/`), redials
them, matches responses to requests, queues requests while a connection is being replaced, and delivers
pushes. Nearly everything that is hard in it is concurrency: one goroutine per connection reads, another
supervises, timers fire, any number of goroutines call `Invoke`, `On`, `Reconnect` and `Close`, and each of
them takes its locks in several short sections. That is what the modules model, one action per section.

`PROJECT.json` maps every definition to the lines it models, lists the runs, and lists the hazards of the code
with the properties that guard them.

## 1. Inventory

| part | state it keeps | operations | what is hard |
|---|---|---|---|
| `client/channel.go`, `reconnect.go`, `heartbeat.go`: one channel | state, closed, current generation (`genPtr`), hookBypass, supervisor | redial with backoff, session hook, settle, terminate, Close | Close or a protocol error during dial, hook or drain; loops of old generations that are still running |
| `client/invoke.go`, `queue.go`: requests | in-flight table, reconnect queue, claims, two kinds of result channel | Invoke, drain, time-outs, cancellation, dispatch | five parties race for one request; result channels hold one value |
| `client/notify.go`: subscriptions | a map of maps, one more for OnAny | On, OnAny, undo, dispatch | lookup and insertion are two lock sections, undo is two more |
| `client/session*.go`: credentials | token, player id, kicked reason, binding | Bind, Close, Login, Register, Resume, Restore, Logout, kick push, resume hook, session heartbeat | a slow reply against a kick or a logout; two hooks at once |
| `client/client.go`: dual channels | the two channels | DialDual and its rollback, chained hook, State, Close | the hook of one channel acts on the state of the other |
| `frame/` and the transports of `client/` and `direct/` | the write lock, the reused read buffer of a datagram transport | encode and write, read and decode: header, body segments, reply envelope, status | writers interleaving, a frame written by halves, a buffer filled again, lengths at their limits |
| `direct/session*.go`, `ended.go`: battle session | state, closed, fatal, terminal flags, generations, supervisors, waiters, manual tokens, in-flight table | Open, Invoke, Reconnect, markEnded, Close | every generation starts a supervisor; terminal state, redial and Close race |
| `direct/session_push.go` | handler table, last seen frame | OnPush, dispatch, trackFrame | two read loops alive at once |
| `direct/heartbeat.go`, `terminal.go`, `stats.go` | a probe loop per generation, counters | start, probe, verdict | a loop started for a generation that is over, a refused probe |
| `direct/netmigrate*.go`: flow migration | current socket and flow id, switch flags, budgets | switch, read, write, Close | signals merged while a switch ends; Close during a switch |
| `direct/plan.go`, `options.go`, `notify.go` | none | plan of a push, endpoint, options, deadlines derived from the plan | whose endpoints they are, arithmetic at limits |
| `direct/transport.go`, `hello.go`, `gen/edge/` | the socket of a dial | dial in stages, hello, retries | a stage that fails, a dial that ends after Close |
| client options, errors, serializers, generated code, examples, scripts | – | – | I/O or no behaviour of their own |

How they meet: `Client` owns one or two channels. A channel's supervisor calls the session hook
(`WithOnReconnected`), and the hook calls `Invoke` on that same channel, through `hookBypass`. The read loop
hands responses to the in-flight table and pushes to the subscription table; the session subscribes there
under a key of its own. A `direct.Session` uses the transports and the frame codec of the rest, and none of
the channel; its flow migration hides a socket change from KCP. `direct.Open` turns a push of the business channel into a plan, dials what
the plan names, and hands the connection to the first generation.

## 2. Modules

    InvokeContract            what Invoke promises
        ^ refined by
    Channel  <- ChannelInvariant <- Channel_proofs        client/channel, invoke, queue, heartbeat
                       ^ MCChannel
    NotifyTable <- NotifyTable_proofs, MCNotifyTable      client/notify
    ClientSession <- ClientSession_proofs, MCClientSession client/session*, triggerReloginHook
    DualHooks <- DualHooks_proofs, MCDualHooks            client/client, both channels' hooks
    DirectSession <- DirectSession_proofs, MCDirectSession direct/session*, ended
        |  DirectPlan                                     direct/notify, plan, options, version
        |  DirectHello                                    direct/gen/edge/hello
        v   v
    DirectOpen <- DirectOpen_proofs, MCDirectOpen         direct/session (Open), transport, heartbeat
    PacketConn                what KCP is promised of its connection
        ^ refined by
    FlowMigrate <- FlowMigrate_proofs, MCFlowMigrate      direct/netmigrate*
    FrameCodec <- FrameWire <- FrameWire_proofs, MCFrameWire  frame/, transports

**`Channel`** is one client channel. A request is one call of `Invoke`, and its frame and in-flight key are
the request itself. A generation is its epoch. `call[r]` is where the caller is (`invoke`, the gate,
`awaitQueued`), `once[r]` where `invokeOnce` is, which either the caller or `drainQueue` runs. `sup` is the
program counter of the supervisor with `reconnectFrom`, `settleGeneration`, `runHookSync` and `drainQueue`;
`reader[e]` that of each read loop with its clean-up and `terminate`; `closer[c]` that of each `Close`. What the
code does under one mutex is one step. `genMu` in `settleGeneration` is the exception: it is held over the
drain, which waits for the network, so `sup \in GenMuHolders` stands for holding it. Where the code reads an atomic and
uses it later (the state check, then the generation, then the table, then the write) there is an action each.
The options a channel is built with are the variable `opts`, chosen in `Init` from the constant `Options`.
The environment drops connections, sends garbage, lets dials and hooks fail and cancels contexts at any time.

**`InvokeContract`** is the promise: a call is sent at most once, never after it was given up, has one result,
and a reply only if it was sent. `Channel!KeepsContract` is the refinement, with `fate` computed from the claim,
the step of `invokeOnce` and the connection the frame was written to.

**`NotifyTable`** is the subscription table. Handler sets are objects, as Go maps are: `Find` (`notifySet`)
returns one, `Subscribe` fills it in a later lock section, `Unsubscribe` and `DropSet` are the two sections of the
returned function. A registration carries a function value (`Func`) and the code pointer that `handlerKey`
derives from it (`Code`). `raced` remembers the calls of On that overlapped the end of another subscription of
the same op, which is exactly where the code loses a subscription.

**`ClientSession`** is the credentials of one player, `token`, `player` and `kicked`, with a lock section of the code per action: a call reads
them (`Begin`, `ReadPlayer`), sends, is served, and stores what it got (`Store`), and anything may happen in between. `call[o]` is a call, or a
goroutine that runs the resume hook (`Hooks`). `Bind` and `Close` are the steps `TakeOff`, `CallOff`, `SubscribePush`, `StoreBinding`. The server is what the session
relies on: it opens a session per login and resumes one for its own player, it may end one, and it kicks. A token is named after the login that got it, so
whose it is can be asked. `chan[c]` is the business channel with connected, lost and "in its hook": what credentials meet of module `Channel`. `hook[c]` is the
goroutine that `runHookSync` waits for; one that has timed out goes on, and `relogin[c]` is the goroutine of `triggerReloginHook`, so two hooks and a login may race.

**`DualHooks`** is a client with two channels. A hook is the list of requests its function makes (`Program`), as the options configure it and
`chainedBattleHook` puts it together, and `run[r]` what the goroutine `r` still has to do. `joined` is what the battle connection is to the server:
not joined, joined before the last login (`stale`), or after. `DialDual` is `DialBusiness`, `DialBattle` (which rolls back), `Return`; before `Return` there is no `Client` for a hook to call.

**`DirectPlan`** is what `Open` makes of its arguments, as operators: the ticket and the faces of a push, the gap, the options and their defaults, T2, the checks, the
transport. **`DirectHello`** is the hello and its answer, in bytes. Their functions return the set of what they find, empty for an error.

**`DirectOpen`** extends `DirectSession` with these two: `Prepare` reads `ask` (the push and the options), `dial[0]` is Open's dial and `dial[s]` a supervisor's,
stage by stage (`DialSocket`, `Upgrade`, `Hello`, `NewSession`); the session's own actions take over where a dial ends (`FirstGeneration`, `NewGeneration`, `Redialled`), and
`sock` says whether the dial still has to close a socket. `beat[e]` is the heartbeat loop of generation `e`.

**`DirectSession`** is one battle session. Every `startGeneration` starts a supervisor, and the one that redialled goes
on with the new generation, so `sup` is a function and `watch[s]` is the generation supervisor `s` watches.
`end` follows `markEnded` through its two atomic stores, the settling of requests and the closing of the
connection or the linger window. `answer[w]` and `reply[r]` are result channels of capacity one. `restore`, the
replay after a redial, is one step with the outcomes of the code: success, a retryable failure, a refusal
(fatal), a terminal rejection. A dial is one step here and stages in `DirectOpen`.

**`FlowMigrate`** is the packet connection under one KCP session. A socket is the number of the dial that made it; `cur` is
`c.cur`, `mine[l]` the socket that a `switchLoop` has dialled and, after the switch point, the one it replaced. `loop[l]` follows
`switchLoop`, `migrate` and `finishSwitch` section by section, `reader` KCP's read loop through `ReadFrom` and `checkTimers`, `writer[w]` a
writer through `WriteTo`, `onWriteError` and `noteSwallowed`, `closer` the body of `Close`. `Request` is the part of `requestSwitch` under
`switchMu`; its three callers are in the state `ask` once they have found the connection open. Of the two budgets the count is kept and
the clock is a choice.

**`PacketConn`** is what KCP is promised: `ReadFrom` fails for good only because the connection was closed, because it is dead, or
because the network reported an error, never because a socket was replaced. `FlowMigrate!KeepsContract` is the refinement.

**`FrameCodec`** is `frame/` as operators on sequences of bytes, `HeaderOf`, `CheckHeader`, `ParseRequestBody`, `DecodeStatus`, `DecodeReply`
and their inverses where the SDK has them. A decoder returns the set of what its input stands for, empty if it refuses. Loops
over bytes (varints, the fields of a message) are recursive functions.

**`FrameWire`** puts the codec on a connection: the writers that share it, what the transport makes of their bytes (a stream, messages,
datagrams with or without a flow id), what the network does to them, and the read loop with `ReadFrame` of each transport. `opt.dir` says
which end is the SDK: writing requests (`up`) or reading whatever a peer writes (`down`). The reference that the codec is checked against
is not another codec but what the writer meant: each call, and each frame of a peer in `MCFrameWire`, says what a reader should
understand, or that none may accept it; `AnswersAssumption` states of a peer's frames that the length in the header is the length of the frame and that it means what
the SDK hears in this frame alone. `handed` are the frames given to requests and handlers, and `Got` what they read when they are looked at *now*, so that
a body that still points into the read buffer would change under them.

## 3. Runs

Passing runs, each exhaustive:

| run | instance | shows |
|---|---|---|
| `channel_safety` | 2 cancellable calls (interchangeable: symmetry), 1 Close, 2 generations; with a hook and a queue of 2, and without a hook and a queue of 1 | one answer per call; nothing abandoned is sent; the queue goes first; it is drained on a settled generation only; Close leaves nothing running; the refinement of `InvokeContract` |
| `channel_live` | 1 call, 1 Close, 3 generations; with a hook over a transport whose writes may block, and without automatic reconnection over one whose writes do not; fairness | Close returns; as long as writes end, Invoke returns and a lost connection is replaced and the queue drained |
| `notify_table` | 4 registrations (two of one function, one of another, one OnAny), 1 push | what was undone is not called; no empty set left; everyone subscribed and not raced gets the push |
| `session_calls` | 4 calls of Bind, one of which may overlap two others, Close, Register, Restore, Logout and a login of another player, 2 hook goroutines, 2 faults; fairness | the session listens where it is bound and nowhere else; a connection without the session that the client keeps is logged in again |
| `dual` | three configurations of hooks and a refused pair of roles, 3 hook goroutines, 3 faults, Close; fairness | both channels back and quiet: the battle connection has joined with the last login; a lost channel is connected again |
| `direct_generations` | 1 call, 1 Reconnect, 1 Close, 2 generations; with linger, and without automatic reconnection | terminal states are final; nothing starts or runs after Close; one result each |
| `direct_terminal` | 2 calls, 1 Close, 1 generation that may be lost, with linger over WebSocket, and without over a transport whose writes do not block; fairness | at most one late frame; nobody left waiting; Invoke returns as long as writes end |
| `open` | 105 pushes by 17 lists of options, three transports, 1 Close, 2 generations | the address is the player's own; T2 outlasts the gap; the hello carries the ticket; no socket is left by a dial; a live connection keeps its heartbeat |
| `flow_safety` | 1 writer, 2 goroutines for migrations (symmetric), 3 sockets, 1 swallowed error allowed | one migration at a time; the target of writes is open; no open socket is lost behind Close; a flow over its budget is dead; the refinement of `PacketConn` |
| `flow_live` | 1 writer, 1 migration goroutine, 2 sockets, fairness | Close ends every socket |
| `frame_wire` | 2 frames out of 9 calls or 18 frames of a peer, over TCP, WebSocket, KCP and UDP of a channel, and WebSocket, KCP and UDP of a direct session, two body limits | what is handed over is what was said, in order, up to a frame left by halves; nothing is made up; a read loop ends for a reason; what was sent arrives |

Every module states a type invariant (`TypeOK`, `OpenTypeOK`), which holds in these instances too, as do `OncePerFunction` and the `IInv` of the proofs. No run lists them: section 4
has the theorems, and for the other modules a reader adds one `INVARIANT` line.

One run ends in a violation: it shows where the code does not do what a test says (section 6).

**Bounds.** `MaxGen` bounds the generations; the last one is not lost by the network (`ConnLost`, `HeartbeatDead`, a
failing hook need a successor), so that liveness is not refuted by the bound. Two generations are the least in
which a loop, a caller or a supervisor of one meets the state of the next; that a redial follows a hook that failed takes the third of
`channel_live`. Two calls make one overtake the other and fill a queue of one; the parties that race for one call (timer,
response, reader, ctx, drain, watch, Close) are all there with one. `ManualCap` is 1 for the code's 8: a full channel must be
reachable. One Close meets both branches, since `terminate` closes the channel too. Cancellation is explored with two calls in `channel_safety`; in
`channel_live` it would only be one more way to return. Four registrations let a set be dropped, made again
and still held by a third party while one of OnAny stays out of it; each push takes its own snapshot and shares
nothing with another, so one push is as good as several. `MaxSockets` is 3: a socket that replaced one is replaced itself; when no number is left
every dial fails, which a dial may always do. A second goroutine for migrations would be needed only if two ran at once, which `flow_safety` shows
never happens, so `flow_live` has one. `SwallowMax` is 1 for the code's 256: the second swallowed error is one too many. In `frame_wire` a byte is below 128 for the code's 256,
a body at most 44 bytes, a datagram at most 58, operation, session and id at most 4, a varint at most 3 bytes of 7 bits and an int32 12 bits: each limit is in reach of
a frame that meets it exactly and of one that exceeds it by one. Two frames are the least that interleave or shift one another; of a peer's two one is sound,
since the first bad frame ends the connection; one call has a payload that holds a frame itself, which a reader that lost its place would take for one. The network cuts a stream after any byte and loses, repeats or misdirects one datagram, and reorders them
freely; a second mishap meets a frame of its own. In `session_calls` and `dual` a fault is a lost connection, a time-out, a refusal or a session that ends, and
`MaxFaults` bounds their sum: two lose a session and delay the hook that should restore it, three let a lost connection of each channel meet a late hook. A hook that no
goroutine is free for waits, so the hooks in flight are bounded by `Hooks`: one awaited, one triggered, and in `dual` one per channel.
Which of two free goroutines runs a hook makes no difference, so only one is tried. In `open` a duration is below 128, a second is 2 and a millisecond 2 of its units, so that T2 overflows for the
largest gaps; a byte is below 5, a ticket of 6 bytes is the longest the edge reads, one of 7 is too long, and one of 27 does not fit the two bytes of its length. `HelloRetries` is 1 for the
code's 3. Reads wait for as many bytes as they need, which `io.ReadFull` makes of any chunks. Nothing else is bounded: times are choices, not numbers.

**Fairness.** Goroutines that can run do run and armed timers fire: weak fairness per goroutine. A read loop
need only notice that its connection is down, and a read of a UDP socket meets its deadline (`readTick`); nothing forces a peer to answer, to send garbage or to drop a
connection, and no caller has to call anything.

No fairness is on a write that stalls. A TCP or WebSocket write has no deadline (client/transport.go:55-57, transport_ws.go:76-84, direct/transport.go:180-188), is done
under `writeMu`, and comes before the timer and the context of its request are looked at (invoke.go:229-231 and 284, session_invoke.go:93-98 and 115). So where the options say that the transport's writes may block
(`WriteBlocks`), a call that writes to a live connection (`Stalled`) need never go on, and what it holds back waits with it. The connection may be lost or shut, which ends the write, but nobody has to do that. `InvokeReturns` of both modules and
`Recovers` therefore say "as long as no write stalls for ever" (`WritesEnd`), which a transport whose writes do not block fulfils by itself: KCP's have a deadline, UDP's do not wait. `CloseReturns` needs no such premise: Close shuts
the transport before it waits. Without the premise `InvokeReturns` is false: `InvokeTimesOut` in section 6. ClientSession, DualHooks and the replay of DirectSession do not have a step per frame: there a call that is under way ends, which over TCP or WebSocket is
the same assumption, except that a hook has a time-out of its own (`HookTimeout`) that does not wait for its requests.

Strong fairness is used where a `select` meets `closeCh` closed
again and again between rounds (`SupInterrupted`, `BackoffStop`), and, for `Recovers` only, for a
dial that is retried for ever (`SupAdopt`): with a network that never lets a dial succeed, no recovery can be asked. In ClientSession and DualHooks weak fairness
is on each goroutine, on the supervisor, on the ticker of the session heartbeat and on the server's answers, which the code ends by a time-out otherwise (`Fail`); a fault is never
forced. `open` checks safety only.

**Stopping.** Channel, DirectSession, DirectOpen, FlowMigrate and FrameWire have a `Done` step for a finished instance, so TLC's deadlock check stays on. ClientSession and DualHooks
turn it off: once the calls are made and the faults used up a healthy client has nothing left to do, in any of many states; that nothing is stuck there is what `Heals` and
`DualRecovers` say.

## 4. What is proved

For every set of requests and closers, every queue size, number of generations and configuration (`Channel_proofs`,
from `ChannelAssumption` alone):

- `TypeCorrect`: `Spec => []TypeOK`. The type invariant is inductive by itself; it is proved in five groups of
  variables, which keeps the provers' obligations small.
- `Invariant`: `Spec => []IInv`. `OneAnswer` says that the winner of a race finds the result channel empty; that is
  not inductive, because it depends on who may still race. `IInv` adds it: a queued request sits in the queue
  once and was started by nobody; a call in `invokeOnce` is there for its own caller or was claimed by the
  drain; frame, in-flight key and `chRes` follow the steps of `invokeOnce`. `CoreSteps` first reduces `Next` to the actions
  that touch these variables, then `ReqNext` and `QueueInvNext` go through them.
- `AnsweredOnce` (`OneAnswer`) and `NothingAbandonedIsSent` (`AbandonedNeverSent`) follow from `IInv`.
- `Refinement`: `Spec => KeepsContract`. `FateNext` shows how a step moves the fate of a call, `ResultNext` how it moves its result.
- `LifeInvariant`: `Spec => []LifeInv`, on top of `IInv`. The order of the frames rests on the supervisor: requests wait only while
  the channel is `Reconnecting`, while `drainQueue` runs or once it is closed (`SupInv`), and the drain sends one at a time on a generation whose hook has
  succeeded (`DrainInv`). `BehindInv` says of a call and of each request that it found waiting where the two are: the other is settled, or the call is still at the gate, or
  it stands behind it in the queue, or, once the channel is closed, it may not send any more. `ConnInv` and `CloserInv` say who still holds a connection and what a `Close` waits
  for.
- `QueueIsFirst` (`QueuedGoFirst`), `DrainedAfterHook` (`DrainedOnSettledGen`) and `ClosedForGood` (`CloseIsFinal`) follow from `LifeInv`.

For every set of registrations, operations, functions and pushes (`NotifyTable_proofs`, from `NotifyAssumption`):

- `Invariant`: a set stores only registrations that are on and hold it, one per key; a set of the
  table is not empty, or a `Find` that returned it has not subscribed yet, or a `DropSet` for its op is
  still to come. The last part (`InUse`) is what makes `NothingLeaks` hold although `DropSet` may find a set that
  somebody else has just filled.
- `TypeCorrect`, `TableStaysSmall` (`NothingLeaks`), `Unsubscribed` (`OffIsFinal`), `RunOnce` (`OncePerFunction`).
- `NobodyMissed` (`EveryoneServed`), under the assumption `CodeTellsApart` that two functions with one code pointer are one
  function. It needs a second inductive predicate, `Live`: as long as nobody raced its On, the set a registration holds is
  the one in the table. Go does not promise the assumption (section 6), so the theorem names it.

For every set of writers and migration goroutines, every number of sockets and every budget (`FlowMigrate_proofs`, from `FlowAssumption`):

- `Invariant`: `Spec => []IInv`. The four safety properties are not inductive. `IInv` adds who holds what: a migration before its switch point
  holds an open socket that is not the current one, after it the one it replaced (`Held`); `Close` knows the current socket, because nothing is installed once
  `closed` is set (`Closing`); a read that failed has a reason (`ReadReason`). `Actions` groups the steps by who takes them, `SockNext`, `ReasonNext` and `BudgetNext`
  each go through the groups.
- `MigratesAlone` (`OneMigration`), `WritesHaveATarget` (`TargetIsOpen`), `SocketsAreClosed` (`NoSocketLost`), `BudgetIsKept` (`BudgetKept`) follow.
- `Refinement`: `Spec => KeepsContract`. The one hard step is a read that fails because its socket was shut: if the connection is not closed that socket is not
  current (`TargetIsOpen`), so the code's comparison lets it move on.

For every set of clients, calls, hook goroutines and players, whatever calls a goroutine makes and in whatever order (`ClientSession_proofs`, from
`SessionAssumption`):

- `TypeCorrect`, proved group by group of variables, so that an action that leaves a group alone costs one line.
- `BindsAreHeard` (`HearsItsClient`): by a predicate of its own, `BindInv`. While every call under way wants the same client, a subscription to any
  other client is in the hands of a call that has taken it off and is about to end it. Calls may move the session from client to client, as long as those for different clients, or a Bind and a Close, do not overlap: once they have, the
  code promises nothing (`BindingIsHeard` in section 6). That a kick is final, or that token and player belong together, is not a theorem, because it is not so (section 6).

For every set of hook goroutines, number of faults, pair of kinds and choice of hooks among a login and a Join (`DualHooks_proofs`, from `DualAssumption`):

- `Invariant`: `Spec => []IInv`. A channel in its hook waits for one goroutine, which has started and which no other channel waits for (`WaitInv`, `RunInv`); until
  `DialDual` returns nobody has logged in or joined (`PhaseInv`). The rest is for options that give the battle channel a Join of its own, as `Rebound` asks: whatever a goroutine has left to do ends in that
  Join (`TodoInv`); a hook or a caller that has finished has joined at least once (`JoinedInv`); and a login the battle connection has not joined with is owed a Join by somebody who has
  requests left, or whose hook failed and will be run again by the next connection, unless `missed` says that it was left behind (`StaleInv`). `missed` is the gap that the code itself has, `AlwaysRebound` in section 6.
- `TypeCorrect`, and `BattleIsRebound` (`Rebound`): when both channels are back and nothing runs, nobody is left to owe a Join.

For every set of requests, Reconnects and closers, every number of generations, capacity of the manual channel and set of options (`DirectSession_proofs`,
from `DirectAssumption`):

- `Invariant`: `Spec => []IInv`, of seven parts: the state follows the two stores of `markEnded` (`EndInv`); a key is in the table as long as a call waits and has no result
  (`KeyInv`), a waiter likewise (`WaiterInv`); `writeMu` has one holder, and in a terminal session whoever holds it, or has written, is one and the same call (`WriterInv`); nothing is in the table once
  it was settled (`SettledInv`); a read loop leaves an open connection only to close it (`ReaderInv`); and when a `Close` has returned nothing runs, and nothing starts (`CloseInv`). `Actions` groups
  the steps by who takes them; each part goes through the groups that can disturb it.
- `TypeCorrect`, `OneResultEach` (`OneResult`), `OneLateFrame` (`LastFrame`), `NobodyIsLeft` (`NobodyLeftWaiting`), `CloseLeavesNothing` (`CloseIsFinal`), and the action
  properties `TerminalStays` (`TerminalIsFinal`) and `ClosedStartsNothing` (`NoStartAfterClose`).

Of the operators behind `Open`, for every width of a byte and of a duration (in `DirectOpen_proofs`, from `HelloAssumption` and `PlanAssumption`):

- `EncodedIsDecoded`: `DecodeHello` returns the ticket that `EncodeHello` wrote and the bytes after it, if the limit of a
  ticket fits the two bytes of the length field, as 256 does, and nothing for a ticket beyond the limit.
- `DeadlineIsPastGap`, `PlanKeepsOptionsValid`: plan.go:107 wants T2 above the server's gap, and it is, strictly, unless three gaps or T1
  plus a second overflow, or the gap is one nanosecond, which no number of whole milliseconds is; and `validateSwitchOptions` never refuses what a gap has set.
- Lemmas on which of several entries or items counts (`LeastOf`, `MaxOf`, `FacesOfItems`, `FacesOfTicket`).

For every set of pushes and of options that `Open` may be called with, on top of all that (`DirectOpen_proofs`, from `OpenAssumption`, which asks only that a push is JSON of the kind
`AnyPush`, that the options are of the type of the struct and that T1 plus a second does not overflow):

- `OpenInvariant`: `OpenSpec => []OpenIInv`. Every step of `OpenNext` is one of DirectSession or leaves its variables alone but for the flag of a refused probe (`SessionSteps`, `FlagKeeps`), so `IInv`
  carries over. `DialInv` ties a dial to its supervisor: one that holds a socket is at a stage that closes it when it fails, and its supervisor does nothing but dial. `PreInv` says that
  until `Open` returns nobody else dials or closes. `AliveInv` is `KeptAlive` with the heartbeat that is about to start.
- `OpenTypeCorrect`, `SocketsAreOwned` (`NoSocketLeft`: what is dialled when `Close` returns is excluded because its supervisor would have to run),
  `HeartKeepsBeating` (`KeptAlive`).
- `HelloReadsBack` (`HelloIsWhole`), `GapsAreOutlasted` (`GapIsOutlasted`), `InstanceIsOwn` (`OwnInstance`): for every push and not only the 105 of the run. The last one goes through the two lists of tickets, the
  first entry of the player's own in each and the last usable address of each face.

For every width of a byte, number of writers, set of calls, of a peer's frames, of options and of body limits up to the absolute one, which is what `WithMaxBodySize` admits
(`FrameWire_proofs`, from `CodecAssumption`, `WireAssumption` and `AnswersAssumption`, which TLC evaluates for the instance of the run):

- `RequestReads`: `ParseRequestBody` finds in the body that `BuildRequestBody` makes the operation, session, id and payload that went in, whatever bytes they hold. With
  `EncodedFrame` (a header and its body are taken apart as they were put together) this gives `FrameOf`: of a frame that a writer prepared, the length is the one in its
  header, a reader whose limits admit it understands what was said, and a frame no reader admits is bad.
- `WireInvariant`: `Spec => []Inv`. The four properties speak of what was handed over; what makes them hold is what is still under way. `Shape` and `Discipline` say of what type everything is, and that one
  writer at most is between header and body, of the frame that was sent last. For a stream (`StreamInv`) there are: `T`, all the bytes ever written; `f`, where in them the first `u` frames lie,
  whole; the rest of `T` is the half of a frame that is being written, or one that stayed half; `k`, how many frames the reader has behind it; and `m`, how many
  of the frames handed over those were. Until the reader is at a half-written frame, the bytes under way are a piece of `T` that starts exactly where frame `k + 1` or its body does. So a step
  of a writer appends to `T`, a cut takes from the end, and a read of a header or a body meets one frame (`StreamSends`, `StreamCut`, `StreamHeader`, `StreamBody`). A WebSocket has the same with whole messages
  (`MessageInv`). Of a datagram `DatagramInv` says that it was sent, here or over another flow, and, while nothing was lost, that what was sent is under way, was bad, said nothing or
  was handed over. `Cause` gives the reason for a protocol error.
- `TypeCorrect` (`TypeOK`), `FramesInOrder` (`InOrder`), `DatagramsSaid` (`NothingMadeUp`), `EndsExplained` (`EndsForAReason`) and `EverythingArrives` (`AllArrive`) follow. What a response or a status decodes to does not enter:
  the proof takes `HeardBySDK` as it is, so the recursive functions of FrameCodec (varints, fields of a message) need not be unfolded.

With these every invariant and every action property that a run checks is stated by a theorem. Only model-checked: liveness (`InvokeReturns`, `CloseReturns`, `Recovers`, `CloseEndsAll`, `Heals`, `DualRecovers`), since the
prover handles neither fairness nor ENABLED, and the refutation of section 6. What `DecodeReply` and `DecodeStatus` compute of the frames of `frame_wire` is checked by that run against what those frames say
(`AnswersAssumption`, which TLC evaluates), and not proved for all frames: the library's induction theorems take an operator as a parameter, which the provers cannot instantiate, and a recursive function cannot be
unfolded without them. (A least element of one set of numbers can be had from the well-founded order alone, which is how `Least` gets one.)

## 5. What the abstraction leaves out

Payloads, serializers, idempotency keys, log lines and metrics. The values of time-outs and backoff: a timer may fire at any moment
it is armed, which includes every order the real values allow. Byte streams, except in FrameWire and DirectHello: elsewhere a connection delivers whole frames or an error.

In Channel the goroutine of a hook that timed out ends with its window; ClientSession and DualHooks let it go on. The transport heartbeat is its effect. In ClientSession a
login's reply is whole or empty, a resume's is whole, without a token, or fails for want of a player, and the other fields of the session messages are left out. `Restore` in DirectSession does not have a step per replayed frame. In `DirectOpen` the
application makes no request and no explicit Reconnect, which DirectSession has.

Not modelled: the table of `OnPush` and the frame number of `trackFrame` (one lock section, one atomic maximum), the counters of `stats.go` (nothing reads them back), the polling of
`netwatch.go` beyond the change it reports, dialling of the client's transports (one blocking call each), TLS, KCP's parameters, errors and their texts, the log, generated code, examples and
scripts.

## 6. Where code and text disagree

This one is a run that TLC ends with a counterexample; PROJECT.json quotes the lines.

- `direct_closeleak`: two supervisors per generation redial twice and leak a connection that keeps `Close` from returning.

These were met while modelling and are stated in the modules (the last section of each), but no run is kept for them. TLC
refutes each in an instance of few calls or none and two or three generations.

- `TerminatedStaysDown` (Channel): a protocol error between `settleGeneration`'s closed check and its store leaves a dead channel
  `Connected` (channel.go:272; 226-227 say it is not set back).
- `OnIsConcurrent` (NotifyTable): `On` concurrent with the end of another subscription of the op is lost for good: the set it has looked up is
  dropped from the table before it is filled (notify.go:67; README.md:356 calls On safe to call concurrently).
- `NothingBeforeHook` (Channel): a call that passed the state check (invoke.go:205) before the connection was lost takes the next generation and is
  sent before its session hook has run (channel.go:244-245: no unauthenticated request goes out).
- `WaiterIsServed` (DirectSession): a `Reconnect` that enqueues after the last supervisor has left waits for nobody (session_reconnect.go:35; 34 says the
  result always arrives).
- `NoRequestLeft` (FlowMigrate): a request between the unlock of `switchLoop` and `finishSwitch` is merged into a migration that is over; if that
  one failed, only the next signal starts another (netmigrate_switch.go:78; 39 speaks of running again).
- `FailsNoLaterGeneration` (Channel): after a failed hook the read loop of the abandoned generation may run `failAllInflight` once
  the next has taken requests, and the table is not split by epoch as heartbeat.go:54-55 says.
- `CloseCancelsInflight` (Channel): after `terminate`, `Close` takes its already-closed branch (channel.go:413) and cancels nothing;
  README.md:350 of the repository says that it cancels all in-flight requests.
- `RepeatedOffIsSafe` (NotifyTable): a returned function called again deletes by key whatever is registered by then (notify.go:99; 27-28 call
  it safe).
- `CodeTellsApart` (NotifyTable): closures of one literal, and method values of one method, share a code pointer and replace each
  other (notify.go:108; 27 speaks of equal function values).
- `NoReconnectOnceTerminal`, `FailedLeavesNoSocket` (DirectSession): a session that becomes terminal during a backoff or a dial reconnects
  and keeps the socket (session_reconnect.go:129; README.md:247-248, ended.go:125).
- `EndedStays` (DirectSession): between the two stores of `markEnded` a failed battle is `Ended` (ended.go:45-46, 108-113).
- `FatalEndsSession` (DirectSession): after a refused replay the second supervisor reconnects (session_reconnect.go:85; options.go:139).
- `ConnectedIsUsable` (DirectSession): without automatic reconnection `Open` stores `Connected` over the loss of its first connection (session.go:149).
- `CloseShutsAll` (DirectSession): a connection that the network took and that has a successor is closed by nobody: the supervisor drops its
  generation (session.go:181-186), and `Close` knows the current one. Of a KCP flow the socket and the goroutines stay (session_ended_test.go:318 expects none).
- `InvokeTimesOut` (Channel and DirectSession): a write over TCP or WebSocket has no deadline and is done under the write lock, and the timer of the request is armed behind it. A peer that stops reading
  keeps the call, whatever its context, every other call that waits for the lock, and the probe of the heartbeat, which would find the connection dead (client/transport.go:55-57, transport_ws.go:76-84, invoke.go:229-231 and 284, where options.go:67
  and README.md:326 name a time-out of ten seconds; direct/transport.go:180-188, session_invoke.go:93-98 and 115, where direct/options.go:108 and README.md:288 do). Close ends it.
- `KickIsFinal` (ClientSession): a resume, a restore or a late hook that has its answer when the kick is handled, and stores it afterwards, brings the token of the ended session back (session.go:110 clears what 239-243
  then write; 75-76 and 104 say that a kick clears the credentials). The next heartbeat is refused and so is the resume that follows: the session stays dead with a token until a login or a logout.
- `PairIsWhole` (ClientSession): a login stored while a resume of the session before is under way, whose reply carries no token, leaves its own token with the other's player (session.go:201-205, 239-243; 278 and 288 speak of the current session). Every later resume sends
  a pair the server does not know; `Heals` does not cover it.
- `BindingIsHeard` (ClientSession): Bind for two clients, or Bind and Close, that overlap. The one that has taken the old function off (session.go:119-128) may call it after the other has subscribed for the same client, since both have the session as their key:
  the session is bound and hears no kick. Or each subscribes and the later store drops the other's function (session.go:84-89): a client that the session has left is heard for good. 75-78 and 94 say that the next Bind or Close ends it.
- `RestoreKeepsCredentials` (ClientSession): the reply of a restore carries the token to keep or none, and with none the token given is
  dropped although the player is kept (session.go:239-241; 208 says both are kept).
- `NoPlayerLoggedOut`, `LoggedInIsNotKicked` (ClientSession): a resume whose answer comes after a logout stores the player without a token; a kick whose two
  sections enclose the end of a login marks the new session kicked (session.go:110-117, 239; 288, 298).
- `AlwaysRebound` (DualHooks): a hook nobody waits for any more that fails after its login, or a chain that skips a battle channel whose own hook has
  just joined with the login before, leaves the battle connection with the old login (client.go:279-280).
- `BattleLossSparesBusiness` (DualHooks): a battle channel lost between the chained check and its hook makes the hook of the business channel fail (client.go:326).
- `OneProber` (DirectOpen): the loop of a generation that has been replaced may still wait for its probe when the next one sends its own (heartbeat.go:45).
- `UnavailableIsRetried` (DirectOpen): after "unavailable" UDP takes the byte for a refusal, KCP tries again (gen/edge/hello.go:36-37).
- `DeadAfterTwoBeats` (DirectOpen): nothing relates T2 to the heartbeat's interval once either is an option (options.go:248).
- `WholeFrames` (FrameWire): a frame over KCP is two writes, header and body, under one deadline (frame.go:126-132, a KCP session is no connection that
  writevBuffers, 137-143, knows). If the deadline passes in between, the caller gets an error, the connection stays in use (invoke.go:230-235), and the peer
  takes the next frame for the missing body (transport_kcp.go:60 and 68: a whole frame in one write). `InOrder` therefore speaks of the frames before it: of what follows the reader makes what it
  can, which is a protocol error as a rule, but also a frame if the bytes at that place are those of one.

Read rather than checked: `normalizeDualRoles` tests a battle role of zero only and lets another illegal one pass (client.go:288). `runHookSync` recovers its own
panic (453-459), not one of the hook, whose goroutine (463-465) has none, though channel.go:448 speaks of panic protection. The hello over UDP has no retry, so one lost datagram ends the dial and, as a
refusal, the session (transport.go:134). `WithReconnectBackoff` with a base beyond the default maximum leaves the cap below the base. The first dial of a KCP flow does not look at its context.

## 7. Plan

Modelling left: the pushes of a battle session, and `Tell`. Theorems left: what `DecodeReply` and `DecodeStatus` compute for every input, once a prover unfolds recursive functions; liveness.

Runs are kept few, one per question: a component has one passing run with all its options in one instance, two where liveness needs an instance of its own.
