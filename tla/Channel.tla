------------------------------ MODULE Channel ------------------------------
(***************************************************************************)
(* One client channel: the supervisor that redials a lost connection, the  *)
(* read loop of every connection generation, the session hook, the         *)
(* reconnect queue, the in-flight table, concurrent callers of Invoke and  *)
(* of Close.  Source: client/channel.go, client/invoke.go, client/queue.go *)
(* and client/heartbeat.go.                                                *)
(*                                                                         *)
(* A generation is its epoch.  A request is one call of Invoke; its frame  *)
(* is the request itself, so (epoch, seq) is (epoch[r], r).  lifecycleMu   *)
(* and genMu sections are single steps, except the genMu section of        *)
(* settleGeneration, which blocks on the network: it is held while sup is  *)
(* in GenMuHolders.                                                        *)
(***************************************************************************)
EXTENDS Naturals, Sequences, FiniteSets

CONSTANTS
    Requests,       \* calls of Invoke
    Cancellable,    \* the calls whose context can be cancelled
    Closers,        \* calls of Close
    MaxGen,         \* bound: generations explored
    Options         \* WithAutoReconnect, WithOnReconnected, the reconnect queue
                    \* size, the calls made WithFailFast, and whether a write of
                    \* the transport may block: the combinations explored

ASSUME ChannelAssumption ==
    /\ Cancellable \subseteq Requests
    /\ MaxGen \in Nat \ {0}
    /\ Options \subseteq [auto : BOOLEAN, hook : BOOLEAN, size : Nat,
                           failFast : SUBSET Requests, blocks : BOOLEAN]

VARIABLES
    opts,       \* the options this channel, its transport and its calls have
    closed,     \* ch.closed; closeCh is closed with it, under lifecycleMu
    state,      \* ch.state
    gen,        \* epoch of ch.genPtr
    conn,       \* the transport of each generation
    reader,     \* readLoop of each generation; "done" is a closed g.done
    cause,      \* exitErr of each read loop
    sup,        \* where the supervisor is
    settling,   \* the supervisor is inside settleGeneration
    bypass,     \* ch.hookBypass
    queue,      \* ch.queue
    claimed,    \* who won queuedInvoke.claimed
    qres,       \* queuedInvoke.result, a channel of capacity 1
    call,       \* where the caller of Invoke is
    once,       \* where invokeOnce is (run by the caller or by drainQueue)
    epoch,      \* the generation invokeOnce took
    inflight,   \* keys of ch.inflight
    reply,      \* chRes, a channel of capacity 1
    ret,        \* what Invoke returned
    cancelled,  \* the caller's ctx is done
    closer      \* where each call of Close is

(* History: what a property needs to remember and the code does not.       *)
VARIABLES
    wire,       \* generation the frame was written to, 0 before
    hookOK,     \* generations whose hook succeeded (or that need none)
    direct,     \* calls that took the hookBypass branch of Invoke
    behind      \* requests waiting in the queue when the call began

chanVars == <<closed, state, gen, conn, reader, cause>>
supVars  == <<sup, settling, bypass, hookOK>>
queueVars == <<queue, claimed, qres>>
reqVars  == <<call, once, epoch, inflight, reply, ret, cancelled, wire,
              direct, behind>>
vars == <<opts, chanVars, supVars, queueVars, reqVars, closer>>

AutoReconnect == opts.auto
HasHook       == opts.hook
FailFast      == opts.failFast
QueueSize     == opts.size

\* TCP and WebSocket write without a deadline; KCP sets one, UDP never blocks.
WriteBlocks   == opts.blocks

Gens    == 1..MaxGen
Results == {"reply", "net", "proto", "timeout"}
GenMuHolders == {"store", "drain", "draining"}

InQueue(r) == \E i \in DOMAIN queue : queue[i] = r
\* Fault: drainQueue runs outside the genMu section.
GenMuFree_unlocked == TRUE
GenMuFree  == sup \notin GenMuHolders

\* Fault: claimed is stored, not compared and swapped.
CanClaim_store(r) == TRUE

\* queuedInvoke.claimed.CompareAndSwap(false, true) would succeed.
CanClaim(r) == claimed[r] = "none"

\* Fault: the transport is left open.
ShutCurrent_forgotten == UNCHANGED conn

\* Close the current transport.
ShutCurrent == conn' = [conn EXCEPT ![gen] = "shut"]

-----------------------------------------------------------------------------
(* newChannel: the first connection is in hand, its read loop is started   *)
(* by the supervisor.                                                      *)
Init ==
    /\ opts \in Options
    /\ closed = FALSE
    /\ state = "Connected"
    /\ gen = 1
    /\ conn = [e \in Gens |-> IF e = 1 THEN "up" ELSE "none"]
    /\ reader = [e \in Gens |-> "none"]
    /\ cause = [e \in Gens |-> "none"]
    /\ sup = "start"
    /\ settling = FALSE
    /\ bypass = FALSE
    /\ hookOK = {1}
    /\ queue = <<>>
    /\ claimed = [r \in Requests |-> "none"]
    /\ qres = [r \in Requests |-> "none"]
    /\ call = [r \in Requests |-> "idle"]
    /\ once = [r \in Requests |-> "none"]
    /\ epoch = [r \in Requests |-> 0]
    /\ inflight = {}
    /\ reply = [r \in Requests |-> "none"]
    /\ ret = [r \in Requests |-> "none"]
    /\ cancelled = {}
    /\ wire = [r \in Requests |-> 0]
    /\ direct = {}
    /\ behind = [r \in Requests |-> {}]
    /\ closer = [c \in Closers |-> "idle"]

-----------------------------------------------------------------------------
(* Invoke.                                                                 *)

Return(r, res) ==
    /\ call' = [call EXCEPT ![r] = "returned"]
    /\ ret' = [ret EXCEPT ![r] = res]

(* invoke: the closed check, then hookBypass, WithFailFast or the gate.    *)
Invoke(r) ==
    /\ call[r] = "idle"
    /\ behind' = [behind EXCEPT ![r] =
                    {b \in Requests : InQueue(b) /\ claimed[b] = "none"}]
    /\ \/ /\ closed
          /\ Return(r, "net")
          /\ UNCHANGED <<once, direct>>
       \/ /\ ~closed
          /\ bypass \/ r \in FailFast
          /\ call' = [call EXCEPT ![r] = "direct"]
          /\ once' = [once EXCEPT ![r] = "check"]
          /\ direct' = IF bypass THEN direct \union {r} ELSE direct
          /\ UNCHANGED ret
       \/ /\ ~closed /\ ~bypass
          /\ r \notin FailFast
          /\ call' = [call EXCEPT ![r] = "gate"]
          /\ UNCHANGED <<ret, once, direct>>
    /\ UNCHANGED <<opts, chanVars, supVars, queueVars, closer, epoch, inflight,
                   reply, cancelled, wire>>

(* The genMu section of invoke: queue while Reconnecting, else send.       *)
Gate(r) ==
    /\ call[r] = "gate"
    /\ GenMuFree
    /\ \/ /\ state # "Reconnecting"
          /\ call' = [call EXCEPT ![r] = "direct"]
          /\ once' = [once EXCEPT ![r] = "check"]
          /\ UNCHANGED <<queue, ret>>
       \/ /\ state = "Reconnecting"
          /\ Len(queue) < QueueSize
          /\ queue' = Append(queue, r)
          /\ call' = [call EXCEPT ![r] = "queued"]
          /\ UNCHANGED <<once, ret>>
       \/ /\ state = "Reconnecting"
          /\ Len(queue) >= QueueSize
          /\ Return(r, "net")
          /\ UNCHANGED <<once, queue>>
    /\ UNCHANGED <<opts, chanVars, supVars, claimed, qres, closer, epoch,
                   inflight, reply, cancelled, wire, direct, behind>>

(* invokeOnce returns res: its deferred Delete, then Invoke returns, or    *)
(* drainQueue passes res to the caller it was claimed from.                *)
Finish(r, res) ==
    /\ once' = [once EXCEPT ![r] = "done"]
    /\ inflight' = inflight \ {r}
    /\ \/ /\ call[r] = "direct"
          /\ Return(r, res)
          /\ UNCHANGED <<qres, sup>>
       \/ /\ call[r] # "direct"
          /\ qres' = [qres EXCEPT ![r] = res]
          /\ sup' = "drain"
          /\ UNCHANGED <<call, ret>>
    /\ UNCHANGED <<opts, chanVars, settling, bypass, hookOK, queue, claimed,
                   closer, epoch, reply, cancelled, wire, direct, behind>>

Step(r, from, to) ==
    /\ once[r] = from
    /\ once' = [once EXCEPT ![r] = to]
    /\ UNCHANGED <<opts, chanVars, supVars, queueVars, closer, call, ret,
                   reply, cancelled, direct, behind>>

CheckState(r) ==
    \/ /\ once[r] = "check"
       /\ state = "Reconnecting" /\ ~bypass
       /\ Finish(r, "net")
    \/ /\ state # "Reconnecting" \/ bypass
       /\ Step(r, "check", "snap")
       /\ UNCHANGED <<epoch, inflight, wire>>

(* One atomic load of genPtr, the second closed check, marshalling.        *)
Snapshot(r) ==
    \/ /\ once[r] = "snap"
       /\ \/ closed /\ Finish(r, "net")
          \/ ~closed /\ Finish(r, "proto")
    \/ /\ ~closed
       /\ Step(r, "snap", "register")
       /\ epoch' = [epoch EXCEPT ![r] = gen]
       /\ UNCHANGED <<inflight, wire>>

Register(r) ==
    /\ Step(r, "register", "write")
    /\ inflight' = inflight \union {r}
    /\ UNCHANGED <<epoch, wire>>

(* writeMu is taken and the frame written: until then it waits for the     *)
(* lock, or for a peer that does not read.  A frame to a peer that is gone *)
(* is lost silently or fails, one to a locally closed transport fails, and *)
(* so does one that is too long or meets the write deadline.               *)
WriteFrame(r) ==
    \/ /\ Step(r, "write", "await")
       /\ conn[epoch[r]] \in {"up", "lost"}
       /\ wire' = [wire EXCEPT ![r] = epoch[r]]
       /\ UNCHANGED <<epoch, inflight>>
    \/ /\ once[r] = "write"
       /\ Finish(r, "net")

\* The peer of a live connection may keep the write of r for ever.
Stalled(r) == WriteBlocks /\ once[r] = "write" /\ conn[epoch[r]] = "up"

(* awaitResult: the reply, or a cancelled ctx that still owns the key.     *)
Await(r) ==
    /\ once[r] = "await"
    /\ \/ reply[r] # "none" /\ Finish(r, reply[r])
       \/ r \in cancelled /\ r \in inflight /\ Finish(r, "net")

\* Fault: the timer takes the key and forgets to send.
Timeout_silent(r) ==
    /\ once[r] = "await"
    /\ r \in inflight
    /\ inflight' = inflight \ {r}
    /\ UNCHANGED <<opts, chanVars, supVars, queueVars, closer, call, once,
                   epoch, reply, ret, cancelled, wire, direct, behind>>

(* The invoke timer: LoadAndDelete, then one send to chRes.                *)
Timeout(r) ==
    /\ once[r] = "await"
    /\ r \in inflight
    /\ inflight' = inflight \ {r}
    /\ reply' = [reply EXCEPT ![r] = "timeout"]
    /\ UNCHANGED <<opts, chanVars, supVars, queueVars, closer, call, once,
                   epoch, ret, cancelled, wire, direct, behind>>

(* The caller's context is cancelled (the environment).                    *)
CancelCtx(r) ==
    /\ r \in Cancellable \ cancelled
    /\ call[r] \in {"gate", "queued", "direct"}
    /\ cancelled' = cancelled \union {r}
    /\ UNCHANGED <<opts, chanVars, supVars, queueVars, closer, call, once,
                   epoch, inflight, reply, ret, wire, direct, behind>>

-----------------------------------------------------------------------------
(* The caller of a queued request, and its deadline watch.                 *)

Claim(r, who) == claimed' = [claimed EXCEPT ![r] = who]

(* awaitQueued: result, then ctx.Done (claim, or one second of grace for   *)
(* the result of whoever claimed it), then closeCh.                        *)
AwaitQueued(r) ==
    /\ call[r] = "queued"
    /\ \/ /\ qres[r] # "none"
          /\ Return(r, qres[r])
          /\ UNCHANGED claimed
       \/ /\ r \in cancelled
          /\ CanClaim(r)
          /\ Claim(r, "ctx")
          /\ Return(r, "net")
       \/ /\ r \in cancelled
          /\ claimed[r] # "none" /\ qres[r] = "none"
          /\ Return(r, "net")
          /\ UNCHANGED claimed
       \/ /\ closed
          /\ qres[r] = "none"
          /\ Return(r, "net")
          /\ UNCHANGED claimed
    /\ UNCHANGED <<opts, chanVars, supVars, queue, qres, closer, once, epoch,
                   inflight, reply, cancelled, wire, direct, behind>>

(* queueDeadlineWatch of a request that was queued: the deadline, or a      *)
(* cancelled ctx, claims first.                                            *)
QueueDeadline(r) ==
    /\ InQueue(r) \/ claimed[r] # "none"
    /\ CanClaim(r)
    /\ Claim(r, "watch")
    /\ qres' = [qres EXCEPT ![r] = "timeout"]
    /\ UNCHANGED <<opts, chanVars, supVars, queue, reqVars, closer>>

-----------------------------------------------------------------------------
(* The read loop of generation e.                                          *)

\* Fault: Load where the code has LoadAndDelete.
SettleInflight_load(res) ==
    /\ reply' = [r \in Requests |-> IF r \in inflight THEN res ELSE reply[r]]
    /\ UNCHANGED inflight

(* failAllInflight: every key of the table, whatever its epoch.            *)
SettleInflight(res) ==
    /\ reply' = [r \in Requests |-> IF r \in inflight THEN res ELSE reply[r]]
    /\ inflight' = {}

(* dispatchResponse: the key is looked up under the epoch of the current   *)
(* generation; a response nobody waits for is dropped.                     *)
Response(e, r) ==
    /\ reader[e] = "reading"
    /\ conn[e] # "shut"
    /\ wire[r] = e
    /\ r \in inflight
    /\ epoch[r] = gen
    /\ reply' = [reply EXCEPT ![r] = "reply"]
    /\ inflight' = inflight \ {r}
    /\ UNCHANGED <<opts, chanVars, supVars, queueVars, closer, call, once,
                   epoch, ret, cancelled, wire, direct, behind>>

(* A read error is a network error (no error at all once closed); a bad    *)
(* frame, version or envelope is a protocol error.                         *)
ReadExit(e) ==
    /\ reader[e] = "reading"
    /\ \/ /\ conn[e] \in {"lost", "shut"}
          /\ cause' = [cause EXCEPT ![e] = IF closed THEN "none" ELSE "net"]
       \/ /\ conn[e] # "shut"
          /\ cause' = [cause EXCEPT ![e] = "proto"]
    /\ reader' = [reader EXCEPT ![e] = "failing"]
    /\ UNCHANGED <<opts, closed, state, gen, conn, supVars, queueVars, reqVars,
                   closer>>

(* failAllInflight, then terminate after a protocol error, else close(done)*)
FailInflight(e) ==
    /\ reader[e] = "failing"
    /\ SettleInflight(IF cause[e] = "proto" THEN "proto" ELSE "net")
    /\ reader' = [reader EXCEPT ![e] =
                    IF cause[e] = "proto" THEN "terminating" ELSE "done"]
    /\ UNCHANGED <<opts, closed, state, gen, conn, cause, supVars, queueVars,
                   closer, call, once, epoch, ret, cancelled, wire, direct,
                   behind>>

(* terminate: closed under lifecycleMu, the current transport, the state.  *)
Terminate(e) ==
    /\ reader[e] = "terminating"
    /\ closed' = TRUE
    /\ ShutCurrent
    /\ reader' = [reader EXCEPT ![e] = "stopping"]
    /\ UNCHANGED <<opts, state, gen, cause, supVars, queueVars, reqVars,
                   closer>>

TerminateState(e) ==
    /\ reader[e] = "stopping"
    /\ state' = "Disconnected"
    /\ reader' = [reader EXCEPT ![e] = "done"]
    /\ UNCHANGED <<opts, closed, gen, conn, cause, supVars, queueVars, reqVars,
                   closer>>

(* The peer or the network drops the connection; the bound on generations  *)
(* keeps the last one alive.                                               *)
ConnLost(e) ==
    /\ conn[e] = "up" /\ e < MaxGen
    /\ conn' = [conn EXCEPT ![e] = "lost"]
    /\ UNCHANGED <<opts, closed, state, gen, reader, cause, supVars, queueVars,
                   reqVars, closer>>

(* heartbeatLoop of e: the third failure in a row closes its own transport.*)
HeartbeatDead(e) ==
    /\ reader[e] \notin {"none", "done"} /\ ~closed /\ e < MaxGen
    /\ conn[e] # "shut"
    /\ conn' = [conn EXCEPT ![e] = "shut"]
    /\ UNCHANGED <<opts, closed, state, gen, reader, cause, supVars, queueVars,
                   reqVars, closer>>

-----------------------------------------------------------------------------
(* supervisor, settleGeneration, reconnectFrom, runHookSync, drainQueue.   *)

SupMove(from, to) == sup = from /\ sup' = to

SupStart ==
    /\ SupMove("start", "watch")
    /\ reader' = [reader EXCEPT ![1] = "reading"]
    /\ UNCHANGED <<opts, closed, state, gen, conn, cause, settling, bypass,
                   hookOK, queueVars, reqVars, closer>>

(* select on closeCh and on g.done.                                        *)
SupWatch ==
    /\ sup = "watch"
    /\ \/ closed /\ sup' = "exit" /\ UNCHANGED state
       \/ /\ ~closed /\ reader[gen] = "done"
          /\ ~AutoReconnect
          /\ state' = "Disconnected"
          /\ sup' = "exit"
       \/ /\ ~closed /\ reader[gen] = "done"
          /\ AutoReconnect
          /\ sup' = "mark"
          /\ UNCHANGED state
    /\ UNCHANGED <<opts, closed, gen, conn, reader, cause, settling, bypass,
                   hookOK, queueVars, reqVars, closer>>

SupMark ==
    /\ SupMove("mark", "backoff")
    /\ state' = "Reconnecting"
    /\ UNCHANGED <<opts, closed, gen, conn, reader, cause, settling, bypass,
                   hookOK, queueVars, reqVars, closer>>

SupTimer ==
    /\ SupMove("backoff", "dial")
    /\ UNCHANGED <<opts, chanVars, settling, bypass, hookOK, queueVars,
                   reqVars, closer>>

SupInterrupted ==
    /\ closed
    /\ SupMove("backoff", "giveup")
    /\ UNCHANGED <<opts, chanVars, settling, bypass, hookOK, queueVars,
                   reqVars, closer>>

SupDialFail ==
    /\ SupMove("dial", "backoff")
    /\ UNCHANGED <<opts, chanVars, settling, bypass, hookOK, queueVars,
                   reqVars, closer>>

\* The closed check under lifecycleMu, and setConn's next epoch.
MayAdopt  == ~closed
NextEpoch == gen + 1

(* The dial succeeded: under lifecycleMu drop the transport when closed,   *)
(* else setConn and startConnLoops.                                        *)
SupAdopt ==
    \/ /\ closed
       /\ SupMove("dial", "giveup")
       /\ UNCHANGED <<opts, chanVars, settling, bypass, hookOK, queueVars,
                      reqVars, closer>>
    \/ /\ MayAdopt /\ gen < MaxGen
       /\ SupMove("dial", "adopted")
       /\ gen' = NextEpoch
       /\ conn' = [conn EXCEPT ![NextEpoch] = "up"]
       /\ reader' = [reader EXCEPT ![NextEpoch] = "reading"]
       /\ hookOK' = IF HasHook THEN hookOK ELSE hookOK \union {NextEpoch}
       /\ UNCHANGED <<opts, closed, state, cause, settling, bypass, queueVars,
                      reqVars, closer>>

\* Fault: the queue is drained before the hook has run.
Settle_early == "lock"

\* settleGeneration runs the hook before anything else, if there is one.
Settle == IF HasHook THEN "hook" ELSE "lock"

(* The closed check after a reconnect; supervisor leaves the state alone,  *)
(* settleGeneration's failure makes it Disconnected.                       *)
SupAdopted ==
    /\ sup = "adopted"
    /\ \/ /\ closed
          /\ sup' = IF settling THEN "giveup" ELSE "exit"
          /\ UNCHANGED settling
       \/ /\ ~closed
          /\ sup' = Settle
          /\ settling' = TRUE
    /\ UNCHANGED <<opts, chanVars, bypass, hookOK, queueVars, reqVars, closer>>

HookStart ==
    /\ SupMove("hook", "hooking")
    /\ bypass' = TRUE
    /\ UNCHANGED <<opts, chanVars, settling, hookOK, queueVars, reqVars,
                   closer>>

HookOK ==
    /\ SupMove("hooking", "lock")
    /\ bypass' = FALSE
    /\ hookOK' = hookOK \union {gen}
    /\ UNCHANGED <<opts, chanVars, settling, queueVars, reqVars, closer>>

(* An error, a panic, the hook timeout or closeCh: closeGeneration, then   *)
(* another round of backoff.  A failure needs a generation to go on to.    *)
HookFail ==
    /\ closed \/ gen < MaxGen
    /\ SupMove("hooking", "backoff")
    /\ bypass' = FALSE
    /\ ShutCurrent
    /\ UNCHANGED <<opts, closed, state, gen, reader, cause, settling, hookOK,
                   queueVars, reqVars, closer>>

(* genMu.Lock and the second closed check.                                 *)
SupLock ==
    /\ SupMove("lock", IF closed THEN "giveup" ELSE "store")
    /\ UNCHANGED <<opts, chanVars, settling, bypass, hookOK, queueVars,
                   reqVars, closer>>

\* Fault: the state stays Reconnecting.
SupStore_forgotten ==
    /\ SupMove("store", "drain")
    /\ UNCHANGED <<opts, chanVars, settling, bypass, hookOK, queueVars,
                   reqVars, closer>>

SupStore ==
    /\ SupMove("store", "drain")
    /\ state' = "Connected"
    /\ UNCHANGED <<opts, closed, gen, conn, reader, cause, settling, bypass,
                   hookOK, queueVars, reqVars, closer>>

(* drainQueue takes the head: fail a cancelled one, skip a claimed one,    *)
(* send the others with invokeOnce and wait for the result.                *)
Drain ==
    /\ sup = "drain" /\ queue # <<>>
    /\ queue' = Tail(queue)
    /\ LET r == Head(queue) IN
       \/ /\ ~CanClaim(r)
          /\ UNCHANGED <<sup, claimed, qres, once>>
       \/ /\ CanClaim(r) /\ r \in cancelled
          /\ Claim(r, "ctx")
          /\ qres' = [qres EXCEPT ![r] = "net"]
          /\ UNCHANGED <<sup, once>>
       \/ /\ CanClaim(r) /\ r \notin cancelled
          /\ Claim(r, "drain")
          /\ once' = [once EXCEPT ![r] = "check"]
          /\ sup' = "draining"
          /\ UNCHANGED qres
    /\ UNCHANGED <<opts, chanVars, settling, bypass, hookOK, closer, call,
                   epoch, inflight, reply, ret, cancelled, wire, direct,
                   behind>>

DrainDone ==
    /\ queue = <<>>
    /\ SupMove("drain", "watch")
    /\ settling' = FALSE
    /\ UNCHANGED <<opts, chanVars, bypass, hookOK, queueVars, reqVars, closer>>

SupGiveUp ==
    /\ SupMove("giveup", "exit")
    /\ state' = "Disconnected"
    /\ UNCHANGED <<opts, closed, gen, conn, reader, cause, settling, bypass,
                   hookOK, queueVars, reqVars, closer>>

-----------------------------------------------------------------------------
(* Close.                                                                  *)

\* Fault: the read loops are not counted in ch.wg.
Quiet_readers == sup = "exit"

\* ch.wg is at zero: the supervisor and every read loop have returned.
Quiet == sup = "exit" /\ \A e \in Gens : reader[e] \in {"none", "done"}

(* The Swap under lifecycleMu: the first caller closes the transport, the  *)
(* others (after terminate, all of them) only wait.                        *)
CloseBegin(c) ==
    /\ closer[c] = "idle"
    /\ closed' = TRUE
    /\ IF closed
       THEN /\ closer' = [closer EXCEPT ![c] = "waiting"]
            /\ UNCHANGED conn
       ELSE /\ closer' = [closer EXCEPT ![c] = "closing"]
            /\ ShutCurrent
    /\ UNCHANGED <<opts, state, gen, reader, cause, supVars, queueVars,
                   reqVars>>

CloseWaited(c) ==
    /\ closer[c] = "waiting" /\ Quiet
    /\ closer' = [closer EXCEPT ![c] = "returned"]
    /\ UNCHANGED <<opts, chanVars, supVars, queueVars, reqVars>>

CloseInflight(c) ==
    /\ closer[c] = "closing" /\ Quiet
    /\ SettleInflight("net")
    /\ closer' = [closer EXCEPT ![c] = "draining"]
    /\ UNCHANGED <<opts, chanVars, supVars, queueVars, call, once, epoch, ret,
                   cancelled, wire, direct, behind>>

(* failAllQueued and the final state.                                      *)
CloseQueued(c) ==
    /\ closer[c] = "draining"
    /\ LET mine == {r \in Requests : InQueue(r) /\ CanClaim(r)} IN
       /\ claimed' = [r \in Requests |-> IF r \in mine THEN "close" ELSE claimed[r]]
       /\ qres' = [r \in Requests |-> IF r \in mine THEN "net" ELSE qres[r]]
    /\ queue' = <<>>
    /\ state' = "Disconnected"
    /\ closer' = [closer EXCEPT ![c] = "returned"]
    /\ UNCHANGED <<opts, closed, gen, conn, reader, cause, supVars, reqVars>>

-----------------------------------------------------------------------------
(* The environment: which calls are made, when a context ends, what the    *)
(* network and the hook do.  The program: everything else.                 *)

Done ==
    /\ \A r \in Requests : call[r] = "returned"
    /\ \A c \in Closers : closer[c] = "returned"
    /\ closed /\ Quiet
    /\ UNCHANGED vars

RequestStep(r) ==
    \/ Gate(r) \/ CheckState(r) \/ Snapshot(r) \/ Register(r)
    \/ WriteFrame(r) \/ Await(r) \/ AwaitQueued(r)

Timer(r) == Timeout(r) \/ QueueDeadline(r)

ReaderStep(e) == ReadExit(e) \/ FailInflight(e) \/ Terminate(e) \/ TerminateState(e)

SupStep ==
    \/ SupStart \/ SupWatch \/ SupMark \/ SupTimer \/ SupInterrupted
    \/ SupDialFail \/ SupAdopt \/ SupAdopted \/ HookStart \/ HookOK \/ HookFail
    \/ SupLock \/ SupStore \/ Drain \/ DrainDone \/ SupGiveUp

CloserStep(c) == CloseWaited(c) \/ CloseInflight(c) \/ CloseQueued(c)

Next ==
    \/ \E r \in Requests :
          Invoke(r) \/ RequestStep(r) \/ Timer(r) \/ CancelCtx(r)
    \/ \E e \in Gens :
          \/ ReaderStep(e) \/ ConnLost(e) \/ HeartbeatDead(e)
          \/ \E r \in Requests : Response(e, r)
    \/ SupStep
    \/ \E c \in Closers : CloseBegin(c) \/ CloserStep(c)
    \/ Done

Spec == Init /\ [][Next]_vars

(* Every goroutine keeps running and every timer fires, but no timer ends  *)
(* a write that stalls.  A read loop must notice a transport that is down, *)
(* nothing makes a peer send garbage.  A select that sees closeCh closed   *)
(* again and again takes that branch, and a dial that is retried for ever  *)
(* succeeds at last.                                                       *)
ReadDown(e) == reader[e] = "reading" /\ conn[e] # "up" /\ ReadExit(e)

Fairness ==
    /\ \A r \in Requests :
          WF_vars(~Stalled(r) /\ RequestStep(r)) /\ WF_vars(Timer(r))
    /\ \A e \in Gens :
          /\ WF_vars(ReadDown(e))
          /\ WF_vars(FailInflight(e) \/ Terminate(e) \/ TerminateState(e))
    /\ WF_vars(SupStep)
    /\ SF_vars(SupInterrupted) /\ SF_vars(SupAdopt)
    /\ \A c \in Closers : WF_vars(CloserStep(c))

FairSpec == Spec /\ Fairness

-----------------------------------------------------------------------------
(* Correctness.                                                            *)

FlagsOK ==
    /\ opts \in Options
    /\ closed \in BOOLEAN
    /\ settling \in BOOLEAN
    /\ bypass \in BOOLEAN

ConnectionOK ==
    /\ state \in {"Connected", "Reconnecting", "Disconnected"}
    /\ gen \in Gens
    /\ conn \in [Gens -> {"none", "up", "lost", "shut"}]
    /\ reader \in [Gens -> {"none", "reading", "failing", "terminating",
                            "stopping", "done"}]
    /\ cause \in [Gens -> {"none", "net", "proto"}]
    /\ sup \in {"start", "watch", "mark", "backoff", "dial", "adopted", "hook",
                "hooking", "lock", "giveup", "exit"} \union GenMuHolders
    /\ hookOK \subseteq Gens
    /\ closer \in [Closers -> {"idle", "waiting", "closing", "draining", "returned"}]

QueueOK ==
    /\ queue \in Seq(Requests)
    /\ claimed \in [Requests -> {"none", "watch", "ctx", "close", "drain"}]
    /\ qres \in [Requests -> Results \union {"none"}]

CallOK ==
    /\ call \in [Requests -> {"idle", "gate", "direct", "queued", "returned"}]
    /\ ret \in [Requests -> Results \union {"none"}]
    /\ cancelled \subseteq Requests
    /\ direct \subseteq Requests
    /\ behind \in [Requests -> SUBSET Requests]

FrameOK ==
    /\ once \in [Requests -> {"none", "check", "snap", "register", "write",
                              "await", "done"}]
    /\ epoch \in [Requests -> 0..MaxGen]
    /\ inflight \subseteq Requests
    /\ reply \in [Requests -> Results \union {"none"}]
    /\ wire \in [Requests -> 0..MaxGen]

TypeOK == FlagsOK /\ ConnectionOK /\ QueueOK /\ CallOK /\ FrameOK

(* Exactly one party answers a request: the timer, the response, a lost    *)
(* connection, a cancelled ctx and Close race for the in-flight key; the   *)
(* drain, the deadline watch, ctx and Close race for the claim.  The       *)
(* winner finds the result channel empty, so its send never blocks         *)
(* (invoke.go 284-303, 356-358, 379-386; queue.go 9-12).                   *)
OneAnswer ==
    \A r \in Requests :
        /\ r \in inflight => reply[r] = "none"
        /\ claimed[r] = "none" => qres[r] = "none"
        /\ claimed[r] = "drain" /\ once[r] # "done" => qres[r] = "none"

(* A request its caller gave up in the queue is never sent (queue.go 12:   *)
(* side effects of an abandoned request must not happen).                  *)
AbandonedNeverSent ==
    \A r \in Requests :
        claimed[r] \in {"watch", "ctx", "close"} => wire[r] = 0

(* Queued requests go out strictly before requests made after them         *)
(* (channel.go 243), WithFailFast and the hook's own calls aside: when a   *)
(* frame is written, what was queued when its call began has been claimed, *)
(* which is sent by the drain or given up for good.                        *)
QueuedGoFirst ==
    \A r \in Requests :
        wire[r] # 0 /\ r \notin FailFast \union direct =>
            \A b \in behind[r] : claimed[b] # "none"

(* A queued request is only sent on a generation whose session hook has    *)
(* succeeded (channel.go 244-245).                                         *)
DrainedOnSettledGen ==
    \A r \in Requests :
        claimed[r] = "drain" /\ wire[r] # 0 => wire[r] \in hookOK

(* Once Close has returned nothing of the channel runs or is connected,    *)
(* also when a redial or a protocol error raced it (channel.go 408-429).   *)
CloseIsFinal ==
    (\E c \in Closers : closer[c] = "returned") =>
        /\ sup = "exit" /\ ~bypass
        /\ \A e \in Gens : conn[e] # "up" /\ reader[e] \in {"none", "done"}

(* No write stalls for ever: what the liveness below needs of the peer,    *)
(* and needs only where a write may block at all.                          *)
WritesEnd == []<>(\A r \in Requests : ~Stalled(r))

(* Every call of Invoke returns once the writes end, whatever else the     *)
(* network, the hook, the redials and Close do (invoke.go 274-303).        *)
InvokeReturns ==
    WritesEnd => \A r \in Requests : call[r] # "idle" ~> call[r] = "returned"

(* Close never hangs, not even behind a write that stalls: it closes the   *)
(* transport before it waits (channel.go 409-410, 416).                    *)
CloseReturns ==
    \A c \in Closers : closer[c] # "idle" ~> closer[c] = "returned"

(* A lost connection is replaced and the queue drained, unless the channel *)
(* is closed: after a failed hook as after a failed dial, once the writes  *)
(* of the drain end (channel.go 240-300).                                  *)
Recovers ==
    WritesEnd =>
        (AutoReconnect /\ conn[gen] # "up" ~>
            closed \/ (conn[gen] = "up" /\ state = "Connected" /\ queue = <<>>))

(* What Invoke promises, see InvokeContract.  A call is dropped when it    *)
(* lost its place in the queue, ended without a frame, or was refused.     *)
Fate(r) ==
    IF call[r] = "idle" THEN "idle"
    ELSE IF wire[r] # 0 THEN "sent"
    ELSE IF \/ claimed[r] \in {"watch", "ctx", "close"}
            \/ once[r] = "done"
            \/ call[r] = "returned" /\ once[r] = "none" /\ ~InQueue(r)
         THEN "dropped"
    ELSE "open"

Contract == INSTANCE InvokeContract
              WITH fate <- [r \in Requests |-> Fate(r)], result <- ret

(* The channel keeps the contract of Invoke: one result per call, at most  *)
(* one frame, none once given up (invoke.go 59-62, queue.go 9-12).         *)
KeepsContract == Contract!Spec

-----------------------------------------------------------------------------
(* What the source says and the code does not do.                          *)

(* channel.go 226-227: a channel ended by a protocol error is not set back *)
(* to Connected.                                                           *)
TerminatedStaysDown ==
    closed /\ Quiet /\ (\A c \in Closers : closer[c] # "closing")
        => state # "Connected"

(* heartbeat.go 54-55: generations are isolated, so the read loop of a     *)
(* dead generation does not fail the requests of its successor.            *)
FailsNoLaterGeneration ==
    [][\A e \in Gens : reader[e] = "failing" /\ reader'[e] # "failing" =>
          \A r \in inflight : epoch[r] <= e]_vars

(* channel.go 244-245: until the hook succeeds, no request but those made  *)
(* in the hook's own window goes out.                                      *)
NothingBeforeHook ==
    \A r \in Requests : wire[r] # 0 /\ r \notin direct => wire[r] \in hookOK

(* options.go 67, README.md 326: a call has ten seconds unless its context *)
(* says otherwise.  The timer is armed behind the write (invoke.go         *)
(* 229-231, 284), so a peer that does not read keeps the call, whoever     *)
(* waits for writeMu behind it, and the heartbeat's probe.                 *)
InvokeTimesOut ==
    \A r \in Requests : call[r] # "idle" ~> call[r] = "returned"

(* README.md 350: Close cancels every request in flight, so after it has   *)
(* returned nobody still waits for a response.                             *)
CloseCancelsInflight ==
    (\E c \in Closers : closer[c] = "returned") =>
        \A r \in inflight : once[r] # "await"
=============================================================================
