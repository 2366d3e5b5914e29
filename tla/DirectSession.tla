--------------------------- MODULE DirectSession ---------------------------
(***************************************************************************)
(* One battle session of the direct package: connection generations, the   *)
(* supervisors that redial, explicit Reconnect, callers of Invoke, the     *)
(* terminal states ended and failed with their linger window, and Close.   *)
(* Source: direct/session.go, session_reconnect.go, session_invoke.go,     *)
(* ended.go and session_push.go.                                           *)
(*                                                                         *)
(* Every generation starts a supervisor, named after it; the supervisor    *)
(* that redialled goes on too.  genMu sections are single steps, and so is *)
(* a check of the terminal flag with the genMu section behind it, which    *)
(* checks the flag again.  The replay of restore is one exchange with the   *)
(* current generation; its time-out may end it at any moment.              *)
(***************************************************************************)
EXTENDS Naturals, FiniteSets

CONSTANTS
    Requests,       \* calls of Invoke
    Reconnectors,   \* calls of Reconnect
    Closers,        \* calls of Close
    MaxGen,         \* bound: generations started
    ManualCap,      \* capacity of s.manual (8 in the code)
    Options         \* WithAutoReconnect, whether WithEndLinger is positive, and
                    \* whether a write of the transport may block: the
                    \* combinations explored

ASSUME DirectAssumption ==
    /\ MaxGen \in Nat \ {0}
    /\ ManualCap \in Nat
    /\ Options \subseteq [auto : BOOLEAN, linger : BOOLEAN, blocks : BOOLEAN]

VARIABLES
    opts,       \* the options of this session and its transport
    opened,     \* Open has returned
    closed,     \* s.closed and closeCh
    state,      \* s.state
    fatal,      \* s.fatal is set
    gen,        \* s.gen
    started,    \* generations started so far
    conn,       \* the connection of each generation
    reader,     \* readLoop of each generation; "done" is a closed g.done
    cause,      \* why each read loop ended
    sup,        \* where the supervisor started with each generation is
    watch,      \* the generation it watches
    manual,     \* tokens in s.manual
    waiters,    \* s.waiters
    rec,        \* where each call of Reconnect is
    answer,     \* its result channel, of capacity 1
    call,       \* where each call of Invoke is
    epoch,      \* the generation it writes to
    inflight,   \* keys of s.inflight
    reply,      \* its result channel, of capacity 1
    end,        \* how far markEnded is; end.flag is end # "none"
    kind,       \* the terminal state markEnded goes to
    linger,     \* waitLinger
    closer,     \* where each call of Close is
    wire,       \* history: the generation a frame was written to
    late        \* history: calls whose frame was written in a terminal state

connVars == <<gen, started, conn, reader, cause>>
supVars  == <<sup, watch>>
recVars  == <<manual, waiters, rec, answer>>
callVars == <<call, epoch, inflight, reply, wire, late>>
endVars  == <<end, kind, linger>>
vars == <<opts, opened, closed, state, fatal, connVars, supVars, recVars, callVars,
          endVars, closer>>

AutoReconnect == opts.auto
Linger        == opts.linger

\* WebSocket writes without a deadline; KCP sets one, UDP never blocks.
WriteBlocks   == opts.blocks

Gens == 1..MaxGen
Terminal == end # "none"
TerminalStates == {"Ended", "Failed"}

\* Fault: setState forgets the terminal flag.
AfterSetState_noflag(st) ==
    IF closed /\ st \notin TerminalStates \union {"Disconnected"} THEN state ELSE st

\* What setState(st) leaves in s.state.
AfterSetState(st) ==
    IF \/ Terminal /\ st \notin TerminalStates
       \/ closed /\ st \notin TerminalStates \union {"Disconnected"}
    THEN state ELSE st

SetState(st) == state' = AfterSetState(st)

Shut(e) == conn' = [conn EXCEPT ![e] = "shut"]

(* finishWaiters: one result to every waiter, and none is left.            *)
FinishWaiters(res) ==
    /\ waiters' = {}
    /\ answer' = [w \in Reconnectors |-> IF w \in waiters THEN res ELSE answer[w]]

\* Fault: Load where the code has LoadAndDelete.
SettleInflight_load(res) ==
    /\ UNCHANGED inflight
    /\ reply' = [r \in Requests |-> IF r \in inflight THEN res ELSE reply[r]]

(* settleInflight: every key is taken and its caller told.                 *)
SettleInflight(res) ==
    /\ inflight' = {}
    /\ reply' = [r \in Requests |-> IF r \in inflight THEN res ELSE reply[r]]

-----------------------------------------------------------------------------
(* Open has dialled and run startGeneration; it will set the state.        *)
Init ==
    /\ opts \in Options
    /\ opened = FALSE /\ closed = FALSE /\ fatal = FALSE
    /\ state = "Disconnected"
    /\ gen = 1 /\ started = 1
    /\ conn = [e \in Gens |-> IF e = 1 THEN "up" ELSE "none"]
    /\ reader = [e \in Gens |-> IF e = 1 THEN "reading" ELSE "none"]
    /\ cause = [e \in Gens |-> "none"]
    /\ sup = [e \in Gens |-> IF e = 1 THEN "await" ELSE "none"]
    /\ watch = [e \in Gens |-> e]
    /\ manual = 0 /\ waiters = {}
    /\ rec = [w \in Reconnectors |-> "idle"]
    /\ answer = [w \in Reconnectors |-> "none"]
    /\ call = [r \in Requests |-> "idle"]
    /\ epoch = [r \in Requests |-> 0]
    /\ inflight = {}
    /\ reply = [r \in Requests |-> "none"]
    /\ wire = [r \in Requests |-> 0]
    /\ late = {}
    /\ end = "none" /\ kind = "none" /\ linger = "none"
    /\ closer = [c \in Closers |-> "idle"]

OpenReturn ==
    /\ ~opened
    /\ opened' = TRUE
    /\ SetState("Connected")
    /\ UNCHANGED <<opts, closed, fatal, connVars, supVars, recVars, callVars,
                   endVars, closer>>

-----------------------------------------------------------------------------
(* The terminal state: markEnded.                                          *)

(* The compare and swap of end.flag: who wins goes on with the rest, in    *)
(* the actions below, before it returns.                                   *)
EndFlag(k) ==
    /\ end = "none"
    /\ end' = "flagged"
    /\ kind' = k
    /\ UNCHANGED linger

(* failed, reason and cause, and the state.                                *)
EndMark ==
    /\ end = "flagged"
    /\ end' = "marked"
    /\ SetState(kind)
    /\ UNCHANGED <<opts, opened, closed, fatal, connVars, supVars, recVars,
                   callVars, kind, linger, closer>>

\* Fault: the requests in flight are left to their time-out.
EndSettle_forgotten ==
    /\ end = "marked"
    /\ end' = "settled"
    /\ UNCHANGED <<opts, opened, closed, state, fatal, connVars, supVars,
                   recVars, callVars, kind, linger, closer>>

EndSettle ==
    /\ end = "marked"
    /\ end' = "settled"
    /\ SettleInflight("settled")
    /\ UNCHANGED <<opts, opened, closed, state, fatal, connVars, supVars,
                   recVars, call, epoch, wire, late, kind, linger, closer>>

MayLinger == ~closed

(* A failed session, and an ended one without a window, closes its         *)
(* connection; startLinger waits otherwise.  The caller of markEnded goes  *)
(* on.                                                                     *)
EndClose ==
    /\ end = "settled"
    /\ end' = "done"
    /\ \/ /\ kind = "Failed"
          /\ Shut(gen)
          /\ UNCHANGED linger
       \/ /\ kind = "Ended" /\ MayLinger /\ ~Linger
          /\ Shut(gen)
          /\ UNCHANGED linger
       \/ /\ kind = "Ended" /\ MayLinger /\ Linger
          /\ linger' = "armed"
          /\ UNCHANGED conn
       \/ /\ kind = "Ended" /\ ~MayLinger
          /\ UNCHANGED <<linger, conn>>
    /\ call' = [r \in Requests |->
                  IF call[r] = "ending" THEN "returned" ELSE call[r]]
    /\ reader' = [e \in Gens |->
                    IF reader[e] = "ending" THEN "reading" ELSE reader[e]]
    /\ sup' = [s \in Gens |-> IF sup[s] = "ending" THEN "failed" ELSE sup[s]]
    /\ UNCHANGED <<opts, opened, closed, state, fatal, gen, started, cause,
                   watch, recVars, epoch, inflight, reply, wire, late, kind,
                   closer>>

(* waitLinger: the window ends, or the session is closed.                  *)
LingerEnd ==
    /\ linger = "armed"
    /\ linger' = "done"
    /\ \/ closed /\ UNCHANGED conn
       \/ Shut(gen)
    /\ UNCHANGED <<opts, opened, closed, state, fatal, gen, started, reader,
                   cause, supVars, recVars, callVars, end, kind, closer>>

-----------------------------------------------------------------------------
(* Invoke.                                                                 *)

Return(r) ==
    /\ call' = [call EXCEPT ![r] = "returned"]
    /\ inflight' = inflight \ {r}

(* The public checks: terminal, not connected, else invoke.                *)
Invoke(r) ==
    /\ opened
    /\ call[r] = "idle"
    /\ \/ (Terminal \/ state # "Connected") /\ Return(r)
       \/ /\ ~Terminal /\ state = "Connected"
          /\ call' = [call EXCEPT ![r] = "snap"]
          /\ UNCHANGED inflight
    /\ UNCHANGED <<opts, opened, closed, state, fatal, connVars, supVars,
                   recVars, epoch, reply, wire, late, endVars, closer>>

(* currentGen, newInflight and writeRequest's check before the lock.       *)
Register(r) ==
    /\ call[r] = "snap"
    /\ epoch' = [epoch EXCEPT ![r] = gen]
    /\ \/ Terminal /\ Return(r)
       \/ /\ ~Terminal
          /\ call' = [call EXCEPT ![r] = "lock"]
          /\ inflight' = inflight \union {r}
    /\ UNCHANGED <<opts, opened, closed, state, fatal, connVars, supVars,
                   recVars, reply, wire, late, endVars, closer>>

\* Fault: the terminal flag is not checked again under writeMu.
MayWrite_once == TRUE

MayWrite == ~Terminal

(* writeMu is taken and the terminal flag checked again.                   *)
LockWrite(r) ==
    /\ call[r] = "lock"
    /\ \A q \in Requests : call[q] # "writing"
    /\ \/ ~MayWrite /\ Return(r)
       \/ /\ MayWrite
          /\ call' = [call EXCEPT ![r] = "writing"]
          /\ UNCHANGED inflight
    /\ UNCHANGED <<opts, opened, closed, state, fatal, connVars, supVars,
                   recVars, epoch, reply, wire, late, endVars, closer>>

(* The write under writeMu, which lasts as long as the peer does not read. *)
(* A frame to a peer that is gone is lost or fails; one to a closed        *)
(* connection fails, and so does one that meets the write deadline.        *)
WriteFrame(r) ==
    /\ call[r] = "writing"
    /\ \/ /\ conn[epoch[r]] \in {"up", "lost"}
          /\ call' = [call EXCEPT ![r] = "await"]
          /\ wire' = [wire EXCEPT ![r] = epoch[r]]
          /\ late' = IF Terminal THEN late \union {r} ELSE late
          /\ UNCHANGED inflight
       \/ /\ Return(r)
          /\ UNCHANGED <<wire, late>>
    /\ UNCHANGED <<opts, opened, closed, state, fatal, connVars, supVars,
                   recVars, epoch, reply, endVars, closer>>

\* The peer of a live connection may keep the write of r for ever.
Stalled(r) == WriteBlocks /\ call[r] = "writing" /\ conn[epoch[r]] = "up"

(* awaitReply: a result, a ctx that ends while the key is there, or        *)
(* closeCh.  A terminal rejection makes the caller run markEnded.          *)
Await(r) ==
    /\ call[r] = "await"
    /\ \/ /\ \/ reply[r] \notin TerminalStates \union {"none"}
             \/ reply[r] \in TerminalStates /\ Terminal
             \/ r \in inflight
             \/ closed
          /\ Return(r)
          /\ UNCHANGED endVars
       \/ /\ reply[r] \in TerminalStates
          /\ EndFlag(reply[r])
          /\ call' = [call EXCEPT ![r] = "ending"]
          /\ UNCHANGED inflight
    /\ UNCHANGED <<opts, opened, closed, state, fatal, connVars, supVars,
                   recVars, epoch, reply, wire, late, closer>>

\* Fault: the timer takes the key and forgets to send.
Timeout_silent(r) ==
    /\ call[r] = "await" /\ r \in inflight
    /\ inflight' = inflight \ {r}
    /\ UNCHANGED <<opts, opened, closed, state, fatal, connVars, supVars,
                   recVars, call, epoch, reply, wire, late, endVars, closer>>

(* The invoke timer.                                                       *)
Timeout(r) ==
    /\ call[r] = "await" /\ r \in inflight
    /\ inflight' = inflight \ {r}
    /\ reply' = [reply EXCEPT ![r] = "timeout"]
    /\ UNCHANGED <<opts, opened, closed, state, fatal, connVars, supVars,
                   recVars, call, epoch, wire, late, endVars, closer>>

-----------------------------------------------------------------------------
(* The read loop of generation e.                                          *)

(* dispatchResponse: by seq alone; nobody waits for a late response.       *)
Response(e, r, res) ==
    /\ reader[e] = "reading" /\ conn[e] # "shut"
    /\ wire[r] = e /\ r \in inflight
    /\ inflight' = inflight \ {r}
    /\ reply' = [reply EXCEPT ![r] = res]
    /\ UNCHANGED <<opts, opened, closed, state, fatal, connVars, supVars,
                   recVars, call, epoch, wire, late, endVars, closer>>

(* noteEndNotify: the read loop itself runs markEnded; a repeated          *)
(* notification changes nothing.                                           *)
EndNotify(e) ==
    /\ reader[e] = "reading" /\ conn[e] # "shut"
    /\ EndFlag("Ended")
    /\ reader' = [reader EXCEPT ![e] = "ending"]
    /\ UNCHANGED <<opts, opened, closed, state, fatal, gen, started, conn,
                   cause, supVars, recVars, callVars, closer>>

(* A read error, or a bad frame.                                           *)
ReadExit(e) ==
    /\ reader[e] = "reading"
    /\ \/ conn[e] \in {"lost", "shut"} /\ cause' = [cause EXCEPT ![e] = "net"]
       \/ conn[e] # "shut" /\ cause' = [cause EXCEPT ![e] = "proto"]
    /\ reader' = [reader EXCEPT ![e] = "failing"]
    /\ UNCHANGED <<opts, opened, closed, state, fatal, gen, started, conn,
                   supVars, recVars, callVars, endVars, closer>>

(* failInflight, then Close after a bad frame, then close(done).           *)
FailInflight(e) ==
    /\ reader[e] = "failing"
    /\ SettleInflight("lost")
    /\ reader' = [reader EXCEPT ![e] = "done"]
    /\ IF cause[e] = "proto" THEN Shut(e) ELSE UNCHANGED conn
    /\ UNCHANGED <<opts, opened, closed, state, fatal, gen, started, cause,
                   supVars, recVars, call, epoch, wire, late, endVars, closer>>

(* The network takes a connection away.                                    *)
ConnLost(e) ==
    /\ conn[e] = "up"
    /\ conn' = [conn EXCEPT ![e] = "lost"]
    /\ UNCHANGED <<opts, opened, closed, state, fatal, gen, started, reader,
                   cause, supVars, recVars, callVars, endVars, closer>>

-----------------------------------------------------------------------------
(* The supervisor that was started with generation s.                      *)

Go(s, from, to) == sup[s] = from /\ sup' = [sup EXCEPT ![s] = to]

SupOnly == UNCHANGED <<opts, opened, closed, fatal, connVars, watch, callVars,
                       endVars, closer>>

(* awaitEnd: closeCh, the end of the generation, or an explicit Reconnect, *)
(* which closes the connection and waits for the read loop.                *)
AwaitEnd(s) ==
    /\ \/ /\ closed
          /\ Go(s, "await", "exit")
          /\ UNCHANGED <<manual, conn>>
       \/ /\ reader[watch[s]] = "done"
          /\ Go(s, "await", "lost")
          /\ UNCHANGED <<manual, conn>>
       \/ /\ manual > 0
          /\ manual' = manual - 1
          /\ Shut(watch[s])
          /\ Go(s, "await", "drop")
    /\ UNCHANGED <<opts, opened, closed, state, fatal, gen, started, reader,
                   cause, watch, waiters, rec, answer, callVars, endVars,
                   closer>>

(* The generation is over: nothing to do in a terminal state, wait for     *)
(* Reconnect without automatic reconnection, else another round.           *)
GenerationOver(s) ==
    /\ \/ sup[s] = "lost"
       \/ sup[s] = "drop" /\ reader[watch[s]] = "done"
    /\ IF Terminal
       THEN /\ sup' = [sup EXCEPT ![s] = "exit"]
            /\ UNCHANGED state
       ELSE IF sup[s] = "lost" /\ ~AutoReconnect
       THEN /\ sup' = [sup EXCEPT ![s] = "idle"]
            /\ SetState("Disconnected")
       ELSE /\ sup' = [sup EXCEPT ![s] = "backoff"]
            /\ SetState("Reconnecting")
    /\ UNCHANGED recVars /\ SupOnly

(* waitManual.                                                             *)
WaitManual(s) ==
    /\ \/ /\ closed
          /\ Go(s, "idle", "exit")
          /\ FinishWaiters("closed")
          /\ UNCHANGED <<state, manual>>
       \/ /\ manual > 0
          /\ manual' = manual - 1
          /\ Go(s, "idle", "backoff")
          /\ SetState("Reconnecting")
          /\ UNCHANGED <<waiters, answer>>
    /\ UNCHANGED rec /\ SupOnly

(* reconnectRound: the backoff timer, or closeCh.                          *)
Backoff(s) ==
    /\ Go(s, "backoff", "dial")
    /\ UNCHANGED <<state, recVars>> /\ SupOnly

BackoffStop(s) ==
    /\ closed
    /\ Go(s, "backoff", "exit")
    /\ UNCHANGED <<state, recVars>> /\ SupOnly

(* The dial fails and is retried, or is refused for good.                  *)
DialFails(s) ==
    /\ \/ Go(s, "dial", "backoff")
       \/ Go(s, "dial", "failed")
    /\ UNCHANGED <<state, recVars>> /\ SupOnly

\* Fault: startGeneration does not look at closed.
MayStart_unchecked == TRUE

MayStart == ~closed
NextGen == started + 1

(* startGeneration: a new connection, read loop and supervisor, whatever   *)
(* the current ones do.                                                    *)
StartGeneration(s) ==
    LET new == NextGen IN
    /\ sup[s] = "dial"
    /\ \/ /\ ~MayStart
          /\ sup' = [sup EXCEPT ![s] = "exit"]
          /\ UNCHANGED <<connVars, watch>>
       \/ /\ MayStart /\ started < MaxGen
          /\ started' = new /\ gen' = new
          /\ conn' = [conn EXCEPT ![new] = "up"]
          /\ reader' = [reader EXCEPT ![new] = "reading"]
          /\ sup' = [sup EXCEPT ![s] = "restore", ![new] = "await"]
          /\ UNCHANGED <<cause, watch>>
    /\ UNCHANGED <<opts, opened, closed, state, fatal, recVars, callVars,
                   endVars, closer>>

(* restore: the replay succeeds, fails and is retried on a new connection, *)
(* is refused for good, or meets the terminal state.                       *)
Restore(s) ==
    /\ sup[s] = "restore"
    /\ \/ /\ reader[gen] = "reading" /\ conn[gen] # "shut"
          /\ ~Terminal
          /\ sup' = [sup EXCEPT ![s] = "ok"]
          /\ UNCHANGED <<conn, endVars>>
       \/ /\ Shut(gen)
          /\ sup' = [sup EXCEPT ![s] = "backoff"]
          /\ UNCHANGED endVars
       \/ /\ \/ reader[gen] = "reading" /\ conn[gen] # "shut"
             \/ Terminal
          /\ sup' = [sup EXCEPT ![s] = "failed"]
          /\ UNCHANGED <<conn, endVars>>
       \/ /\ closed
          /\ sup' = [sup EXCEPT ![s] = "exit"]
          /\ UNCHANGED <<conn, endVars>>
       \/ /\ reader[gen] = "reading" /\ conn[gen] # "shut"
          /\ \E k \in TerminalStates : EndFlag(k)
          /\ sup' = [sup EXCEPT ![s] = "ending"]
          /\ UNCHANGED conn
    /\ UNCHANGED <<opts, opened, closed, state, fatal, gen, started, reader,
                   cause, watch, recVars, callVars, closer>>

(* The round failed for good: setFatal, unless the session is terminal.    *)
SupFailed(s) ==
    /\ Go(s, "failed", "exit")
    /\ IF Terminal
       THEN UNCHANGED <<fatal, state>>
       ELSE fatal' = TRUE /\ SetState("Disconnected")
    /\ FinishWaiters("failed")
    /\ UNCHANGED <<opts, opened, closed, connVars, watch, manual, rec,
                   callVars, endVars, closer>>

SupRestored(s) ==
    /\ Go(s, "ok", "next")
    /\ SetState("Connected")
    /\ FinishWaiters("ok")
    /\ UNCHANGED <<manual, rec>> /\ SupOnly

(* currentGen: watch whatever is current by now.                           *)
SupNext(s) ==
    /\ Go(s, "next", "await")
    /\ watch' = [watch EXCEPT ![s] = gen]
    /\ UNCHANGED <<opts, opened, closed, state, fatal, connVars, recVars,
                   callVars, endVars, closer>>

-----------------------------------------------------------------------------
(* Reconnect.                                                              *)

(* The Terminal and Err checks.                                            *)
Reconnect(w) ==
    /\ opened
    /\ rec[w] = "idle"
    /\ rec' = [rec EXCEPT ![w] = IF Terminal \/ fatal THEN "returned" ELSE "enqueue"]
    /\ UNCHANGED <<opts, opened, closed, state, fatal, connVars, supVars,
                   manual, waiters, answer, callVars, endVars, closer>>

(* enqueueReconnect: first the waiter, then the token.                     *)
Enqueue(w) ==
    /\ rec[w] = "enqueue"
    /\ IF closed
       THEN /\ rec' = [rec EXCEPT ![w] = "returned"]
            /\ UNCHANGED waiters
       ELSE /\ rec' = [rec EXCEPT ![w] = "send"]
            /\ waiters' = waiters \union {w}
    /\ UNCHANGED <<opts, opened, closed, state, fatal, connVars, supVars,
                   manual, answer, callVars, endVars, closer>>

SendManual(w) ==
    /\ rec[w] = "send"
    /\ \/ /\ manual < ManualCap
          /\ manual' = manual + 1
          /\ rec' = [rec EXCEPT ![w] = "wait"]
       \/ /\ closed
          /\ rec' = [rec EXCEPT ![w] = "returned"]
          /\ UNCHANGED manual
    /\ UNCHANGED <<opts, opened, closed, state, fatal, connVars, supVars,
                   waiters, answer, callVars, endVars, closer>>

ReconnectReturn(w) ==
    /\ rec[w] = "wait"
    /\ closed \/ answer[w] # "none"
    /\ rec' = [rec EXCEPT ![w] = "returned"]
    /\ UNCHANGED <<opts, opened, closed, state, fatal, connVars, supVars,
                   manual, waiters, answer, callVars, endVars, closer>>

(* ctx.Done, while sending the token or waiting: the waiter stays.         *)
ReconnectCancel(w) ==
    /\ rec[w] \in {"send", "wait"}
    /\ rec' = [rec EXCEPT ![w] = "returned"]
    /\ UNCHANGED <<opts, opened, closed, state, fatal, connVars, supVars,
                   manual, waiters, answer, callVars, endVars, closer>>

-----------------------------------------------------------------------------
(* Close.                                                                  *)

\* Fault: the supervisors are not counted in s.wg.
Quiet_nosup == linger # "armed" /\ \A e \in Gens : reader[e] \in {"none", "done"}

\* s.wg is at zero.
Quiet ==
    /\ \A e \in Gens : reader[e] \in {"none", "done"} /\ sup[e] \in {"none", "exit"}
    /\ linger # "armed"

(* The first caller closes closeCh and the current connection.             *)
CloseBegin(c) ==
    /\ opened
    /\ closer[c] = "idle"
    /\ closed' = TRUE
    /\ IF closed
       THEN /\ closer' = [closer EXCEPT ![c] = "waiting"]
            /\ UNCHANGED conn
       ELSE /\ closer' = [closer EXCEPT ![c] = "closing"]
            /\ Shut(gen)
    /\ UNCHANGED <<opts, opened, state, fatal, gen, started, reader, cause,
                   supVars, recVars, callVars, endVars>>

(* failInflight, finishWaiters and the state.                              *)
CloseSettle(c) ==
    /\ closer[c] = "closing"
    /\ closer' = [closer EXCEPT ![c] = "waiting"]
    /\ SettleInflight("lost")
    /\ FinishWaiters("closed")
    /\ SetState("Disconnected")
    /\ UNCHANGED <<opts, opened, closed, fatal, connVars, supVars, manual, rec,
                   call, epoch, wire, late, endVars>>

CloseReturn(c) ==
    /\ closer[c] = "waiting" /\ Quiet
    /\ closer' = [closer EXCEPT ![c] = "returned"]
    /\ UNCHANGED <<opts, opened, closed, state, fatal, connVars, supVars,
                   recVars, callVars, endVars>>

-----------------------------------------------------------------------------
Done ==
    /\ \A r \in Requests : call[r] = "returned"
    /\ \A w \in Reconnectors : rec[w] = "returned"
    /\ \A c \in Closers : closer[c] # "idle"
    /\ \A s \in Gens : sup[s] \in {"none", "exit"}
    /\ linger # "armed"
    /\ end \in {"none", "done"}
    /\ UNCHANGED vars

CallStep(r) == Register(r) \/ LockWrite(r) \/ WriteFrame(r) \/ Await(r)

EndStep == EndMark \/ EndSettle \/ EndClose \/ LingerEnd

SupStep(s) ==
    \/ AwaitEnd(s) \/ GenerationOver(s) \/ WaitManual(s) \/ Backoff(s)
    \/ BackoffStop(s) \/ DialFails(s) \/ StartGeneration(s) \/ Restore(s) \/ SupFailed(s)
    \/ SupRestored(s) \/ SupNext(s)

RecStep(w) == Enqueue(w) \/ SendManual(w) \/ ReconnectReturn(w)

CloserStep(c) == CloseSettle(c) \/ CloseReturn(c)

Next ==
    \/ OpenReturn
    \/ \E r \in Requests :
          \/ Invoke(r) \/ CallStep(r) \/ Timeout(r)
          \/ \E e \in Gens, res \in {"reply"} \union TerminalStates : Response(e, r, res)
    \/ EndStep
    \/ \E e \in Gens :
          EndNotify(e) \/ ReadExit(e) \/ FailInflight(e) \/ ConnLost(e) \/ SupStep(e)
    \/ \E w \in Reconnectors : Reconnect(w) \/ RecStep(w) \/ ReconnectCancel(w)
    \/ \E c \in Closers : CloseBegin(c) \/ CloserStep(c)
    \/ Done

Spec == Init /\ [][Next]_vars

(* Goroutines keep running and timers fire, but no timer ends a write that *)
(* stalls; a read loop notices that its connection is down; a select that  *)
(* sees closeCh again and again takes it.                                  *)
Fairness ==
    /\ WF_vars(OpenReturn)
    /\ \A r \in Requests :
          WF_vars(~Stalled(r) /\ CallStep(r)) /\ WF_vars(Timeout(r))
    /\ WF_vars(EndMark) /\ WF_vars(EndSettle) /\ WF_vars(EndClose) /\ WF_vars(LingerEnd)
    /\ \A e \in Gens :
          /\ WF_vars(conn[e] # "up" /\ ReadExit(e))
          /\ WF_vars(FailInflight(e))
          /\ WF_vars(SupStep(e))
          /\ SF_vars(BackoffStop(e))
    /\ \A w \in Reconnectors : WF_vars(RecStep(w))
    /\ \A c \in Closers : WF_vars(CloserStep(c))

FairSpec == Spec /\ Fairness

-----------------------------------------------------------------------------
(* Correctness.                                                            *)

TypeOK ==
    /\ opts \in Options
    /\ opened \in BOOLEAN /\ closed \in BOOLEAN /\ fatal \in BOOLEAN
    /\ state \in {"Connected", "Reconnecting", "Disconnected"} \union TerminalStates
    /\ gen \in Gens /\ started \in Gens
    /\ conn \in [Gens -> {"none", "up", "lost", "shut"}]
    /\ reader \in [Gens -> {"none", "reading", "ending", "failing", "done"}]
    /\ cause \in [Gens -> {"none", "net", "proto"}]
    /\ sup \in [Gens -> {"none", "await", "lost", "drop", "idle", "backoff", "dial",
                         "restore", "ending", "failed", "ok", "next", "exit"}]
    /\ watch \in [Gens -> Gens]
    /\ manual \in 0..ManualCap
    /\ waiters \subseteq Reconnectors
    /\ rec \in [Reconnectors -> {"idle", "enqueue", "send", "wait", "returned"}]
    /\ answer \in [Reconnectors -> {"none", "ok", "failed", "closed"}]
    /\ call \in [Requests -> {"idle", "snap", "lock", "writing", "await", "ending",
                              "returned"}]
    /\ epoch \in [Requests -> 0..MaxGen]
    /\ inflight \subseteq Requests
    /\ reply \in [Requests -> {"none", "reply", "lost", "timeout", "settled"}
                              \union TerminalStates]
    /\ wire \in [Requests -> 0..MaxGen]
    /\ late \subseteq Requests
    /\ end \in {"none", "flagged", "marked", "settled", "done"}
    /\ kind \in {"none"} \union TerminalStates
    /\ linger \in {"none", "armed", "done"}
    /\ closer \in [Closers -> {"idle", "closing", "waiting", "returned"}]

(* A terminal state is final: no supervisor, no Open, no Close that was    *)
(* about to store another state takes it back (session.go 258-269).        *)
TerminalIsFinal ==
    [][/\ state \in TerminalStates => state' = state
       /\ Terminal => Terminal' /\ kind' = kind]_vars

(* At most the frame whose writer held writeMu when the session became     *)
(* terminal is still written (ended.go 13, session_invoke.go 79-80).       *)
LastFrame == Cardinality(late) <= 1

(* From the moment markEnded has settled, nobody waits for a response:     *)
(* every call has its result, also one that registered while the session   *)
(* was ending (ended.go 121; README 268).                                  *)
NobodyLeftWaiting ==
    end \in {"settled", "done"} =>
        \A r \in Requests : call[r] = "await" => r \notin inflight

(* One result per key and per waiter, so no send into a result channel     *)
(* blocks while it holds up a read loop, Close or a supervisor.            *)
OneResult ==
    /\ \A r \in inflight : reply[r] = "none"
    /\ \A w \in waiters : answer[w] = "none"

(* Close has the last word: once it has returned no goroutine of the       *)
(* session runs or is started, no connection is open, and the state is not *)
(* a live one unless markEnded, or the Close that was first, has yet to    *)
(* store its own (session.go 211-231).                                     *)
CloseIsFinal ==
    (\E c \in Closers : closer[c] = "returned") =>
        /\ linger # "armed"
        /\ \A e \in Gens :
              conn[e] # "up" /\ reader[e] \in {"none", "done"}
              /\ sup[e] \in {"none", "exit"}
        /\ \/ state \in TerminalStates \union {"Disconnected"}
           \/ end = "flagged"
           \/ \E c \in Closers : closer[c] = "closing"

(* No connection is taken into a closed session (session.go 163-168).      *)
NoStartAfterClose == [][closed => started' = started]_vars

(* No write stalls for ever: what the liveness below needs of the peer,    *)
(* and needs only where a write may block at all.                          *)
WritesEnd == []<>(\A r \in Requests : ~Stalled(r))

(* Every call of Invoke returns once the writes end, whatever else the     *)
(* connection, the terminal state and Close do (session_invoke.go 104).    *)
InvokeReturns ==
    WritesEnd => \A r \in Requests : call[r] # "idle" ~> call[r] = "returned"

-----------------------------------------------------------------------------
(* What the source says and the code does not do.                          *)

(* options.go 108, README 288: one request has ten seconds.  The timer is  *)
(* armed behind the write (session_invoke.go 93-98, 115), so over          *)
(* WebSocket a peer that does not read keeps the call, every other one     *)
(* that waits for writeMu, and the probe of the heartbeat.                 *)
InvokeTimesOut ==
    \A r \in Requests : call[r] # "idle" ~> call[r] = "returned"

(* README 248: in a terminal state the session no longer reconnects.       *)
NoReconnectOnceTerminal == [][Terminal => started' = started]_vars

(* ended.go 45-46: that the battle has ended can always be told.           *)
EndedNow == Terminal /\ ~(kind = "Failed" /\ end # "flagged")
EndedStays == [][EndedNow => EndedNow']_vars

(* ended.go 125: a failed session leaves no socket and no read loop.       *)
FailedLeavesNoSocket ==
    kind = "Failed" /\ end = "done" => \A e \in Gens : conn[e] # "up"

(* session_reconnect.go 34: a waiter is always given a result, so as long  *)
(* as one waits there is somebody to give it.                              *)
WaiterIsServed ==
    \A w \in waiters :
        rec[w] = "wait" => closed \/ \E s \in Gens : sup[s] \notin {"none", "exit"}

(* options.go 139: a refusal ends the session and is not retried.          *)
FatalEndsSession == [][fatal => started' = started]_vars

(* session_heartbeat_test.go 310: after Close every goroutine goes away,   *)
(* so no read loop is left on a connection that nobody closed.             *)
CloseStopsReaders ==
    closed => \A e \in Gens : reader[e] = "reading" => conn[e] # "up"

(* session_ended_test.go 318: Close leaves nothing behind; a connection    *)
(* that the network took and that has a successor is closed by nobody,     *)
(* which keeps the goroutines and the socket of a KCP flow (transport.go   *)
(* 214-221).                                                               *)
CloseShutsAll ==
    (\E c \in Closers : closer[c] = "returned") => \A e \in 1 .. started : conn[e] # "lost"

(* session.go 18: Connected means that the current connection is usable;   *)
(* it does not stand while every supervisor waits for Reconnect.           *)
ConnectedIsUsable ==
    opened /\ (\A s \in Gens : sup[s] \in {"none", "idle"}) => state # "Connected"
=============================================================================
