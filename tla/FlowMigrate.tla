---------------------------- MODULE FlowMigrate ----------------------------
(***************************************************************************)
(* The packet connection under KCP whose UDP socket is replaced when the   *)
(* network changes: reads, writes, merged switch requests, the migration,  *)
(* the death of the flow and Close.  Source: direct/netmigrate.go,         *)
(* direct/netmigrate_switch.go and direct/netmigrate_dead.go.              *)
(*                                                                         *)
(* A socket is the number of the dial that made it, and stands for the     *)
(* flowEndpoint that holds it; a goroutine that holds none has 0.  mu and  *)
(* switchMu sections are single steps.                                     *)
(* Times are choices: wherever the code compares a time that was set with  *)
(* the clock, both outcomes are possible.                                  *)
(***************************************************************************)
EXTENDS Naturals

CONSTANTS
    Writers,        \* goroutines of KCP that write
    Loops,          \* goroutines running switchLoop; one at a time suffices
    MaxSockets,     \* bound: sockets dialled
    SwallowMax      \* limits.SwallowMax

ASSUME FlowAssumption ==
    /\ MaxSockets \in Nat \ {0}
    /\ SwallowMax \in Nat \ {0}

VARIABLES
    cur,        \* the socket of c.cur
    sock,       \* each socket
    closed,     \* c.closed
    switching, pending,
    windowed,   \* windowStart is set
    switched,   \* lastSwitchAt is set
    since,      \* swallowSince is set
    swallowed,  \* c.swallowed
    dead,       \* c.dead
    cancelOf,   \* the loops whose context switchCancel ends: at most one
    cancelled,  \* loops whose context is done
    loop,       \* where each switchLoop is
    mine,       \* the socket a loop has dialled, then the one it replaced
    reader,     \* where KCP's read loop is
    readSock,   \* the socket it reads
    out,        \* the error ReadFrom returned, or "none"
    writer,     \* where each writer is
    writeSock,  \* the socket it writes
    watcher,    \* where the goroutine of startWatcher is
    closer,     \* where Close is
    closing,    \* the socket Close will close

    broken      \* history: the network reported an error to a read

endVars   == <<cur, sock, closed>>
switchVars == <<switching, pending, windowed, switched, cancelOf, cancelled>>
deadVars  == <<since, swallowed, dead>>
loopVars  == <<loop, mine>>
readVars  == <<reader, readSock, out, broken>>
writeVars == <<writer, writeSock>>
closeVars == <<closer, closing>>
vars == <<endVars, switchVars, deadVars, loopVars, readVars, writeVars, watcher,
          closeVars>>

Sockets == 1..MaxSockets
Reasons == {"idle", "swallow"}

Shut(s) == sock' = [sock EXCEPT ![s] = "shut"]

\* Fault: requests are not merged while a migration runs.
Merge_never == FALSE
\* Fault: Close is not looked at again before the socket is installed.
MayInstall_unchecked == TRUE
\* Fault: the old socket is closed as soon as there is another.
Dialled_shutting(s) == [sock EXCEPT ![s] = "open", ![cur] = "shut"]
\* Fault: the time alone counts.
OverBudget_never(n) == FALSE
\* Fault: the error of a socket that was replaced is passed on.
Stale_never(s) == FALSE

Merge == switching
MayInstall == ~closed
Dialled(s) == [sock EXCEPT ![s] = "open"]
OverBudget(n) == n > SwallowMax
Stale(s) == s # cur
SeesDead == dead # "none"

\* c.dead is set once.
MarkDead(reason) == dead' = IF dead = "none" THEN reason ELSE dead

-----------------------------------------------------------------------------
(* newFlowPacketConn: the first socket is dialled, the watcher started.    *)
Init ==
    /\ cur = 1
    /\ sock = [s \in Sockets |-> IF s = 1 THEN "open" ELSE "none"]
    /\ closed = FALSE
    /\ switching = FALSE /\ pending = FALSE
    /\ windowed = FALSE /\ switched = FALSE
    /\ since = FALSE /\ swallowed = 0 /\ dead = "none"
    /\ cancelOf = {} /\ cancelled = {}
    /\ loop = [l \in Loops |-> "idle"]
    /\ mine = [l \in Loops |-> 0]
    /\ reader = "top" /\ readSock = 0 /\ out = "none"
    /\ writer = [w \in Writers |-> "idle"]
    /\ writeSock = [w \in Writers |-> 0]
    /\ watcher = "wait"
    /\ closer = "idle" /\ closing = 0
    /\ broken = FALSE

(* requestSwitch, whose callers have looked at closed when they get here:  *)
(* drop it when Close came first, merge with the migration that is running,*)
(* skip one too soon after the last, or start one.                         *)
Request ==
    \/ /\ Merge
       /\ pending' = TRUE
       /\ UNCHANGED <<switching, windowed, switched, cancelOf, cancelled, loop>>
    \/ /\ closed \/ (~Merge /\ switched)
       /\ UNCHANGED <<switchVars, loop>>
    \/ \E l \in Loops :
          /\ ~Merge
          /\ loop[l] = "idle"
          /\ switching' = TRUE
          /\ pending' = TRUE
          /\ windowed' = TRUE
          /\ cancelOf' = {l}
          /\ loop' = [loop EXCEPT ![l] = "dial"]
          /\ UNCHANGED <<switched, cancelled>>

-----------------------------------------------------------------------------
(* switchLoop and migrate.                                                 *)

LoopMove(l, from, to) ==
    /\ loop[l] = from
    /\ loop' = [loop EXCEPT ![l] = to]

ShutMine(l) == Shut(mine[l]) /\ mine' = [mine EXCEPT ![l] = 0]

LoopOnly == <<readVars, writeVars, watcher, closeVars>>

(* dialSocket makes the next socket.                                       *)
Dial(l) ==
    /\ LoopMove(l, "dial", "hello")
    /\ \E s \in Sockets :
          /\ \A k \in Sockets : k < s <=> sock[k] # "none"
          /\ sock' = Dialled(s)
          /\ mine' = [mine EXCEPT ![l] = s]
    /\ UNCHANGED <<cur, closed, switchVars, deadVars, LoopOnly>>

DialFail(l) ==
    /\ LoopMove(l, "dial", "failed")
    /\ UNCHANGED <<endVars, switchVars, deadVars, mine, LoopOnly>>

(* helloFlow: no answer, a refusal, or busy once too often.                *)
HelloFail(l) ==
    /\ LoopMove(l, "hello", "failed")
    /\ ShutMine(l)
    /\ UNCHANGED <<cur, closed, switchVars, deadVars, LoopOnly>>

(* The mu section of migrate: closed is looked at again, then cur is set.  *)
Install(l) ==
    /\ MayInstall
    /\ LoopMove(l, "hello", "replaced")
    /\ cur' = mine[l]
    /\ mine' = [mine EXCEPT ![l] = cur]
    /\ UNCHANGED <<sock, closed, switchVars, deadVars, LoopOnly>>

InstallRefused(l) ==
    /\ ~MayInstall
    /\ LoopMove(l, "hello", "decide")
    /\ ShutMine(l)
    /\ UNCHANGED <<cur, closed, switchVars, deadVars, LoopOnly>>

(* Only now the old socket is closed.                                      *)
ShutOld(l) ==
    /\ LoopMove(l, "replaced", "reset")
    /\ ShutMine(l)
    /\ UNCHANGED <<cur, closed, switchVars, deadVars, LoopOnly>>

ResetSwallowed(l) ==
    /\ LoopMove(l, "reset", "settle")
    /\ swallowed' = 0
    /\ UNCHANGED <<endVars, switchVars, since, dead, mine, LoopOnly>>

Settle(l) ==
    /\ LoopMove(l, "settle", "success")
    /\ since' = FALSE
    /\ switched' = TRUE
    /\ UNCHANGED <<endVars, switching, pending, windowed, cancelOf, cancelled,
                   swallowed, dead, mine, LoopOnly>>

(* A failure counts as a switch for the debounce.                          *)
Failed(l) ==
    /\ LoopMove(l, "failed", "decide")
    /\ switched' = TRUE
    /\ UNCHANGED <<endVars, switching, pending, windowed, cancelOf, cancelled,
                   deadVars, mine, LoopOnly>>

(* switchLoop: success voids what was requested meanwhile; after a failure *)
(* a request makes it try again.                                           *)
Decide(l) ==
    /\ \/ /\ LoopMove(l, "success", "finish")
          /\ pending' = FALSE
       \/ /\ ~pending \/ closed
          /\ LoopMove(l, "decide", "finish")
          /\ UNCHANGED pending
       \/ /\ pending /\ ~closed
          /\ LoopMove(l, "decide", "sleep")
          /\ pending' = FALSE
    /\ UNCHANGED <<endVars, switching, windowed, switched, cancelOf, cancelled,
                   deadVars, mine, LoopOnly>>

Retry(l) ==
    /\ \/ LoopMove(l, "sleep", "dial")
       \/ l \in cancelled /\ LoopMove(l, "sleep", "finish")
    /\ UNCHANGED <<endVars, switchVars, deadVars, mine, LoopOnly>>

(* finishSwitch.                                                           *)
Finish(l) ==
    /\ LoopMove(l, "finish", "idle")
    /\ switching' = FALSE
    /\ cancelOf' = {}
    /\ cancelled' = cancelled \ {l}
    /\ UNCHANGED <<endVars, pending, windowed, switched, deadVars, mine, LoopOnly>>

LoopStep(l) ==
    \/ Dial(l) \/ DialFail(l) \/ HelloFail(l) \/ Install(l) \/ InstallRefused(l)
    \/ ShutOld(l) \/ ResetSwallowed(l) \/ Settle(l) \/ Failed(l) \/ Decide(l)
    \/ Retry(l) \/ Finish(l)

-----------------------------------------------------------------------------
(* ReadFrom, called again and again by KCP's read loop.                    *)

ReadOnly == <<writeVars, watcher, closeVars>>

ReadMove(from, to) == reader = from /\ reader' = to /\ UNCHANGED readSock

\* The next round of ReadFrom, or its next call.
ReadAgain(from) == reader = from /\ reader' = "top" /\ readSock' = 0

\* ReadFrom returns an error, which ends KCP's read loop.
ReadFails(from, err) ==
    /\ reader = from /\ reader' = "ended"
    /\ readSock' = 0
    /\ out' = err

(* The top of the loop: dead, closed, or read the current socket.          *)
ReadTop ==
    /\ \/ SeesDead /\ ReadFails("top", "dead")
       \/ ~SeesDead /\ closed /\ ReadFails("top", "closed")
       \/ /\ ~SeesDead /\ ~closed
          /\ reader = "top" /\ reader' = "read"
          /\ readSock' = cur
          /\ UNCHANGED out
    /\ UNCHANGED <<endVars, switchVars, deadVars, loopVars, broken, ReadOnly>>

(* sock.Read: a datagram, the deadline, or the socket was closed.          *)
ReadSocket ==
    /\ reader = "read"
    /\ \/ sock[readSock] = "open" /\ ~closed /\ ReadAgain("read") /\ UNCHANGED out
       \/ sock[readSock] = "open" /\ closed /\ ReadFails("read", "closed")
       \/ sock[readSock] = "open" /\ ReadMove("read", "tick") /\ UNCHANGED out
       \/ sock[readSock] = "shut" /\ ReadMove("read", "shut") /\ UNCHANGED out
    /\ UNCHANGED <<endVars, switchVars, deadVars, loopVars, broken, ReadOnly>>

(* sock.Read: the network reports an error.                                *)
ReadBreaks ==
    /\ ReadMove("read", "net")
    /\ sock[readSock] = "open"
    /\ broken' = TRUE
    /\ UNCHANGED <<endVars, switchVars, deadVars, loopVars, out, ReadOnly>>

(* An error is looked at: closed, a socket that was replaced meanwhile, an *)
(* error to return, or the deadline and with it checkTimers.               *)
ReadError ==
    /\ reader \in {"net", "shut", "tick"}
    /\ \/ closed /\ ReadFails(reader, "closed") /\ UNCHANGED dead
       \/ /\ ~closed /\ Stale(readSock)
          /\ ReadAgain(reader)
          /\ UNCHANGED <<out, dead>>
       \/ /\ ~closed /\ ~Stale(readSock) /\ reader \in {"net", "shut"}
          /\ ReadFails(reader, reader)
          /\ UNCHANGED dead
       \/ /\ ~closed /\ ~Stale(readSock) /\ reader = "tick"
          /\ \/ ReadAgain("tick") /\ UNCHANGED <<out, dead>>
             \/ ReadMove("tick", "ask") /\ UNCHANGED <<out, dead>>
             \/ ReadFails("tick", "dead") /\ MarkDead("idle")
    /\ UNCHANGED <<endVars, switchVars, since, swallowed, loopVars, broken,
                   ReadOnly>>

(* Nothing received for T1 although something was written.                 *)
ReadRequest ==
    /\ ReadAgain("ask")
    /\ Request
    /\ UNCHANGED <<endVars, deadVars, mine, out, broken, ReadOnly>>

-----------------------------------------------------------------------------
(* WriteTo, whose error ends KCP's session for good.                       *)

WriteOnly == <<readVars, watcher, closeVars>>

WriteMove(w, from, to) ==
    /\ writer[w] = from
    /\ writer' = [writer EXCEPT ![w] = to]
    /\ UNCHANGED writeSock

WriteEnds(w, from, to) ==
    /\ writer[w] = from
    /\ writer' = [writer EXCEPT ![w] = to]
    /\ writeSock' = [writeSock EXCEPT ![w] = 0]

Write(w) ==
    /\ \/ /\ SeesDead \/ closed
          /\ WriteEnds(w, "idle", "failed")
       \/ /\ ~SeesDead /\ ~closed
          /\ writer[w] = "idle"
          /\ writer' = [writer EXCEPT ![w] = "write"]
          /\ writeSock' = [writeSock EXCEPT ![w] = cur]
    /\ UNCHANGED <<endVars, switchVars, deadVars, loopVars, WriteOnly>>

(* sock.Write: an open socket may fail too.                                *)
WriteSocket(w) ==
    /\ \/ WriteEnds(w, "write", "idle") /\ sock[writeSock[w]] = "open"
       \/ WriteMove(w, "write", "error")
    /\ UNCHANGED <<endVars, switchVars, deadVars, loopVars, WriteOnly>>

WriteError(w) ==
    /\ \/ closed /\ WriteEnds(w, "error", "failed")
       \/ ~closed /\ WriteMove(w, "error", "ask")
    /\ UNCHANGED <<endVars, switchVars, deadVars, loopVars, WriteOnly>>

(* onWriteError: request a switch, then swallow the error in the window.   *)
WriteRequest(w) ==
    /\ WriteMove(w, "ask", "window")
    /\ Request
    /\ UNCHANGED <<endVars, deadVars, mine, WriteOnly>>

WriteWindow(w) ==
    /\ \/ windowed /\ WriteMove(w, "window", "swallow")
       \/ WriteEnds(w, "window", "failed")
    /\ UNCHANGED <<endVars, switchVars, deadVars, loopVars, WriteOnly>>

(* noteSwallowed: the count, then the switchMu section, then markDead; the *)
(* time is over only when swallowSince was set before.                     *)
Swallow(w) ==
    /\ WriteMove(w, "swallow", IF OverBudget(swallowed + 1) THEN "over" ELSE "time")
    /\ swallowed' = swallowed + 1
    /\ UNCHANGED <<endVars, switchVars, since, dead, loopVars, WriteOnly>>

SwallowSince(w) ==
    /\ \/ WriteMove(w, "over", "mark")
       \/ since /\ WriteMove(w, "time", "mark")
       \/ WriteEnds(w, "time", "idle")
    /\ since' = TRUE
    /\ UNCHANGED <<endVars, switchVars, swallowed, dead, loopVars, WriteOnly>>

SwallowMark(w) ==
    /\ WriteEnds(w, "mark", "idle")
    /\ MarkDead("swallow")
    /\ UNCHANGED <<endVars, switchVars, since, swallowed, loopVars, WriteOnly>>

WriterStep(w) ==
    \/ WriteSocket(w) \/ WriteError(w) \/ WriteRequest(w) \/ WriteWindow(w)
    \/ Swallow(w) \/ SwallowSince(w) \/ SwallowMark(w)

-----------------------------------------------------------------------------
(* The watcher's goroutine, and Close, whose body runs once.               *)

NetworkChange ==
    /\ watcher = "wait"
    /\ watcher' = IF closed THEN "done" ELSE "ask"
    /\ UNCHANGED <<endVars, switchVars, deadVars, loopVars, readVars, writeVars,
                   closeVars>>

WatcherRequest ==
    /\ watcher = "ask"
    /\ watcher' = "wait"
    /\ Request
    /\ UNCHANGED <<endVars, deadVars, mine, readVars, writeVars, closeVars>>

CloseOnly == <<deadVars, loopVars, readVars, writeVars, watcher>>

Close ==
    /\ closer = "idle"
    /\ closer' = "current"
    /\ closed' = TRUE
    /\ UNCHANGED <<cur, sock, switchVars, closing, CloseOnly>>

CloseCurrent ==
    /\ closer = "current"
    /\ closer' = "cancel"
    /\ closing' = cur
    /\ UNCHANGED <<endVars, switchVars, CloseOnly>>

CloseCancel ==
    /\ closer = "cancel"
    /\ closer' = "shut"
    /\ cancelled' = cancelled \union cancelOf
    /\ UNCHANGED <<endVars, switching, pending, windowed, switched, cancelOf,
                   closing, CloseOnly>>

CloseShut ==
    /\ closer = "shut"
    /\ closer' = "done"
    /\ Shut(closing)
    /\ closing' = 0
    /\ UNCHANGED <<cur, closed, switchVars, CloseOnly>>

CloserStep == CloseCurrent \/ CloseCancel \/ CloseShut

\* Everything has stopped.
Done ==
    /\ closer = "done" /\ reader = "ended" /\ watcher = "done"
    /\ \A l \in Loops : loop[l] = "idle"
    /\ \A w \in Writers : writer[w] = "failed"
    /\ UNCHANGED vars

ReaderStep == ReadTop \/ ReadSocket \/ ReadError \/ ReadRequest

Next ==
    \/ \E l \in Loops : LoopStep(l)
    \/ ReaderStep \/ ReadBreaks
    \/ \E w \in Writers : Write(w) \/ WriterStep(w)
    \/ NetworkChange \/ WatcherRequest
    \/ Close \/ CloserStep
    \/ Done

Spec == Init /\ [][Next]_vars

(* Goroutines that can run do run, a read meets its deadline, the network  *)
(* answers or the hello times out.  Nobody has to write, to see the        *)
(* network change or to close.                                             *)
FairSpec ==
    /\ Spec
    /\ \A l \in Loops : WF_vars(LoopStep(l))
    /\ WF_vars(ReaderStep)
    /\ \A w \in Writers : WF_vars(WriterStep(w))
    /\ WF_vars(WatcherRequest)
    /\ WF_vars(CloserStep)

-----------------------------------------------------------------------------
(* Correctness.                                                            *)

TypeOK ==
    /\ cur \in Sockets
    /\ sock \in [Sockets -> {"none", "open", "shut"}]
    /\ {closed, switching, pending, windowed, switched, since, broken} \subseteq BOOLEAN
    /\ swallowed \in Nat
    /\ dead \in Reasons \union {"none"}
    /\ cancelOf \subseteq Loops /\ cancelled \subseteq Loops
    /\ loop \in [Loops -> {"idle", "dial", "hello", "failed", "replaced", "reset",
                           "settle", "success", "decide", "sleep", "finish"}]
    /\ mine \in [Loops -> Sockets \union {0}]
    /\ reader \in {"top", "read", "net", "shut", "tick", "ask", "ended"}
    /\ readSock \in Sockets \union {0}
    /\ out \in {"none", "dead", "closed", "net", "shut"}
    /\ writer \in [Writers -> {"idle", "write", "error", "ask", "window", "swallow",
                               "over", "time", "mark", "failed"}]
    /\ writeSock \in [Writers -> Sockets \union {0}]
    /\ watcher \in {"wait", "ask", "done"}
    /\ closer \in {"idle", "current", "cancel", "shut", "done"}
    /\ closing \in Sockets \union {0}

(* A migration runs alone, whoever requested it (netmigrate_switch.go 39), *)
(* and switching says whether one does.                                    *)
OneMigration ==
    /\ \A l, k \in Loops : loop[l] # "idle" /\ loop[k] # "idle" => l = k
    /\ switching <=> \E l \in Loops : loop[l] # "idle"

(* Writes and reads always have an open socket to go to: the old one is    *)
(* closed strictly after the new one is current (netmigrate_switch.go 5).  *)
TargetIsOpen == ~closed => sock[cur] = "open"

(* A socket that is open is current, or a migration is about to install it *)
(* or has just replaced it, or Close is still running (netmigrate.go       *)
(* 363: after Close no migration installs another).                        *)
NoSocketLost ==
    \A s \in Sockets : sock[s] = "open" =>
        \/ s = cur /\ closer # "done"
        \/ \E l \in Loops : loop[l] \in {"hello", "replaced"} /\ mine[l] = s

(* Once more than SwallowMax errors have been swallowed since the last     *)
(* switch the flow is dead, or the writer that swallowed too many is about *)
(* to say so: no reset and no other writer hides it (netmigrate_dead.go    *)
(* 85).                                                                    *)
BudgetKept ==
    swallowed > SwallowMax =>
        dead # "none" \/ \E w \in Writers : writer[w] \in {"over", "mark"}

\* What KCP's read loop sees of all this.
Contract == INSTANCE PacketConn WITH shut <- closed

(* Switching never shows: a read fails only because of Close, death or an  *)
(* error of the network on the current socket (netmigrate.go 251).         *)
KeepsContract == Contract!Spec

(* After Close every socket is closed in the end, those of a migration     *)
(* that was running or was requested meanwhile included.                   *)
CloseEndsAll == closed ~> [](\A s \in Sockets : sock[s] # "open")

-----------------------------------------------------------------------------
(* The inductive invariant of the proofs.                                  *)

\* A migration holds a socket from the dial until it is installed, and then
\* the one it replaced until that is closed.
Held ==
    /\ sock[cur] # "none"
    /\ \A l \in Loops :
        /\ loop[l] \in {"hello", "replaced"} => mine[l] \in Sockets \ {cur}
        /\ loop[l] = "hello" => sock[mine[l]] = "open"

\* Close knows the current socket, which no migration replaces any more.
Closing ==
    /\ closed <=> closer # "idle"
    /\ closer \in {"cancel", "shut"} => closing = cur

\* A read that failed has a reason.
ReadReason ==
    /\ reader \in {"read", "net", "shut", "tick", "ask"} => readSock \in Sockets
    /\ reader = "net" => broken
    /\ reader = "shut" => sock[readSock] = "shut"
    /\ reader # "ended" => out = "none"

IInv ==
    /\ TypeOK /\ OneMigration /\ Held /\ Closing /\ ReadReason
    /\ TargetIsOpen /\ NoSocketLost /\ BudgetKept

-----------------------------------------------------------------------------
(* What the source says and the code does not do.                          *)

(* netmigrate_switch.go 39: a request that comes while a migration runs    *)
(* makes it run again.  (Success voids it, as line 40 says; what is lost   *)
(* is a request behind the last look at pending of one that failed.)       *)
NoRequestLeft == ~closed /\ ~switching => ~pending
=============================================================================
