----------------------------- MODULE DualHooks -----------------------------
(***************************************************************************)
(* A client with two channels, as DialDual makes it: business and battle,  *)
(* dialled one after the other and rolled back together, each with its own *)
(* reconnects and hook, and the battle channel's Join chained behind the   *)
(* hook of the business channel.  Source: client/client.go,                *)
(* client/channel.go, client/options.go.                                   *)
(*                                                                         *)
(* A hook is the list of the requests its function makes, on whichever     *)
(* goroutine runs it.  A login makes what the battle connection joined     *)
(* with stale; a Join makes it current.  Module Channel has one channel in *)
(* detail: here its connection is connected, lost, in its hook, or closed. *)
(***************************************************************************)
EXTENDS Naturals, Sequences

CONSTANTS
    RolePairs,      \* the kinds DialDual is given, business first
    OptsChoices,    \* which hooks the options configure
    Hooks,          \* goroutines that run a hook
    User,           \* the goroutine that logs in and joins first
    None,           \* nil
    MaxFaults       \* bound: lost connections, late hooks, failed requests

Channels == {"business", "battle"}
Runners  == Hooks \union {User}

ASSUME DualAssumption ==
    /\ RolePairs \subseteq Channels \X Channels
    /\ OptsChoices \subseteq [{"top", "business", "battle"} -> {"relogin", "join", None}]
    /\ User \notin Hooks /\ None \notin Runners \union {"relogin", "join"} /\ MaxFaults \in Nat

VARIABLES
    roles,      \* ChannelConfig.Kind of the two
    opts,       \* the hook among the top options and those of each channel
    phase,      \* DialDual: how far it is
    st,         \* each channel
    waits,      \* the goroutine runHookSync of the channel waits for
    busy,       \* the goroutine sessionHookBusy of the business channel stands for
    run,        \* each goroutine: how it is, and the requests it has to make
    queued,     \* goroutines whose request is in a reconnect queue
    authed,     \* the server knows a session of the business connection
    joined,     \* the battle connection: "no", "stale", "current"
    closing,    \* Client.Close was called
    faults,     \* how many so far

    missed      \* history: a login no Join follows, see Check and Fail

connVars == <<st, waits, busy>>
srvVars  == <<authed, joined, missed>>
vars == <<roles, opts, phase, connVars, run, queued, srvVars, closing, faults>>

Idle == [res |-> "idle", todo |-> <<>>]
Go(steps) == [res |-> "running", todo |-> steps]

Init ==
    /\ roles \in RolePairs /\ opts \in OptsChoices
    /\ phase = "start"
    /\ st = [c \in Channels |-> "none"]
    /\ waits = [c \in Channels |-> None] /\ busy = None
    /\ run = [r \in Runners |-> Idle] /\ queued = {}
    /\ authed = FALSE /\ joined = "no" /\ missed = FALSE
    /\ closing = FALSE /\ faults = 0

Fault == faults < MaxFaults /\ faults' = faults + 1

-----------------------------------------------------------------------------
(* Options: the hook of a channel is the last one set, top options first.  *)

Configured(c) == IF opts[c] # None THEN opts[c] ELSE opts["top"]

Steps(hook) == IF hook = None THEN <<>> ELSE <<hook>>

\* Fault: the chained Join runs before the hook it is chained to.
Program_swapped(c) ==
    IF c = "battle" THEN Steps(Configured(c))
    ELSE (IF opts["battle"] = None THEN <<>> ELSE <<"check", opts["battle"]>>)
            \o Steps(Configured(c))

\* What the channel's hook does: chainedBattleHook appends the battle channel's
\* own hook, one among the top options does not count, behind its check.
Program(c) ==
    IF c = "battle" THEN Steps(Configured(c))
    ELSE Steps(Configured(c))
            \o (IF opts["battle"] = None THEN <<>> ELSE <<"check", opts["battle"]>>)

\* Only the chained function of the business channel is never nil.
HasHook(c) == (c = "business") \/ Configured(c) # None

-----------------------------------------------------------------------------
(* DialDual.                                                               *)

\* A battle kind of zero is the default; then the two must differ.
Normalizes(pair) == pair[1] # "battle"

Refuse ==
    /\ phase = "start" /\ ~Normalizes(roles)
    /\ phase' = "failed"
    /\ UNCHANGED <<roles, opts, connVars, run, queued, srvVars, closing, faults>>

(* dialChannels: the business channel runs while the battle one is dialled.*)
DialBusiness ==
    /\ phase = "start" /\ Normalizes(roles)
    /\ \/ st' = [st EXCEPT !["business"] = "connected"] /\ phase' = "business" /\ UNCHANGED faults
       \/ phase' = "failed" /\ Fault /\ UNCHANGED st
    /\ UNCHANGED <<roles, opts, waits, busy, run, queued, srvVars, closing>>

DialBattle ==
    /\ phase = "business"
    /\ \/ st' = [st EXCEPT !["battle"] = "connected"] /\ phase' = "both" /\ UNCHANGED faults
          /\ UNCHANGED waits
       \/ st' = [st EXCEPT !["business"] = "closed"] /\ phase' = "failed" /\ Fault
          /\ waits' = [waits EXCEPT !["business"] = None]
    /\ UNCHANGED <<roles, opts, busy, run, queued, srvVars, closing>>

(* clientSlot.Store: the caller has its Client, and logs in and joins.     *)
Return ==
    /\ phase = "both"
    /\ phase' = "returned"
    /\ run' = [run EXCEPT ![User] = Go(<<"relogin", "join">>)]
    /\ UNCHANGED <<roles, opts, connVars, queued, srvVars, closing, faults>>

-----------------------------------------------------------------------------
(* The requests of a hook.                                                 *)

Asks(r) == run[r].todo # <<>> /\ Head(run[r].todo) # "check"
Does(r, step) == run[r].todo # <<>> /\ Head(run[r].todo) = step
On(step) == IF step = "relogin" THEN "business" ELSE "battle"

\* Fault: the request of a hook waits for Connected as every other does.
Passes_queue(c) == st[c] = "connected"

\* invokeOnce: on the connection at hand, in the hook too (hookBypass).
Passes(c) == st[c] \in {"connected", "hook"}

\* Requests can be made once the caller has a Client.
Reaches(r, c) ==
    /\ phase = "returned"
    /\ IF r \in queued THEN st[c] = "connected" ELSE Passes(c)

Done(r, rest) == run' = [run EXCEPT ![r].todo = rest] /\ queued' = queued \ {r}
End(r, res) == run' = [run EXCEPT ![r] = [res |-> res, todo |-> <<>>]] /\ queued' = queued \ {r}

Queue(r) ==
    /\ Asks(r) /\ r \notin queued
    /\ phase = "returned" /\ st[On(Head(run[r].todo))] = "lost"
    /\ queued' = queued \union {r}
    /\ UNCHANGED <<roles, opts, phase, connVars, run, srvVars, closing, faults>>

Relogin(r) ==
    /\ Does(r, "relogin") /\ Reaches(r, "business")
    /\ authed' = TRUE
    /\ joined' = IF joined = "current" THEN "stale" ELSE joined
    /\ Done(r, Tail(run[r].todo))
    /\ UNCHANGED <<roles, opts, phase, connVars, missed, closing, faults>>

Join(r) ==
    /\ Does(r, "join") /\ Reaches(r, "battle")
    /\ joined' = "current" /\ missed' = FALSE
    /\ Done(r, Tail(run[r].todo))
    /\ UNCHANGED <<roles, opts, phase, connVars, authed, closing, faults>>

\* The battle channel is asked for its state, if there is a Client yet.
Skips == phase = "returned" /\ st["battle"] # "connected"

(* A battle channel that is not connected is left to its own hook; missed  *)
(* is that this one had joined already, with the login before.             *)
Check(r) ==
    /\ Does(r, "check")
    /\ Done(r, IF Skips THEN <<>> ELSE Tail(run[r].todo))
    /\ missed' = (missed \/ (st["battle"] # "connected" /\ joined = "stale"))
    /\ UNCHANGED <<roles, opts, phase, connVars, authed, joined, closing, faults>>

FunctionEnds(r) ==
    /\ run[r] = Go(<<>>)
    /\ End(r, "ok")
    /\ UNCHANGED <<roles, opts, phase, connVars, srvVars, closing, faults>>

\* Nobody runs a hook again that nobody waits for.
Unwaited(r) == \A c \in Channels : waits[c] # r

\* Whoever fails after a login and is not run again leaves it without its Join.
Leaves(r) == missed' = (missed \/ (Unwaited(r) /\ joined = "stale"))

(* There is no Client yet, or the channel is closed.                       *)
Unreachable(r) ==
    /\ Asks(r) /\ (phase # "returned" \/ st[On(Head(run[r].todo))] = "closed")
    /\ End(r, "failed") /\ Leaves(r)
    /\ UNCHANGED <<roles, opts, phase, connVars, authed, joined, closing, faults>>

(* A timeout, a refusal, a connection that breaks.                         *)
Fail(r) ==
    /\ Asks(r) /\ Fault
    /\ End(r, "failed") /\ Leaves(r)
    /\ UNCHANGED <<roles, opts, phase, connVars, authed, joined, closing>>

-----------------------------------------------------------------------------
(* The channels.                                                           *)

\* The goroutine that runs the next hook; which one makes no difference.
IsFree == \E h \in Hooks : run[h] = Idle
Free == CHOOSE h \in Hooks : run[h] = Idle

\* What the server knows of a connection ends with it.
Forget(c) ==
    IF c = "business" THEN authed' = FALSE /\ UNCHANGED <<joined, missed>>
    ELSE joined' = "no" /\ UNCHANGED <<authed, missed>>

Lose(c) ==
    /\ st[c] = "connected" /\ Fault
    /\ st' = [st EXCEPT ![c] = "lost"] /\ Forget(c)
    /\ UNCHANGED <<roles, opts, phase, waits, busy, run, queued, closing>>

(* The server ends the session by itself.                                  *)
Expire ==
    /\ authed /\ Fault
    /\ authed' = FALSE
    /\ UNCHANGED <<roles, opts, phase, connVars, run, queued, joined, missed, closing>>

(* reconnectFrom, then the hook if there is one.                           *)
Redial(c) ==
    /\ st[c] = "lost" /\ (HasHook(c) => IsFree)
    /\ IF HasHook(c)
       THEN /\ st' = [st EXCEPT ![c] = "hook"] /\ waits' = [waits EXCEPT ![c] = Free]
            /\ run' = [run EXCEPT ![Free] = Go(Program(c))]
       ELSE st' = [st EXCEPT ![c] = "connected"] /\ UNCHANGED <<waits, run>>
    /\ UNCHANGED <<roles, opts, phase, busy, queued, srvVars, closing, faults>>

HookDone(c) ==
    /\ st[c] = "hook" /\ run[waits[c]].res \in {"ok", "failed"}
    /\ run' = [run EXCEPT ![waits[c]] = Idle]
    /\ waits' = [waits EXCEPT ![c] = None]
    /\ IF run[waits[c]].res = "ok"
       THEN st' = [st EXCEPT ![c] = "connected"] /\ UNCHANGED srvVars
       ELSE st' = [st EXCEPT ![c] = "lost"] /\ Forget(c)
    /\ UNCHANGED <<roles, opts, phase, busy, queued, closing, faults>>

(* hookTimeout: the goroutine goes on by itself.                           *)
HookTimeout(c) ==
    /\ st[c] = "hook" /\ Fault
    /\ st' = [st EXCEPT ![c] = "lost"] /\ Forget(c)
    /\ waits' = [waits EXCEPT ![c] = None]
    /\ UNCHANGED <<roles, opts, phase, busy, run, queued, closing>>

(* sessionHeartbeatLoop, of the business channel: refused, the hook runs.  *)
Trigger ==
    /\ st["business"] = "connected" /\ ~authed /\ run[User].res = "ok"
    /\ busy = None /\ IsFree
    /\ busy' = Free /\ run' = [run EXCEPT ![Free] = Go(Program("business"))]
    /\ UNCHANGED <<roles, opts, phase, st, waits, queued, srvVars, closing, faults>>

(* A goroutine nobody waits for ends.                                      *)
HookReturns(h) ==
    /\ h \in Hooks /\ run[h].res \in {"ok", "failed"} /\ Unwaited(h)
    /\ run' = [run EXCEPT ![h] = Idle]
    /\ busy' = IF busy = h THEN None ELSE busy
    /\ UNCHANGED <<roles, opts, phase, st, waits, queued, srvVars, closing, faults>>

(* Client.Close: every channel, in any order.                              *)
Close ==
    /\ phase = "returned" /\ ~closing
    /\ closing' = TRUE
    /\ UNCHANGED <<roles, opts, phase, connVars, run, queued, srvVars, faults>>

CloseChannel(c) ==
    /\ closing /\ st[c] # "closed"
    /\ st' = [st EXCEPT ![c] = "closed"] /\ waits' = [waits EXCEPT ![c] = None]
    /\ Forget(c)
    /\ UNCHANGED <<roles, opts, phase, busy, run, queued, closing, faults>>

-----------------------------------------------------------------------------
Dial == Refuse \/ DialBusiness \/ DialBattle \/ Return
Request(r) == Relogin(r) \/ Join(r) \/ Check(r) \/ FunctionEnds(r) \/ Queue(r) \/ Unreachable(r)
ChanStep(c) == Redial(c) \/ HookDone(c)

Next ==
    \/ Dial \/ Trigger \/ Expire \/ Close
    \/ \E r \in Runners : Request(r) \/ Fail(r) \/ HookReturns(r)
    \/ \E c \in Channels : ChanStep(c) \/ CloseChannel(c) \/ Lose(c) \/ HookTimeout(c)

Spec == Init /\ [][Next]_vars

\* A request that cannot succeed, without a Client or on a closed channel, does
\* fail; started goroutines and the supervisors run on.
Fairness ==
    /\ WF_vars(Dial) /\ WF_vars(Trigger)
    /\ \A r \in Runners : WF_vars(Request(r)) /\ WF_vars(HookReturns(r))
    /\ \A c \in Channels : WF_vars(ChanStep(c)) /\ WF_vars(CloseChannel(c))

FairSpec == Spec /\ Fairness

-----------------------------------------------------------------------------
(* Correctness.                                                            *)

TypeOK ==
    /\ roles \in RolePairs /\ opts \in OptsChoices
    /\ phase \in {"start", "business", "both", "returned", "failed"}
    /\ st \in [Channels -> {"none", "connected", "lost", "hook", "closed"}]
    /\ waits \in [Channels -> Hooks \union {None}] /\ busy \in Hooks \union {None}
    /\ \A r \in Runners : run[r].res \in {"idle", "running", "ok", "failed"} /\ Len(run[r].todo) \in 0 .. 3
    /\ queued \subseteq Runners
    /\ joined \in {"no", "stale", "current"} /\ {authed, missed, closing} \subseteq BOOLEAN
    /\ faults \in 0 .. MaxFaults

\* Client.State() is Connected, the caller has joined, and no hook is at work.
Quiet ==
    /\ \A c \in Channels : st[c] = "connected"
    /\ run[User].res = "ok" /\ \A h \in Hooks : run[h] = Idle

(* When both channels are back, whichever was lost and however their hooks *)
(* overlapped, the battle connection has joined with the last login: by    *)
(* the chained hook or by its own.  Left out are a hook nobody waits for   *)
(* that fails after its login, and a chain that skips a battle channel     *)
(* whose own hook has joined but not returned (client.go 277-280, 324-332).*)
Rebound == Quiet /\ opts["battle"] = "join" /\ ~missed => joined = "current"

(* A lost channel is connected again: the hook's requests pass on the      *)
(* connection it is about, a Join queued on a lost battle channel does not *)
(* hold up the business channel for good, and hooks that fail until there  *)
(* is a Client are run again (channel.go 242-307, client.go 325-332).      *)
DualRecovers ==
    \A c \in Channels : st[c] = "lost" ~> st[c] \in {"connected", "closed"}

-----------------------------------------------------------------------------
(* What the source says and the code does not do.                          *)

(* client.go 279-280: after every login of the business channel the battle *)
(* channel is rebound.                                                     *)
AlwaysRebound == Quiet /\ opts["battle"] = "join" => joined = "current"

(* client.go 326: a battle channel that is not ready does not make the hook*)
(* of the business channel fail.                                           *)
BattleLossSparesBusiness ==
    [][st["business"] = "hook" /\ st'["business"] = "lost" /\ st["battle"] = "lost"
        => run[waits["business"]].todo # <<"join">>]_vars
=============================================================================
