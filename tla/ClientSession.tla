--------------------------- MODULE ClientSession ---------------------------
(***************************************************************************)
(* client.Session: the credentials of one player, kept across calls of     *)
(* Login, Resume, Restore and Logout, a kick pushed by the server, the     *)
(* resume hook of a reconnecting business channel and the hook the session *)
(* heartbeat triggers.  Source: client/session.go, client/channel.go.      *)
(*                                                                         *)
(* Every access to the credentials is a lock section of its own, so a call *)
(* is a sequence of steps.  A session of the server is named after the     *)
(* login that opened it and so is its token; Ext is one opened before by   *)
(* somebody else, whose credentials Restore is given.  The server and the  *)
(* channel's way from lost to connected are reduced to what credentials    *)
(* meet there; module Channel has the channel.                             *)
(***************************************************************************)
EXTENDS Naturals

CONSTANTS
    Clients,            \* clients the session may be bound to
    Calls,              \* calls of the session's methods
    Kind,               \* the method of each
    Target,             \* the client a Bind is given
    After,              \* the calls its goroutine has made before it
    Ext,                \* a session known from elsewhere
    PlayerOf,           \* the player of each session
    Linked,             \* methods whose reply type is registered
    CarriesToken,       \* may a resume reply hold a token, may it not?
    Hooks,              \* goroutines that run the resume hook
    None,               \* the empty string, nil
    MaxFaults           \* bound: lost connections, timeouts, expiries

Logins   == {o \in Calls : Kind[o] = "login"}
Sessions == Logins \union {Ext}
Players  == {PlayerOf[s] : s \in Sessions}
Ops      == Calls \union Hooks
Binders  == {o \in Calls : Kind[o] \in {"bind", "close"}}

ASSUME SessionAssumption ==
    /\ Kind \in [Calls -> {"login", "register", "resume", "restore", "logout",
                           "heartbeat", "bind", "close"}]
    /\ After \in [Calls -> SUBSET Calls]
    /\ \A o \in Calls : Kind[o] = "bind" => Target[o] \in Clients
    /\ None \notin Clients \union Ops \union {Ext} \union Players
    /\ Ext \notin Ops /\ Calls \intersect Hooks = {}
    /\ CarriesToken \subseteq BOOLEAN /\ MaxFaults \in Nat

VARIABLES
    token, player, kicked,  \* Session: token, playerID, kickedReason
    cli, unbind,            \* Session: the bound client; whose subscription
                            \* the stored function ends
    subs,                   \* clients with the session's subscription
    call,                   \* each call: pc, where it is; at, the client it was
                            \* sent to or takes off; tok and pid, the
                            \* credentials it sends, then those it got
    chan,                   \* state of each client's business channel
    hook,                   \* the goroutine runHookSync waits for
    relogin,                \* the goroutine sessionHookBusy stands for
    alive, authed,          \* the server: sessions, and whose a connection is
    kick,                   \* the push that ended each session
    faults,                 \* how many so far

    crossed     \* history: calls of Bind and Close that want different
                \* things have overlapped

credVars == <<token, player, kicked>>
bindVars == <<cli, unbind, subs, crossed>>
chanVars == <<chan, hook, relogin>>
srvVars  == <<alive, authed, kick>>
vars == <<credVars, bindVars, call, chanVars, srvVars, faults>>

KindOf(o) == IF o \in Hooks THEN "resume" ELSE Kind[o]

\* newSessionRequest: what a request carries; and a call that holds nothing.
Holding(p, t, q) == [pc |-> p, at |-> None, tok |-> t, pid |-> q]
At(p) == Holding(p, None, None)

Init ==
    /\ token = None /\ player = None /\ kicked = None
    /\ cli = None /\ unbind = None /\ subs = {}
    /\ call = [o \in Ops |-> At("idle")]
    /\ chan = [c \in Clients |-> "connected"]
    /\ hook = [c \in Clients |-> None] /\ relogin = [c \in Clients |-> None]
    /\ alive = {Ext} /\ authed = [c \in Clients |-> None]
    /\ kick = [s \in Sessions |-> "no"]
    /\ faults = 0
    /\ crossed = FALSE

Step(o, to) == call' = [call EXCEPT ![o].pc = to]
End(o, to)  == call' = [call EXCEPT ![o] = At(to)]
Over == {"ok", "failed"}
Fault == faults < MaxFaults /\ faults' = faults + 1

\* A goroutine makes its calls one after another.
ItsTurn(o) == call[o].pc = "idle" /\ \A x \in After[o] : call[x].pc \in Over

\* A call that failed; Logout clears all the same.
Error(o) == At(IF KindOf(o) = "logout" THEN "answered" ELSE "failed")

-----------------------------------------------------------------------------
(* Bind and Close: unsubscribe's section, the function it took, the new    *)
(* subscription, and the section that stores it.                           *)

\* Two that may leave different bindings behind.
Crosses(o, x) == Kind[o] # Kind[x] \/ Target[o] # Target[x]

TakeOff(o) ==
    /\ o \in Binders /\ ItsTurn(o)
    /\ call' = [call EXCEPT ![o].pc = "taken", ![o].at = unbind]
    /\ unbind' = None
    /\ crossed' = (crossed \/ \E x \in Binders : Crosses(o, x) /\ call[x].pc \notin {"idle", "ok"})
    /\ UNCHANGED <<credVars, cli, subs, chanVars, srvVars, faults>>

\* Fault: Bind calls the function it took after it has subscribed.
CallOff_last(o) ==
    /\ o \in Binders /\ call[o].pc = "taken"
    /\ subs' = (subs \union IF Kind[o] = "bind" THEN {Target[o]} ELSE {}) \ {call[o].at}
    /\ Step(o, "subscribed")
    /\ UNCHANGED <<credVars, cli, unbind, crossed, chanVars, srvVars, faults>>

CallOff(o) ==
    /\ o \in Binders /\ call[o].pc = "taken"
    /\ subs' = subs \ {call[o].at}
    /\ Step(o, IF Kind[o] = "bind" THEN "free" ELSE "subscribed")
    /\ UNCHANGED <<credVars, cli, unbind, crossed, chanVars, srvVars, faults>>

(* onAnyKeyed with the session as key: one entry per client.               *)
SubscribePush(o) ==
    /\ Kind[o] = "bind" /\ call[o].pc = "free"
    /\ subs' = subs \union {Target[o]}
    /\ Step(o, "subscribed")
    /\ UNCHANGED <<credVars, cli, unbind, crossed, chanVars, srvVars, faults>>

StoreBinding(o) ==
    /\ o \in Binders /\ call[o].pc = "subscribed"
    /\ IF Kind[o] = "bind" THEN cli' = Target[o] /\ unbind' = Target[o]
                           ELSE cli' = None /\ UNCHANGED unbind
    /\ End(o, "ok")
    /\ UNCHANGED <<credVars, subs, crossed, chanVars, srvVars, faults>>

-----------------------------------------------------------------------------
(* The calls that send a request.                                          *)

\* The credentials it starts from: Resume's token, what Restore is given.
FirstToken(o) ==
    CASE KindOf(o) = "resume" -> token [] KindOf(o) = "restore" -> Ext [] OTHER -> None

\* Login, Register, Restore and Logout need a client, the others a token too.
MayBegin(o) == cli # None /\ (KindOf(o) \in {"resume", "heartbeat"} => token # None)

Begin(o) ==
    /\ \/ o \in Calls \ Binders /\ ItsTurn(o)
       \/ o \in Hooks /\ call[o].pc = "begin"
    /\ \/ ~MayBegin(o) /\ End(o, "failed")
       \/ /\ MayBegin(o)
          /\ call' = [call EXCEPT ![o] =
                Holding(IF KindOf(o) = "resume" THEN "token" ELSE "request", FirstToken(o),
                        IF KindOf(o) = "restore" THEN PlayerOf[Ext] ELSE None)]
    /\ UNCHANGED <<credVars, bindVars, chanVars, srvVars, faults>>

(* Resume reads the player in a section of its own.                        *)
ReadPlayer(o) ==
    /\ call[o].pc = "token"
    /\ call' = [call EXCEPT ![o].pc = "request", ![o].pid = player]
    /\ UNCHANGED <<credVars, bindVars, chanVars, srvVars, faults>>

\* invokeSession wants the reply's type registered; Logout has no reply.
Resolves(o) == KindOf(o) \in Linked \union {"logout"}

(* invoke asks for the client again.  While its channel is lost the request *)
(* is queued; while the hook runs every request passes (hookBypass).       *)
Send(o) ==
    /\ call[o].pc = "request"
    /\ \/ /\ cli = None \/ ~Resolves(o)
          /\ call' = [call EXCEPT ![o] = Error(o)]
       \/ /\ cli # None /\ Resolves(o) /\ chan[cli] # "lost"
          /\ call' = [call EXCEPT ![o].pc = "sent", ![o].at = cli]
    /\ UNCHANGED <<credVars, bindVars, chanVars, srvVars, faults>>

(* A timeout, a full queue, a refusal; a reply that is lost after the      *)
(* server acted on the request, or that holds no token or no player.       *)
Fail(o) ==
    /\ call[o].pc \in {"request", "sent", "answered"} /\ Fault
    /\ call' = [call EXCEPT ![o] = Error(o)]
    /\ UNCHANGED <<credVars, bindVars, chanVars, srvVars>>

\* The token the sections after a reply store.
NewToken(o, carries) == IF KindOf(o) = "login" \/ carries THEN call[o].tok ELSE token

\* A login that got neither token nor player is an error.
Empty(o) == KindOf(o) = "login" /\ call[o].tok = None /\ call[o].pid = None

Clear == token' = None /\ player' = None

(* The section that keeps the credentials of a reply, and clear for a      *)
(* Logout.  A hook calls extraOnReconnect, which may fail.                 *)
Store(o) ==
    /\ call[o].pc = "answered"
    /\ \/ /\ Empty(o)
          /\ End(o, "failed")
          /\ UNCHANGED <<credVars, faults>>
       \/ /\ KindOf(o) = "logout"
          /\ Clear /\ End(o, "ok")
          /\ UNCHANGED <<kicked, faults>>
       \/ /\ KindOf(o) # "logout" /\ ~Empty(o)
          /\ \E carries \in CarriesToken :
                /\ token' = NewToken(o, carries) /\ player' = call[o].pid
          /\ kicked' = IF KindOf(o) = "login" THEN None ELSE kicked
          /\ \/ End(o, "ok") /\ UNCHANGED faults
             \/ o \in Hooks /\ End(o, "failed") /\ Fault
    /\ UNCHANGED <<bindVars, chanVars, srvVars>>

-----------------------------------------------------------------------------
(* The server, as far as the session relies on it: it opens a session per  *)
(* login, resumes one for its own player, and ends one by itself.          *)

Bound(c, s) == authed' = [authed EXCEPT ![c] = s]

\* A resume is accepted for the player of a session that is alive.
Accepts(o) == call[o].tok \in alive /\ call[o].pid = PlayerOf[call[o].tok]

Serve(o) ==
    /\ call[o].pc = "sent"
    /\ \/ /\ KindOf(o) = "login"
          /\ alive' = alive \union {o} /\ Bound(call[o].at, o)
          /\ \/ call' = [call EXCEPT ![o] = Holding("answered", o, PlayerOf[o])]
             \/ call' = [call EXCEPT ![o] = At("answered")]
       \/ /\ KindOf(o) \in {"resume", "restore"} /\ Accepts(o)
          /\ Bound(call[o].at, call[o].tok) /\ Step(o, "answered")
          /\ UNCHANGED alive
       \/ /\ KindOf(o) \in {"resume", "restore"} /\ ~Accepts(o)
          /\ End(o, "failed")
          /\ UNCHANGED <<alive, authed>>
       \/ /\ KindOf(o) = "logout"
          /\ alive' = alive \ {authed[call[o].at]} /\ Bound(call[o].at, None)
          /\ Step(o, "answered")
       \/ /\ KindOf(o) \in {"register", "heartbeat"}
          /\ End(o, "ok")
          /\ UNCHANGED <<alive, authed>>
    /\ UNCHANGED <<credVars, bindVars, chanVars, kick, faults>>

Forget(s) ==
    /\ alive' = alive \ {s}
    /\ authed' = [c \in Clients |-> IF authed[c] = s THEN None ELSE authed[c]]

Expire(s) ==
    /\ s \in alive /\ Fault /\ Forget(s)
    /\ UNCHANGED <<credVars, bindVars, call, chanVars, kick>>

(* The player logged in elsewhere: the session ends and the push goes to   *)
(* the connection that had it.                                             *)
Kick(c) ==
    /\ authed[c] \in alive /\ Forget(authed[c])
    /\ kick' = [kick EXCEPT ![authed[c]] = IF c \in subs THEN "pushed" ELSE "unheard"]
    /\ UNCHANGED <<credVars, bindVars, call, chanVars, faults>>

(* handlePush, on a goroutine of its own: clear, then the reason.          *)
HandleKick(s) ==
    /\ kick[s] = "pushed"
    /\ Clear
    /\ kick' = [kick EXCEPT ![s] = "cleared"]
    /\ UNCHANGED <<kicked, bindVars, call, chanVars, alive, authed, faults>>

RecordKick(s) ==
    /\ kick[s] = "cleared"
    /\ kicked' = s
    /\ kick' = [kick EXCEPT ![s] = "done"]
    /\ UNCHANGED <<token, player, bindVars, call, chanVars, alive, authed, faults>>

-----------------------------------------------------------------------------
(* The business channel with ChannelOptions: resumeHook after every redial *)
(* and when the session heartbeat is refused.                              *)

\* The goroutine that runs the next hook; which one makes no difference.
Free == CHOOSE h \in Hooks : call[h].pc = "idle"
IsFree == \E h \in Hooks : call[h].pc = "idle"

\* Whoever waits for an answer on a connection that ends gets an error.
WithoutConn(c, calls) ==
    [o \in Ops |-> IF calls[o].pc = "sent" /\ calls[o].at = c THEN Error(o) ELSE calls[o]]

(* resumeHook: not logged in is no failure.                                *)
CheckHook(h) ==
    /\ h \in Hooks /\ call[h].pc = "check"
    /\ Step(h, IF token = None THEN "ok" ELSE "begin")
    /\ UNCHANGED <<credVars, bindVars, chanVars, srvVars, faults>>

Lose(c) ==
    /\ chan[c] = "connected" /\ Fault
    /\ chan' = [chan EXCEPT ![c] = "lost"]
    /\ call' = WithoutConn(c, call)
    /\ Bound(c, None)
    /\ UNCHANGED <<credVars, bindVars, hook, relogin, alive, kick>>

(* reconnectFrom, then runHookSync.                                        *)
Redial(c) ==
    /\ chan[c] = "lost" /\ IsFree
    /\ Step(Free, "check")
    /\ hook' = [hook EXCEPT ![c] = Free]
    /\ chan' = [chan EXCEPT ![c] = "hook"]
    /\ UNCHANGED <<credVars, bindVars, relogin, srvVars, faults>>

(* The hook's result: Connected, or the connection is given up.            *)
HookDone(c) ==
    /\ chan[c] = "hook" /\ call[hook[c]].pc \in Over
    /\ hook' = [hook EXCEPT ![c] = None]
    /\ IF call[hook[c]].pc = "ok"
       THEN /\ chan' = [chan EXCEPT ![c] = "connected"]
            /\ End(hook[c], "idle")
            /\ UNCHANGED authed
       ELSE /\ chan' = [chan EXCEPT ![c] = "lost"]
            /\ call' = WithoutConn(c, [call EXCEPT ![hook[c]] = At("idle")])
            /\ Bound(c, None)
    /\ UNCHANGED <<credVars, bindVars, relogin, alive, kick, faults>>

(* hookTimeout: the goroutine goes on by itself.                           *)
HookTimeout(c) ==
    /\ chan[c] = "hook" /\ Fault
    /\ chan' = [chan EXCEPT ![c] = "lost"]
    /\ hook' = [hook EXCEPT ![c] = None]
    /\ call' = WithoutConn(c, call)
    /\ Bound(c, None)
    /\ UNCHANGED <<credVars, bindVars, relogin, alive, kick>>

\* heartbeatRequest: nothing is sent without a token.
HeartbeatRequest == token # None

\* Fault: the hook is triggered while hookBypass is set.
Triggers_bypass(c) == chan[c] = "hook" /\ relogin[c] = None

\* triggerReloginHook: runHookSync is not at it, nor an earlier trigger.
Triggers(c) == chan[c] # "hook" /\ relogin[c] = None

(* sessionHeartbeatLoop: with a token, on a connection the server knows no *)
(* session of: a business error.                                           *)
HeartbeatRefused(c) ==
    /\ HeartbeatRequest /\ chan[c] # "lost" /\ authed[c] = None
    /\ Triggers(c) /\ IsFree
    /\ Step(Free, "check")
    /\ relogin' = [relogin EXCEPT ![c] = Free]
    /\ UNCHANGED <<credVars, bindVars, chan, hook, srvVars, faults>>

\* Fault: sessionHookBusy is cleared only when the hook succeeded.
Ends_ok(h) == call[h].pc = "ok"

Ends(h) == call[h].pc \in Over

(* A hook nobody waits for returns: sessionHookBusy, or nothing at all.    *)
HookReturns(h) ==
    /\ h \in Hooks /\ Ends(h) /\ \A c \in Clients : hook[c] # h
    /\ End(h, "idle")
    /\ relogin' = [c \in Clients |-> IF relogin[c] = h THEN None ELSE relogin[c]]
    /\ UNCHANGED <<credVars, bindVars, chan, hook, srvVars, faults>>

-----------------------------------------------------------------------------
CallStep(o)  == ReadPlayer(o) \/ Send(o) \/ Serve(o) \/ Store(o)
HookStep(h)  == CheckHook(h) \/ Begin(h) \/ CallStep(h) \/ HookReturns(h)
BindStep(o)  == CallOff(o) \/ SubscribePush(o) \/ StoreBinding(o)
KickStep(s)  == HandleKick(s) \/ RecordKick(s)
ChanStep(c)  == Redial(c) \/ HookDone(c) \/ HeartbeatRefused(c)

Next ==
    \/ \E o \in Calls : TakeOff(o) \/ BindStep(o) \/ Begin(o)
    \/ \E h \in Hooks : CheckHook(h) \/ Begin(h) \/ HookReturns(h)
    \/ \E o \in Ops : CallStep(o) \/ Fail(o)
    \/ \E s \in Sessions : KickStep(s) \/ Expire(s)
    \/ \E c \in Clients : ChanStep(c) \/ Kick(c) \/ Lose(c) \/ HookTimeout(c)

Spec == Init /\ [][Next]_vars

\* Goroutines that have started run on, a reachable server answers, and the
\* supervisor and the heartbeat's ticker do their work.
Fairness ==
    /\ \A o \in Calls : WF_vars(CallStep(o)) /\ WF_vars(BindStep(o))
    /\ \A h \in Hooks : WF_vars(HookStep(h))
    /\ \A s \in Sessions : WF_vars(KickStep(s))
    /\ \A c \in Clients : WF_vars(ChanStep(c))

FairSpec == Spec /\ Fairness

-----------------------------------------------------------------------------
(* Correctness.                                                            *)

TypeOK ==
    /\ token \in Sessions \union {None} /\ player \in Players \union {None}
    /\ kicked \in Sessions \union {None}
    /\ {cli, unbind} \subseteq Clients \union {None} /\ subs \subseteq Clients
    /\ call \in [Ops -> [pc  : {"idle", "taken", "free", "subscribed", "check", "begin", "token",
                               "request", "sent", "answered"} \union Over,
                        at  : Clients \union {None},
                        tok : Sessions \union {None}, pid : Players \union {None}]]
    /\ chan \in [Clients -> {"connected", "lost", "hook"}]
    /\ hook \in [Clients -> Hooks \union {None}] /\ relogin \in [Clients -> Hooks \union {None}]
    /\ alive \subseteq Sessions /\ authed \in [Clients -> Sessions \union {None}]
    /\ kick \in [Sessions -> {"no", "pushed", "unheard", "cleared", "done"}]
    /\ faults \in 0 .. MaxFaults
    /\ crossed \in BOOLEAN

(* Between calls of Bind and Close, the session listens to the client it   *)
(* is bound to and to no other, also after calls for one client overlapped;*)
(* once calls that want different things have, nothing is said: see        *)
(* BindingIsHeard (session.go 75-92, 119-128).                             *)
AtRest == \A o \in Binders : call[o].pc \in {"idle", "ok"}
HearsItsClient == AtRest /\ ~crossed => subs = {cli} \ {None}

\* Logged in on both sides, and the connection is not.
Broken(c) ==
    /\ cli = c /\ chan[c] = "connected" /\ authed[c] = None
    /\ token \in alive /\ player = PlayerOf[token]

(* A connection that came back without the session whose own token and     *)
(* player the client keeps is logged in again: the heartbeat is refused and*)
(* runs the hook, which a hook that is late or failed does not prevent. A  *)
(* client that keeps the token of one session and the player of another is *)
(* refused for good: see PairIsWhole (channel.go 332-376, session.go       *)
(* 337-348).                                                               *)
Heals == \A c \in Clients : Broken(c) ~> ~Broken(c)

-----------------------------------------------------------------------------
(* What the source says and the code does not do.                          *)

(* session.go 208: the credentials given to Restore are kept once it has   *)
(* succeeded.                                                              *)
RestoreKeepsCredentials ==
    [][\A o \in Calls : Kind[o] = "restore" /\ call[o].pc = "answered" /\ call'[o].pc = "ok"
          => token' = call[o].tok]_vars

(* session.go 288: without a login there is no player.                     *)
NoPlayerLoggedOut == token = None => player = None

(* session.go 298: a session that was not kicked has no reason.            *)
LoggedInIsNotKicked == token # None => kicked = None

(* session.go 75-76, 104: a kick clears the credentials. An answer that was*)
(* there before the kick and is stored after it brings them back.          *)
KickIsFinal == \A s \in Sessions : kick[s] \in {"cleared", "done"} => token # s

(* session.go 278, 288: token and player are those of the current session. *)
(* A resume reads them in two sections and stores its answer in a third    *)
(* (197-246); a login that is stored in between leaves its own token with  *)
(* another's player.                                                       *)
PairIsWhole == token # None /\ player # None => player = PlayerOf[token]

(* session.go 75-78, 94: the subscription of a client ends with the next   *)
(* Bind or Close, and a session that is bound has one. Between the section *)
(* that takes the function off and the one that stores the next, Bind and  *)
(* Close, or Bind for another client, undo each other's: a session that is *)
(* bound hears nothing, or the client it has left.                         *)
BindingIsHeard == AtRest => subs = {cli} \ {None}
=============================================================================
