----------------------------- MODULE DirectOpen -----------------------------
(***************************************************************************)
(* How a battle session gets its connections and keeps them alive: Open    *)
(* makes its parameters of a push and of options, dials in stages, and     *)
(* starts the first generation; a supervisor redials in the same stages;   *)
(* every generation has a heartbeat loop.                                  *)
(* Source: direct/session.go, transport.go, netmigrate.go (the first dial  *)
(* of a KCP flow), session_reconnect.go and heartbeat.go, on DirectSession.*)
(*                                                                         *)
(* DirectSession's variables mean something once Open has started the      *)
(* first generation (Live); its Init is that moment.                       *)
(***************************************************************************)
EXTENDS DirectSession, DirectPlan, DirectHello

CONSTANTS
    Asks,           \* what Open may be called with: a push and options
    HelloRetries    \* defaultSwitchRetries, 3 in the code

(* T1 leaves room for another second in its width.                         *)
ASSUME OpenAssumption ==
    /\ HelloRetries \in Nat
    /\ \A a \in Asks :
          /\ a.push \in AnyPush
          /\ Told(a.given) \in AnyOptions
          /\ Told(a.given).idleSwitch + Second < Top

VARIABLES
    ask,        \* the arguments of Open, until it has read them
    sess,       \* what later dials and heartbeats use of them
    dial,       \* where Open (0) or a supervisor is with its dial
    beat        \* the heartbeat loop of each generation

openVars == <<ask, sess, dial, beat>>
allVars  == <<vars, openVars>>

NoAsk    == [given |-> << >>]
NoParams == [kind |-> "none"]
NotDialling == [at |-> "none", sock |-> FALSE, tries |-> 0, err |-> "none", new |-> 0]

Diallers == {0} \union Gens
Live == dial[0].at \in {"starting", "done"}

At(d, stage) == dial[d].at = stage
Stage(d, stage) == dial' = [dial EXCEPT ![d].at = stage, ![d].sock = TRUE]
Rest == UNCHANGED <<vars, ask, sess, beat>>

Params(a) == Opening(a.push, a.given)

OptsOf(p) == [auto |-> p.opt.auto, linger |-> p.opt.linger > 0, blocks |-> p.kind = "ws"]

OpenInit ==
    /\ Init
    /\ ask \in Asks
    /\ \A p \in Params(ask) : opts = OptsOf(p)
    /\ sess = NoParams
    /\ dial = [d \in Diallers |-> NotDialling]
    /\ beat = [e \in Gens |-> "none"]

(* The edge opens a flow for a ticket that it can read.                    *)
EdgeReads(ticket) ==
    \E h \in DecodeHello(EncodeHello(ticket)) : h.ticket = ticket

(* Open up to the dial: the plan and the options are refused, or give the  *)
(* session its parameters.                                                 *)
Prepare ==
    /\ ask # NoAsk
    /\ \/ /\ Params(ask) = {}
          /\ dial' = [dial EXCEPT ![0].at = "failed"]
          /\ UNCHANGED sess
       \/ \E p \in Params(ask) :
          /\ sess' = [kind  |-> p.kind, hello |-> p.opt.hello, served |-> EdgeReads(p.ticket),
                      beats |-> p.opt.heartbeat > 0 /\ p.opt.probe]
          /\ dial' = [dial EXCEPT ![0].at = "socket"]
    /\ ask' = NoAsk
    /\ UNCHANGED <<vars, beat>>

-----------------------------------------------------------------------------
(* One dial: dialWS, dialKCP, dialUDP.                                     *)

(* The dial failed, for the network's sake or because the edge refused;    *)
(* its socket is closed.                                                   *)
Fail(d, err) ==
    dial' = [dial EXCEPT ![d] = [NotDialling EXCEPT !.at = "failed", !.err = err]]

(* What follows the socket: the upgrade, the hello if there is an edge to  *)
(* pass, the KCP session.                                                  *)
AfterHello == IF sess.kind = "kcp" THEN "session" ELSE "made"

AfterSocket ==
    IF sess.kind = "ws" THEN "upgrade" ELSE IF sess.hello THEN "hello" ELSE AfterHello

(* The address is resolved and the socket made.                            *)
DialSocket(d) ==
    /\ At(d, "socket")
    /\ Stage(d, AfterSocket) \/ Fail(d, "network")
    /\ Rest

(* classifyWSHandshake: a time-out is the network's, any other failure a   *)
(* refusal.                                                                *)
Upgrade(d) ==
    /\ At(d, "upgrade")
    /\ Stage(d, "made") \/ \E err \in {"network", "rejected"} : Fail(d, err)
    /\ Rest

(* exchangeHello, edgeHello: the flow-id, another answer, none in time, or *)
(* an error of the socket.  Of the answers only "unavailable" is tried     *)
(* again, on KCP and so many times.                                        *)
Hello(d) ==
    /\ At(d, "hello")
    /\ \/ \E n \in 0 .. FlowIDLen :
          \/ Answer(n) = "flow-id" /\ sess.served /\ Stage(d, AfterHello)
          \/ /\ Answer(n) = "unavailable" /\ sess.kind = "kcp"
             /\ dial[d].tries < HelloRetries
             /\ dial' = [dial EXCEPT ![d].tries = @ + 1]
          \/ /\ Answer(n) # "flow-id"
             /\ Answer(n) = "unavailable" /\ sess.kind = "kcp"
                    => dial[d].tries = HelloRetries
             /\ Fail(d, "rejected")
       \/ \E err \in {"network", "rejected"} : Fail(d, err)
    /\ Rest

(* kcpgo.NewConn on the flow.                                              *)
NewSession(d) ==
    /\ At(d, "session")
    /\ Stage(d, "made") \/ Fail(d, "network")
    /\ Rest

DialStep(d) == DialSocket(d) \/ Upgrade(d) \/ Hello(d) \/ NewSession(d)

-----------------------------------------------------------------------------
(* Generations.                                                            *)

Over == [NotDialling EXCEPT !.at = "done"]

(* Open runs startGeneration: the session is live from here.               *)
FirstGeneration ==
    /\ At(0, "made")
    /\ dial' = [dial EXCEPT ![0] = [NotDialling EXCEPT !.at = "starting", !.new = 1]]
    /\ Rest

Ready == At(0, "done") /\ OpenReturn /\ UNCHANGED openVars

Redial(s) ==
    /\ Live /\ Backoff(s)
    /\ dial' = [dial EXCEPT ![s].at = "socket"]
    /\ UNCHANGED <<ask, sess, beat>>

(* retryable: the network's failures are.                                  *)
Retryable(err) == err = "network"

Redialled(s) ==
    /\ At(s, "failed") /\ DialFails(s)
    /\ sup'[s] = IF Retryable(dial[s].err) THEN "backoff" ELSE "failed"
    /\ dial' = [dial EXCEPT ![s] = NotDialling]
    /\ UNCHANGED <<ask, sess, beat>>

\* Fault: a closed session keeps the connection it has no use for.
HandOver_kept(s) ==
    [dial EXCEPT ![s] = IF MayStart THEN [NotDialling EXCEPT !.at = "starting", !.new = gen']
                        ELSE [@ EXCEPT !.at = "none"]]

(* startGeneration takes the connection over, or closes it.                *)
HandOver(s) ==
    [dial EXCEPT ![s] = IF MayStart THEN [NotDialling EXCEPT !.at = "starting", !.new = gen']
                        ELSE NotDialling]

NewGeneration(s) ==
    /\ At(s, "made") /\ StartGeneration(s)
    /\ dial' = HandOver(s)
    /\ UNCHANGED <<ask, sess, beat>>

(* startHeartbeat: with a probe, in an open session, for the current       *)
(* generation.                                                             *)
StartHeartbeat(d) ==
    /\ At(d, "starting")
    /\ beat' = [beat EXCEPT ![dial[d].new] =
                  IF sess.beats /\ ~closed /\ gen = dial[d].new THEN "tick" ELSE @]
    /\ dial' = [dial EXCEPT ![d] = IF d = 0 THEN Over ELSE NotDialling]
    /\ UNCHANGED <<vars, ask, sess>>

Replay(s) == At(s, "none") /\ Restore(s) /\ UNCHANGED openVars

-----------------------------------------------------------------------------
(* The heartbeat loop of generation e.  A probe is a request of its own;   *)
(* here it ends at any moment in any way that a request may.               *)

Loop(e, from, to) == beat[e] = from /\ beat' = [beat EXCEPT ![e] = to]

BeatOnly == UNCHANGED <<vars, ask, sess, dial>>

(* A tick: the loop ends with its generation and with the session, skips a *)
(* beat while reconnecting, and probes otherwise, on whatever generation   *)
(* is current.                                                             *)
BeatTick(e) ==
    /\ \/ (closed \/ reader[e] = "done" \/ Terminal) /\ Loop(e, "tick", "over")
       \/ ~Terminal /\ state = "Connected" /\ Loop(e, "tick", "probe")
    /\ BeatOnly

\* Fault: a refused probe ends the loop.
GoesOn_accepted(result) == result = "sent" \/ (~Terminal /\ result = "unsent")

(* beat: the loop goes on after a probe that was sent, and after one that  *)
(* failed or was refused unless the session is terminal or closed.         *)
GoesOn(result) == result = "sent" \/ (~Terminal /\ result \in {"unsent", "refused"})

(* terminalReasons: the refusals that end the session, and battleEndReason:*)
(* there is a result to show after one of them only.  A refused ticket is  *)
(* not among them.                                                         *)
TerminalReasons ==
    {"BATTLE_ENDED", "BATTLE_NOT_FOUND", "BATTLE_FULL", "FRAME_TARGET_MISMATCH"}

Reasons == TerminalReasons \union {"BATTLE_TICKET_EXPIRED", "TRANSPORT_NOT_FOUND"}

KindOf(reason) == IF reason = "BATTLE_ENDED" THEN "Ended" ELSE "Failed"

(* IsTerminal; a protocol error is a refusal without a reason.             *)
RefusedFor(reason) == IF reason \in TerminalReasons THEN "terminal" ELSE "refused"

BeatEnd(e) ==
    /\ \E result \in {"sent", "unsent"} \union {RefusedFor(r) : r \in Reasons}
                       \union (IF closed THEN {"closed"} ELSE {}) :
          /\ result = "terminal" => Terminal
          /\ Loop(e, "probe", IF GoesOn(result) THEN "tick" ELSE "over")
    /\ BeatOnly

(* The refusal that makes the session terminal: the loop runs markEnded    *)
(* before it ends.                                                         *)
BeatTerminal(e) ==
    /\ Loop(e, "probe", "ending")
    /\ \E reason \in TerminalReasons : EndFlag(KindOf(reason))
    /\ UNCHANGED <<opts, opened, closed, state, fatal, connVars, supVars, recVars, callVars,
                   closer, ask, sess, dial>>

BeatOver(e) == end = "done" /\ Loop(e, "ending", "over") /\ BeatOnly

-----------------------------------------------------------------------------
(* The rest of the session, without requests of the application and        *)
(* explicit Reconnect.                                                     *)
SessionStep ==
    \/ EndStep
    \/ \E e \in Gens :
          \/ EndNotify(e) \/ ReadExit(e) \/ FailInflight(e) \/ ConnLost(e)
          \/ AwaitEnd(e) \/ GenerationOver(e) \/ WaitManual(e) \/ BackoffStop(e)
          \/ SupFailed(e) \/ SupRestored(e) \/ SupNext(e)
    \/ \E c \in Closers : CloseBegin(c) \/ CloseSettle(c)

(* Close waits for the heartbeat loops too.                                *)
CloseWaits(c) ==
    /\ Live /\ CloseReturn(c)
    /\ \A e \in Gens : beat[e] \in {"none", "over"}
    /\ UNCHANGED openVars

OpenDone ==
    /\ \/ At(0, "failed")
       \/ /\ \A s \in Gens : sup[s] \in {"none", "exit"}
          /\ \A e \in Gens : beat[e] \in {"none", "over"}
          /\ end \in {"none", "done"} /\ linger # "armed"
    /\ UNCHANGED allVars

OpenNext ==
    \/ Prepare
    \/ \E d \in Diallers : DialStep(d) \/ StartHeartbeat(d)
    \/ FirstGeneration
    \/ Ready
    \/ \E s \in Gens : Redial(s) \/ Redialled(s) \/ NewGeneration(s) \/ Replay(s)
    \/ \E e \in Gens : BeatTick(e) \/ BeatEnd(e) \/ BeatTerminal(e) \/ BeatOver(e)
    \/ Live /\ SessionStep /\ UNCHANGED openVars
    \/ \E c \in Closers : CloseWaits(c)
    \/ OpenDone

OpenSpec == OpenInit /\ [][OpenNext]_allVars

-----------------------------------------------------------------------------
(* Correctness.                                                            *)

OpenTypeOK ==
    /\ TypeOK
    /\ dial \in [Diallers ->
          [at : {"none", "socket", "upgrade", "hello", "session", "made", "starting",
                 "done", "failed"},
           sock : BOOLEAN, tries : 0 .. HelloRetries,
           err : {"none", "network", "rejected"}, new : 0 .. MaxGen]]
    /\ beat \in [Gens -> {"none", "tick", "probe", "ending", "over"}]

(* The address dialled is one of the player's own instance if the push     *)
(* names any for the ticket it gives the player, and one of the event's    *)
(* otherwise; never another player's (notify.go 199-241, plan.go 112-119). *)
Addresses(list) == {item.address : item \in {i \in Range(list) : Usable(i)}}

OwnAddresses(f, ticket) ==
    UNION {Addresses(The(entry.endpoints, << >>)) :
              entry \in {n \in UNION {Range(The(l, << >>)) : l \in {f.tickets, f.battleTickets}} :
                            ticket \in Decoded(The(n.ticket, NoText))}}

OwnInstance ==
    ask # NoAsk =>
        \A p \in Params(ask) :
            LET f   == NotifyObject(ask.push)
                own == OwnAddresses(f, p.ticket)
            IN  p.addr \in IF own # {} THEN own ELSE Addresses(The(f.endpoints, << >>))

(* The session waits longer than the server's gap before it takes a KCP    *)
(* flow for dead, unless the application chose T2 or three gaps do not fit *)
(* the width of a duration: what the overflow leaves may be less. Beyond   *)
(* that width as below it no gap makes Open refuse options that are fine   *)
(* without it (plan.go 105-109, options.go 259-277).                       *)
GapIsOutlasted ==
    ask # NoAsk =>
        \A plan \in PlanFromPush(ask.push) :
            LET bare == OptionsOf([plan EXCEPT !.gap = 0], ask.given)
                o    == OptionsOf(plan, ask.given)
            IN  /\ ValidSwitchOptions(bare) => ValidSwitchOptions(o)
                /\ plan.gap \in 1 .. (Top - 1) \div 3 /\ ~o.explicit => o.idleDead > plan.gap

(* The edge reads the ticket that the hello carries, and nothing is left   *)
(* over; a ticket beyond its limit it does not read (hello.go 55-89).  Two *)
(* bytes hold the length.                                                  *)
HelloIsWhole ==
    ask # NoAsk =>
        \A p \in Params(ask) :
            Len(p.ticket) < Byte * Byte =>
                DecodeHello(EncodeHello(p.ticket)) =
                    IF Len(p.ticket) <= MaxTicketLen
                    THEN {[ticket |-> p.ticket, rest |-> << >>]} ELSE {}

(* A socket belongs to a dial that is under way: every failed stage closes *)
(* it, startGeneration takes it over or closes it, and Close, once it has  *)
(* returned, leaves none (transport.go 57-60, 94-127, session.go 163-167). *)
NoSocketLeft ==
    \A d \in Diallers :
        dial[d].sock =>
            /\ dial[d].at \in {"upgrade", "hello", "session", "made"}
            /\ \A c \in Closers : closer[c] # "returned"

(* A live connection of a connected session is kept alive: its heartbeat   *)
(* loop runs, whatever became of earlier probes and earlier generations    *)
(* (heartbeat.go 28-38, 72-83).                                            *)
KeptAlive ==
    /\ sess.kind # "none" /\ sess.beats
    /\ opened /\ ~closed /\ ~Terminal
    /\ reader[gen] = "reading"
    /\ \A d \in Diallers : dial[d].new # gen
    => beat[gen] \in {"tick", "probe"}

-----------------------------------------------------------------------------
(* What the source says and the code does not do.                          *)

(* heartbeat.go 45: no two loops probe at the same time.                   *)
OneProber == Cardinality({e \in Gens : beat[e] = "probe"}) <= 1

(* gen/edge/hello.go 36-37: after "unavailable" the client tries again at  *)
(* once; on UDP it takes it for a refusal.                                 *)
UnavailableIsRetried ==
    [][\A d \in Diallers :
          At(d, "hello") /\ dial'[d].err = "rejected" => dial[d].tries > 0]_allVars

(* options.go 248: T2 is more than two heartbeats.                         *)
DeadAfterTwoBeats ==
    ask # NoAsk =>
        \A p \in Params(ask) : p.opt.idleDead > 2 * p.opt.heartbeat
=============================================================================
