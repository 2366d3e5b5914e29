-------------------------- MODULE DualHooks_proofs --------------------------
(***************************************************************************)
(* Machine-checked facts about DualHooks, for every choice of hooks and    *)
(* kinds of channel, every set of goroutines that run hooks and every      *)
(* number of faults.                                                       *)
(***************************************************************************)
EXTENDS DualHooks, TLAPS

-----------------------------------------------------------------------------
(* The invariants the properties rest on.                                  *)

StepNames == {"relogin", "join", "check"}
Results   == {"idle", "running", "ok", "failed"}
Runs == [res : Results, todo : {s \in Seq(StepNames) : Len(s) <= 3}]

RunInv ==
    /\ run \in [Runners -> Runs]
    /\ \A r \in Runners : run[r].res # "running" => run[r].todo = << >>

(* The goroutine that a channel waits for runs its hook, and no other's.   *)
WaitInv ==
    /\ \A c \in Channels :
          /\ st[c] = "hook" <=> waits[c] # None
          /\ waits[c] # None => run[waits[c]].res # "idle"
    /\ \A c, d \in Channels : waits[c] = waits[d] /\ waits[c] # None => c = d

(* Before DialDual returns nobody has logged in, joined or closed.         *)
PhaseInv ==
    /\ phase # "returned" => joined = "no" /\ run[User] = Idle /\ ~closing
    /\ phase = "start" => st["business"] = "none"
    /\ phase \in {"start", "business"} => st["battle"] = "none"

(* What there is to do ends in a Join, and the battle channel's hook and   *)
(* the caller check nothing.                                               *)
TodoInv ==
    /\ \A r \in Runners : run[r].todo # << >> => run[r].todo[Len(run[r].todo)] = "join"
    /\ waits["battle"] # None => run[waits["battle"]].todo \in {<< >>, <<"join">>}
    /\ run[User].todo \in {<< >>, <<"join">>, <<"relogin", "join">>}

Finished(r) == run[r].res \in {"running", "ok"} /\ run[r].todo = << >>

(* Who connects the battle channel, or was there first, has joined.        *)
JoinedInv ==
    /\ waits["battle"] # None /\ Finished(waits["battle"]) => joined # "no"
    /\ st["battle"] = "connected" /\ Finished(User) => joined # "no"

(* A login that the battle connection has not joined with is somebody's    *)
(* who has a Join to make, or whose hook will be run again.                *)
Pending ==
    \/ \E r \in Runners : run[r].todo # << >>
    \/ \E c \in Channels : waits[c] # None /\ run[waits[c]].res = "failed"
    \/ st["business"] \in {"lost", "closed"}

StaleInv == joined = "stale" /\ ~missed => Pending

IInv ==
    /\ TypeOK /\ RunInv /\ WaitInv /\ PhaseInv
    /\ opts["battle"] = "join" => TodoInv /\ JoinedInv /\ StaleInv

-----------------------------------------------------------------------------
(* What a hook has to do.                                                  *)

LEMMA ChannelNames == \A c \in Channels : c \in {"business", "battle"}
  BY DEF Channels

LEMMA StepsType ==
    ASSUME TypeOK, NEW k \in {"top", "business", "battle"}
    PROVE  /\ Steps(opts[k]) \in Seq(StepNames) /\ Len(Steps(opts[k])) <= 1
           /\ opts[k] # None => opts[k] \in {"relogin", "join"}
<1>1. opts[k] \in {"relogin", "join", None}  BY DualAssumption DEF TypeOK
<1>2. CASE opts[k] = None
  BY <1>2 DEF Steps
<1>3. CASE opts[k] # None
  <2>1. opts[k] \in {"relogin", "join"} /\ Steps(opts[k]) = <<opts[k]>>  BY <1>1, <1>3 DEF Steps
  <2>2. <<opts[k]>> \in Seq(StepNames) /\ Len(<<opts[k]>>) = 1  BY <2>1 DEF StepNames
  <2> QED  BY <2>1, <2>2
<1> QED  BY <1>2, <1>3

Chained == IF opts["battle"] = None THEN << >> ELSE <<"check", opts["battle"]>>

LEMMA ChainedType ==
    ASSUME TypeOK
    PROVE  Chained \in Seq(StepNames) /\ Len(Chained) <= 2
<1>1. opts["battle"] # None => opts["battle"] \in {"relogin", "join"}  BY StepsType
<1>2. CASE opts["battle"] = None  BY <1>2 DEF Chained
<1>3. CASE opts["battle"] # None
  <2>1. opts["battle"] \in StepNames /\ "check" \in StepNames  BY <1>1, <1>3 DEF StepNames
  <2> QED  BY <1>3, <2>1 DEF Chained
<1> QED  BY <1>2, <1>3

LEMMA ProgramType ==
    ASSUME TypeOK, NEW c \in Channels
    PROVE  Program(c) \in Seq(StepNames) /\ Len(Program(c)) <= 3
<1>1. \A k \in {"top", "business", "battle"} :
         Steps(opts[k]) \in Seq(StepNames) /\ Len(Steps(opts[k])) <= 1
  BY StepsType
<1>2. Steps(Configured(c)) \in Seq(StepNames) /\ Len(Steps(Configured(c))) <= 1
  BY <1>1, ChannelNames DEF Configured
<1>3. Program(c) = Steps(Configured(c)) \/ Program(c) = Steps(Configured(c)) \o Chained
  BY DEF Program, Chained
<1> QED  BY <1>2, <1>3, ChainedType

(* Where the battle channel joins, both hooks end in a Join.               *)
LEMMA ProgramJoins ==
    ASSUME TypeOK, opts["battle"] = "join"
    PROVE  /\ Program("battle") = <<"join">> /\ HasHook("battle") /\ HasHook("business")
           /\ LET p == Program("business") IN p # << >> /\ p[Len(p)] = "join"
<1>1. None # "join"  BY DualAssumption
<1>2. Program("battle") = <<"join">> /\ HasHook("battle") /\ HasHook("business")
  BY <1>1 DEF Program, Configured, Steps, HasHook
<1> DEFINE s == Steps(Configured("business"))
<1>3. s \in Seq(StepNames)
  BY StepsType DEF Configured
<1>4. Program("business") = s \o <<"check", "join">>
  BY <1>1 DEF Program
<1> HIDE DEF s
<1>5. <<"check", "join">> \in Seq(StepNames)  BY DEF StepNames
<1>6. Len(s \o <<"check", "join">>) = Len(s) + 2
  BY <1>3, <1>5
<1>7. (s \o <<"check", "join">>)[Len(s) + 2] = "join"
  BY <1>3, <1>5
<1>8. s \o <<"check", "join">> # << >>
  BY <1>3, <1>6
<1> QED  BY <1>2, <1>4, <1>6, <1>7, <1>8

-----------------------------------------------------------------------------
(* How the steps move the goroutines.                                      *)

StepsTo(r, q) ==
    /\ run' = [run EXCEPT ![r] = q]
    /\ q \in Runs /\ (q.res # "running" => q.todo = << >>)

LEMMA Stepped ==
    ASSUME RunInv, NEW r \in Runners, NEW q, StepsTo(r, q)
    PROVE  /\ RunInv' /\ run'[r] = q
           /\ \A x \in Runners : x # r => run'[x] = run[x]
  BY DEF RunInv, StepsTo

Ended(res) == [res |-> res, todo |-> << >>]

LEMMA EndedType ==
    /\ \A res \in Results : Ended(res) \in Runs
    /\ Idle = Ended("idle") /\ Go(<< >>) = Ended("running")
<1>1. << >> \in Seq(StepNames) /\ Len(<< >>) = 0  OBVIOUS
<1>2. \A res \in Results : Ended(res) \in Runs  BY <1>1 DEF Runs, Ended
<1> QED  BY <1>2 DEF Ended, Idle, Go

LEMMA TailType ==
    ASSUME NEW S, NEW s \in Seq(S), s # << >>
    PROVE  /\ Tail(s) \in Seq(S) /\ Len(Tail(s)) = Len(s) - 1
           /\ \A i \in 1 .. Len(s) - 1 : Tail(s)[i] = s[i + 1]
  OBVIOUS

(* A request that was made is off the list.                                *)
LEMMA Shortened ==
    ASSUME RunInv, NEW r \in Runners, run[r].todo # << >>,
           NEW rest \in {<< >>, Tail(run[r].todo)}, Done(r, rest)
    PROVE  StepsTo(r, Go(rest))
<1>1. run[r] \in Runs /\ run[r].res = "running"  BY DEF RunInv
<1>2. rest \in Seq(StepNames) /\ Len(rest) <= 3
  <2> DEFINE s == run[r].todo
  <2>1. s \in Seq(StepNames) /\ s # << >> /\ Len(s) <= 3  BY <1>1 DEF Runs
  <2>0. rest = << >> \/ rest = Tail(s)  OBVIOUS
  <2> HIDE DEF s
  <2>2. Tail(s) \in Seq(StepNames) /\ Len(Tail(s)) = Len(s) - 1  BY <2>1, TailType
  <2>3. << >> \in Seq(StepNames) /\ Len(<< >>) = 0  OBVIOUS
  <2>4. Len(s) \in Nat /\ Len(s) - 1 <= 3  BY <2>1
  <2>5. CASE rest = << >>  BY <2>3, <2>5
  <2>6. CASE rest = Tail(s)
    <3>1. Len(Tail(s)) <= 3  BY <2>2, <2>4
    <3> QED  BY <2>2, <2>6, <3>1
  <2> QED  BY <2>0, <2>5, <2>6
<1>3. Go(rest) \in Runs /\ Go(rest).res = "running"  BY <1>2 DEF Go, Runs, Results
<1>4. [run[r] EXCEPT !.todo = rest] = Go(rest)
  BY <1>1 DEF Runs, Go
<1>5. run' = [run EXCEPT ![r] = [run[r] EXCEPT !.todo = rest]]  BY DEF Done
<1> QED  BY <1>3, <1>4, <1>5 DEF StepsTo

LEMMA Ending ==
    ASSUME RunInv, NEW r \in Runners, NEW res \in {"ok", "failed"}, End(r, res)
    PROVE  StepsTo(r, Ended(res))
<1>1. Ended(res) \in Runs  BY EndedType DEF Results
<1> QED  BY <1>1 DEF End, StepsTo, Ended

LEMMA RequestSteps ==
    ASSUME RunInv, NEW r \in Runners
    PROVE  /\ Relogin(r) \/ Join(r) => StepsTo(r, Go(Tail(run[r].todo)))
           /\ Check(r) => StepsTo(r, Go(IF Skips THEN << >> ELSE Tail(run[r].todo)))
           /\ FunctionEnds(r) => StepsTo(r, Ended("ok"))
           /\ Unreachable(r) \/ Fail(r) => StepsTo(r, Ended("failed"))
<1>1. ASSUME Relogin(r) \/ Join(r) PROVE StepsTo(r, Go(Tail(run[r].todo)))
  <2>1. run[r].todo # << >> /\ Done(r, Tail(run[r].todo))
    BY <1>1 DEF Relogin, Join, Does
  <2> QED  BY <2>1, Shortened
<1>2. ASSUME Check(r) PROVE StepsTo(r, Go(IF Skips THEN << >> ELSE Tail(run[r].todo)))
  <2>1. run[r].todo # << >> /\ Done(r, IF Skips THEN << >> ELSE Tail(run[r].todo))
    BY <1>2 DEF Check, Does
  <2> QED  BY <2>1, Shortened
<1>3. ASSUME FunctionEnds(r) PROVE StepsTo(r, Ended("ok"))
  BY <1>3, Ending DEF FunctionEnds
<1>4. ASSUME Unreachable(r) \/ Fail(r) PROVE StepsTo(r, Ended("failed"))
  BY <1>4, Ending DEF Unreachable, Fail
<1> QED  BY <1>1, <1>2, <1>3, <1>4

LEMMA Started ==
    ASSUME TypeOK, RunInv, NEW c \in Channels, IsFree,
           run' = [run EXCEPT ![Free] = Go(Program(c))]
    PROVE  Free \in Hooks /\ run[Free] = Idle /\ StepsTo(Free, Go(Program(c)))
<1>1. Free \in Hooks /\ run[Free] = Idle  BY DEF IsFree, Free
<1>2. Go(Program(c)) \in Runs /\ Go(Program(c)).res = "running"
  BY ProgramType DEF Go, Runs, Results
<1> QED  BY <1>1, <1>2 DEF StepsTo

LEMMA HookSteps ==
    ASSUME TypeOK, RunInv, WaitInv
    PROVE  /\ Return => StepsTo(User, Go(<<"relogin", "join">>))
           /\ Trigger => /\ Free \in Hooks /\ run[Free] = Idle
                         /\ StepsTo(Free, Go(Program("business")))
           /\ \A h \in Hooks : HookReturns(h) => StepsTo(h, Idle)
           /\ \A c \in Channels :
                 /\ Redial(c) /\ HasHook(c) =>
                       /\ Free \in Hooks /\ run[Free] = Idle
                       /\ StepsTo(Free, Go(Program(c)))
                 /\ HookDone(c) => waits[c] \in Hooks /\ StepsTo(waits[c], Idle)
<1>1. ASSUME Return PROVE StepsTo(User, Go(<<"relogin", "join">>))
  <2>1. <<"relogin", "join">> \in Seq(StepNames) /\ Len(<<"relogin", "join">>) <= 3
    BY DEF StepNames
  <2> HIDE DEF StepNames
  <2>2. Go(<<"relogin", "join">>) \in Runs /\ Go(<<"relogin", "join">>).res = "running"
    BY <2>1 DEF Go, Runs, Results
  <2> QED  BY <1>1, <2>2 DEF Return, StepsTo
<1>2. ASSUME Trigger
      PROVE  Free \in Hooks /\ run[Free] = Idle /\ StepsTo(Free, Go(Program("business")))
  BY <1>2, Started DEF Trigger, Channels
<1>3. Idle \in Runs /\ Idle.todo = << >>  BY EndedType DEF Results, Ended
<1>4. ASSUME NEW h \in Hooks, HookReturns(h) PROVE StepsTo(h, Idle)
  BY <1>3, <1>4 DEF HookReturns, StepsTo
<1>5. ASSUME NEW c \in Channels, Redial(c), HasHook(c)
      PROVE  Free \in Hooks /\ run[Free] = Idle /\ StepsTo(Free, Go(Program(c)))
  BY <1>5, Started DEF Redial
<1>6. ASSUME NEW c \in Channels, HookDone(c)
      PROVE  waits[c] \in Hooks /\ StepsTo(waits[c], Idle)
  <2>1. waits[c] \in Hooks  BY <1>6 DEF HookDone, WaitInv, TypeOK
  <2> QED  BY <1>3, <1>6, <2>1 DEF HookDone, StepsTo
<1> QED  BY <1>1, <1>2, <1>4, <1>5, <1>6

(* The steps that leave every goroutine alone.                             *)
Quietly ==
    \/ Refuse \/ DialBusiness \/ DialBattle \/ Expire \/ Close
    \/ \E r \in Runners : Queue(r)
    \/ \E c \in Channels :
          (Redial(c) /\ ~HasHook(c)) \/ CloseChannel(c) \/ Lose(c) \/ HookTimeout(c)
    \/ UNCHANGED vars

LEMMA Actions ==
    [Next]_vars =>
       \/ Quietly \/ Return \/ Trigger
       \/ \E r \in Runners : Relogin(r) \/ Join(r) \/ Check(r) \/ FunctionEnds(r)
                                \/ Unreachable(r) \/ Fail(r)
       \/ \E h \in Hooks : HookReturns(h)
       \/ \E c \in Channels : (Redial(c) /\ HasHook(c)) \/ HookDone(c)
  BY DEF Next, Dial, Request, ChanStep, HookReturns, Quietly

LEMMA QuietlyRuns == Quietly => UNCHANGED run
  BY DEF Quietly, Refuse, DialBusiness, DialBattle, Expire, Close, Queue, Redial, CloseChannel,
         Lose, HookTimeout, vars

LEMMA RunInvNext == TypeOK /\ RunInv /\ WaitInv /\ [Next]_vars => RunInv'
<1> SUFFICES ASSUME TypeOK, RunInv, WaitInv, [Next]_vars PROVE RunInv'
  OBVIOUS
<1>1. CASE Quietly
  BY <1>1, QuietlyRuns DEF RunInv
<1>2. CASE \E r \in Runners : \E q : StepsTo(r, q)
  BY <1>2, Stepped
<1>3. Hooks \subseteq Runners /\ User \in Runners  BY DEF Runners
<1> QED  BY <1>1, <1>2, <1>3, Actions, RequestSteps, HookSteps

-----------------------------------------------------------------------------
(* Type correctness, by groups of variables.                               *)

TypeDial ==
    /\ roles \in RolePairs /\ opts \in OptsChoices
    /\ phase \in {"start", "business", "both", "returned", "failed"}

TypeChan ==
    /\ st \in [Channels -> {"none", "connected", "lost", "hook", "closed"}]
    /\ waits \in [Channels -> Hooks \union {None}] /\ busy \in Hooks \union {None}

TypeSrv ==
    /\ authed \in BOOLEAN /\ missed \in BOOLEAN /\ closing \in BOOLEAN
    /\ joined \in {"no", "stale", "current"} /\ queued \subseteq Runners
    /\ faults \in 0 .. MaxFaults

LEMMA TypeGroups ==
    /\ TypeOK => TypeDial /\ TypeChan /\ TypeSrv
    /\ TypeDial /\ TypeChan /\ TypeSrv /\ RunInv => TypeOK
<1>1. TypeOK => TypeDial /\ TypeChan /\ TypeSrv
  BY DEF TypeOK, TypeDial, TypeChan, TypeSrv
<1>2. ASSUME RunInv, NEW r \in Runners
      PROVE  run[r].res \in Results /\ Len(run[r].todo) \in 0 .. 3
  <2> DEFINE s == run[r].todo
  <2>1. s \in Seq(StepNames) /\ Len(s) <= 3 /\ run[r].res \in Results
    BY <1>2 DEF RunInv, Runs
  <2>2. Len(s) \in Nat  BY <2>1
  <2> DEFINE n == Len(s)
  <2>3. n \in Nat /\ n <= 3  BY <2>1, <2>2
  <2> HIDE DEF n
  <2>4. n \in 0 .. 3  BY <2>3
  <2> QED  BY <2>1, <2>4 DEF n
<1> QED  BY <1>1, <1>2 DEF TypeOK, TypeDial, TypeChan, TypeSrv, Results

LEMMA TypeDialNext == TypeDial /\ [Next]_vars => TypeDial'
<1> SUFFICES ASSUME TypeDial, [Next]_vars PROVE TypeDial'
  OBVIOUS
<1>1. UNCHANGED <<roles, opts>>
  BY DEF Next, Dial, Refuse, DialBusiness, DialBattle, Return, Request, Relogin, Join, Check,
         FunctionEnds, Queue, Unreachable, Fail, ChanStep, Redial, HookDone, Lose, Expire,
         HookTimeout, Trigger, HookReturns, Close, CloseChannel, vars
<1>2. phase' \in {phase, "business", "both", "returned", "failed"}
  BY DEF Next, Dial, Refuse, DialBusiness, DialBattle, Return, Request, Relogin, Join, Check,
         FunctionEnds, Queue, Unreachable, Fail, ChanStep, Redial, HookDone, Lose, Expire,
         HookTimeout, Trigger, HookReturns, Close, CloseChannel, vars
<1> QED  BY <1>1, <1>2 DEF TypeDial

(* How a channel moves, and whom it waits for then.                        *)
Moves(c, to, hook) ==
    /\ st' = [st EXCEPT ![c] = to] /\ waits' = [waits EXCEPT ![c] = hook]
    /\ UNCHANGED busy

LEMMA ChannelMoves ==
    ASSUME TypeOK, WaitInv, PhaseInv, [Next]_vars
    PROVE  \/ UNCHANGED <<st, waits, busy>>
           \/ \E c \in Channels :
                 \/ \E to \in {"connected", "lost", "closed"} : Moves(c, to, None)
                 \/ Redial(c) /\ HasHook(c) /\ Moves(c, "hook", Free) /\ Free \in Hooks
           \/ UNCHANGED <<st, waits>> /\ busy' \in Hooks \union {None}
<1>0. /\ waits \in [Channels -> Hooks \union {None}]
      /\ \A c \in Channels : st[c] # "hook" => waits[c] = None
      /\ "business" \in Channels /\ "battle" \in Channels
  BY DEF TypeOK, WaitInv, Channels
<1>1. ASSUME NEW c \in Channels, st[c] # "hook" PROVE waits = [waits EXCEPT ![c] = None]
  BY <1>0, <1>1
<1>2. CASE Refuse \/ Expire \/ Close \/ Return \/ UNCHANGED vars
  BY <1>2 DEF Refuse, Expire, Close, Return, connVars, vars
<1>3. CASE \E r \in Runners : Relogin(r) \/ Join(r) \/ Check(r) \/ FunctionEnds(r)
                                 \/ Unreachable(r) \/ Fail(r) \/ Queue(r)
  BY <1>3 DEF Relogin, Join, Check, FunctionEnds, Unreachable, Fail, Queue, connVars
<1>4. ASSUME DialBusiness
      PROVE  UNCHANGED <<st, waits, busy>> \/ Moves("business", "connected", None)
  <2>1. st["business"] # "hook"  BY <1>4 DEF DialBusiness, PhaseInv
  <2> QED  BY <1>0, <1>1, <1>4, <2>1 DEF DialBusiness, Moves
<1>5. ASSUME DialBattle
      PROVE  Moves("battle", "connected", None) \/ Moves("business", "closed", None)
  <2>1. st["battle"] # "hook"  BY <1>5 DEF DialBattle, PhaseInv
  <2> QED  BY <1>0, <1>1, <1>5, <2>1 DEF DialBattle, Moves
<1>6. ASSUME NEW c \in Channels, Redial(c)
      PROVE  \/ HasHook(c) /\ Moves(c, "hook", Free) /\ Free \in Hooks
             \/ Moves(c, "connected", None)
  <2>1. st[c] # "hook"  BY <1>6 DEF Redial
  <2>2. IsFree => Free \in Hooks  BY DEF IsFree, Free
  <2> QED  BY <1>1, <1>6, <2>1, <2>2 DEF Redial, Moves
<1>7. ASSUME NEW c \in Channels, HookDone(c)
      PROVE  Moves(c, "connected", None) \/ Moves(c, "lost", None)
  BY <1>7 DEF HookDone, Moves
<1>8. ASSUME NEW c \in Channels, Lose(c) PROVE Moves(c, "lost", None)
  <2>1. st[c] # "hook"  BY <1>8 DEF Lose
  <2> QED  BY <1>1, <1>8, <2>1 DEF Lose, Moves
<1>9. ASSUME NEW c \in Channels, HookTimeout(c) PROVE Moves(c, "lost", None)
  BY <1>9 DEF HookTimeout, Moves
<1>10. ASSUME NEW c \in Channels, CloseChannel(c) PROVE Moves(c, "closed", None)
  BY <1>10 DEF CloseChannel, Moves
<1>11. ASSUME Trigger \/ \E h \in Hooks : HookReturns(h)
       PROVE  UNCHANGED <<st, waits>> /\ busy' \in Hooks \union {None}
  BY <1>11 DEF Trigger, HookReturns, IsFree, Free, TypeOK
<1> QED
  BY <1>0, <1>2, <1>3, <1>4, <1>5, <1>6, <1>7, <1>8, <1>9, <1>10, <1>11, Actions DEF Quietly

LEMMA TypeChanNext ==
    ASSUME TypeOK, WaitInv, PhaseInv, [Next]_vars
    PROVE  TypeChan'
<1>0. TypeChan  BY TypeGroups
<1>1. ASSUME NEW c \in Channels, NEW hook \in Hooks \union {None},
             NEW to \in {"connected", "lost", "closed", "hook"}, Moves(c, to, hook)
      PROVE  TypeChan'
  BY <1>0, <1>1 DEF TypeChan, Moves
<1>2. CASE UNCHANGED <<st, waits>> /\ busy' \in Hooks \union {None}
  BY <1>0, <1>2 DEF TypeChan
<1> QED  BY <1>0, <1>1, <1>2, ChannelMoves DEF TypeChan

LEMMA FaultType == TypeSrv /\ Fault => faults' \in 0 .. MaxFaults
  BY DualAssumption DEF TypeSrv, Fault

LEMMA TypeSrvNext == TypeSrv /\ [Next]_vars => TypeSrv'
<1> SUFFICES ASSUME TypeSrv, [Next]_vars PROVE TypeSrv'
  OBVIOUS
<1>1. CASE Dial \/ Trigger \/ Expire \/ Close
  <2>1. CASE Refuse \/ Return \/ Trigger
    BY <2>1 DEF Refuse, Return, Trigger, TypeSrv, srvVars
  <2>2. CASE DialBusiness \/ DialBattle
    BY <2>2, FaultType DEF DialBusiness, DialBattle, TypeSrv, srvVars
  <2>3. CASE Expire \/ Close
    BY <2>3, FaultType, Zenon DEF Expire, Close, TypeSrv, srvVars
  <2> QED  BY <1>1, <2>1, <2>2, <2>3 DEF Dial
<1>2. ASSUME NEW r \in Runners, Request(r) \/ Fail(r) \/ HookReturns(r) PROVE TypeSrv'
  <2>1. CASE Relogin(r) \/ Join(r)
    BY <2>1 DEF Relogin, Join, Done, TypeSrv
  <2>2. CASE Check(r)
    BY <2>2 DEF Check, Done, TypeSrv
  <2>3. CASE FunctionEnds(r) \/ Queue(r) \/ HookReturns(r)
    BY <2>3 DEF FunctionEnds, End, Queue, HookReturns, TypeSrv, srvVars
  <2>4. CASE Unreachable(r)
    BY <2>4 DEF Unreachable, End, Leaves, TypeSrv
  <2>5. CASE Fail(r)
    BY <2>5, FaultType DEF Fail, End, Leaves, TypeSrv
  <2> QED  BY <1>2, <2>1, <2>2, <2>3, <2>4, <2>5 DEF Request
<1>3. ASSUME NEW c \in Channels, ChanStep(c) \/ CloseChannel(c) \/ Lose(c) \/ HookTimeout(c)
      PROVE  TypeSrv'
  <2>1. CASE Redial(c)
    BY <2>1 DEF Redial, TypeSrv, srvVars
  <2>2. CASE HookDone(c) \/ CloseChannel(c)
    BY <2>2 DEF HookDone, CloseChannel, Forget, TypeSrv, srvVars
  <2>3. CASE Lose(c) \/ HookTimeout(c)
    BY <2>3, FaultType, Zenon DEF Lose, HookTimeout, Forget, TypeSrv
  <2> QED  BY <1>3, <2>1, <2>2, <2>3 DEF ChanStep
<1>4. CASE UNCHANGED vars
  BY <1>4 DEF vars, srvVars, TypeSrv
<1> QED  BY <1>1, <1>2, <1>3, <1>4 DEF Next

LEMMA TypeNext ==
    ASSUME TypeOK, RunInv, WaitInv, PhaseInv, [Next]_vars
    PROVE  TypeOK'
<1>1. TypeDial /\ TypeChan /\ TypeSrv  BY TypeGroups
<1>2. TypeDial'  BY <1>1, TypeDialNext
<1>3. TypeChan'  BY TypeChanNext
<1>4. TypeSrv'  BY <1>1, TypeSrvNext
<1>5. RunInv'  BY RunInvNext
<1> QED  BY <1>2, <1>3, <1>4, <1>5, TypeGroups, PTL

-----------------------------------------------------------------------------
(* Before DialDual returns.                                                *)

LEMMA PhaseInvNext ==
    ASSUME TypeOK, RunInv, WaitInv, PhaseInv, [Next]_vars
    PROVE  PhaseInv'
<1>0. /\ "business" \in Channels /\ "battle" \in Channels
      /\ st \in [Channels -> {"none", "connected", "lost", "hook", "closed"}]
      /\ User \in Runners /\ User \notin Hooks
  BY DualAssumption DEF TypeOK, Channels, Runners
<1>1. CASE phase = "returned"
  <2>1. phase' = "returned"
    BY <1>1 DEF Next, Dial, Refuse, DialBusiness, DialBattle, Return, Request, Relogin, Join,
           Check, FunctionEnds, Queue, Unreachable, Fail, ChanStep, Redial, HookDone, Lose,
           Expire, HookTimeout, Trigger, HookReturns, Close, CloseChannel, vars
  <2> QED  BY <2>1 DEF PhaseInv
<1>2. CASE phase # "returned"
  <2>0. joined = "no" /\ run[User] = Idle /\ ~closing  BY <1>2 DEF PhaseInv
  <2>1. CASE Refuse
    BY <1>0, <2>0, <2>1 DEF Refuse, PhaseInv, srvVars, connVars
  <2>2. CASE DialBusiness
    BY <1>0, <2>0, <2>2 DEF DialBusiness, PhaseInv, srvVars
  <2>3. CASE DialBattle
    BY <1>0, <2>0, <2>3 DEF DialBattle, PhaseInv, srvVars
  <2>4. CASE Return
    BY <2>4 DEF Return, PhaseInv
  <2>5. CASE Expire \/ Close \/ UNCHANGED vars
    BY <1>2, <2>0, <2>5 DEF Expire, Close, PhaseInv, connVars, vars, srvVars
  <2>6. ASSUME NEW r \in Runners, Relogin(r) \/ Join(r) PROVE PhaseInv'
    BY <1>2, <2>6 DEF Relogin, Join, Reaches
  <2>7. ASSUME NEW r \in Runners, Check(r) \/ FunctionEnds(r) \/ Unreachable(r) \/ Fail(r)
        PROVE  PhaseInv'
    <3>1. r # User
      BY <2>0, <2>7 DEF Check, FunctionEnds, Unreachable, Fail, Does, Asks, Idle, Go
    <3>2. run'[User] = run[User]
      BY <1>0, <2>7, <3>1, RequestSteps, Stepped
    <3>3. UNCHANGED <<phase, st, joined, closing>>
      BY <2>7 DEF Check, FunctionEnds, Unreachable, Fail, connVars, srvVars
    <3> QED  BY <2>0, <3>2, <3>3 DEF PhaseInv
  <2>8. ASSUME NEW r \in Runners, Queue(r) PROVE PhaseInv'
    BY <1>2, <2>8 DEF Queue
  <2>9. ASSUME NEW r \in Hooks, NEW q, StepsTo(r, q), UNCHANGED <<phase, joined, closing>>,
               \A c \in Channels : st[c] = "none" => st'[c] = "none"
        PROVE  PhaseInv'
    <3>1. run'[User] = run[User]  BY <1>0, <2>9, Stepped DEF Runners
    <3> QED  BY <1>0, <2>0, <2>9, <3>1 DEF PhaseInv
  <2>10. CASE Trigger
    <3>1. UNCHANGED <<phase, joined, closing, st>>  BY <2>10 DEF Trigger, srvVars
    <3> QED  BY <2>9, <2>10, <3>1, HookSteps
  <2>11. ASSUME NEW h \in Hooks, HookReturns(h) PROVE PhaseInv'
    <3>1. UNCHANGED <<phase, joined, closing, st>>  BY <2>11 DEF HookReturns, srvVars
    <3> QED  BY <2>9, <2>11, <3>1, HookSteps
  <2>12. ASSUME NEW c \in Channels, Redial(c), HasHook(c) PROVE PhaseInv'
    <3>1. UNCHANGED <<phase, joined, closing>>  BY <2>12 DEF Redial, srvVars
    <3>2. st[c] # "none" /\ st' = [st EXCEPT ![c] = "hook"]  BY <2>12 DEF Redial
    <3> QED  BY <1>0, <2>9, <2>12, <3>1, <3>2, HookSteps
  <2>13. ASSUME NEW c \in Channels, HookDone(c) PROVE PhaseInv'
    <3>1. UNCHANGED <<phase, closing>> /\ joined' = "no"
      BY <2>0, <2>13 DEF HookDone, Forget, srvVars
    <3>2. st[c] # "none" /\ \E to : st' = [st EXCEPT ![c] = to]  BY <2>13 DEF HookDone
    <3> QED  BY <1>0, <2>0, <2>9, <2>13, <3>1, <3>2, HookSteps
  <2>14. ASSUME NEW c \in Channels,
                (Redial(c) /\ ~HasHook(c)) \/ CloseChannel(c) \/ Lose(c) \/ HookTimeout(c)
         PROVE  PhaseInv'
    <3>1. UNCHANGED <<phase, closing, run>> /\ joined' = "no"
      BY <2>0, <2>14 DEF Redial, CloseChannel, Lose, HookTimeout, Forget, srvVars
    <3>2. st[c] # "none" /\ \E to : st' = [st EXCEPT ![c] = to]
      BY <2>0, <2>14 DEF Redial, CloseChannel, Lose, HookTimeout
    <3>3. \A d \in Channels : st[d] = "none" => st'[d] = "none"  BY <1>0, <3>2
    <3> QED  BY <1>0, <2>0, <3>1, <3>3 DEF PhaseInv
  <2> QED
    BY <2>1, <2>2, <2>3, <2>4, <2>5, <2>6, <2>7, <2>8, <2>10, <2>11, <2>12, <2>13, <2>14,
       Actions DEF Quietly
<1> QED  BY <1>1, <1>2

-----------------------------------------------------------------------------
(* Who waits for whom.                                                     *)

(* Of the goroutines only one that nobody waits for any more becomes idle. *)
LEMMA NotIdled ==
    ASSUME TypeOK, RunInv, WaitInv, PhaseInv, [Next]_vars, NEW d \in Channels, waits'[d] # None
    PROVE  run'[waits'[d]].res # "idle"
<1>0. /\ waits \in [Channels -> Hooks \union {None}]
      /\ \A c \in Channels : waits[c] # None =>
            waits[c] \in Runners /\ run[waits[c]].res # "idle"
      /\ Idle.res = "idle" /\ Hooks \subseteq Runners /\ User \in Runners
  BY DEF TypeOK, WaitInv, Idle, Runners
<1>1. CASE Quietly
  <2>1. UNCHANGED run  BY <1>1, QuietlyRuns
  <2>2. waits'[d] = waits[d]
    <3>1. CASE UNCHANGED waits  BY <3>1
    <3>2. ASSUME NEW c \in Channels, waits' = [waits EXCEPT ![c] = None]
           PROVE waits'[d] = waits[d]
      BY <1>0, <3>2
    <3> QED
      BY <1>1, <3>1, <3>2
         DEF Quietly, Refuse, DialBusiness, DialBattle, Expire, Close, Queue, Redial,
             CloseChannel, Lose, HookTimeout, connVars, vars, Channels
  <2> QED  BY <1>0, <2>1, <2>2
<1>2. ASSUME NEW r \in Runners, NEW q, StepsTo(r, q), UNCHANGED waits,
             q.res # "idle" \/ Unwaited(r)
      PROVE  run'[waits'[d]].res # "idle"
  BY <1>0, <1>2, Stepped DEF Unwaited
<1>3. ASSUME NEW r \in Runners,
             Relogin(r) \/ Join(r) \/ Check(r) \/ FunctionEnds(r) \/ Unreachable(r) \/ Fail(r)
      PROVE  run'[waits'[d]].res # "idle"
  <2>1. UNCHANGED waits
    BY <1>3 DEF Relogin, Join, Check, FunctionEnds, Unreachable, Fail, connVars
  <2>2. \E q : StepsTo(r, q) /\ q.res # "idle"
    <3>1. /\ \A s : Go(s).res = "running"
          /\ Ended("ok").res = "ok" /\ Ended("failed").res = "failed"
      BY DEF Go, Ended
    <3> QED  BY <1>3, <3>1, RequestSteps, Zenon
  <2> QED  BY <1>2, <2>1, <2>2
<1>4. CASE Return
  BY <1>0, <1>2, <1>4, HookSteps DEF Return, connVars, Go
<1>5. CASE Trigger
  BY <1>0, <1>2, <1>5, HookSteps DEF Trigger, Go
<1>6. ASSUME NEW h \in Hooks, HookReturns(h) PROVE run'[waits'[d]].res # "idle"
  BY <1>0, <1>2, <1>6, HookSteps DEF HookReturns
<1>7. ASSUME NEW c \in Channels, Redial(c), HasHook(c) PROVE run'[waits'[d]].res # "idle"
  <2>1. waits' = [waits EXCEPT ![c] = Free]  BY <1>7 DEF Redial
  <2>2. Free \in Runners /\ run[Free] = Idle /\ StepsTo(Free, Go(Program(c)))
    BY <1>0, <1>7, HookSteps
  <2>3. run'[Free].res = "running" /\ \A x \in Runners : x # Free => run'[x] = run[x]
    BY <2>2, Stepped DEF Go
  <2>4. CASE d = c  BY <1>0, <2>1, <2>3, <2>4
  <2>5. CASE d # c
    <3>1. waits'[d] = waits[d]  BY <1>0, <2>1, <2>5
    <3> QED  BY <1>0, <2>2, <2>3, <3>1
  <2> QED  BY <2>4, <2>5
<1>8. ASSUME NEW c \in Channels, HookDone(c) PROVE run'[waits'[d]].res # "idle"
  <2>1. waits' = [waits EXCEPT ![c] = None]  BY <1>8 DEF HookDone
  <2>2. waits[c] \in Runners /\ waits[c] # None /\ StepsTo(waits[c], Idle)
    <3>1. waits[c] \in Hooks /\ StepsTo(waits[c], Idle)  BY <1>8, HookSteps
    <3>2. None \notin Hooks  BY DualAssumption DEF Runners
    <3> QED  BY <1>0, <3>1, <3>2
  <2>3. d # c /\ waits'[d] = waits[d]  BY <1>0, <2>1
  <2>4. waits[d] # waits[c]  BY <2>2, <2>3 DEF WaitInv
  <2>5. run'[waits[d]] = run[waits[d]]  BY <1>0, <2>2, <2>3, <2>4, Stepped
  <2> QED  BY <1>0, <2>3, <2>5
<1> QED  BY <1>1, <1>3, <1>4, <1>5, <1>6, <1>7, <1>8, Actions

LEMMA WaitInvNext ==
    ASSUME TypeOK, RunInv, WaitInv, PhaseInv, [Next]_vars
    PROVE  WaitInv'
<1>0. /\ waits \in [Channels -> Hooks \union {None}] /\ None \notin Hooks
      /\ st \in [Channels -> {"none", "connected", "lost", "hook", "closed"}]
  BY DualAssumption DEF TypeOK, Runners
<1>1. \A d \in Channels : waits'[d] # None => run'[waits'[d]].res # "idle"
  BY NotIdled
<1>2. CASE UNCHANGED <<st, waits>>
  BY <1>1, <1>2 DEF WaitInv
<1>3. ASSUME NEW c \in Channels, NEW to \in {"connected", "lost", "closed"}, Moves(c, to, None)
      PROVE  WaitInv'
  BY <1>0, <1>1, <1>3 DEF WaitInv, Moves
<1>4. ASSUME NEW c \in Channels, Redial(c), HasHook(c), Moves(c, "hook", Free), Free \in Hooks
      PROVE  WaitInv'
  <2>1. run[Free].res = "idle"  BY <1>4, HookSteps DEF Idle
  <2>2. \A d \in Channels : waits[d] # Free  BY <1>0, <1>4, <2>1 DEF WaitInv
  <2> QED  BY <1>0, <1>1, <1>4, <2>2 DEF WaitInv, Moves
<1> QED  BY <1>2, <1>3, <1>4, ChannelMoves

-----------------------------------------------------------------------------
(* What is left to do, where the battle channel has a hook that joins.     *)

LEMMA OptsStay == [Next]_vars => UNCHANGED opts
  BY DEF Next, Dial, Refuse, DialBusiness, DialBattle, Return, Request, Relogin, Join, Check,
         FunctionEnds, Queue, Unreachable, Fail, ChanStep, Redial, HookDone, Lose, Expire,
         HookTimeout, Trigger, HookReturns, Close, CloseChannel, vars

LEMMA Short ==
    ASSUME NEW S, NEW s \in Seq(S)
    PROVE  (Len(s) = 0 => s = << >>) /\ (Len(s) = 1 => s = <<s[1]>>)
  OBVIOUS

LEMMA TailEnds ==
    ASSUME NEW S, NEW s \in Seq(S), s # << >>, NEW e, s[Len(s)] = e
    PROVE  /\ Tail(s) # << >> => Tail(s)[Len(Tail(s))] = e
           /\ Head(s) # e => Tail(s) # << >>
<1> DEFINE n == Len(s)
<1>1. n \in Nat \ {0} /\ Head(s) = s[1] /\ s[n] = e  OBVIOUS
<1>2. Tail(s) \in Seq(S) /\ Len(Tail(s)) = n - 1
      /\ \A i \in 1 .. n - 1 : Tail(s)[i] = s[i + 1]  BY TailType
<1> HIDE DEF n
<1>3. n = 1 \/ n - 1 \in 1 .. n - 1  BY <1>1
<1>4. CASE n = 1
  <2>1. Len(Tail(s)) = 0  BY <1>2, <1>4
  <2>2. Tail(s) = << >>  BY <1>2, <2>1, Short, Zenon
  <2> QED  BY <1>1, <1>4, <2>2
<1>5. CASE n - 1 \in 1 .. n - 1
  <2>1. (n - 1) + 1 = n  BY <1>1
  <2>2. Tail(s)[n - 1] = s[(n - 1) + 1]  BY <1>2, <1>5, Zenon
  <2>3. Tail(s)[Len(Tail(s))] = e  BY <1>1, <1>2, <2>1, <2>2, Zenon
  <2>4. n - 1 # 0  BY <1>1, <1>5
  <2>5. Len(Tail(s)) # 0  BY <1>2, <2>4, Zenon
  <2>6. Len(<< >>) = 0  OBVIOUS
  <2> QED  BY <2>3, <2>5, <2>6, Zenon
<1> QED  BY <1>3, <1>4, <1>5

LEMMA Tails ==
    \A s \in {<< >>, <<"join">>, <<"relogin", "join">>} :
       s # << >> => Tail(s) \in {<< >>, <<"join">>}
<1>1. Tail(<<"join">>) = << >>
  <2>1. <<"join">> \in Seq({"join"}) /\ <<"join">> # << >>  OBVIOUS
  <2>2. Tail(<<"join">>) \in Seq({"join"}) /\ Len(Tail(<<"join">>)) = 0  BY <2>1, TailType
  <2> QED  BY <2>2, Short
<1>2. Tail(<<"relogin", "join">>) = <<"join">>
  <2> DEFINE t == <<"relogin", "join">>
  <2>1. t \in Seq({"join", "relogin"}) /\ t # << >> /\ Len(t) = 2 /\ t[2] = "join"
    OBVIOUS
  <2> HIDE DEF t
  <2>2. /\ Tail(t) \in Seq({"join", "relogin"})
        /\ Len(Tail(t)) = 1 /\ Tail(t)[1] = "join"
    BY <2>1, TailType
  <2>3. Tail(t) = <<"join">>  BY <2>2, Short, Zenon
  <2> QED  BY <2>3 DEF t
<1> QED  BY <1>1, <1>2

(* A goroutine makes requests off its list, or is given a hook.            *)
Works(r) ==
    \E q : /\ StepsTo(r, q)
           /\ q.todo = << >> \/ (run[r].todo # << >> /\ q.todo = Tail(run[r].todo))

LEMMA RunEffect ==
    ASSUME TypeOK, RunInv, WaitInv, [Next]_vars
    PROVE  \/ UNCHANGED run
           \/ \E r \in Runners : Works(r)
           \/ Return /\ StepsTo(User, Go(<<"relogin", "join">>))
           \/ Trigger /\ Free \in Hooks /\ run[Free] = Idle
                      /\ StepsTo(Free, Go(Program("business")))
           \/ \E c \in Channels :
                 /\ Redial(c) /\ HasHook(c) /\ Free \in Hooks /\ run[Free] = Idle
                 /\ StepsTo(Free, Go(Program(c)))
<1>0. /\ \A s : Go(s).todo = s
      /\ \A res : Ended(res).todo = << >>
      /\ Idle.todo = << >> /\ Hooks \subseteq Runners
  BY DEF Go, Ended, Idle, Runners
<1>1. ASSUME NEW r \in Runners, Relogin(r) \/ Join(r) \/ Check(r) PROVE Works(r)
  <2>1. run[r].todo # << >>  BY <1>1 DEF Relogin, Join, Check, Does
  <2>2. StepsTo(r, Go(<< >>)) \/ StepsTo(r, Go(Tail(run[r].todo)))  BY <1>1, RequestSteps
  <2> QED  BY <1>0, <2>1, <2>2 DEF Works
<1>2. ASSUME NEW r \in Runners, FunctionEnds(r) \/ Unreachable(r) \/ Fail(r) PROVE Works(r)
  <2>1. \E res : StepsTo(r, Ended(res))  BY <1>2, RequestSteps
  <2> QED  BY <1>0, <2>1 DEF Works
<1>3. ASSUME NEW h \in Hooks, HookReturns(h) PROVE Works(h)
  BY <1>0, <1>3, HookSteps DEF Works
<1>4. ASSUME NEW c \in Channels, HookDone(c) PROVE \E r \in Runners : Works(r)
  BY <1>0, <1>4, HookSteps DEF Works
<1> QED  BY <1>0, <1>1, <1>2, <1>3, <1>4, Actions, QuietlyRuns, HookSteps

LEMMA TodoInvNext ==
    ASSUME TypeOK, RunInv, WaitInv, PhaseInv, TodoInv, opts["battle"] = "join", [Next]_vars
    PROVE  TodoInv'
<1>0. /\ "battle" \in Channels /\ User \in Runners /\ User \notin Hooks /\ Hooks \subseteq Runners
      /\ waits \in [Channels -> Hooks \union {None}] /\ None \notin Hooks
      /\ \A s : Go(s).todo = s
  BY DualAssumption DEF TypeOK, Channels, Runners, Go
<1>1. \A r \in Runners : run[r].todo \in Seq(StepNames)
  BY DEF RunInv, Runs
<1>2. \A r \in Runners : run'[r].todo # << >> => run'[r].todo[Len(run'[r].todo)] = "join"
  <2>1. ASSUME NEW r \in Runners, NEW q, StepsTo(r, q),
               q.todo # << >> => q.todo[Len(q.todo)] = "join"
        PROVE  \A x \in Runners :
                  run'[x].todo # << >> => run'[x].todo[Len(run'[x].todo)] = "join"
    BY <2>1, Stepped DEF TodoInv
  <2>2. CASE UNCHANGED run  BY <2>2 DEF TodoInv
  <2>3. ASSUME NEW r \in Runners, Works(r)
        PROVE  \E q : StepsTo(r, q) /\ (q.todo # << >> => q.todo[Len(q.todo)] = "join")
    BY <1>1, <2>3, TailEnds DEF Works, TodoInv
  <2>4. LET s == <<"relogin", "join">> IN s[Len(s)] = "join"  OBVIOUS
  <2>5. \A c \in Channels : Program(c) # << >> => Program(c)[Len(Program(c))] = "join"
    <3>1. LET s == <<"join">> IN s[Len(s)] = "join"  OBVIOUS
    <3> QED  BY <3>1, ProgramJoins, ChannelNames
  <2> QED
    BY <1>0, <2>1, <2>2, <2>3, <2>4, <2>5, RunEffect DEF Channels
<1>3. \A c \in {<< >>, <<"join">>, <<"relogin", "join">>} :
         c # << >> => Tail(c) \in {<< >>, <<"join">>}
  BY Tails
<1>4. ASSUME NEW x \in Runners, x = User \/ run[x].res # "idle",
             NEW T \in {{<< >>, <<"join">>}, {<< >>, <<"join">>, <<"relogin", "join">>}},
             run[x].todo \in T, x = User => <<"relogin", "join">> \in T
      PROVE  run'[x].todo \in T
  <2>1. CASE UNCHANGED run  BY <1>4, <2>1
  <2>2. ASSUME NEW r \in Runners, Works(r) PROVE run'[x].todo \in T
    <3>1. PICK q : StepsTo(r, q) /\ (q.todo = << >> \/ (run[r].todo # << >>
                                                        /\ q.todo = Tail(run[r].todo)))
      BY <2>2 DEF Works
    <3>2. CASE r = x
      <4>1. run'[x] = q  BY <3>1, <3>2, Stepped
      <4>2. q.todo \in {<< >>, <<"join">>}  BY <1>3, <1>4, <3>1, <3>2
      <4> QED  BY <1>4, <4>1, <4>2
    <3>3. CASE r # x
      <4>1. run'[x] = run[x]  BY <3>1, <3>3, Stepped
      <4> QED  BY <1>4, <4>1
    <3> QED  BY <3>2, <3>3
  <2>3. ASSUME NEW q, StepsTo(User, q), q.todo = <<"relogin", "join">>
        PROVE  run'[x].todo \in T
    <3>1. run'[User] = q /\ (x # User => run'[x] = run[x])  BY <1>0, <2>3, Stepped
    <3> QED  BY <1>4, <2>3, <3>1
  <2>4. ASSUME NEW q, Free \in Hooks, run[Free] = Idle, StepsTo(Free, q)
        PROVE  run'[x].todo \in T
    <3>1. x # Free  BY <1>0, <1>4, <2>4 DEF Idle
    <3>2. run'[x] = run[x]  BY <1>0, <2>4, <3>1, Stepped
    <3> QED  BY <1>4, <3>2
  <2> QED  BY <1>0, <2>1, <2>2, <2>3, <2>4, RunEffect
<1>5. run'[User].todo \in {<< >>, <<"join">>, <<"relogin", "join">>}
  BY <1>0, <1>4 DEF TodoInv
<1>6. ASSUME waits'["battle"] # None PROVE run'[waits'["battle"]].todo \in {<< >>, <<"join">>}
  <2>1. CASE waits'["battle"] = waits["battle"]
    <3>1. waits["battle"] \in Hooks /\ run[waits["battle"]].res # "idle"
      BY <1>0, <1>6, <2>1 DEF WaitInv
    <3> QED  BY <1>0, <1>4, <1>6, <2>1, <3>1 DEF TodoInv
  <2>2. CASE waits'["battle"] # waits["battle"]
    <3>1. Redial("battle") /\ HasHook("battle") /\ Free \in Hooks /\ waits'["battle"] = Free
      BY <1>0, <1>6, <2>2, ChannelMoves DEF Moves
    <3>2. run'[Free] = Go(Program("battle"))
      BY <1>0, <3>1, HookSteps, Stepped
    <3> QED  BY <1>0, <3>1, <3>2, ProgramJoins
  <2> QED  BY <2>1, <2>2
<1> QED  BY <1>2, <1>5, <1>6 DEF TodoInv

-----------------------------------------------------------------------------
(* Whoever connects the battle channel has joined.                         *)

(* A join is forgotten with the connection it was made on.                 *)
LEMMA Forgotten ==
    ASSUME TypeOK, [Next]_vars, joined' = "no"
    PROVE  joined = "no" \/ st'["battle"] \in {"lost", "closed"}
<1>0. st \in [Channels -> {"none", "connected", "lost", "hook", "closed"}]
  BY DEF TypeOK
<1>1. ASSUME NEW c \in Channels, Forget(c) PROVE c = "battle" \/ joined = "no"
  BY <1>1, ChannelNames DEF Forget
<1>2. ASSUME NEW c \in Channels, HookDone(c) \/ CloseChannel(c) \/ Lose(c) \/ HookTimeout(c)
      PROVE  joined = "no" \/ st'["battle"] \in {"lost", "closed"}
  <2>1. UNCHANGED joined \/ (Forget(c) /\ \E to \in {"lost", "closed"} :
                                             st' = [st EXCEPT ![c] = to])
    BY <1>2 DEF HookDone, CloseChannel, Lose, HookTimeout, srvVars
  <2> QED  BY <1>0, <1>1, <2>1
<1>3. CASE Dial \/ Trigger \/ Expire \/ Close \/ UNCHANGED vars
  BY <1>3
     DEF Dial, Refuse, DialBusiness, DialBattle, Return, Trigger, Expire, Close, srvVars, vars
<1>4. ASSUME NEW r \in Runners, Request(r) \/ Fail(r) \/ HookReturns(r) PROVE joined = "no"
  BY <1>4
     DEF Request, Relogin, Join, Check, FunctionEnds, Queue, Unreachable, Fail, HookReturns,
              srvVars
<1>5. ASSUME NEW c \in Channels, Redial(c) PROVE joined = "no"
  BY <1>5 DEF Redial, srvVars
<1> QED  BY <1>2, <1>3, <1>4, <1>5 DEF Next, ChanStep

(* The caller, and a goroutine that is waited for, finish with a Join.     *)
LEMMA Finishing ==
    ASSUME TypeOK, RunInv, WaitInv, [Next]_vars, NEW x \in Runners,
           run[x].todo \in {<< >>, <<"join">>, <<"relogin", "join">>},
           x = User \/ run[x].res # "idle",
           ~Finished(x), Finished(x)'
    PROVE  joined' # "no"
<1>0. /\ User \in Runners /\ User \notin Hooks /\ Hooks \subseteq Runners
      /\ \A s : Go(s).todo = s /\ Go(s).res = "running"
      /\ \A res : Ended(res).todo = << >> /\ Ended(res).res = res
      /\ Idle.res = "idle" /\ <<"relogin", "join">> # << >>
  BY DualAssumption DEF Runners, Go, Ended, Idle
<1>1. run'[x] # run[x]  BY DEF Finished
<1>2. \A r \in Runners : \A q : StepsTo(r, q) => r = x /\ Finished(x)' /\ run'[x] = q
  BY <1>1, Stepped
<1>3. CASE Quietly  BY <1>1, <1>3, QuietlyRuns
<1>4. CASE Return  BY <1>0, <1>2, <1>4, HookSteps DEF Finished
<1>5. CASE Trigger
  BY <1>0, <1>2, <1>5, HookSteps
<1>6. ASSUME NEW h \in Hooks, HookReturns(h) PROVE FALSE
  BY <1>0, <1>2, <1>6, HookSteps DEF Finished
<1>7. ASSUME NEW c \in Channels, (Redial(c) /\ HasHook(c)) \/ HookDone(c) PROVE FALSE
  <2>1. CASE Redial(c) /\ HasHook(c)  BY <1>0, <1>2, <2>1, HookSteps
  <2>2. CASE HookDone(c)  BY <1>0, <1>2, <2>2, HookSteps DEF Finished
  <2> QED  BY <1>7, <2>1, <2>2
<1>8. ASSUME NEW r \in Runners, Relogin(r) \/ Check(r) PROVE FALSE
  <2>1. r = x /\ run[x].todo # << >> /\ Head(run[x].todo) # "join"
    <3>1. StepsTo(r, Go(Tail(run[r].todo))) \/ StepsTo(r, Go(<< >>))
      BY <1>8, RequestSteps
    <3>2. r = x  BY <1>2, <3>1
    <3> QED  BY <1>8, <3>2 DEF Relogin, Check, Does
  <2>2. run[x].todo = <<"relogin", "join">>
    BY <2>1
  <2>3. Relogin(r)
    BY <1>8, <2>1, <2>2 DEF Check, Does
  <2>4. run'[x] = Go(Tail(run[x].todo))  BY <1>2, <2>1, <2>3, RequestSteps
  <2>5. Tail(<<"relogin", "join">>) # << >>
    <3>1. Head(<<"relogin", "join">>) # "join"  OBVIOUS
    <3>2. LET s == <<"relogin", "join">>
          IN s \in Seq(StepNames) /\ s # << >> /\ s[Len(s)] = "join"
      BY DEF StepNames
    <3> QED  BY <3>1, <3>2, TailEnds
  <2> QED  BY <1>0, <2>2, <2>4, <2>5 DEF Finished
<1>9. ASSUME NEW r \in Runners, Join(r) PROVE joined' # "no"
  BY <1>9 DEF Join
<1>10. ASSUME NEW r \in Runners, FunctionEnds(r) PROVE FALSE
  <2>1. r = x  BY <1>2, <1>10, RequestSteps
  <2> QED  BY <1>0, <1>10, <2>1 DEF FunctionEnds, Finished
<1>11. ASSUME NEW r \in Runners, Unreachable(r) \/ Fail(r) PROVE FALSE
  <2>1. run'[x] = Ended("failed")  BY <1>2, <1>11, RequestSteps
  <2> QED  BY <1>0, <2>1 DEF Finished
<1> QED  BY <1>3, <1>4, <1>5, <1>6, <1>7, <1>8, <1>9, <1>10, <1>11, Actions

LEMMA JoinedInvNext ==
    ASSUME TypeOK, RunInv, WaitInv, PhaseInv, TodoInv, JoinedInv, opts["battle"] = "join",
           [Next]_vars
    PROVE  JoinedInv'
<1>0. /\ "battle" \in Channels /\ User \in Runners /\ Hooks \subseteq Runners
      /\ waits \in [Channels -> Hooks \union {None}] /\ None \notin Hooks
      /\ st \in [Channels -> {"none", "connected", "lost", "hook", "closed"}]
      /\ \A s : Go(s).todo = s
  BY DualAssumption DEF TypeOK, Channels, Runners, Go
<1>1. SUFFICES ASSUME joined' = "no", st'["battle"] \notin {"lost", "closed"} PROVE JoinedInv'
  <2>1. WaitInv'  BY WaitInvNext
  <2>2. st'["battle"] \in {"lost", "closed"} => waits'["battle"] = None
    BY <1>0, <2>1 DEF WaitInv
  <2> QED  BY <2>2 DEF JoinedInv
<1>2. joined = "no"  BY <1>1, Forgotten
<1> DEFINE After(x) == run'[x].res \in {"running", "ok"} /\ run'[x].todo = << >>
<1>3. ASSUME NEW x \in Runners,
             run[x].todo \in {<< >>, <<"join">>, <<"relogin", "join">>},
             x = User \/ run[x].res # "idle", ~Finished(x)
      PROVE  ~After(x)
  <2>1. After(x) <=> Finished(x)'  BY DEF Finished
  <2> QED  BY <1>1, <1>3, <2>1, Finishing
<1>4. ASSUME waits'["battle"] # None PROVE ~After(waits'["battle"])
  <2>1. CASE waits'["battle"] = waits["battle"]
    <3>1. /\ waits["battle"] \in Runners /\ run[waits["battle"]].res # "idle"
          /\ ~Finished(waits["battle"])
          /\ run[waits["battle"]].todo \in {<< >>, <<"join">>}
      BY <1>0, <1>2, <1>4, <2>1 DEF WaitInv, JoinedInv, TodoInv
    <3>2. ~After(waits["battle"])  BY <1>3, <3>1
    <3> QED  BY <2>1, <3>2
  <2>2. CASE waits'["battle"] # waits["battle"]
    <3>1. Redial("battle") /\ HasHook("battle") /\ Free \in Hooks /\ waits'["battle"] = Free
      BY <1>0, <1>4, <2>2, ChannelMoves DEF Moves
    <3>2. run'[Free] = Go(<<"join">>)
      BY <1>0, <3>1, HookSteps, Stepped, ProgramJoins
    <3>3. <<"join">> # << >>  OBVIOUS
    <3> QED  BY <1>0, <3>1, <3>2, <3>3
  <2> QED  BY <2>1, <2>2
<1>5. ASSUME st'["battle"] = "connected" PROVE ~After(User)
  <2>1. CASE ~Finished(User)
    BY <1>0, <1>3, <2>1 DEF TodoInv
  <2>2. CASE st["battle"] = "connected"
    <3>1. ~Finished(User)  BY <1>2, <2>2 DEF JoinedInv
    <3> QED  BY <2>1, <3>1
  <2>3. CASE st["battle"] # "connected"
    <3>1. ASSUME DialBattle PROVE ~Finished(User)
      BY <3>1 DEF DialBattle, PhaseInv, Finished, Idle
    <3>2. ASSUME HookDone("battle") PROVE FALSE
      <4>1. run[waits["battle"]].res = "ok" /\ waits["battle"] \in Hooks
        BY <1>0, <1>5, <3>2, HookSteps DEF HookDone
      <4>2. run[waits["battle"]].todo = << >>  BY <1>0, <4>1 DEF RunInv
      <4> QED  BY <1>0, <1>2, <4>1, <4>2 DEF JoinedInv, Finished
    <3>3. DialBattle \/ HookDone("battle")
      <4>1. HasHook("battle")  BY ProgramJoins
      <4>2. UNCHANGED st => FALSE  BY <1>5, <2>3
      <4>3. ASSUME NEW c \in Channels, NEW to, st' = [st EXCEPT ![c] = to]
            PROVE  c = "battle" /\ to = "connected"
        BY <1>0, <1>5, <2>3, <4>3
      <4>4. ASSUME NEW c \in Channels, ChanStep(c) PROVE HookDone("battle")
        BY <4>1, <4>3, <4>4 DEF ChanStep, Redial, HookDone
      <4>5. ASSUME NEW c \in Channels, CloseChannel(c) \/ Lose(c) \/ HookTimeout(c) PROVE FALSE
        BY <4>3, <4>5 DEF CloseChannel, Lose, HookTimeout
      <4>6. ASSUME NEW r \in Runners, Request(r) \/ Fail(r) \/ HookReturns(r) PROVE FALSE
        BY <4>2, <4>6 DEF Request, Relogin, Join, Check, FunctionEnds, Queue, Unreachable, Fail,
                          HookReturns, connVars
      <4>7. ASSUME Dial \/ Trigger \/ Expire \/ Close \/ UNCHANGED vars PROVE DialBattle
        BY <4>2, <4>3, <4>7 DEF Dial, Refuse, DialBusiness, Return, Trigger, Expire, Close,
                                connVars, vars, Channels
      <4> QED  BY <4>4, <4>5, <4>6, <4>7 DEF Next
    <3> QED  BY <2>1, <3>1, <3>2, <3>3
  <2> QED  BY <2>2, <2>3
<1> QED  BY <1>4, <1>5 DEF JoinedInv, Finished

-----------------------------------------------------------------------------
(* Whoever owes a Join after the last login makes it.                      *)

(* A list of requests that is not empty is shortened, or given up by one   *)
(* whose hook runs again.                                                  *)
LEMMA TodoGoesOn ==
    ASSUME TypeOK, RunInv, WaitInv, PhaseInv, TodoInv, opts["battle"] = "join", [Next]_vars,
           NEW r \in Runners, run[r].todo # << >>,
           joined = "stale", joined' = "stale", missed' = FALSE
    PROVE  Pending'
<1>0. /\ \A s : Go(s).todo = s
      /\ \A res : Ended(res).todo = << >> /\ Ended(res).res = res
      /\ Idle.todo = << >> /\ Idle.res = "idle"
      /\ User \in Runners /\ User \notin Hooks /\ Hooks \subseteq Runners
      /\ run[r].todo \in Seq(StepNames) /\ run[r].res = "running"
      /\ phase = "returned"
  BY DualAssumption DEF Go, Ended, Idle, Runners, RunInv, Runs, PhaseInv
<1>1. SUFFICES ASSUME run'[r].todo = << >> PROVE Pending'
  BY DEF Pending
<1>2. run'[r] # run[r]  BY <1>1
<1>3. \A x \in Runners : \A q : StepsTo(x, q) => r = x /\ run'[r] = q
  BY <1>2, Stepped
<1>4. Head(run[r].todo) # "join" => Tail(run[r].todo) # << >>
  BY <1>0, TailEnds DEF TodoInv
<1>5. CASE Quietly  BY <1>2, <1>5, QuietlyRuns
<1>6. CASE Return  BY <1>0, <1>6 DEF Return
<1>7. CASE Trigger  BY <1>0, <1>3, <1>7, HookSteps
<1>8. ASSUME NEW h \in Hooks, HookReturns(h) PROVE FALSE
  <2>1. h = r  BY <1>0, <1>3, <1>8, HookSteps
  <2> QED  BY <1>0, <1>8, <2>1 DEF HookReturns
<1>9. ASSUME NEW c \in Channels, (Redial(c) /\ HasHook(c)) \/ HookDone(c) PROVE FALSE
  <2>1. CASE Redial(c) /\ HasHook(c)  BY <1>0, <1>3, <2>1, HookSteps
  <2>2. CASE HookDone(c)
    <3>1. waits[c] = r  BY <1>0, <1>3, <2>2, HookSteps
    <3> QED  BY <1>0, <2>2, <3>1 DEF HookDone
  <2> QED  BY <1>9, <2>1, <2>2
<1>10. ASSUME NEW x \in Runners, Relogin(x) PROVE FALSE
  <2>1. StepsTo(x, Go(Tail(run[x].todo)))  BY <1>10, RequestSteps
  <2>2. x = r /\ Tail(run[r].todo) = << >>
    <3>1. x = r /\ run'[r] = Go(Tail(run[r].todo))  BY <1>3, <2>1
    <3> QED  BY <1>0, <1>1, <3>1
  <2>3. Head(run[r].todo) = "relogin"  BY <1>10, <2>2 DEF Relogin, Does
  <2> QED  BY <1>4, <2>2, <2>3
<1>11. ASSUME NEW x \in Runners, Join(x) PROVE FALSE
  BY <1>11 DEF Join
<1>12. ASSUME NEW x \in Runners, Check(x) PROVE FALSE
  <2>1. ~(st["battle"] # "connected")  BY <1>12 DEF Check
  <2>2. ~Skips  BY <2>1 DEF Skips
  <2>3. StepsTo(x, Go(Tail(run[x].todo)))  BY <1>12, <2>2, RequestSteps
  <2>4. x = r /\ Tail(run[r].todo) = << >>
    <3>1. x = r /\ run'[r] = Go(Tail(run[r].todo))  BY <1>3, <2>3
    <3> QED  BY <1>0, <1>1, <3>1
  <2>5. Head(run[r].todo) = "check"  BY <1>12, <2>4 DEF Check, Does
  <2> QED  BY <1>4, <2>4, <2>5
<1>13. ASSUME NEW x \in Runners, FunctionEnds(x) PROVE FALSE
  <2>1. x = r  BY <1>3, <1>13, RequestSteps
  <2> QED  BY <1>0, <1>13, <2>1 DEF FunctionEnds
<1>14. ASSUME NEW x \in Runners, Unreachable(x) \/ Fail(x) PROVE Pending'
  <2>1. x = r /\ run'[r] = Ended("failed")  BY <1>3, <1>14, RequestSteps
  <2>2. ~Unwaited(x) /\ UNCHANGED waits
    BY <1>14 DEF Unreachable, Fail, Leaves, connVars
  <2>3. PICK c \in Channels : waits[c] = r  BY <2>1, <2>2 DEF Unwaited
  <2>4. r # None  BY DualAssumption
  <2> QED  BY <1>0, <2>1, <2>2, <2>3, <2>4 DEF Pending
<1> QED
  BY <1>5, <1>6, <1>7, <1>8, <1>9, <1>10, <1>11, <1>12, <1>13, <1>14, Actions

(* What is kept of Pending's other parts: a hook that failed is waited for *)
(* until it is reported, and a business channel that is lost is redialled. *)
LEMMA FailedGoesOn ==
    ASSUME TypeOK, RunInv, WaitInv, PhaseInv, [Next]_vars, phase = "returned",
           NEW c \in Channels, waits[c] # None, run[waits[c]].res = "failed",
           joined' = "stale"
    PROVE  Pending'
<1>0. /\ waits \in [Channels -> Hooks \union {None}] /\ waits[c] \in Hooks
      /\ st \in [Channels -> {"none", "connected", "lost", "hook", "closed"}]
      /\ User \notin Hooks /\ Hooks \subseteq Runners /\ User \in Runners
      /\ Idle.res = "idle" /\ st[c] = "hook" /\ "business" \in Channels
      /\ run[waits[c]].todo = << >>
  BY DualAssumption DEF TypeOK, Runners, Idle, WaitInv, RunInv, Channels
<1> DEFINE h == waits[c]
<1>1. ASSUME NEW to \in {"lost", "closed"}, st' = [st EXCEPT ![c] = to], Forget(c)
       PROVE Pending'
  <2>1. c = "business"
    BY <1>1, ChannelNames DEF Forget
  <2> QED  BY <1>0, <1>1, <2>1 DEF Pending
<1>2. CASE HookDone(c)
  BY <1>0, <1>1, <1>2 DEF HookDone
<1>3. CASE HookTimeout(c) \/ CloseChannel(c)
  BY <1>1, <1>3 DEF HookTimeout, CloseChannel
<1>4. CASE UNCHANGED run /\ waits'[c] = waits[c]
  BY <1>0, <1>4 DEF Pending
<1>5. ASSUME NEW x \in Runners, NEW q, StepsTo(x, q), x # h, waits'[c] = waits[c] PROVE Pending'
  <2>1. run'[h] = run[h]  BY <1>0, <1>5, Stepped
  <2> QED  BY <1>0, <1>5, <2>1 DEF Pending
<1>6. ASSUME NEW x \in Runners,
             Relogin(x) \/ Join(x) \/ Check(x) \/ FunctionEnds(x) \/ Unreachable(x) \/ Fail(x)
      PROVE  Pending'
  <2>1. UNCHANGED waits
    BY <1>6 DEF Relogin, Join, Check, FunctionEnds, Unreachable, Fail, connVars
  <2>2. run[x].todo # << >> \/ run[x].res = "running"
    BY <1>6 DEF Relogin, Join, Check, FunctionEnds, Unreachable, Fail, Does, Asks, Go
  <2>3. x # h  BY <1>0, <2>2
  <2>4. \E q : StepsTo(x, q)  BY <1>6, RequestSteps, Zenon
  <2> QED  BY <1>5, <2>1, <2>3, <2>4
<1>7. CASE Trigger
  <2>1. UNCHANGED waits /\ Free # h  BY <1>0, <1>7, HookSteps DEF Trigger
  <2> QED  BY <1>0, <1>5, <1>7, <2>1, HookSteps
<1>8. ASSUME NEW g \in Hooks, HookReturns(g) PROVE Pending'
  <2>1. UNCHANGED waits /\ g # h  BY <1>8 DEF HookReturns, Unwaited
  <2> QED  BY <1>0, <1>5, <1>8, <2>1, HookSteps
<1>9. ASSUME NEW d \in Channels, d # c, HookDone(d) PROVE Pending'
  <2>1. waits[d] \in Hooks /\ StepsTo(waits[d], Idle)  BY <1>9, HookSteps
  <2>2. waits[d] # h /\ waits'[c] = waits[c]
    BY <1>0, <1>9, <2>1 DEF HookDone, WaitInv
  <2> QED  BY <1>0, <1>5, <2>1, <2>2
<1>10. ASSUME NEW d \in Channels, Redial(d), HasHook(d) PROVE Pending'
  <2>1. Free \in Hooks /\ Free # h /\ StepsTo(Free, Go(Program(d)))
    BY <1>0, <1>10, HookSteps
  <2>2. d # c /\ waits'[c] = waits[c]  BY <1>0, <1>10 DEF Redial
  <2> QED  BY <1>0, <1>5, <2>1, <2>2
<1>11. CASE Return  BY <1>11 DEF Return
<1>12. CASE Quietly
  <2>1. UNCHANGED run  BY <1>12, QuietlyRuns
  <2>2. CASE Refuse \/ DialBusiness \/ DialBattle
    BY <2>2 DEF Refuse, DialBusiness, DialBattle
  <2>3. CASE \/ Expire \/ Close \/ UNCHANGED vars
             \/ \E r \in Runners : Queue(r)
             \/ \E d \in Channels : (Redial(d) /\ ~HasHook(d)) \/ Lose(d)
    <3>1. UNCHANGED waits
      BY <2>3 DEF Expire, Close, Queue, Redial, Lose, connVars, vars
    <3> QED  BY <1>4, <2>1, <3>1
  <2>4. ASSUME NEW d \in Channels, CloseChannel(d) \/ HookTimeout(d) PROVE Pending'
    <3>1. CASE d = c  BY <1>3, <2>4, <3>1
    <3>2. CASE d # c
      <4>1. waits'[c] = waits[c]  BY <1>0, <2>4, <3>2 DEF CloseChannel, HookTimeout
      <4> QED  BY <1>4, <2>1, <4>1
    <3> QED  BY <3>1, <3>2
  <2> QED  BY <1>12, <2>2, <2>3, <2>4 DEF Quietly
<1> QED
  BY <1>2, <1>6, <1>7, <1>8, <1>9, <1>10, <1>11, <1>12, Actions

LEMMA LostGoesOn ==
    ASSUME TypeOK, RunInv, WaitInv, PhaseInv, opts["battle"] = "join", [Next]_vars,
           phase = "returned", st["business"] \in {"lost", "closed"}
    PROVE  Pending'
<1>0. /\ st \in [Channels -> {"none", "connected", "lost", "hook", "closed"}]
      /\ "business" \in Channels /\ Hooks \subseteq Runners
      /\ \A s : Go(s).todo = s
  BY DEF TypeOK, Channels, Runners, Go
<1>1. CASE UNCHANGED st  BY <1>1 DEF Pending
<1>2. ASSUME NEW c \in Channels, NEW to, st' = [st EXCEPT ![c] = to],
             c = "business" => to \in {"lost", "closed"}
      PROVE  Pending'
  BY <1>0, <1>2 DEF Pending
<1>3. ASSUME NEW c \in Channels, Redial(c) PROVE Pending'
  <2>1. CASE c = "business"
    <3>1. HasHook(c) /\ Program(c) # << >>  BY <2>1, ProgramJoins
    <3>2. Free \in Runners /\ run'[Free] = Go(Program(c))
      BY <1>0, <1>3, <3>1, HookSteps, Stepped
    <3> QED  BY <1>0, <3>1, <3>2 DEF Pending
  <2>2. CASE c # "business"
    <3>1. \E to : st' = [st EXCEPT ![c] = to]  BY <1>3 DEF Redial
    <3> QED  BY <1>2, <2>2, <3>1
  <2> QED  BY <2>1, <2>2
<1>4. ASSUME NEW c \in Channels, HookDone(c) \/ Lose(c) \/ HookTimeout(c) PROVE Pending'
  <2>1. c # "business"  BY <1>4 DEF HookDone, Lose, HookTimeout
  <2>2. \E to : st' = [st EXCEPT ![c] = to]  BY <1>4 DEF HookDone, Lose, HookTimeout
  <2> QED  BY <1>2, <2>1, <2>2
<1>5. ASSUME NEW c \in Channels, CloseChannel(c) PROVE Pending'
  BY <1>2, <1>5 DEF CloseChannel
<1>6. CASE Dial \/ Trigger \/ Expire \/ Close \/ UNCHANGED vars
  BY <1>1, <1>6 DEF Dial, Refuse, DialBusiness, DialBattle, Return, Trigger, Expire, Close,
                    connVars, vars
<1>7. ASSUME NEW r \in Runners, Request(r) \/ Fail(r) \/ HookReturns(r) PROVE Pending'
  BY <1>1, <1>7 DEF Request, Relogin, Join, Check, FunctionEnds, Queue, Unreachable, Fail,
                    HookReturns, connVars
<1> QED  BY <1>3, <1>4, <1>5, <1>6, <1>7 DEF Next, ChanStep

LEMMA StaleInvNext ==
    ASSUME TypeOK, RunInv, WaitInv, PhaseInv, TodoInv, StaleInv, opts["battle"] = "join",
           [Next]_vars
    PROVE  StaleInv'
<1>1. SUFFICES ASSUME joined' = "stale", ~missed' PROVE Pending'
  BY DEF StaleInv
<1>2. missed' = FALSE
  <2>1. TypeOK'  BY TypeNext
  <2> QED  BY <1>1, <2>1 DEF TypeOK
<1>3. ASSUME NEW r \in Runners, Relogin(r) PROVE joined # "no" /\ missed = FALSE
  BY <1>1, <1>2, <1>3 DEF Relogin
<1>4. missed = FALSE /\ joined \in {"stale", "current"}
  <2>1. CASE Dial \/ Trigger \/ Expire \/ Close \/ UNCHANGED vars
    BY <1>1, <1>2, <2>1
       DEF Dial, Refuse, DialBusiness, DialBattle, Return, Trigger, Expire, Close,
                            srvVars, vars, TypeOK
  <2>2. ASSUME NEW r \in Runners, Request(r) \/ Fail(r) \/ HookReturns(r)
        PROVE  missed = FALSE /\ joined \in {"stale", "current"}
    <3>1. CASE Relogin(r)  BY <1>1, <1>3, <3>1 DEF TypeOK
    <3>2. CASE Join(r)  BY <1>1, <3>2 DEF Join
    <3>3. CASE Check(r) \/ Unreachable(r) \/ Fail(r)
      BY <1>1, <1>2, <3>3, Zenon DEF Check, Unreachable, Fail, Leaves, TypeOK
    <3>4. CASE FunctionEnds(r) \/ Queue(r) \/ HookReturns(r)
      BY <1>1, <1>2, <3>4 DEF FunctionEnds, Queue, HookReturns, srvVars
    <3> QED  BY <2>2, <3>1, <3>2, <3>3, <3>4 DEF Request
  <2>3. ASSUME NEW c \in Channels, ChanStep(c) \/ CloseChannel(c) \/ Lose(c) \/ HookTimeout(c)
        PROVE  missed = FALSE /\ joined \in {"stale", "current"}
    BY <1>1, <1>2, <2>3 DEF ChanStep, Redial, HookDone, CloseChannel, Lose, HookTimeout, Forget,
                            srvVars
  <2> QED  BY <2>1, <2>2, <2>3 DEF Next
<1>5. phase = "returned"  BY <1>4 DEF PhaseInv
<1>6. CASE joined = "stale"
  <2>1. Pending  BY <1>4, <1>6 DEF StaleInv
  <2> QED
    BY <1>1, <1>2, <1>5, <1>6, <2>1, TodoGoesOn, FailedGoesOn, LostGoesOn DEF Pending
<1>7. CASE joined = "current"
  <2>1. PICK r \in Runners : Relogin(r)
    BY <1>1, <1>7
       DEF Next, Dial, Refuse, DialBusiness, DialBattle, Return, Trigger, Expire, Close,
                      Request, Join, Check, FunctionEnds, Queue, Unreachable, Fail, HookReturns,
                      ChanStep, Redial, HookDone, CloseChannel, Lose, HookTimeout, Forget,
                      srvVars, vars
  <2>2. run[r].todo # << >> /\ Head(run[r].todo) = "relogin"  BY <2>1 DEF Relogin, Does
  <2>3. run[r].todo \in Seq(StepNames)  BY DEF RunInv, Runs
  <2>4. Tail(run[r].todo) # << >>  BY <2>2, <2>3, TailEnds DEF TodoInv
  <2>5. run'[r] = Go(Tail(run[r].todo))  BY <2>1, RequestSteps, Stepped
  <2> QED  BY <2>4, <2>5 DEF Pending, Go
<1> QED  BY <1>4, <1>6, <1>7

-----------------------------------------------------------------------------
(* The theorems.                                                           *)

LEMMA IndInit == Init => IInv
<1> SUFFICES ASSUME Init PROVE IInv
  OBVIOUS
<1>0. /\ User \in Runners /\ Idle \in Runs /\ Idle.todo = << >> /\ Idle.res = "idle"
      /\ \A r \in Runners : run[r] = Idle
      /\ Len(<< >>) = 0 /\ "idle" \in Results
      /\ "battle" \in Channels /\ "business" \in Channels
      /\ None \notin Runners
  BY EndedType, DualAssumption DEF Init, Runners, Results, Ended, Channels
<1>1. RunInv  BY <1>0 DEF Init, RunInv
<1>2. TypeDial /\ TypeChan /\ TypeSrv
  <2>1. TypeDial  BY DEF Init, TypeDial
  <2>2. TypeChan  BY DEF Init, TypeChan
  <2>3. faults \in 0 .. MaxFaults  BY DualAssumption DEF Init
  <2>4. TypeSrv  BY <2>3, Zenon DEF Init, TypeSrv
  <2> QED  BY <2>1, <2>2, <2>4
<1>3. TypeOK  BY <1>1, <1>2, TypeGroups
<1>4. WaitInv /\ PhaseInv  BY <1>0 DEF Init, WaitInv, PhaseInv
<1>5. TodoInv /\ StaleInv  BY <1>0 DEF Init, TodoInv, StaleInv
<1>6. JoinedInv  BY <1>0 DEF Init, JoinedInv, Finished
<1> QED  BY <1>1, <1>3, <1>4, <1>5, <1>6 DEF IInv

LEMMA IndNext == IInv /\ [Next]_vars => IInv'
<1> SUFFICES ASSUME IInv, [Next]_vars PROVE IInv'
  OBVIOUS
<1>1. TypeOK /\ RunInv /\ WaitInv /\ PhaseInv  BY DEF IInv
<1>2. TypeOK' /\ RunInv' /\ WaitInv' /\ PhaseInv'
  BY <1>1, TypeNext, RunInvNext, WaitInvNext, PhaseInvNext
<1>3. ASSUME opts'["battle"] = "join" PROVE TodoInv' /\ JoinedInv' /\ StaleInv'
  <2>1. opts["battle"] = "join"  BY <1>3, OptsStay
  <2>2. TodoInv /\ JoinedInv /\ StaleInv  BY <2>1 DEF IInv
  <2> QED  BY <1>1, <2>1, <2>2, TodoInvNext, JoinedInvNext, StaleInvNext
<1> QED  BY <1>2, <1>3 DEF IInv

(* The inductive invariant: which goroutine a channel waits for, what each *)
(* still has to do, and who joins after the last login (runHookSync,       *)
(* chainedBattleHook).                                                     *)
THEOREM Invariant == Spec => []IInv
  BY IndInit, IndNext, PTL DEF Spec

(* Every variable of the two channels and their hooks keeps its type.      *)
THEOREM TypeCorrect == Spec => []TypeOK
<1>1. IInv => TypeOK  BY DEF IInv
<1> QED  BY <1>1, Invariant, PTL

(* When both channels are back and nothing runs, the battle connection has *)
(* joined with the last login, whatever hooks are configured besides       *)
(* (client.go, chainedBattleHook): Rebound.                                *)
THEOREM BattleIsRebound == Spec => []Rebound
<1>1. IInv => Rebound
  <2> SUFFICES ASSUME IInv, Quiet, opts["battle"] = "join", ~missed
               PROVE  joined = "current"
    BY DEF Rebound
  <2>0. /\ TypeOK /\ RunInv /\ WaitInv /\ TodoInv /\ JoinedInv /\ StaleInv
        /\ "battle" \in Channels /\ "business" \in Channels /\ User \in Runners
    BY DEF IInv, Channels, Runners
  <2>1. \A r \in Runners : run[r].todo = << >>
    BY <2>0 DEF RunInv, Quiet, Runners, Idle
  <2>2. Finished(User) /\ st["battle"] = "connected" /\ st["business"] = "connected"
    BY <2>0, <2>1 DEF Quiet, Finished
  <2>3. \A c \in Channels : waits[c] = None
    BY <2>0 DEF WaitInv, Quiet
  <2>4. ~Pending  BY <2>1, <2>2, <2>3 DEF Pending
  <2> QED  BY <2>0, <2>2, <2>4 DEF JoinedInv, StaleInv, TypeOK
<1> QED  BY <1>1, Invariant, PTL
=============================================================================
