------------------------ MODULE ClientSession_proofs ------------------------
(***************************************************************************)
(* Machine-checked facts about ClientSession, for every set of clients,    *)
(* calls, hook goroutines and players, in whatever order the calls of a    *)
(* goroutine come.                                                         *)
(***************************************************************************)
EXTENDS ClientSession, TLAPS

-----------------------------------------------------------------------------
(* Types, in groups of variables.                                          *)

Pcs == {"idle", "taken", "free", "subscribed", "check", "begin", "token", "request", "sent",
        "answered"} \union Over

CallRecord == [pc  : Pcs, at : Clients \union {None},
               tok : Sessions \union {None}, pid : Players \union {None}]

TypeCred ==
    /\ token \in Sessions \union {None} /\ player \in Players \union {None}
    /\ kicked \in Sessions \union {None}

TypeBind ==
    /\ cli \in Clients \union {None} /\ unbind \in Clients \union {None}
    /\ subs \subseteq Clients /\ crossed \in BOOLEAN

TypeCall == call \in [Ops -> CallRecord]

TypeChan ==
    /\ chan \in [Clients -> {"connected", "lost", "hook"}]
    /\ hook \in [Clients -> Hooks \union {None}] /\ relogin \in [Clients -> Hooks \union {None}]
    /\ faults \in 0 .. MaxFaults

TypeServer ==
    /\ alive \subseteq Sessions /\ authed \in [Clients -> Sessions \union {None}]
    /\ kick \in [Sessions -> {"no", "pushed", "unheard", "cleared", "done"}]

LEMMA TypeGroups == TypeOK <=> TypeCred /\ TypeBind /\ TypeCall /\ TypeChan /\ TypeServer
BY DEF TypeOK, TypeCred, TypeBind, TypeCall, TypeChan, TypeServer, CallRecord, Pcs

(* Who is who.                                                             *)
LEMMA Names ==
    /\ Ext \in Sessions /\ Logins \subseteq Calls /\ Binders \subseteq Calls
    /\ Calls \subseteq Ops /\ Hooks \subseteq Ops /\ Logins \intersect Hooks = {}
    /\ \A s \in Sessions : PlayerOf[s] \in Players /\ s # None
    /\ \A o \in Ops : KindOf(o) = "login" => o \in Logins
    /\ \A o \in Logins : KindOf(o) = "login" /\ o \in Sessions /\ o \notin Binders
    /\ None \notin Clients /\ None \notin Players
BY SessionAssumption DEF Sessions, Logins, Players, Ops, Binders, KindOf

(* The actions, by who takes them.                                         *)
BindActs == \E o \in Calls : TakeOff(o) \/ CallOff(o) \/ SubscribePush(o) \/ StoreBinding(o)
CallActs == \E o \in Ops :
    Begin(o) \/ ReadPlayer(o) \/ Send(o) \/ Serve(o) \/ Store(o) \/ Fail(o)
HookActs == \E h \in Hooks : CheckHook(h) \/ HookReturns(h)
KickActs == \E s \in Sessions : HandleKick(s) \/ RecordKick(s) \/ Expire(s)
ChanActs == \E c \in Clients :
    \/ Redial(c) \/ HookDone(c) \/ HeartbeatRefused(c)
    \/ Kick(c) \/ Lose(c) \/ HookTimeout(c)

LEMMA Actions ==
    ASSUME [Next]_vars
    PROVE  BindActs \/ CallActs \/ HookActs \/ KickActs \/ ChanActs \/ UNCHANGED vars
BY DEF Next, BindStep, CallStep, KickStep, ChanStep, BindActs, CallActs, HookActs, KickActs,
       ChanActs, Ops

LEMMA TypeInit == Init => TypeOK
<1> SUFFICES ASSUME Init PROVE TypeOK
  OBVIOUS
<1> USE SessionAssumption, Names DEF Init
<1>1. TypeCred  BY DEF TypeCred
<1>2. TypeBind  BY DEF TypeBind
<1>3. TypeCall  BY DEF TypeCall, CallRecord, Pcs, At, Holding
<1>4. TypeChan  BY DEF TypeChan
<1>5. TypeServer  BY DEF TypeServer
<1> QED  BY <1>1, <1>2, <1>3, <1>4, <1>5, TypeGroups

(* What a call holds after each way to write it.                           *)
LEMMA Records ==
    ASSUME NEW p \in Pcs
    PROVE  /\ At(p) \in CallRecord
           /\ \A t \in Sessions \union {None}, q \in Players \union {None} :
                 Holding(p, t, q) \in CallRecord
BY DEF At, Holding, CallRecord

LEMMA ErrorRecord == \A o : Error(o) \in CallRecord
BY Records DEF Error, Pcs, Over

(* A step of the program counter keeps what the call holds.                *)
LEMMA StepType ==
    ASSUME TypeCall, NEW o \in Ops, NEW p \in Pcs, Step(o, p)
    PROVE  TypeCall'
<1>1. call[o] \in CallRecord  BY DEF TypeCall
<1>2. [call[o] EXCEPT !.pc = p] \in CallRecord  BY <1>1 DEF CallRecord
<1> QED  BY <1>2 DEF TypeCall, Step

LEMMA WithoutConnType ==
    ASSUME NEW c \in Clients, NEW calls \in [Ops -> CallRecord]
    PROVE  WithoutConn(c, calls) \in [Ops -> CallRecord]
BY ErrorRecord DEF WithoutConn

LEMMA FreeIsHook == ASSUME IsFree PROVE Free \in Hooks
BY DEF IsFree, Free

LEMMA TypeNext == TypeOK /\ [Next]_vars => TypeOK'
<1> SUFFICES ASSUME TypeOK, [Next]_vars PROVE TypeOK'
  OBVIOUS
<1> USE SessionAssumption, Names
<1>0. TypeCred /\ TypeBind /\ TypeCall /\ TypeChan /\ TypeServer  BY TypeGroups
<1> SUFFICES TypeCred' /\ TypeBind' /\ TypeCall' /\ TypeChan' /\ TypeServer'
  BY DEF TypeOK, TypeCred, TypeBind, TypeCall, TypeChan, TypeServer, CallRecord, Pcs
<1>1. ASSUME BindActs
      PROVE  TypeCred' /\ TypeBind' /\ TypeCall' /\ TypeChan' /\ TypeServer'
  <2>1. PICK o \in Calls : TakeOff(o) \/ CallOff(o) \/ SubscribePush(o) \/ StoreBinding(o)
    BY <1>1 DEF BindActs
  <2>2. TypeCred' /\ TypeChan' /\ TypeServer'
    BY <1>0, <2>1 DEF TypeCred, TypeChan, TypeServer, TakeOff, CallOff, SubscribePush,
       StoreBinding, credVars, chanVars, srvVars
  <2>3. TypeBind'
    BY <1>0, <2>1 DEF TypeBind, TakeOff, CallOff, SubscribePush, StoreBinding, Binders
  <2>4. TypeCall'
    BY <1>0, <2>1, Records DEF TypeCall, TypeBind, TakeOff, CallOff, SubscribePush, StoreBinding,
       Step, End, CallRecord, Pcs, Over
  <2> QED  BY <2>2, <2>3, <2>4
<1>2. ASSUME CallActs
      PROVE  TypeCred' /\ TypeBind' /\ TypeCall' /\ TypeChan' /\ TypeServer'
  <2>1. PICK o \in Ops :
            Begin(o) \/ ReadPlayer(o) \/ Send(o) \/ Serve(o) \/ Store(o) \/ Fail(o)
    BY <1>2 DEF CallActs
  <2>2. TypeBind'
    BY <1>0, <2>1 DEF TypeBind, Begin, ReadPlayer, Send, Serve, Store, Fail, bindVars
  <2>3. TypeChan'
    BY <1>0, <2>1 DEF TypeChan, Begin, ReadPlayer, Send, Serve, Store, Fail, Fault, chanVars
  <2>4. TypeServer'
    <3>1. CASE Serve(o)
      BY <1>0, <3>1 DEF TypeServer, TypeCall, CallRecord, Serve, Accepts, Bound
    <3> QED
      BY <1>0, <2>1, <3>1 DEF TypeServer, Begin, ReadPlayer, Send, Store, Fail, srvVars
  <2>5. TypeCred'
    <3>1. CASE Store(o)
      <4>1. call[o].tok \in Sessions \union {None} /\ call[o].pid \in Players \union {None}
        BY <1>0 DEF TypeCall, CallRecord
      <4>2. \A x : NewToken(o, x) \in Sessions \union {None}
        BY <1>0, <4>1 DEF TypeCred, NewToken
      <4>3. token' \in Sessions \union {None} /\ kicked' \in Sessions \union {None}
        BY <1>0, <3>1, <4>2 DEF TypeCred, Store, Clear, credVars
      <4>4. player' \in Players \union {None}
        BY <1>0, <3>1, <4>1 DEF TypeCred, Store, Clear, credVars
      <4> QED  BY <4>3, <4>4 DEF TypeCred
    <3> QED
      BY <1>0, <2>1, <3>1 DEF TypeCred, Begin, ReadPlayer, Send, Serve, Fail, credVars
  <2>6. TypeCall'
    <3>1. CASE Begin(o)
      <4>1. FirstToken(o) \in Sessions \union {None}  BY <1>0 DEF TypeCred, FirstToken
      <4> QED
        BY <1>0, <3>1, <4>1, Records DEF TypeCall, Begin, End, Pcs, Over
    <3>2. CASE ReadPlayer(o) \/ Send(o) \/ Fail(o)
      BY <1>0, <3>2, ErrorRecord DEF TypeCall, TypeCred, TypeBind, ReadPlayer, Send, Fail,
         CallRecord, Pcs, Over
    <3>3. CASE Serve(o)
      BY <1>0, <3>3, Records DEF TypeCall, Serve, End, Step, CallRecord, Pcs, Over
    <3>4. CASE Store(o)
      BY <1>0, <3>4, Records DEF TypeCall, Store, End, Pcs, Over
    <3> QED  BY <2>1, <3>1, <3>2, <3>3, <3>4
  <2> QED  BY <2>2, <2>3, <2>4, <2>5, <2>6
<1>3. ASSUME HookActs
      PROVE  TypeCred' /\ TypeBind' /\ TypeCall' /\ TypeChan' /\ TypeServer'
  <2>1. PICK h \in Hooks : CheckHook(h) \/ HookReturns(h)  BY <1>3 DEF HookActs
  <2>2. TypeCred' /\ TypeBind' /\ TypeServer'
    BY <1>0, <2>1 DEF TypeCred, TypeBind, TypeServer, CheckHook, HookReturns, credVars, bindVars,
       srvVars
  <2>3. TypeChan'
    BY <1>0, <2>1 DEF TypeChan, CheckHook, HookReturns, chanVars
  <2>4. TypeCall'
    <3>1. CASE CheckHook(h)
      <4>1. PICK p \in {"ok", "begin"} : Step(h, p)  BY <3>1 DEF CheckHook
      <4> QED  BY <1>0, <4>1, StepType DEF Pcs, Over
    <3>2. CASE HookReturns(h)
      BY <1>0, <3>2, Records DEF TypeCall, HookReturns, End, Pcs
    <3> QED  BY <2>1, <3>1, <3>2
  <2> QED  BY <2>2, <2>3, <2>4
<1>4. ASSUME KickActs
      PROVE  TypeCred' /\ TypeBind' /\ TypeCall' /\ TypeChan' /\ TypeServer'
  <2>1. PICK s \in Sessions : HandleKick(s) \/ RecordKick(s) \/ Expire(s)  BY <1>4 DEF KickActs
  <2>2. TypeCred'
    BY <1>0, <2>1 DEF TypeCred, HandleKick, RecordKick, Expire, Clear, credVars
  <2>3. TypeBind' /\ TypeCall'
    BY <1>0, <2>1 DEF TypeBind, TypeCall, HandleKick, RecordKick, Expire, bindVars
  <2>4. TypeChan'
    BY <1>0, <2>1 DEF TypeChan, HandleKick, RecordKick, Expire, Fault, chanVars
  <2>5. TypeServer'
    BY <1>0, <2>1 DEF TypeServer, HandleKick, RecordKick, Expire, Forget
  <2> QED  BY <2>2, <2>3, <2>4, <2>5
<1>5. ASSUME ChanActs
      PROVE  TypeCred' /\ TypeBind' /\ TypeCall' /\ TypeChan' /\ TypeServer'
  <2>1. PICK c \in Clients :
            \/ Redial(c) \/ HookDone(c) \/ HeartbeatRefused(c)
            \/ Kick(c) \/ Lose(c) \/ HookTimeout(c)
    BY <1>5 DEF ChanActs
  <2>2. TypeCred' /\ TypeBind'
    BY <1>0, <2>1 DEF TypeCred, TypeBind, Redial, HookDone, HeartbeatRefused, Kick, Lose,
       HookTimeout, credVars, bindVars
  <2>3. TypeCall'
    <3>1. CASE Redial(c) \/ HeartbeatRefused(c)
      BY <1>0, <3>1, FreeIsHook DEF TypeCall, Redial, HeartbeatRefused, Step, CallRecord, Pcs
    <3>2. CASE HookDone(c)
      <4>1. [call EXCEPT ![hook[c]] = At("idle")] \in [Ops -> CallRecord]
        BY <1>0, Records DEF TypeCall, Pcs
      <4>2. WithoutConn(c, [call EXCEPT ![hook[c]] = At("idle")]) \in [Ops -> CallRecord]
        BY <4>1, WithoutConnType
      <4> QED  BY <3>2, <4>1, <4>2 DEF TypeCall, HookDone, End
    <3>3. CASE Kick(c) \/ Lose(c) \/ HookTimeout(c)
      BY <1>0, <3>3, WithoutConnType DEF TypeCall, Kick, Lose, HookTimeout
    <3> QED  BY <2>1, <3>1, <3>2, <3>3
  <2>4. TypeChan'
    BY <1>0, <2>1, FreeIsHook DEF TypeChan, Redial, HookDone, HeartbeatRefused, Kick, Lose,
       HookTimeout, Fault, chanVars
  <2>5. TypeServer'
    BY <1>0, <2>1 DEF TypeServer, Redial, HookDone, HeartbeatRefused, Kick, Lose, HookTimeout,
       Forget, Bound, srvVars
  <2> QED  BY <2>2, <2>3, <2>4, <2>5
<1>6. ASSUME UNCHANGED vars
      PROVE  TypeCred' /\ TypeBind' /\ TypeCall' /\ TypeChan' /\ TypeServer'
  BY <1>0, <1>6 DEF vars, credVars, bindVars, chanVars, srvVars, TypeCred, TypeBind, TypeCall,
     TypeChan, TypeServer
<1> QED  BY <1>1, <1>2, <1>3, <1>4, <1>5, <1>6, Actions

(* Every variable of the session keeps its type: session.go, all of it.    *)
THEOREM TypeCorrect == Spec => []TypeOK
BY TypeInit, TypeNext, PTL DEF Spec

-----------------------------------------------------------------------------
(* Bind and Close.  As long as nothing crossed, all calls under way are of *)
(* one kind and for one client; then any other subscription is held by a   *)
(* call that is about to end it.                                           *)

Busy(o) == call[o].pc \notin {"idle", "ok"}
Taken == {x \in Binders : call[x].pc = "taken"}
HeldOff == {call[x].at : x \in Taken}

BinderPcs == \A o \in Binders : call[o].pc \in {"idle", "taken", "free", "subscribed", "ok"}

FreeBinds == \A o \in Binders : call[o].pc = "free" => Kind[o] = "bind"

Alike == \A o, x \in Binders : Busy(o) /\ Busy(x) => ~Crosses(o, x)

Settled == (\A o \in Binders : ~Busy(o)) => unbind = cli /\ subs = {cli} \ {None}

Binding(o) ==
    /\ subs \subseteq {Target[o]} \union HeldOff
    /\ unbind \in {None, Target[o]}
    /\ Target[o] \in subs \/ \E x \in Binders : call[x].pc \in {"taken", "free"}

Closing == subs \subseteq HeldOff /\ unbind = None

BindInv ==
    /\ BinderPcs /\ FreeBinds
    /\ ~crossed =>
          /\ Alike /\ Settled
          /\ \A o \in Binders : Busy(o) => IF Kind[o] = "bind" THEN Binding(o) ELSE Closing

(* Other actions leave bindings and binders alone.                         *)
LEMMA BindersAlone ==
    ASSUME TypeOK, BinderPcs, [Next]_vars, ~BindActs
    PROVE  UNCHANGED bindVars /\ \A o \in Binders : call'[o] = call[o]
<1> USE SessionAssumption, Names
<1>0. TypeCall /\ TypeChan  BY TypeGroups
<1>1. UNCHANGED bindVars
  BY Actions DEF CallActs, HookActs, KickActs, ChanActs, Begin, ReadPlayer, Send, Serve, Store,
     Fail, CheckHook, HookReturns, HandleKick, RecordKick, Expire, Redial, HookDone,
     HeartbeatRefused, Kick, Lose, HookTimeout, vars
<1>2. ASSUME NEW o \in Binders PROVE call'[o] = call[o]
  <2>0. o \notin Hooks /\ call[o].pc \in {"idle", "taken", "free", "subscribed", "ok"}
        /\ KindOf(o) \in {"bind", "close"}
    BY DEF BinderPcs, Binders, KindOf
  <2>1. CASE CallActs
    <3>1. PICK x \in Ops :
              Begin(x) \/ ReadPlayer(x) \/ Send(x) \/ Serve(x) \/ Store(x) \/ Fail(x)
      BY <2>1 DEF CallActs
    <3>2. x # o
      BY <2>0, <3>1 DEF Begin, ReadPlayer, Send, Serve, Store, Fail
    <3> QED
      BY <1>0, <3>1, <3>2 DEF TypeCall, Begin, ReadPlayer, Send, Serve, Store, Fail, Step, End
  <2>2. CASE HookActs
    BY <1>0, <2>0, <2>2 DEF HookActs, TypeCall, CheckHook, HookReturns, Step, End
  <2>3. CASE KickActs \/ UNCHANGED vars
    BY <2>3 DEF KickActs, HandleKick, RecordKick, Expire, vars
  <2>4. CASE ChanActs
    <3>1. PICK c \in Clients :
              \/ Redial(c) \/ HookDone(c) \/ HeartbeatRefused(c)
              \/ Kick(c) \/ Lose(c) \/ HookTimeout(c)
      BY <2>4 DEF ChanActs
    <3>2. CASE Redial(c) \/ HeartbeatRefused(c)
      BY <1>0, <2>0, <3>2, FreeIsHook DEF TypeCall, Redial, HeartbeatRefused, Step
    <3>3. CASE Lose(c) \/ HookTimeout(c) \/ Kick(c)
      BY <1>0, <2>0, <3>3 DEF TypeCall, Lose, HookTimeout, Kick, WithoutConn
    <3>4. CASE HookDone(c)
      <4>1. hook[c] # o  BY <1>0, <2>0 DEF TypeChan
      <4>2. [call EXCEPT ![hook[c]] = At("idle")][o] = call[o]
        BY <1>0, <4>1 DEF TypeCall
      <4>3. WithoutConn(c, [call EXCEPT ![hook[c]] = At("idle")])[o] = call[o]
        BY <2>0, <4>2 DEF WithoutConn
      <4> QED  BY <3>4, <4>2, <4>3 DEF HookDone, End
    <3> QED  BY <3>1, <3>2, <3>3, <3>4
  <2> QED  BY <2>1, <2>2, <2>3, <2>4, Actions
<1> QED  BY <1>1, <1>2

LEMMA BindInvInit == Init => BindInv
BY Names DEF Init, BindInv, BinderPcs, FreeBinds, Alike, Settled, Busy, At, Holding

LEMMA BindInvNext == TypeOK /\ BindInv /\ [Next]_vars => BindInv'
<1> SUFFICES ASSUME TypeOK, BindInv, [Next]_vars PROVE BindInv'
  OBVIOUS
<1> USE SessionAssumption, Names
<1>0. TypeCall /\ TypeBind /\ BinderPcs /\ FreeBinds  BY TypeGroups DEF BindInv
<1>1. CASE ~BindActs
  <2>1. UNCHANGED bindVars /\ \A o \in Binders : call'[o] = call[o]
    BY <1>0, <1>1, BindersAlone
  <2>2. Taken' = Taken /\ HeldOff' = HeldOff
    BY <2>1 DEF Taken, HeldOff
  <2> QED
    BY <2>1, <2>2 DEF BindInv, BinderPcs, FreeBinds, Alike, Settled, Binding, Closing, Busy,
       bindVars
<1>2. ASSUME NEW o \in Calls, TakeOff(o) PROVE BindInv'
  <2>0. /\ o \in Binders /\ call[o].pc = "idle" /\ unbind' = None /\ subs' = subs /\ cli' = cli
        /\ call'[o].pc = "taken" /\ call'[o].at = unbind
        /\ \A x \in Binders : x # o => call'[x] = call[x]
    BY <1>0, <1>2 DEF TypeCall, CallRecord, TakeOff, ItsTurn
  <2>1. BinderPcs' /\ FreeBinds'  BY <1>0, <2>0 DEF BinderPcs, FreeBinds
  <2>2. SUFFICES ASSUME ~crossed'
                 PROVE  /\ Alike' /\ Settled'
                        /\ \A x \in Binders : Busy(x)' =>
                              IF Kind[x] = "bind" THEN Binding(x)' ELSE Closing'
    BY <2>1 DEF BindInv
  <2>3. ~crossed /\ \A x \in Binders : Busy(x) => ~Crosses(o, x)
    BY <1>2, <2>2 DEF TakeOff, Busy
  <2>4. Alike'
    BY <2>0, <2>3 DEF BindInv, Alike, Busy, Crosses
  <2>5. Settled'  BY <2>0 DEF Settled, Busy
  <2>6. HeldOff' = HeldOff \union {unbind}
    BY <2>0 DEF HeldOff, Taken
  <2>7. ASSUME NEW x \in Binders, Busy(x)'
        PROVE  IF Kind[x] = "bind" THEN Binding(x)' ELSE Closing'
    <3>1. subs \subseteq HeldOff \union {unbind} \/ Kind[o] = "bind"
      <4>1. CASE \A y \in Binders : ~Busy(y)
        BY <2>3, <4>1 DEF BindInv, Settled
      <4>2. ASSUME NEW y \in Binders, Busy(y)
            PROVE  subs \subseteq HeldOff \union {unbind} \/ Kind[o] = "bind"
        BY <2>3, <4>2 DEF BindInv, Closing, Crosses
      <4> QED  BY <4>1, <4>2
    <3>2. Kind[o] = "bind" => subs \subseteq {Target[o]} \union HeldOff \union {unbind}
      <4>1. CASE \A y \in Binders : ~Busy(y)
        BY <2>3, <4>1 DEF BindInv, Settled
      <4>2. ASSUME NEW y \in Binders, Busy(y)
            PROVE  Kind[o] = "bind" => subs \subseteq {Target[o]} \union HeldOff \union {unbind}
        BY <2>3, <4>2 DEF BindInv, Binding, Crosses
      <4> QED  BY <4>1, <4>2
    <3>3. Kind[x] = Kind[o] /\ Target[x] = Target[o]
      BY <2>0, <2>3, <2>7 DEF Busy, Crosses
    <3> QED  BY <2>0, <2>6, <3>1, <3>2, <3>3 DEF Binding, Closing
  <2> QED  BY <2>4, <2>5, <2>7
<1>3. ASSUME NEW o \in Calls, CallOff(o) PROVE BindInv'
  <2>0. /\ o \in Binders /\ call[o].pc = "taken" /\ UNCHANGED <<unbind, cli, crossed>>
        /\ subs' = subs \ {call[o].at}
        /\ call'[o].pc = IF Kind[o] = "bind" THEN "free" ELSE "subscribed"
        /\ \A x \in Binders : x # o => call'[x] = call[x]
    BY <1>0, <1>3 DEF TypeCall, CallRecord, CallOff, Step
  <2>1. BinderPcs' /\ FreeBinds'  BY <1>0, <2>0 DEF BinderPcs, FreeBinds
  <2>2. \A x \in Binders : Busy(x)' <=> Busy(x)  BY <2>0 DEF Busy
  <2>3. HeldOff \subseteq HeldOff' \union {call[o].at}
    BY <2>0 DEF HeldOff, Taken
  <2>4. ~crossed => Alike' /\ Settled'
    BY <2>0, <2>2 DEF BindInv, Alike, Settled, Busy
  <2>5. ASSUME ~crossed, NEW x \in Binders, Busy(x)
        PROVE  IF Kind[x] = "bind" THEN Binding(x)' ELSE Closing'
    <3>1. Kind[x] = Kind[o]
      BY <2>0, <2>5 DEF BindInv, Alike, Busy, Crosses
    <3> QED  BY <2>0, <2>3, <2>5, <3>1 DEF BindInv, Binding, Closing
  <2> QED  BY <2>0, <2>1, <2>2, <2>4, <2>5 DEF BindInv
<1>4. ASSUME NEW o \in Calls, SubscribePush(o) PROVE BindInv'
  <2>0. /\ o \in Binders /\ call[o].pc = "free" /\ UNCHANGED <<unbind, cli, crossed>>
        /\ Kind[o] = "bind" /\ subs' = subs \union {Target[o]} /\ call'[o].pc = "subscribed"
        /\ \A x \in Binders : x # o => call'[x] = call[x]
    BY <1>0, <1>4 DEF TypeCall, CallRecord, SubscribePush, Step, Binders
  <2>1. BinderPcs' /\ FreeBinds'  BY <1>0, <2>0 DEF BinderPcs, FreeBinds
  <2>2. \A x \in Binders : Busy(x)' <=> Busy(x)  BY <2>0 DEF Busy
  <2>3. HeldOff' = HeldOff
    BY <2>0 DEF HeldOff, Taken
  <2>4. ~crossed => Alike' /\ Settled'
    BY <2>0, <2>2 DEF BindInv, Alike, Settled, Busy
  <2>5. ASSUME ~crossed, NEW x \in Binders, Busy(x)
        PROVE  IF Kind[x] = "bind" THEN Binding(x)' ELSE Closing'
    <3>1. Kind[x] = Kind[o] /\ Target[x] = Target[o]
      BY <2>0, <2>5 DEF BindInv, Alike, Busy, Crosses
    <3> QED  BY <2>0, <2>3, <2>5, <3>1 DEF BindInv, Binding
  <2> QED  BY <2>0, <2>1, <2>2, <2>4, <2>5 DEF BindInv
<1>5. ASSUME NEW o \in Calls, StoreBinding(o) PROVE BindInv'
  <2>0. /\ o \in Binders /\ call[o].pc = "subscribed" /\ UNCHANGED <<subs, crossed>>
        /\ IF Kind[o] = "bind" THEN cli' = Target[o] /\ unbind' = Target[o]
                               ELSE cli' = None /\ unbind' = unbind
        /\ call'[o].pc = "ok"
        /\ \A x \in Binders : x # o => call'[x] = call[x]
    BY <1>0, <1>5 DEF TypeCall, CallRecord, StoreBinding, End, At, Holding
  <2>1. BinderPcs' /\ FreeBinds'  BY <1>0, <2>0 DEF BinderPcs, FreeBinds
  <2>2. \A x \in Binders : Busy(x)' => x # o /\ Busy(x)  BY <2>0 DEF Busy
  <2>3. HeldOff' = HeldOff
    BY <2>0 DEF HeldOff, Taken
  <2>4. ~crossed => Alike'
    BY <2>0, <2>2 DEF BindInv, Alike
  <2>5. ASSUME ~crossed, \A x \in Binders : ~Busy(x)'
        PROVE  unbind' = cli' /\ subs' = {cli'} \ {None}
    <3>1. \A x \in Binders : call[x].pc \notin {"taken", "free"}
      BY <2>0, <2>5 DEF Busy
    <3>2. HeldOff = {}  BY <3>1 DEF HeldOff, Taken
    <3>3. Kind[o] = "bind" => Binding(o)
      BY <2>0, <2>5 DEF BindInv, Busy
    <3>4. Kind[o] # "bind" => Closing
      BY <2>0, <2>5 DEF BindInv, Busy
    <3>5. Kind[o] = "bind" => Target[o] # None /\ subs = {Target[o]}
      BY <3>1, <3>2, <3>3 DEF Binding
    <3> QED  BY <2>0, <3>2, <3>4, <3>5 DEF Closing
  <2>6. ASSUME ~crossed, NEW x \in Binders, Busy(x)'
        PROVE  IF Kind[x] = "bind" THEN Binding(x)' ELSE Closing'
    <3>1. Kind[x] = Kind[o] /\ (Kind[o] = "bind" => Target[x] = Target[o]) /\ Busy(x)
      BY <2>0, <2>2, <2>6 DEF BindInv, Alike, Busy, Crosses
    <3> QED  BY <2>0, <2>3, <2>6, <3>1 DEF BindInv, Binding, Closing
  <2> QED  BY <2>0, <2>1, <2>4, <2>5, <2>6 DEF BindInv, Settled
<1> QED  BY <1>1, <1>2, <1>3, <1>4, <1>5 DEF BindActs

(* However many calls of Bind and Close overlap, unless two of them want   *)
(* different things, the session ends up listening where it is bound:      *)
(* session.go 75-103.                                                      *)
THEOREM BindsAreHeard == Spec => []HearsItsClient
<1>1. BindInv => HearsItsClient
  BY DEF BindInv, HearsItsClient, AtRest, Settled, Busy
<1> QED  BY <1>1, BindInvInit, BindInvNext, TypeCorrect, PTL DEF Spec
=============================================================================
