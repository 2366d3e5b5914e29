---------------------------- MODULE NotifyTable ----------------------------
(***************************************************************************)
(* The table of push subscriptions of one client channel: On, OnAny, the   *)
(* functions they return to unsubscribe, and the dispatch of a push by the *)
(* read loop to handlers that run on goroutines of their own.  Source:     *)
(* client/notify.go.                                                       *)
(*                                                                         *)
(* A registration is one call of On or OnAny with a handler that is not    *)
(* nil.  The handler sets are objects: on holds the set of its op from one *)
(* notifyMu section to the next, while the table may drop it.  A set is    *)
(* named after the registration that made it; notifyAny always exists and  *)
(* is named AnyOp.  A set is the registrations whose closure it stores.    *)
(***************************************************************************)
CONSTANTS
    Regs,       \* calls of On and OnAny
    Ops,        \* operations
    AnyOp,      \* stands for every operation: OnAny
    Op,         \* what each registration subscribes to
    Func,       \* the function value each registration passes
    Code,       \* handlerKey: the code pointer of a function value
    Pushes,     \* Notify frames that arrive
    PushOp      \* the operation of each

ASSUME NotifyAssumption ==
    /\ AnyOp \notin Ops \union Regs
    /\ Op \in [Regs -> Ops \union {AnyOp}]
    /\ PushOp \in [Pushes -> Ops]

VARIABLES
    table,      \* ch.notifies: the set of each op that has one
    content,    \* what each set stores; content[AnyOp] is ch.notifyAny
    held,       \* the set each registration's closures hold
    pc,         \* where each registration is
    running,    \* handlers of a push started and not yet called

    called,     \* history: handlers a push was delivered to
    left,       \* history: registrations off when the push was dispatched
    due,        \* history: registrations that expected the push
    raced       \* history: calls of On that overlapped the end of another
                \* subscription of the op

tableVars == <<table, content, held, pc, raced>>
pushVars  == <<running, called, left, due>>
vars == <<tableVars, pushVars>>

Sets == Regs \union {AnyOp}

\* On has a set in the table, OnAny does not.
HasSet(r) == Op[r] # AnyOp

\* Two registrations of one op with one key are one entry of its set.
SameKey(r, x) == Op[x] = Op[r] /\ Code[Func[x]] = Code[Func[r]]

\* Fault: nothing is deleted.
Delete_forgotten(s, r) == s
\* Fault: the set is dropped whatever it stores.
MayDrop_unchecked(s) == TRUE

Put(s, r)    == {x \in s : ~SameKey(r, x)} \union {r}
Delete(s, r) == {x \in s : ~SameKey(r, x)}
MayDrop(s)   == content[s] = {}

\* The registrations of r's op that are between two notifyMu sections.
Others(r, at) == {x \in Regs \ {r} : Op[x] = Op[r] /\ pc[x] = at}

-----------------------------------------------------------------------------
Init ==
    /\ table = [o \in {} |-> AnyOp]
    /\ content = [s \in Sets |-> {}]
    /\ held = [r \in Regs |-> AnyOp]
    /\ pc = [r \in Regs |-> "idle"]
    /\ running = [p \in Pushes |-> {}]
    /\ called = [p \in Pushes |-> {}]
    /\ left = [p \in Pushes |-> {}]
    /\ due = [p \in Pushes |-> {}]
    /\ raced = {}

(* notifySet: the set of the op, made when the table has none.             *)
Find(r) ==
    /\ pc[r] = "idle" /\ HasSet(r)
    /\ pc' = [pc EXCEPT ![r] = "found"]
    /\ \/ /\ Op[r] \in DOMAIN table
          /\ held' = [held EXCEPT ![r] = table[Op[r]]]
          /\ UNCHANGED table
       \/ /\ Op[r] \notin DOMAIN table
          /\ held' = [held EXCEPT ![r] = r]
          /\ table' = [o \in DOMAIN table \union {Op[r]} |->
                          IF o = Op[r] THEN r ELSE table[o]]
    /\ raced' = IF Others(r, "leaving") = {} THEN raced ELSE raced \union {r}
    /\ UNCHANGED <<content, pushVars>>

(* subscribe: into the set it was given, notifyAny for OnAny.              *)
Subscribe(r) ==
    /\ \/ pc[r] = "found"
       \/ pc[r] = "idle" /\ ~HasSet(r)
    /\ pc' = [pc EXCEPT ![r] = "on"]
    /\ content' = [content EXCEPT ![held[r]] = Put(@, r)]
    /\ UNCHANGED <<table, held, raced, pushVars>>

(* The returned function, which may be called again: delete, and for On    *)
(* dropNotifySet in a notifyMu section of its own.                         *)
Unsubscribe(r) ==
    /\ pc[r] \in {"on", "off"}
    /\ content' = [content EXCEPT ![held[r]] = Delete(@, r)]
    /\ pc' = [pc EXCEPT ![r] = IF HasSet(r) THEN "leaving" ELSE "off"]
    /\ raced' = raced \union Others(r, "found")
    /\ UNCHANGED <<table, held, pushVars>>

\* Fault: the set is never dropped.
DropSet_never(r) ==
    /\ pc[r] = "leaving"
    /\ pc' = [pc EXCEPT ![r] = "off"]
    /\ UNCHANGED <<table, content, held, raced, pushVars>>

(* dropNotifySet looks the op up again and drops an empty set.             *)
DropSet(r) ==
    /\ pc[r] = "leaving"
    /\ pc' = [pc EXCEPT ![r] = "off"]
    /\ \/ /\ Op[r] \in DOMAIN table /\ MayDrop(table[Op[r]])
          /\ table' = [o \in DOMAIN table \ {Op[r]} |-> table[o]]
       \/ /\ Op[r] \in DOMAIN table => ~MayDrop(table[Op[r]])
          /\ UNCHANGED table
    /\ UNCHANGED <<content, held, raced, pushVars>>

-----------------------------------------------------------------------------
(* dispatchNotify.                                                         *)

\* What the table stores for op o, notifyAny included.
Stored(o) ==
    content[AnyOp] \union IF o \in DOMAIN table THEN content[table[o]] ELSE {}

\* No other registration of the op passes r's function.
Alone(r) == \A x \in Regs \ {r} : Op[x] = Op[r] => Func[x] # Func[r]

\* Who expects a push of op o.
Expected(o) ==
    {r \in Regs : pc[r] = "on" /\ Op[r] \in {o, AnyOp} /\ Alone(r)}

(* The snapshot under notifyMu; a goroutine per handler.                   *)
Dispatch(p) ==
    /\ running[p] = {} /\ called[p] = {}
    /\ running' = [running EXCEPT ![p] = Stored(PushOp[p])]
    /\ left' = [left EXCEPT ![p] = {r \in Regs : pc[r] = "off"}]
    /\ due' = [due EXCEPT ![p] = Expected(PushOp[p])]
    /\ UNCHANGED <<tableVars, called>>

(* A handler runs, at any time after.                                      *)
Handle(p, r) ==
    /\ r \in running[p]
    /\ running' = [running EXCEPT ![p] = @ \ {r}]
    /\ called' = [called EXCEPT ![p] = @ \union {r}]
    /\ UNCHANGED <<tableVars, left, due>>

Next ==
    \/ \E r \in Regs : Find(r) \/ Subscribe(r) \/ Unsubscribe(r) \/ DropSet(r)
    \/ \E p \in Pushes : Dispatch(p) \/ \E r \in Regs : Handle(p, r)

Spec == Init /\ [][Next]_vars

-----------------------------------------------------------------------------
(* Correctness.                                                            *)

TypeOK ==
    /\ DOMAIN table \subseteq Ops
    /\ table \in [DOMAIN table -> Regs]
    /\ content \in [Sets -> SUBSET Regs]
    /\ held \in [Regs -> Sets]
    /\ pc \in [Regs -> {"idle", "found", "on", "leaving", "off"}]
    /\ running \in [Pushes -> SUBSET Regs]
    /\ called \in [Pushes -> SUBSET Regs]
    /\ left \in [Pushes -> SUBSET Regs]
    /\ due \in [Pushes -> SUBSET Regs]
    /\ raced \subseteq Regs

Reached(p) == running[p] \union called[p]

(* A push dispatched after the function that ends a subscription has       *)
(* returned does not reach its handler, even when the set was dropped and  *)
(* made again meanwhile (notify.go 92-101).                                *)
OffIsFinal == \A p \in Pushes : Reached(p) \intersect left[p] = {}

(* Registering a function again for an op keeps one of the two: a push     *)
(* never runs it twice (notify.go 27, README.md 346).                      *)
OncePerFunction ==
    \A p \in Pushes : \A r, x \in Reached(p) :
        Op[r] = Op[x] /\ Func[r] = Func[x] => r = x

(* The table keeps no set for an op once everything it was made for has    *)
(* been undone (notify.go 82: the table must not grow without end).        *)
NothingLeaks ==
    \A o \in DOMAIN table : \E r \in Regs : Op[r] = o /\ pc[r] \notin {"idle", "off"}

(* Every push reaches every handler that was subscribed when it was        *)
(* dispatched, whatever sets were dropped and made again before, but not   *)
(* those whose On overlapped the end of another subscription: these may be *)
(* lost (notify.go 67), see OnIsConcurrent (notify.go 26, 116).            *)
EveryoneServed == \A p \in Pushes : due[p] \subseteq Reached(p) \union raced

-----------------------------------------------------------------------------
(* What the source says and the code does not do.                          *)

(* README.md 356: On is safe to call concurrently.                         *)
OnIsConcurrent == \A p \in Pushes : due[p] \subseteq Reached(p)

(* notify.go 27: a function returned by On may be called again, safely: the*)
(* second call takes nobody's subscription away.                           *)
RepeatedOffIsSafe ==
    [][\A r \in Regs : pc[r] = "off" /\ pc'[r] # "off" => content' = content]_vars

-----------------------------------------------------------------------------
(* The inductive invariant of the proofs.                                  *)

\* A set stores registrations that are on and hold it, one per key.
Placed ==
    \A s \in Sets : \A x \in content[s] : pc[x] = "on" /\ held[x] = s

Keyed ==
    \A s \in Sets : \A x, y \in content[s] : SameKey(x, y) => x = y

\* The set a registration holds was made for its own op.
Kinds ==
    /\ \A r \in Regs :
          /\ pc[r] = "idle" \/ Op[r] = AnyOp => held[r] = AnyOp
          /\ pc[r] # "idle" /\ Op[r] # AnyOp =>
                held[r] \in Regs /\ Op[held[r]] = Op[r]
    /\ \A o \in DOMAIN table : Op[table[o]] = o

\* A set of the table is not empty, or someone is about to use or drop it.
InUse ==
    \A o \in DOMAIN table :
        \/ content[table[o]] # {}
        \/ \E r \in Regs : pc[r] = "found" /\ held[r] = table[o]
        \/ \E r \in Regs : pc[r] = "leaving" /\ Op[r] = o

IInv == TypeOK /\ Placed /\ Keyed /\ Kinds /\ InUse

\* Code pointers tell the functions apart, which Go does not promise.
CodeTellsApart ==
    \A x, y \in Regs : Code[Func[x]] = Code[Func[y]] => Func[x] = Func[y]

\* The set of a registration that was not raced stays in the table.
LiveInv(r) ==
    /\ pc[r] = "found" =>
          /\ Others(r, "leaving") = {}
          /\ Op[r] \in DOMAIN table /\ table[Op[r]] = held[r]
    /\ pc[r] = "on" =>
          /\ r \in content[held[r]]
          /\ Op[r] = AnyOp \/ (Op[r] \in DOMAIN table /\ table[Op[r]] = held[r])

Live == \A r \in Regs \ raced : Alone(r) => LiveInv(r)
=============================================================================
