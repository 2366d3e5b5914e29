------------------------- MODULE NotifyTable_proofs -------------------------
(***************************************************************************)
(* Machine-checked facts about NotifyTable, for every set of               *)
(* registrations, operations and pushes, whatever functions they pass and  *)
(* however the calls interleave.                                           *)
(***************************************************************************)
EXTENDS NotifyTable, TLAPS

LEMMA IndInit == Init => IInv
<1> SUFFICES ASSUME Init PROVE IInv
  OBVIOUS
<1> USE NotifyAssumption DEF Init, Sets
<1>1. TypeOK  BY DEF TypeOK
<1>2. Placed /\ Keyed /\ Kinds /\ InUse  BY DEF Placed, Keyed, Kinds, InUse
<1> QED  BY <1>1, <1>2 DEF IInv

-----------------------------------------------------------------------------
(* The sets of the table, one step at a time.                              *)

(* A function extended by one argument.                                    *)
LEMMA Extend ==
    ASSUME NEW D, NEW S, NEW f \in [D -> S], NEW d, NEW v \in S,
           NEW g, g = [o \in D \union {d} |-> IF o = d THEN v ELSE f[o]]
    PROVE  /\ g \in [D \union {d} -> S]
           /\ DOMAIN g = D \union {d}
           /\ g[d] = v
           /\ \A o \in D : o # d => g[o] = f[o]
OBVIOUS

LEMMA FindNext ==
    ASSUME IInv, NEW r \in Regs, Find(r)
    PROVE  IInv'
<1> USE NotifyAssumption DEF IInv, TypeOK, Find, HasSet, Sets, pushVars
<1>1. /\ held'[r] \in Regs /\ Op[held'[r]] = Op[r]
      /\ \A x \in Regs \ {r} : held'[x] = held[x] /\ pc'[x] = pc[x]
      /\ pc[r] = "idle" /\ pc'[r] = "found" /\ Op[r] # AnyOp
      /\ content' = content
  BY DEF Kinds
<1>2. /\ table' \in [DOMAIN table \union {Op[r]} -> Regs]
      /\ DOMAIN table' = DOMAIN table \union {Op[r]}
      /\ \A o \in DOMAIN table : table'[o] = table[o]
      /\ table'[Op[r]] = held'[r]
  <2>1. CASE Op[r] \in DOMAIN table /\ UNCHANGED table
    <3>1. DOMAIN table \union {Op[r]} = DOMAIN table  BY <2>1
    <3>2. held'[r] = table[Op[r]]  BY <2>1
    <3> QED  BY <2>1, <3>1, <3>2
  <2>2. CASE /\ Op[r] \notin DOMAIN table
             /\ held'[r] = r
             /\ table' = [o \in DOMAIN table \union {Op[r]} |->
                            IF o = Op[r] THEN r ELSE table[o]]
    <3>1. table \in [DOMAIN table -> Regs]  OBVIOUS
    <3> HIDE DEF IInv, TypeOK, Find
    <3> QED  BY <2>2, <3>1, Extend
  <2> QED  BY <2>1, <2>2
<1>3. TypeOK'
  <2>1. DOMAIN table' \subseteq Ops /\ table' \in [DOMAIN table' -> Regs]
    <3>1. Op[r] \in Ops /\ DOMAIN table \subseteq Ops  BY <1>1
    <3> HIDE DEF IInv, TypeOK, Find
    <3> QED  BY <3>1, <1>2
  <2>2. held' \in [Regs -> Sets] /\ pc' \in [Regs -> {"idle", "found", "on", "leaving", "off"}]
    BY <1>1
  <2> QED  BY <2>1, <2>2
<1>4. Placed'  BY <1>1 DEF Placed
<1>5. Keyed'  BY <1>1 DEF Keyed, SameKey
<1>6. Kinds'  BY <1>1, <1>2 DEF Kinds
<1>7. InUse'  BY <1>1, <1>2 DEF InUse
<1> QED  BY <1>3, <1>4, <1>5, <1>6, <1>7

LEMMA SubscribeNext ==
    ASSUME IInv, NEW r \in Regs, Subscribe(r)
    PROVE  IInv'
<1> USE NotifyAssumption DEF IInv, TypeOK, Subscribe, HasSet, Sets, pushVars
<1>1. /\ held[r] \in Sets /\ held' = held /\ table' = table
      /\ content'[held[r]] = Put(content[held[r]], r)
      /\ \A s \in Sets \ {held[r]} : content'[s] = content[s]
      /\ \A x \in Regs \ {r} : pc'[x] = pc[x]
      /\ pc[r] \in {"idle", "found"} /\ pc'[r] = "on"
      /\ pc[r] = "idle" => Op[r] = AnyOp
  OBVIOUS
<1>2. r \in content'[held[r]]  BY <1>1 DEF Put
<1>3. TypeOK'  BY <1>1 DEF Put
<1>4. Placed'  BY <1>1 DEF Placed, Put
<1>5. Keyed'
  <2> SUFFICES ASSUME NEW s \in Sets, NEW x \in content'[s], NEW y \in content'[s],
                      SameKey(x, y)
               PROVE  x = y
    BY DEF Keyed, SameKey
  <2>1. CASE s # held[r]  BY <1>1, <2>1 DEF Keyed
  <2>2. CASE s = held[r]  BY <1>1, <2>2 DEF Keyed, Put, SameKey
  <2> QED  BY <2>1, <2>2
<1>6. Kinds'  BY <1>1 DEF Kinds
<1>7. InUse'
  <2> SUFFICES ASSUME NEW o \in DOMAIN table
               PROVE  \/ content'[table[o]] # {}
                      \/ \E x \in Regs : pc'[x] = "found" /\ held[x] = table[o]
                      \/ \E x \in Regs : pc'[x] = "leaving" /\ Op[x] = o
    BY <1>1 DEF InUse
  <2> QED  BY <1>1, <1>2 DEF InUse
<1> QED  BY <1>3, <1>4, <1>5, <1>6, <1>7

LEMMA UnsubscribeNext ==
    ASSUME IInv, NEW r \in Regs, Unsubscribe(r)
    PROVE  IInv'
<1> USE NotifyAssumption DEF IInv, TypeOK, Unsubscribe, HasSet, Sets, pushVars
<1>1. /\ held[r] \in Sets /\ held' = held /\ table' = table
      /\ content'[held[r]] = Delete(content[held[r]], r)
      /\ \A s \in Sets \ {held[r]} : content'[s] = content[s]
      /\ \A x \in Regs \ {r} : pc'[x] = pc[x]
      /\ pc[r] \in {"on", "off"}
      /\ pc'[r] = IF Op[r] = AnyOp THEN "off" ELSE "leaving"
  OBVIOUS
<1>2. TypeOK'
  <2>1. raced' \subseteq Regs  BY DEF Others
  <2>2. content' \in [Sets -> SUBSET Regs]  BY <1>1 DEF Delete
  <2>3. pc' \in [Regs -> {"idle", "found", "on", "leaving", "off"}]
    OBVIOUS
  <2> QED  BY <1>1, <2>1, <2>2, <2>3
<1>3. Placed'  BY <1>1 DEF Placed, Delete, SameKey
<1>4. Keyed'
  <2>1. \A s \in Sets : content'[s] \subseteq content[s]  BY <1>1 DEF Delete
  <2> QED  BY <2>1 DEF Keyed, SameKey
<1>5. Kinds'  BY <1>1 DEF Kinds
<1>6. InUse'
  <2> SUFFICES ASSUME NEW o \in DOMAIN table
               PROVE  \/ content'[table[o]] # {}
                      \/ \E x \in Regs : pc'[x] = "found" /\ held[x] = table[o]
                      \/ \E x \in Regs : pc'[x] = "leaving" /\ Op[x] = o
    BY <1>1 DEF InUse
  <2>1. CASE table[o] = held[r]
    <3>1. Op[r] = o  BY <1>1, <2>1 DEF Kinds
    <3> QED  BY <1>1, <3>1
  <2>2. CASE table[o] # held[r]  BY <1>1, <2>2 DEF InUse
  <2> QED  BY <2>1, <2>2
<1> QED  BY <1>2, <1>3, <1>4, <1>5, <1>6

LEMMA DropSetNext ==
    ASSUME IInv, NEW r \in Regs, DropSet(r)
    PROVE  IInv'
<1> USE NotifyAssumption DEF IInv, TypeOK, DropSet, MayDrop, Sets, pushVars
<1>1. /\ held' = held /\ content' = content
      /\ \A x \in Regs \ {r} : pc'[x] = pc[x]
      /\ pc[r] = "leaving" /\ pc'[r] = "off"
  OBVIOUS
<1>2. /\ DOMAIN table' \subseteq DOMAIN table
      /\ \A o \in DOMAIN table' : table'[o] = table[o]
      /\ Op[r] \in DOMAIN table' => content[table[Op[r]]] # {}
  OBVIOUS
<1>3. TypeOK'
  <2>1. table' \in [DOMAIN table' -> Regs]
    OBVIOUS
  <2> QED  BY <2>1, <1>1, <1>2
<1>4. Placed'  BY <1>1 DEF Placed
<1>5. Keyed'  BY <1>1 DEF Keyed, SameKey
<1>6. Kinds'  BY <1>1, <1>2 DEF Kinds
<1>7. InUse'  BY <1>1, <1>2 DEF InUse
<1> QED  BY <1>3, <1>4, <1>5, <1>6, <1>7

LEMMA PushNext ==
    ASSUME IInv, NEW p \in Pushes, Dispatch(p) \/ \E r \in Regs : Handle(p, r)
    PROVE  IInv'
<1> USE NotifyAssumption DEF IInv, TypeOK, Sets, tableVars
<1>1. UNCHANGED tableVars  BY DEF Dispatch, Handle
<1>2. TypeOK'
  <2>1. CASE Dispatch(p)
    <3>1. Stored(PushOp[p]) \subseteq Regs /\ Expected(PushOp[p]) \subseteq Regs
      BY DEF Stored, Expected
    <3> QED  BY <2>1, <3>1 DEF Dispatch
  <2>2. CASE \E r \in Regs : Handle(p, r)  BY <2>2 DEF Handle
  <2> QED  BY <2>1, <2>2
<1>3. Placed' /\ Keyed' /\ Kinds' /\ InUse'
  BY <1>1 DEF Placed, Keyed, Kinds, InUse, SameKey
<1> QED  BY <1>2, <1>3

LEMMA IndNext == IInv /\ [Next]_vars => IInv'
<1> SUFFICES ASSUME IInv, [Next]_vars PROVE IInv'
  OBVIOUS
<1>1. CASE UNCHANGED vars
  BY <1>1 DEF vars, tableVars, pushVars, IInv, TypeOK, Placed, Keyed, Kinds,
              InUse, SameKey
<1>2. CASE Next
  BY <1>2, FindNext, SubscribeNext, UnsubscribeNext, DropSetNext, PushNext DEF Next
<1> QED  BY <1>1, <1>2

(* A set stores one registration per key, all of them subscribed; a set of *)
(* the table is used or about to be dropped.                               *)
THEOREM Invariant == Spec => []IInv
BY IndInit, IndNext, PTL DEF Spec

(* Every variable keeps its type.                                          *)
THEOREM TypeCorrect == Spec => []TypeOK
<1>1. IInv => TypeOK  BY DEF IInv
<1> QED  BY <1>1, Invariant, PTL

(* The table does not grow: an op whose subscriptions have all been undone *)
(* has no set (dropNotifySet).                                             *)
THEOREM TableStaysSmall == Spec => []NothingLeaks
<1>1. IInv => NothingLeaks
  <2> SUFFICES ASSUME IInv, NEW o \in DOMAIN table
               PROVE  \E r \in Regs : Op[r] = o /\ pc[r] \notin {"idle", "off"}
    BY DEF NothingLeaks
  <2> USE NotifyAssumption DEF IInv, TypeOK, Sets
  <2>1. table[o] \in Regs /\ Op[table[o]] = o /\ o # AnyOp
    BY DEF Kinds
  <2>2. CASE content[table[o]] # {}
    <3>1. PICK x \in content[table[o]] : TRUE  BY <2>2
    <3>2. x \in Regs /\ pc[x] = "on" /\ held[x] = table[o]
      BY <2>1, <3>1 DEF Placed
    <3>3. Op[x] = o  BY <2>1, <3>2 DEF Kinds
    <3> QED  BY <3>2, <3>3
  <2>3. CASE \E r \in Regs : pc[r] = "found" /\ held[r] = table[o]
    BY <2>1, <2>3 DEF Kinds
  <2>4. CASE \E r \in Regs : pc[r] = "leaving" /\ Op[r] = o
    BY <2>4
  <2> QED  BY <2>2, <2>3, <2>4 DEF InUse
<1> QED  BY <1>1, Invariant, PTL

-----------------------------------------------------------------------------
(* What a push reaches.                                                    *)

(* A push dispatched after a subscription was undone never reaches it.     *)
THEOREM Unsubscribed == Spec => []OffIsFinal
<1>1. Init => OffIsFinal  BY DEF Init, OffIsFinal, Reached
<1>2. IInv /\ OffIsFinal /\ [Next]_vars => OffIsFinal'
  <2> SUFFICES ASSUME IInv, OffIsFinal, [Next]_vars PROVE OffIsFinal'
    OBVIOUS
  <2> USE DEF OffIsFinal, Reached
  <2>1. CASE UNCHANGED pushVars  BY <2>1 DEF pushVars
  <2>2. ASSUME NEW p \in Pushes, Dispatch(p) PROVE OffIsFinal'
    <3>1. \A x \in Stored(PushOp[p]) : pc[x] = "on"
      BY NotifyAssumption DEF IInv, TypeOK, Placed, Stored, Sets
    <3>2. /\ \A q \in Pushes \ {p} : /\ running'[q] = running[q]
                                     /\ left'[q] = left[q]
          /\ running'[p] = Stored(PushOp[p]) /\ called' = called /\ called[p] = {}
          /\ left'[p] = {x \in Regs : pc[x] = "off"}
      BY <2>2 DEF Dispatch, IInv, TypeOK
    <3> QED  BY <3>1, <3>2
  <2>3. ASSUME NEW p \in Pushes, NEW r \in Regs, Handle(p, r) PROVE OffIsFinal'
    BY <2>3 DEF Handle, IInv, TypeOK
  <2>4. CASE \E r \in Regs : Find(r) \/ Subscribe(r) \/ Unsubscribe(r) \/ DropSet(r)
    BY <2>1, <2>4 DEF Find, Subscribe, Unsubscribe, DropSet
  <2> QED  BY <2>1, <2>2, <2>3, <2>4 DEF Next, vars
<1> QED  BY <1>1, <1>2, Invariant, PTL DEF Spec

(* A push runs a function once for each op it was registered for.          *)
THEOREM RunOnce == Spec => []OncePerFunction
<1>1. Init => OncePerFunction  BY DEF Init, OncePerFunction, Reached
<1>2. IInv /\ OncePerFunction /\ [Next]_vars => OncePerFunction'
  <2> SUFFICES ASSUME IInv, OncePerFunction, [Next]_vars PROVE OncePerFunction'
    OBVIOUS
  <2> USE DEF OncePerFunction, Reached
  <2>1. CASE UNCHANGED pushVars  BY <2>1 DEF pushVars
  <2>2. ASSUME NEW p \in Pushes, Dispatch(p) PROVE OncePerFunction'
    <3> DEFINE S == Stored(PushOp[p])
    <3>1. \A x, y \in S : Op[x] = Op[y] /\ Func[x] = Func[y] => x = y
      <4> SUFFICES ASSUME NEW x \in S, NEW y \in S, Op[x] = Op[y], Func[x] = Func[y]
                   PROVE  x = y
        OBVIOUS
      <4> USE NotifyAssumption DEF IInv, TypeOK, Sets, Stored
      <4>1. /\ x \in Regs /\ y \in Regs
            /\ held[x] \in Sets /\ held[y] \in Sets
            /\ x \in content[held[x]] /\ y \in content[held[y]]
            /\ pc[x] = "on" /\ pc[y] = "on"
        BY DEF Placed
      <4>2. held[x] = held[y]
        BY <4>1 DEF Placed, Kinds
      <4> QED  BY <4>1, <4>2 DEF Keyed, SameKey
    <3>2. /\ \A q \in Pushes \ {p} : running'[q] = running[q]
          /\ running'[p] = S /\ called' = called /\ called[p] = {}
      BY <2>2 DEF Dispatch, IInv, TypeOK
    <3> HIDE DEF S
    <3> QED  BY <3>1, <3>2
  <2>3. ASSUME NEW p \in Pushes, NEW r \in Regs, Handle(p, r) PROVE OncePerFunction'
    <3>1. \A q \in Pushes : running'[q] \union called'[q] = running[q] \union called[q]
      BY <2>3 DEF Handle, IInv, TypeOK
    <3> QED  BY <3>1
  <2>4. CASE \E r \in Regs : Find(r) \/ Subscribe(r) \/ Unsubscribe(r) \/ DropSet(r)
    BY <2>1, <2>4 DEF Find, Subscribe, Unsubscribe, DropSet
  <2> QED  BY <2>1, <2>2, <2>3, <2>4 DEF Next, vars
<1> QED  BY <1>1, <1>2, Invariant, PTL DEF Spec

-----------------------------------------------------------------------------
(* Nobody is missed.                                                       *)

LEMMA LiveNext ==
    ASSUME CodeTellsApart, IInv, Live, [Next]_vars
    PROVE  Live'
<1> SUFFICES ASSUME NEW r \in Regs, r \notin raced', Alone(r)
             PROVE  LiveInv(r)'
  BY DEF Live, Alone
<1> USE NotifyAssumption DEF IInv, TypeOK, Sets
<1>1. UNCHANGED tableVars => LiveInv(r)'
  BY DEF tableVars, Live, LiveInv, Others
<1>2. ASSUME NEW x \in Regs, Find(x) PROVE LiveInv(r)'
  <2>1. /\ content' = content /\ raced \subseteq raced'
        /\ \A y \in Regs \ {x} : held'[y] = held[y] /\ pc'[y] = pc[y]
        /\ pc[x] = "idle" /\ pc'[x] = "found"
        /\ Others(x, "leaving") # {} => x \in raced'
    BY <1>2 DEF Find, pushVars, Others
  <2>2. /\ DOMAIN table \subseteq DOMAIN table'
        /\ \A o \in DOMAIN table : table'[o] = table[o]
        /\ Op[x] \in DOMAIN table' /\ table'[Op[x]] = held'[x]
    <3>1. CASE Op[x] \in DOMAIN table
      BY <1>2, <3>1 DEF Find
    <3>2. CASE Op[x] \notin DOMAIN table
      BY <1>2, <3>2 DEF Find
    <3> QED  BY <3>1, <3>2
  <2>3. CASE r = x
    BY <2>1, <2>2, <2>3 DEF LiveInv, Others
  <2>4. CASE r # x
    <3>1. LiveInv(r) /\ pc'[r] = pc[r] /\ held'[r] = held[r]
      BY <2>1, <2>4 DEF Live
    <3>2. Others(r, "leaving")' \subseteq Others(r, "leaving")
      BY <2>1 DEF Others
    <3> QED  BY <2>1, <2>2, <3>1, <3>2 DEF LiveInv
  <2> QED  BY <2>3, <2>4
<1>3. ASSUME NEW x \in Regs, Subscribe(x) PROVE LiveInv(r)'
  <2>1. /\ held[x] \in Sets /\ held' = held /\ table' = table /\ raced' = raced
        /\ content'[held[x]] = Put(content[held[x]], x)
        /\ \A s \in Sets \ {held[x]} : content'[s] = content[s]
        /\ \A y \in Regs \ {x} : pc'[y] = pc[y]
        /\ pc'[x] = "on"
        /\ pc[x] = "found" \/ (pc[x] = "idle" /\ Op[x] = AnyOp)
    BY <1>3 DEF Subscribe, HasSet
  <2>2. LiveInv(r)  BY <2>1 DEF Live
  <2>3. CASE r = x
    BY <2>1, <2>2, <2>3 DEF LiveInv, Put
  <2>4. CASE r # x
    <3>1. ~SameKey(x, r)  BY <2>4 DEF SameKey, CodeTellsApart, Alone
    <3>2. Others(r, "leaving")' \subseteq Others(r, "leaving")
      BY <2>1 DEF Others
    <3>3. r \in content[held[r]] => r \in content'[held[r]]
      BY <2>1, <3>1 DEF Put
    <3> QED  BY <2>1, <2>2, <2>4, <3>2, <3>3 DEF LiveInv
  <2> QED  BY <2>3, <2>4
<1>4. ASSUME NEW x \in Regs, Unsubscribe(x) PROVE LiveInv(r)'
  <2>1. /\ held[x] \in Sets /\ held' = held /\ table' = table
        /\ content'[held[x]] = Delete(content[held[x]], x)
        /\ \A s \in Sets \ {held[x]} : content'[s] = content[s]
        /\ \A y \in Regs \ {x} : pc'[y] = pc[y]
        /\ pc'[x] \in {"off", "leaving"}
        /\ raced' = raced \union Others(x, "found")
    BY <1>4 DEF Unsubscribe, HasSet
  <2>2. CASE r = x
    BY <2>1, <2>2 DEF LiveInv
  <2>3. CASE r # x
    <3>1. LiveInv(r) /\ pc'[r] = pc[r]  BY <2>1, <2>3 DEF Live
    <3>2. ~SameKey(x, r)  BY <2>3 DEF SameKey, CodeTellsApart, Alone
    <3>3. pc[r] = "found" => Op[x] # Op[r]
      BY <2>1, <2>3 DEF Others
    <3>4. pc[r] = "found" => Others(r, "leaving")' \subseteq Others(r, "leaving")
      BY <2>1, <3>3 DEF Others
    <3>5. r \in content[held[r]] => r \in content'[held[r]]
      BY <2>1, <3>2 DEF Delete
    <3> QED  BY <2>1, <3>1, <3>4, <3>5 DEF LiveInv
  <2> QED  BY <2>2, <2>3
<1>5. ASSUME NEW x \in Regs, DropSet(x) PROVE LiveInv(r)'
  <2>1. /\ held' = held /\ content' = content /\ raced' = raced
        /\ \A y \in Regs \ {x} : pc'[y] = pc[y]
        /\ pc[x] = "leaving" /\ pc'[x] = "off"
    BY <1>5 DEF DropSet
  <2>2. /\ \A o \in DOMAIN table : o # Op[x] => o \in DOMAIN table' /\ table'[o] = table[o]
        /\ Op[x] \in DOMAIN table /\ content[table[Op[x]]] # {} => table' = table
    BY <1>5 DEF DropSet, MayDrop
  <2>3. CASE r = x
    BY <2>1, <2>3 DEF LiveInv
  <2>4. CASE r # x
    <3>1. LiveInv(r) /\ pc'[r] = pc[r]  BY <2>1, <2>4 DEF Live
    <3>2. Others(r, "leaving")' \subseteq Others(r, "leaving")
      BY <2>1 DEF Others
    <3>3. pc[r] = "found" => Op[x] # Op[r]
      BY <2>1, <2>4, <3>1 DEF LiveInv, Others
    <3>4. CASE pc[r] = "found"
      BY <2>1, <2>2, <3>1, <3>2, <3>3, <3>4 DEF LiveInv
    <3>5. CASE pc[r] = "on"
      BY <2>1, <2>2, <3>1, <3>5 DEF LiveInv
    <3> QED  BY <3>1, <3>4, <3>5 DEF LiveInv
  <2> QED  BY <2>3, <2>4
<1>6. ASSUME NEW p \in Pushes, Dispatch(p) \/ \E x \in Regs : Handle(p, x)
      PROVE  LiveInv(r)'
  BY <1>1, <1>6 DEF Dispatch, Handle
<1> QED
  BY <1>1, <1>2, <1>3, <1>4, <1>5, <1>6 DEF Next, vars

(* Where code pointers tell functions apart, every push reaches everybody  *)
(* who was subscribed, but for those whose On was raced (EveryoneServed).  *)
THEOREM NobodyMissed == CodeTellsApart => (Spec => []EveryoneServed)
<1> SUFFICES ASSUME CodeTellsApart PROVE Spec => []EveryoneServed
  OBVIOUS
<1>1. Init => Live /\ EveryoneServed
  BY NotifyAssumption DEF Init, Live, LiveInv, EveryoneServed, Reached
<1>2. IInv /\ Live /\ [Next]_vars => Live'
  BY LiveNext
<1>3. IInv /\ Live /\ EveryoneServed /\ [Next]_vars => EveryoneServed'
  <2> SUFFICES ASSUME IInv, Live, EveryoneServed, [Next]_vars PROVE EveryoneServed'
    OBVIOUS
  <2> USE DEF EveryoneServed, Reached
  <2>1. UNCHANGED pushVars /\ raced \subseteq raced' => EveryoneServed'
    BY DEF pushVars
  <2>2. ASSUME NEW p \in Pushes, Dispatch(p) PROVE EveryoneServed'
    <3>1. /\ \A q \in Pushes \ {p} : running'[q] = running[q] /\ due'[q] = due[q]
          /\ running'[p] = Stored(PushOp[p]) /\ due'[p] = Expected(PushOp[p])
          /\ called' = called /\ raced' = raced
      BY <2>2 DEF Dispatch, tableVars, IInv, TypeOK
    <3>2. Expected(PushOp[p]) \subseteq Stored(PushOp[p]) \union raced
      BY NotifyAssumption DEF Expected, Stored, Live, LiveInv, IInv, Kinds
    <3> QED  BY <3>1, <3>2
  <2>3. ASSUME NEW p \in Pushes, NEW r \in Regs, Handle(p, r) PROVE EveryoneServed'
    <3>1. \A q \in Pushes : running'[q] \union called'[q] = running[q] \union called[q]
      BY <2>3 DEF Handle, IInv, TypeOK
    <3> QED  BY <2>3, <3>1 DEF Handle, tableVars
  <2>4. CASE \E r \in Regs : Find(r) \/ Subscribe(r) \/ Unsubscribe(r) \/ DropSet(r)
    BY <2>1, <2>4 DEF Find, Subscribe, Unsubscribe, DropSet
  <2>5. CASE UNCHANGED vars  BY <2>1, <2>5 DEF vars, tableVars
  <2> QED  BY <2>2, <2>3, <2>4, <2>5 DEF Next
<1> QED  BY <1>1, <1>2, <1>3, Invariant, PTL DEF Spec
=============================================================================
