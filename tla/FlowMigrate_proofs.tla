------------------------- MODULE FlowMigrate_proofs -------------------------
(***************************************************************************)
(* Machine-checked facts about FlowMigrate, for every set of writers and   *)
(* of goroutines, every number of sockets and every budget.                *)
(***************************************************************************)
EXTENDS FlowMigrate, TLAPS

-----------------------------------------------------------------------------
(* Types, in groups of variables.                                          *)

LoopStates == {"idle", "dial", "hello", "failed", "replaced", "reset", "settle",
               "success", "decide", "sleep", "finish"}
ReadStates == {"top", "read", "net", "shut", "tick", "ask", "ended"}
WriteStates == {"idle", "write", "error", "ask", "window", "swallow", "over",
                "time", "mark", "failed"}

TypeSock ==
    /\ cur \in Sockets
    /\ sock \in [Sockets -> {"none", "open", "shut"}]
    /\ closed \in BOOLEAN
    /\ mine \in [Loops -> Sockets \union {0}]
    /\ closer \in {"idle", "current", "cancel", "shut", "done"}
    /\ closing \in Sockets \union {0}

TypeSwitch ==
    /\ switching \in BOOLEAN /\ pending \in BOOLEAN
    /\ windowed \in BOOLEAN /\ switched \in BOOLEAN
    /\ cancelOf \subseteq Loops /\ cancelled \subseteq Loops
    /\ loop \in [Loops -> LoopStates]

TypeRead ==
    /\ reader \in ReadStates
    /\ readSock \in Sockets \union {0}
    /\ out \in {"none", "dead", "closed", "net", "shut"}
    /\ broken \in BOOLEAN
    /\ watcher \in {"wait", "ask", "done"}

TypeWrite ==
    /\ since \in BOOLEAN /\ swallowed \in Nat
    /\ dead \in Reasons \union {"none"}
    /\ writer \in [Writers -> WriteStates]
    /\ writeSock \in [Writers -> Sockets \union {0}]

LEMMA TypeGroups == TypeOK <=> TypeSock /\ TypeSwitch /\ TypeRead /\ TypeWrite
BY DEF TypeOK, TypeSock, TypeSwitch, TypeRead, TypeWrite, LoopStates, ReadStates,
       WriteStates

(* What the actions are, by the variables they touch.                      *)
LoopActs ==
    \E l \in Loops :
        \/ Dial(l) \/ DialFail(l) \/ HelloFail(l) \/ Install(l) \/ InstallRefused(l)
        \/ ShutOld(l) \/ ResetSwallowed(l) \/ Settle(l) \/ Failed(l) \/ Decide(l)
        \/ Retry(l) \/ Finish(l)
ReadActs == ReadTop \/ ReadSocket \/ ReadBreaks \/ ReadError \/ ReadRequest
WriteActs ==
    \E w \in Writers :
        \/ Write(w) \/ WriteSocket(w) \/ WriteError(w) \/ WriteRequest(w)
        \/ WriteWindow(w) \/ Swallow(w) \/ SwallowSince(w) \/ SwallowMark(w)
CloseActs == Close \/ CloseCurrent \/ CloseCancel \/ CloseShut
Other == NetworkChange \/ WatcherRequest \/ UNCHANGED vars

LEMMA Actions ==
    ASSUME [Next]_vars
    PROVE  LoopActs \/ ReadActs \/ WriteActs \/ CloseActs \/ Other
BY DEF Next, LoopStep, ReaderStep, WriterStep, CloserStep, Done, LoopActs, ReadActs,
       WriteActs, CloseActs, Other

LEMMA TypeInit == Init => TypeOK
<1> SUFFICES ASSUME Init PROVE TypeOK
  OBVIOUS
<1> USE FlowAssumption DEF Init
<1>1. TypeSock
  <2>1. 1 \in Sockets  BY DEF Sockets
  <2> QED  BY <2>1 DEF TypeSock
<1>2. TypeSwitch  BY DEF TypeSwitch, LoopStates
<1>3. TypeRead  BY DEF TypeRead, ReadStates
<1>4. TypeWrite  BY DEF TypeWrite, WriteStates
<1> QED  BY <1>1, <1>2, <1>3, <1>4, TypeGroups

LEMMA TypeGroupsNext ==
    ASSUME TypeSock', TypeSwitch', TypeRead', TypeWrite'
    PROVE  TypeOK'
BY DEF TypeOK, TypeSock, TypeSwitch, TypeRead, TypeWrite, LoopStates, ReadStates,
       WriteStates

LEMMA RequestType ==
    ASSUME TypeSwitch, Request
    PROVE  TypeSwitch'
BY DEF TypeSwitch, Request, switchVars, LoopStates

LEMMA LoopType ==
    ASSUME IInv, LoopActs
    PROVE  TypeOK'
<1> USE DEF LoopOnly, endVars, switchVars, deadVars, loopVars, readVars, writeVars,
            closeVars, LoopMove
<1>0. TypeSock /\ TypeSwitch /\ TypeRead /\ TypeWrite
  BY TypeGroups DEF IInv
<1> PICK l \in Loops :
        \/ Dial(l) \/ DialFail(l) \/ HelloFail(l) \/ Install(l) \/ InstallRefused(l)
        \/ ShutOld(l) \/ ResetSwallowed(l) \/ Settle(l) \/ Failed(l) \/ Decide(l)
        \/ Retry(l) \/ Finish(l)
  BY DEF LoopActs
<1> USE DEF Dial, DialFail, HelloFail, Install, InstallRefused, ShutOld, ResetSwallowed,
            Settle, Failed, Decide, Retry, Finish
<1>1. TypeSock'
  <2> USE <1>0 DEF TypeSock
  <2>1. CASE Dial(l)  BY <2>1 DEF Dialled
  <2>2. CASE HelloFail(l) \/ InstallRefused(l) \/ ShutOld(l)
    <3>1. sock' \in [Sockets -> {"none", "open", "shut"}] /\ UNCHANGED <<cur, closed, closeVars>>
      BY <2>2 DEF ShutMine, Shut
    <3>2. mine' \in [Loops -> Sockets \union {0}]  BY <2>2 DEF ShutMine
    <3> QED  BY <3>1, <3>2
  <2>3. CASE Install(l)
    <3>1. loop[l] = "hello" /\ mine[l] \in Sockets  BY <2>3 DEF IInv, Held
    <3> QED  BY <2>3, <3>1
  <2>4. CASE \/ DialFail(l) \/ ResetSwallowed(l) \/ Settle(l) \/ Failed(l) \/ Decide(l)
             \/ Retry(l) \/ Finish(l)
    BY <2>4
  <2> QED  BY <2>1, <2>2, <2>3, <2>4
<1>2. TypeSwitch'
  BY <1>0 DEF TypeSwitch, LoopStates
<1>3. TypeRead'
  BY <1>0 DEF TypeRead
<1>4. TypeWrite'
  <2>1. /\ UNCHANGED <<dead, writer, writeSock>>
        /\ swallowed' = swallowed \/ swallowed' = 0
    OBVIOUS
  <2>2. since' = since \/ since' = FALSE
    OBVIOUS
  <2>3. since' \in BOOLEAN  BY <1>0, <2>2 DEF TypeWrite
  <2> QED  BY <1>0, <2>1, <2>3 DEF TypeWrite
<1> QED  BY <1>1, <1>2, <1>3, <1>4, TypeGroupsNext

LEMMA ReadType ==
    ASSUME IInv, ReadActs
    PROVE  TypeOK'
<1> USE DEF endVars, switchVars, deadVars, loopVars, writeVars, closeVars, ReadOnly,
            ReadMove, ReadAgain, ReadFails
<1>0. TypeSock /\ TypeSwitch /\ TypeRead /\ TypeWrite
  BY TypeGroups DEF IInv
<1> USE DEF ReadActs, ReadTop, ReadSocket, ReadBreaks, ReadError, ReadRequest
<1>1. TypeSock'
  <2>1. UNCHANGED <<cur, sock, closed, mine, closer, closing>>  OBVIOUS
  <2> QED  BY <1>0, <2>1 DEF TypeSock
<1>2. TypeSwitch'
  <2>1. CASE ReadRequest  BY <1>0, <2>1, RequestType
  <2>2. CASE ~ReadRequest
    <3>1. UNCHANGED <<switchVars, loop>>  BY <2>2
    <3> QED  BY <1>0, <3>1 DEF TypeSwitch
  <2> QED  BY <2>1, <2>2
<1>3. TypeRead'
  <2>1. reader' \in ReadStates /\ UNCHANGED watcher  BY DEF ReadStates
  <2>2. readSock' \in Sockets \union {0}  BY <1>0 DEF TypeRead, TypeSock
  <2>3. out' \in {"none", "dead", "closed", "net", "shut"}  BY <1>0 DEF TypeRead
  <2>4. broken' = broken \/ broken' = TRUE  OBVIOUS
  <2>5. broken' \in BOOLEAN  BY <1>0, <2>4 DEF TypeRead
  <2> QED  BY <1>0, <2>1, <2>2, <2>3, <2>5 DEF TypeRead
<1>4. TypeWrite'
  <2>1. UNCHANGED <<since, swallowed, writer, writeSock>>  OBVIOUS
  <2>2. dead' \in Reasons \union {"none"}
    BY <1>0 DEF TypeWrite, MarkDead, Reasons
  <2> QED  BY <1>0, <2>1, <2>2 DEF TypeWrite
<1> QED  BY <1>1, <1>2, <1>3, <1>4, TypeGroupsNext

LEMMA WriteType ==
    ASSUME IInv, WriteActs
    PROVE  TypeOK'
<1> USE DEF endVars, switchVars, deadVars, loopVars, readVars, closeVars, WriteOnly,
            WriteMove, WriteEnds
<1>0. TypeSock /\ TypeSwitch /\ TypeRead /\ TypeWrite
  BY TypeGroups DEF IInv
<1> PICK w \in Writers :
        \/ Write(w) \/ WriteSocket(w) \/ WriteError(w) \/ WriteRequest(w)
        \/ WriteWindow(w) \/ Swallow(w) \/ SwallowSince(w) \/ SwallowMark(w)
  BY DEF WriteActs
<1> USE DEF Write, WriteSocket, WriteError, WriteRequest, WriteWindow, Swallow,
            SwallowSince, SwallowMark
<1>1. TypeSock'
  <2>1. UNCHANGED <<cur, sock, closed, mine, closer, closing>>  OBVIOUS
  <2> QED  BY <1>0, <2>1 DEF TypeSock
<1>2. TypeSwitch'
  <2>1. CASE WriteRequest(w)  BY <1>0, <2>1, RequestType
  <2>2. CASE ~WriteRequest(w)
    <3>1. UNCHANGED <<switchVars, loop>>  BY <2>2
    <3> QED  BY <1>0, <3>1 DEF TypeSwitch
  <2> QED  BY <2>1, <2>2
<1>3. TypeRead'
  <2>1. UNCHANGED <<reader, readSock, out, broken, watcher>>  OBVIOUS
  <2> QED  BY <1>0, <2>1 DEF TypeRead
<1>4. TypeWrite'
  <2>1. writer' \in [Writers -> WriteStates]  BY <1>0 DEF TypeWrite, WriteStates
  <2>2. writeSock' \in [Writers -> Sockets \union {0}]
    BY <1>0 DEF TypeWrite, TypeSock
  <2>3. since' = since \/ since' = TRUE  OBVIOUS
  <2>4. since' \in BOOLEAN  BY <1>0, <2>3 DEF TypeWrite
  <2>5. swallowed' \in Nat  BY <1>0 DEF TypeWrite
  <2>6. dead' \in Reasons \union {"none"}
    BY <1>0 DEF TypeWrite, MarkDead, Reasons
  <2> QED  BY <2>1, <2>2, <2>4, <2>5, <2>6 DEF TypeWrite
<1> QED  BY <1>1, <1>2, <1>3, <1>4, TypeGroupsNext

LEMMA CloseType ==
    ASSUME IInv, CloseActs
    PROVE  TypeOK'
<1> USE DEF endVars, switchVars, deadVars, loopVars, readVars, writeVars, CloseOnly
<1>0. TypeSock /\ TypeSwitch /\ TypeRead /\ TypeWrite
  BY TypeGroups DEF IInv
<1> USE DEF CloseActs, Close, CloseCurrent, CloseCancel, CloseShut
<1>1. TypeSock'
  <2>1. closed' = closed \/ closed' = TRUE  OBVIOUS
  <2>2. closed' \in BOOLEAN  BY <1>0, <2>1 DEF TypeSock
  <2>3. sock' \in [Sockets -> {"none", "open", "shut"}]  BY <1>0 DEF TypeSock, Shut
  <2>4. /\ UNCHANGED <<cur, mine>>
        /\ closer' \in {"current", "cancel", "shut", "done"}
        /\ closing' \in {closing, cur, 0}
    OBVIOUS
  <2> QED  BY <1>0, <2>2, <2>3, <2>4 DEF TypeSock
<1>2. TypeSwitch'
  <2>1. /\ UNCHANGED <<switching, pending, windowed, switched, cancelOf, loop>>
        /\ cancelled' \in {cancelled, cancelled \union cancelOf}
    OBVIOUS
  <2> QED  BY <1>0, <2>1 DEF TypeSwitch
<1>3. TypeRead' /\ TypeWrite'
  BY <1>0 DEF TypeRead, TypeWrite
<1> QED  BY <1>1, <1>2, <1>3, TypeGroupsNext

LEMMA OtherType ==
    ASSUME IInv, Other
    PROVE  TypeOK'
<1>0. TypeSock /\ TypeSwitch /\ TypeRead /\ TypeWrite
  BY TypeGroups DEF IInv
<1> USE DEF endVars, switchVars, deadVars, loopVars, readVars, writeVars, closeVars
<1> USE DEF Other, NetworkChange, WatcherRequest, vars
<1>1. TypeSock' /\ TypeWrite'
  BY <1>0 DEF TypeSock, TypeWrite
<1>2. TypeSwitch'
  <2>1. CASE WatcherRequest  BY <1>0, <2>1, RequestType
  <2>2. CASE ~WatcherRequest
    <3>1. UNCHANGED <<switchVars, loop>>  BY <2>2
    <3> QED  BY <1>0, <3>1 DEF TypeSwitch
  <2> QED  BY <2>1, <2>2
<1>3. TypeRead'
  BY <1>0 DEF TypeRead
<1> QED  BY <1>1, <1>2, <1>3, TypeGroupsNext

LEMMA TypeNext ==
    ASSUME IInv, [Next]_vars
    PROVE  TypeOK'
BY Actions, LoopType, ReadType, WriteType, CloseType, OtherType

-----------------------------------------------------------------------------
(* The sockets and who holds them.                                         *)

SockInv == OneMigration /\ Held /\ Closing /\ TargetIsOpen /\ NoSocketLost

sockVars == <<cur, sock, closed, mine, loop, switching, closer, closing>>

LEMMA SockStutter ==
    ASSUME SockInv, UNCHANGED sockVars
    PROVE  SockInv'
BY DEF SockInv, sockVars, OneMigration, Held, Closing, TargetIsOpen, NoSocketLost

(* A request starts a migration only when none runs.                       *)
LEMMA RequestSock ==
    ASSUME IInv, Request, UNCHANGED <<endVars, mine, closeVars>>
    PROVE  SockInv'
<1> USE DEF endVars, closeVars, switchVars
<1>1. CASE UNCHANGED <<switching, loop>>
  BY <1>1, SockStutter DEF IInv, SockInv, sockVars
<1>2. CASE ~UNCHANGED <<switching, loop>>
  <2>1. PICK l \in Loops : /\ ~switching /\ switching' = TRUE
                           /\ loop' = [loop EXCEPT ![l] = "dial"]
    BY <1>2 DEF Request, Merge
  <2>2. loop \in [Loops -> LoopStates]  BY TypeGroups DEF IInv, TypeSwitch
  <2>3. \A k \in Loops : loop[k] = "idle"  BY <2>1 DEF IInv, OneMigration
  <2>4. loop'[l] = "dial" /\ \A k \in Loops \ {l} : loop'[k] = "idle"
    BY <2>1, <2>2, <2>3
  <2>5. OneMigration'  BY <2>1, <2>4 DEF OneMigration
  <2>6. Held' /\ NoSocketLost'
    <3>1. \A k \in Loops : /\ loop[k] \notin {"hello", "replaced"}
                            /\ loop'[k] \notin {"hello", "replaced"}
      BY <2>3, <2>4
    <3> QED  BY <3>1 DEF IInv, Held, NoSocketLost
  <2>7. Closing' /\ TargetIsOpen'  BY DEF IInv, Closing, TargetIsOpen
  <2> QED  BY <2>5, <2>6, <2>7 DEF SockInv
<1> QED  BY <1>1, <1>2

LEMMA LoopSock ==
    ASSUME IInv, LoopActs
    PROVE  SockInv'
<1> USE DEF LoopOnly, endVars, switchVars, deadVars, loopVars, readVars, writeVars,
            closeVars, LoopMove
<1>0. TypeSock /\ TypeSwitch  BY TypeGroups DEF IInv
<1> PICK l \in Loops :
        \/ Dial(l) \/ DialFail(l) \/ HelloFail(l) \/ Install(l) \/ InstallRefused(l)
        \/ ShutOld(l) \/ ResetSwallowed(l) \/ Settle(l) \/ Failed(l) \/ Decide(l)
        \/ Retry(l) \/ Finish(l)
  BY DEF LoopActs
\* The migration that moves is the only one.
<1>1. /\ loop[l] # "idle" /\ switching
      /\ \A k \in Loops \ {l} : loop[k] = "idle" /\ loop'[k] = "idle"
      /\ UNCHANGED closeVars /\ closed' = closed
  <2>1. /\ loop[l] # "idle" /\ UNCHANGED <<closer, closing, closed>>
        /\ \A k \in Loops \ {l} : loop'[k] = loop[k]
    BY <1>0 DEF TypeSwitch, Dial, DialFail, HelloFail, Install, InstallRefused, ShutOld,
                ResetSwallowed, Settle, Failed, Decide, Retry, Finish
  <2> QED  BY <2>1 DEF IInv, OneMigration
\* One step that leaves the sockets alone.
<1>2. CASE \/ DialFail(l) \/ ResetSwallowed(l) \/ Settle(l) \/ Failed(l) \/ Decide(l)
           \/ Retry(l) \/ Finish(l)
  <2>1. /\ UNCHANGED <<cur, sock, mine>>
        /\ loop[l] \notin {"hello", "replaced"} /\ loop'[l] \notin {"hello", "replaced"}
        /\ \/ loop'[l] = "idle" /\ switching' = FALSE
           \/ loop'[l] # "idle" /\ switching' = switching
    BY <1>0, <1>2 DEF TypeSwitch, DialFail, ResetSwallowed, Settle, Failed, Decide, Retry,
                      Finish
  <2>2. OneMigration'  BY <1>1, <2>1 DEF OneMigration
  <2>3. \A k \in Loops : /\ loop[k] \notin {"hello", "replaced"}
                          /\ loop'[k] \notin {"hello", "replaced"}
    BY <1>1, <2>1
  <2>4. Held' /\ NoSocketLost'
    BY <1>1, <2>1, <2>3 DEF IInv, Held, NoSocketLost
  <2>5. Closing' /\ TargetIsOpen'
    BY <1>1, <2>1 DEF IInv, Closing, TargetIsOpen
  <2> QED  BY <2>2, <2>4, <2>5 DEF SockInv
<1>3. CASE Dial(l)
  <2>1. PICK s \in Sockets :
            /\ sock[s] = "none" /\ sock' = [sock EXCEPT ![s] = "open"]
            /\ mine' = [mine EXCEPT ![l] = s]
    <3>1. PICK s \in Sockets :
              /\ \A k \in Sockets : k < s <=> sock[k] # "none"
              /\ sock' = [sock EXCEPT ![s] = "open"]
              /\ mine' = [mine EXCEPT ![l] = s]
      BY <1>3 DEF Dial, Dialled
    <3>2. s \in Nat /\ ~(s < s)  BY FlowAssumption DEF Sockets
    <3>3. sock[s] = "none"  BY <3>1, <3>2
    <3> QED  BY <3>1, <3>3
  <2>2. /\ loop[l] = "dial" /\ loop'[l] = "hello"
        /\ UNCHANGED <<cur, switching>>
    BY <1>0, <1>3 DEF Dial, TypeSwitch
  <2>3. /\ s # cur /\ mine'[l] = s /\ sock'[s] = "open"
        /\ \A k \in Sockets \ {s} : sock'[k] = sock[k]
    BY <1>0, <2>1 DEF IInv, Held, TypeSock
  <2>4. OneMigration'  BY <1>1, <2>2 DEF OneMigration
  <2>5. Held'  BY <1>0, <1>1, <2>2, <2>3 DEF IInv, Held, TypeSock
  <2>6. Closing' /\ TargetIsOpen'
    BY <1>0, <1>1, <2>2, <2>3 DEF IInv, Closing, TargetIsOpen, TypeSock
  <2>7. NoSocketLost'
    <3> SUFFICES ASSUME NEW x \in Sockets, sock'[x] = "open"
                 PROVE  \/ x = cur' /\ closer' # "done"
                        \/ \E k \in Loops : loop'[k] \in {"hello", "replaced"} /\ mine'[k] = x
      BY DEF NoSocketLost
    <3>1. CASE x = s  BY <2>2, <2>3, <3>1
    <3>2. CASE x # s
      BY <1>1, <2>2, <2>3, <3>2 DEF IInv, NoSocketLost
    <3> QED  BY <3>1, <3>2
  <2> QED  BY <2>4, <2>5, <2>6, <2>7 DEF SockInv
\* A socket that is not current is closed.
<1>4. CASE HelloFail(l) \/ InstallRefused(l) \/ ShutOld(l)
  <2>1. /\ loop[l] \in {"hello", "replaced"} /\ loop'[l] \notin {"hello", "replaced", "idle"}
        /\ UNCHANGED <<cur, switching>>
        /\ sock' = [sock EXCEPT ![mine[l]] = "shut"]
    BY <1>0, <1>4 DEF HelloFail, InstallRefused, ShutOld, ShutMine, Shut, TypeSwitch
  <2>2. mine[l] \in Sockets \ {cur}  BY <2>1 DEF IInv, Held
  <2>3. /\ sock'[mine[l]] = "shut"
        /\ \A s \in Sockets \ {mine[l]} : sock'[s] = sock[s]
    BY <1>0, <2>1, <2>2 DEF TypeSock
  <2>4. OneMigration'  BY <1>1, <2>1 DEF OneMigration
  <2>5. \A k \in Loops : loop'[k] \notin {"hello", "replaced"}
    BY <1>1, <2>1
  <2>6. Held'  BY <1>0, <2>1, <2>2, <2>3, <2>5 DEF IInv, Held, TypeSock
  <2>7. Closing' /\ TargetIsOpen'
    BY <1>0, <1>1, <2>1, <2>2, <2>3 DEF IInv, Closing, TargetIsOpen, TypeSock
  <2>8. NoSocketLost'
    <3> SUFFICES ASSUME NEW x \in Sockets, sock'[x] = "open"
                 PROVE  x = cur' /\ closer' # "done"
      BY DEF NoSocketLost
    <3>1. x # mine[l] /\ sock[x] = "open"  BY <2>3
    <3>2. ~\E k \in Loops : loop[k] \in {"hello", "replaced"} /\ mine[k] = x
      BY <1>1, <3>1
    <3> QED  BY <1>1, <2>1, <3>1, <3>2 DEF IInv, NoSocketLost
  <2> QED  BY <2>4, <2>6, <2>7, <2>8 DEF SockInv
<1>5. CASE Install(l)
  <2>1. /\ ~closed /\ loop[l] = "hello" /\ loop'[l] = "replaced"
        /\ cur' = mine[l] /\ mine'[l] = cur
        /\ UNCHANGED <<sock, switching>>
    BY <1>0, <1>5 DEF Install, MayInstall, TypeSock, TypeSwitch
  <2>2. mine[l] \in Sockets \ {cur} /\ sock[mine[l]] = "open"
    BY <2>1 DEF IInv, Held
  <2>3. closer = "idle"  BY <2>1 DEF IInv, Closing
  <2>4. OneMigration'  BY <1>1, <2>1 DEF OneMigration
  <2>5. Held'  BY <1>0, <1>1, <2>1, <2>2 DEF Held, TypeSock
  <2>6. Closing' /\ TargetIsOpen'
    BY <1>1, <2>1, <2>2, <2>3 DEF IInv, Closing, TargetIsOpen
  <2>7. NoSocketLost'
    <3> SUFFICES ASSUME NEW x \in Sockets, sock[x] = "open"
                 PROVE  x = cur' \/ x = mine'[l]
      BY <1>1, <2>1, <2>3 DEF NoSocketLost
    <3>1. x = cur \/ x = mine[l]  BY <1>1 DEF IInv, NoSocketLost
    <3> QED  BY <2>1, <3>1
  <2> QED  BY <2>4, <2>5, <2>6, <2>7 DEF SockInv
<1> QED  BY <1>2, <1>3, <1>4, <1>5

LEMMA CloseSock ==
    ASSUME IInv, CloseActs
    PROVE  SockInv'
<1> USE DEF CloseActs, CloseOnly, switchVars, loopVars
<1>0. TypeSock  BY TypeGroups DEF IInv
<1>1. UNCHANGED <<cur, mine, loop, switching>> /\ OneMigration'
  BY DEF IInv, OneMigration, Close, CloseCurrent, CloseCancel, CloseShut, endVars
<1>2. CASE Close \/ CloseCurrent \/ CloseCancel
  <2>1. UNCHANGED sock  BY <1>2 DEF Close, CloseCurrent, CloseCancel, endVars
  <2>2. Closing'
    BY <1>1, <1>2 DEF IInv, Closing, Close, CloseCurrent, CloseCancel, endVars
  <2>3. closer # "done" /\ closer' # "done"  BY <1>2 DEF Close, CloseCurrent, CloseCancel
  <2>4. Held' /\ NoSocketLost'  BY <1>1, <2>1, <2>3 DEF IInv, Held, NoSocketLost
  <2>5. closed \/ ~closed' => UNCHANGED closed
    BY <1>2 DEF Close, CloseCurrent, CloseCancel, endVars
  <2>6. TargetIsOpen'  BY <1>1, <2>1, <2>2, <2>5 DEF IInv, TargetIsOpen, Closing
  <2> QED  BY <1>1, <2>2, <2>4, <2>6 DEF SockInv
<1>3. CASE CloseShut
  <2>1. /\ closer = "shut" /\ closer' = "done" /\ UNCHANGED closed /\ closed
        /\ closing = cur /\ sock' = [sock EXCEPT ![cur] = "shut"]
    BY <1>3 DEF CloseShut, Shut, IInv, Closing
  <2>2. sock'[cur] = "shut" /\ \A s \in Sockets \ {cur} : sock'[s] = sock[s]
    BY <1>0, <2>1 DEF TypeSock
  <2>3. Held'  BY <1>0, <1>1, <2>2 DEF IInv, Held
  <2>4. Closing' /\ TargetIsOpen'  BY <2>1 DEF Closing, TargetIsOpen
  <2>5. NoSocketLost'
    <3> SUFFICES ASSUME NEW x \in Sockets, sock'[x] = "open"
                 PROVE  \E k \in Loops : loop[k] \in {"hello", "replaced"} /\ mine[k] = x
      BY <1>1 DEF NoSocketLost
    <3>1. x # cur /\ sock[x] = "open"  BY <2>2
    <3> QED  BY <3>1 DEF IInv, NoSocketLost
  <2> QED  BY <1>1, <2>3, <2>4, <2>5 DEF SockInv
<1> QED  BY <1>2, <1>3 DEF CloseActs

LEMMA SockNext ==
    ASSUME IInv, [Next]_vars
    PROVE  SockInv'
<1> USE DEF endVars, closeVars, loopVars, switchVars
<1>1. CASE LoopActs  BY <1>1, LoopSock
<1>2. CASE CloseActs  BY <1>2, CloseSock
<1>3. CASE ReadActs
  <2>1. CASE ReadRequest  BY <2>1, RequestSock DEF ReadRequest, ReadOnly
  <2>2. CASE ReadTop \/ ReadSocket \/ ReadBreaks \/ ReadError
    <3>1. UNCHANGED sockVars
      BY <2>2 DEF ReadTop, ReadSocket, ReadBreaks, ReadError, ReadOnly, sockVars
    <3> QED  BY <3>1, SockStutter DEF IInv, SockInv
  <2> QED  BY <1>3, <2>1, <2>2 DEF ReadActs
<1>4. CASE WriteActs
  <2> PICK w \in Writers :
          \/ Write(w) \/ WriteSocket(w) \/ WriteError(w) \/ WriteRequest(w)
          \/ WriteWindow(w) \/ Swallow(w) \/ SwallowSince(w) \/ SwallowMark(w)
    BY <1>4 DEF WriteActs
  <2>1. CASE WriteRequest(w)  BY <2>1, RequestSock DEF WriteRequest, WriteOnly
  <2>2. CASE ~WriteRequest(w)
    <3>1. UNCHANGED sockVars
      BY <2>2 DEF Write, WriteSocket, WriteError, WriteWindow, Swallow, SwallowSince,
                  SwallowMark, WriteOnly, sockVars
    <3> QED  BY <3>1, SockStutter DEF IInv, SockInv
  <2> QED  BY <2>1, <2>2
<1>5. CASE Other
  <2>1. CASE WatcherRequest  BY <2>1, RequestSock DEF WatcherRequest
  <2>2. CASE ~WatcherRequest
    <3>1. UNCHANGED sockVars  BY <1>5, <2>2 DEF Other, NetworkChange, vars, sockVars
    <3> QED  BY <3>1, SockStutter DEF IInv, SockInv
  <2> QED  BY <2>1, <2>2
<1> QED  BY <1>1, <1>2, <1>3, <1>4, <1>5, Actions

-----------------------------------------------------------------------------
(* The reader, and the budget of the writers.                              *)

LEMMA ReasonNext ==
    ASSUME IInv, [Next]_vars
    PROVE  ReadReason'
<1>0. TypeSock /\ TypeRead  BY TypeGroups DEF IInv
\* Only the reader moves the reader; a socket once shut stays shut.
<1>1. ASSUME UNCHANGED <<reader, readSock, out, broken>>,
             \A s \in Sockets : sock[s] = "shut" => sock'[s] = "shut"
      PROVE  ReadReason'
  BY <1>1 DEF IInv, ReadReason
<1>2. CASE LoopActs
  <2> PICK l \in Loops :
          \/ Dial(l) \/ DialFail(l) \/ HelloFail(l) \/ Install(l) \/ InstallRefused(l)
          \/ ShutOld(l) \/ ResetSwallowed(l) \/ Settle(l) \/ Failed(l) \/ Decide(l)
          \/ Retry(l) \/ Finish(l)
    BY <1>2 DEF LoopActs
  <2> USE DEF LoopOnly, readVars, endVars
  <2>1. UNCHANGED <<reader, readSock, out, broken>>
    BY DEF Dial, DialFail, HelloFail, Install, InstallRefused, ShutOld, ResetSwallowed,
           Settle, Failed, Decide, Retry, Finish
  <2>2. \A s \in Sockets : sock[s] = "shut" => sock'[s] = "shut"
    <3>1. CASE Dial(l)
      <4>1. PICK s \in Sockets : /\ \A k \in Sockets : k < s <=> sock[k] # "none"
                                 /\ sock' = [sock EXCEPT ![s] = "open"]
        BY <3>1 DEF Dial, Dialled
      <4>2. s \in Nat /\ ~(s < s)  BY FlowAssumption DEF Sockets
      <4>3. sock[s] = "none"  BY <4>1, <4>2
      <4> QED  BY <1>0, <4>1, <4>3 DEF TypeSock
    <3>2. CASE HelloFail(l) \/ InstallRefused(l) \/ ShutOld(l)
      BY <1>0, <3>2 DEF HelloFail, InstallRefused, ShutOld, ShutMine, Shut, TypeSock
    <3>3. CASE ~Dial(l) /\ ~(HelloFail(l) \/ InstallRefused(l) \/ ShutOld(l))
      BY <3>3 DEF DialFail, Install, ResetSwallowed, Settle, Failed, Decide, Retry, Finish
    <3> QED  BY <3>1, <3>2, <3>3
  <2> QED  BY <1>1, <2>1, <2>2
<1>3. CASE CloseActs
  <2>1. UNCHANGED <<reader, readSock, out, broken>>
    BY <1>3 DEF CloseActs, Close, CloseCurrent, CloseCancel, CloseShut, CloseOnly, readVars
  <2>2. \A s \in Sockets : sock[s] = "shut" => sock'[s] = "shut"
    BY <1>0, <1>3 DEF CloseActs, Close, CloseCurrent, CloseCancel, CloseShut, Shut, endVars,
                      TypeSock
  <2> QED  BY <1>1, <2>1, <2>2
<1>4. CASE WriteActs
  <2>1. UNCHANGED <<reader, readSock, out, broken, sock>>
    BY <1>4 DEF WriteActs, Write, WriteSocket, WriteError, WriteRequest, WriteWindow,
                Swallow, SwallowSince, SwallowMark, WriteOnly, readVars, endVars
  <2> QED  BY <1>1, <2>1
<1>5. CASE Other
  <2>1. UNCHANGED <<reader, readSock, out, broken, sock>>
    BY <1>5 DEF Other, NetworkChange, WatcherRequest, vars, readVars, endVars
  <2> QED  BY <1>1, <2>1
<1>6. CASE ReadActs
  <2> USE DEF ReadActs, ReadReason, ReadMove, ReadAgain, ReadFails, readVars, endVars
  <2>1. CASE ReadTop  BY <1>0, <2>1 DEF IInv, ReadTop, TypeSock
  <2>2. CASE ReadSocket  BY <2>2 DEF IInv, ReadSocket
  <2>3. CASE ReadBreaks  BY <2>3 DEF IInv, ReadBreaks
  <2>4. CASE ReadError  BY <2>4 DEF IInv, ReadError
  <2>5. CASE ReadRequest  BY <2>5 DEF IInv, ReadRequest
  <2> QED  BY <1>6, <2>1, <2>2, <2>3, <2>4, <2>5
<1> QED  BY <1>2, <1>3, <1>4, <1>5, <1>6, Actions

LEMMA BudgetNext ==
    ASSUME IInv, [Next]_vars
    PROVE  BudgetKept'
<1> USE FlowAssumption
<1>0. TypeWrite  BY TypeGroups DEF IInv
<1>1. ASSUME UNCHANGED <<swallowed, writer>>, dead # "none" => dead' # "none"
      PROVE  BudgetKept'
  BY <1>1 DEF IInv, BudgetKept
<1>2. CASE LoopActs
  <2> PICK l \in Loops :
          \/ Dial(l) \/ DialFail(l) \/ HelloFail(l) \/ Install(l) \/ InstallRefused(l)
          \/ ShutOld(l) \/ ResetSwallowed(l) \/ Settle(l) \/ Failed(l) \/ Decide(l)
          \/ Retry(l) \/ Finish(l)
    BY <1>2 DEF LoopActs
  <2>1. UNCHANGED <<dead, writer>> /\ (swallowed' = 0 \/ swallowed' = swallowed)
    BY DEF Dial, DialFail, HelloFail, Install, InstallRefused, ShutOld, ResetSwallowed,
           Settle, Failed, Decide, Retry, Finish, LoopOnly, deadVars, writeVars
  <2>2. CASE swallowed' = 0  BY <2>2 DEF BudgetKept
  <2>3. CASE swallowed' = swallowed  BY <1>1, <2>1, <2>3
  <2> QED  BY <2>1, <2>2, <2>3
<1>3. CASE CloseActs \/ Other
  <2>1. UNCHANGED <<dead, writer, swallowed>>
    BY <1>3 DEF CloseActs, Close, CloseCurrent, CloseCancel, CloseShut, CloseOnly, deadVars,
                writeVars, Other, NetworkChange, WatcherRequest, vars
  <2> QED  BY <1>1, <2>1
<1>4. CASE ReadActs
  <2>1. UNCHANGED <<writer, swallowed>> /\ (dead # "none" => dead' # "none")
    BY <1>4 DEF ReadActs, ReadTop, ReadSocket, ReadBreaks, ReadError, ReadRequest, ReadOnly,
                deadVars, writeVars, MarkDead
  <2> QED  BY <1>1, <2>1
<1>5. CASE WriteActs
  <2> PICK w \in Writers :
          \/ Write(w) \/ WriteSocket(w) \/ WriteError(w) \/ WriteRequest(w)
          \/ WriteWindow(w) \/ Swallow(w) \/ SwallowSince(w) \/ SwallowMark(w)
    BY <1>5 DEF WriteActs
  <2> USE DEF deadVars, WriteMove, WriteEnds
  <2>1. CASE \/ Write(w) \/ WriteSocket(w) \/ WriteError(w) \/ WriteRequest(w)
             \/ WriteWindow(w)
    <3>1. /\ UNCHANGED <<swallowed, dead>> /\ writer[w] \notin {"over", "mark"}
          /\ \A v \in Writers \ {w} : writer'[v] = writer[v]
      BY <1>0, <2>1 DEF TypeWrite, Write, WriteSocket, WriteError, WriteRequest, WriteWindow
    <3> QED  BY <3>1 DEF IInv, BudgetKept
  <2>2. CASE Swallow(w)
    <3>1. /\ swallowed' = swallowed + 1 /\ UNCHANGED dead
          /\ swallowed + 1 > SwallowMax => writer'[w] = "over"
      BY <1>0, <2>2 DEF TypeWrite, Swallow, OverBudget
    <3> QED  BY <3>1 DEF BudgetKept
  <2>3. CASE SwallowSince(w)
    <3>1. /\ UNCHANGED <<swallowed, dead>>
          /\ writer[w] = "over" => writer'[w] = "mark"
          /\ writer[w] \in {"over", "time"}
          /\ \A v \in Writers \ {w} : writer'[v] = writer[v]
      BY <1>0, <2>3 DEF TypeWrite, SwallowSince
    <3> QED  BY <3>1 DEF IInv, BudgetKept
  <2>4. CASE SwallowMark(w)
    <3>1. dead' # "none"  BY <2>4 DEF SwallowMark, MarkDead
    <3> QED  BY <3>1 DEF BudgetKept
  <2> QED  BY <2>1, <2>2, <2>3, <2>4
<1> QED  BY <1>2, <1>3, <1>4, <1>5, Actions

-----------------------------------------------------------------------------
(* The theorems.                                                           *)

LEMMA IndInit == Init => IInv
<1> SUFFICES ASSUME Init PROVE IInv
  OBVIOUS
<1>1. TypeOK  BY TypeInit
<1>2. /\ cur = 1 /\ sock = [s \in Sockets |-> IF s = 1 THEN "open" ELSE "none"]
      /\ 1 \in Sockets
  BY FlowAssumption DEF Init, Sockets
<1>3. OneMigration  BY DEF Init, OneMigration
<1>4. Held /\ TargetIsOpen  BY <1>2 DEF Init, Held, TargetIsOpen
<1>5. NoSocketLost  BY <1>2 DEF Init, NoSocketLost
<1>6. Closing /\ ReadReason  BY DEF Init, Closing, ReadReason
<1>7. BudgetKept  BY FlowAssumption DEF Init, BudgetKept
<1> QED  BY <1>1, <1>3, <1>4, <1>5, <1>6, <1>7 DEF IInv

LEMMA IndNext ==
    ASSUME IInv, [Next]_vars
    PROVE  IInv'
<1>1. TypeOK'  BY TypeNext
<1>2. SockInv'  BY SockNext
<1>3. ReadReason' /\ BudgetKept'  BY ReasonNext, BudgetNext
<1> QED  BY <1>1, <1>2, <1>3 DEF IInv, SockInv

(* The inductive invariant: who holds which socket, what a read that       *)
(* failed has seen, and how far the writers are with a spent budget.       *)
THEOREM Invariant == Spec => []IInv
<1>1. Init => IInv  BY IndInit
<1>2. IInv /\ [Next]_vars => IInv'  BY IndNext
<1> QED  BY <1>1, <1>2, PTL DEF Spec

(* However many writers, the read loop and the watcher request a switch,   *)
(* one migration runs at a time (requestSwitch).                           *)
THEOREM MigratesAlone == Spec => []OneMigration
<1>1. IInv => OneMigration  BY DEF IInv
<1> QED  BY Invariant, <1>1, PTL

(* Until Close there is always an open socket to write to: migrate closes  *)
(* the old one strictly after it has installed the new one.                *)
THEOREM WritesHaveATarget == Spec => []TargetIsOpen
<1>1. IInv => TargetIsOpen  BY DEF IInv
<1> QED  BY Invariant, <1>1, PTL

(* No socket stays open behind Close unless a migration still holds it,    *)
(* which closes it (Close, migrate).                                       *)
THEOREM SocketsAreClosed == Spec => []NoSocketLost
<1>1. IInv => NoSocketLost  BY DEF IInv
<1> QED  BY Invariant, <1>1, PTL

(* A flow that has swallowed more errors than it may is dead, or about to  *)
(* be declared so (noteSwallowed).                                         *)
THEOREM BudgetIsKept == Spec => []BudgetKept
<1>1. IInv => BudgetKept  BY DEF IInv
<1> QED  BY Invariant, <1>1, PTL

-----------------------------------------------------------------------------
(* What KCP sees.                                                          *)

contractVars == <<closed, dead, broken, out>>

LEMMA ReadKeepsContract ==
    ASSUME IInv, ReadActs
    PROVE  Contract!Next \/ UNCHANGED contractVars
<1> USE DEF contractVars, ReadMove, ReadAgain, ReadFails, endVars, deadVars
<1>0. TypeSock /\ TypeRead /\ TypeWrite  BY TypeGroups DEF IInv
<1>1. reader # "ended" => out = "none"  BY DEF IInv, ReadReason
\* An end with a reason is an End of the contract.
<1>2. ASSUME out = "none", UNCHANGED <<closed, broken>>,
             \/ closed /\ out' = "closed" /\ UNCHANGED dead
             \/ broken /\ out' = "net" /\ UNCHANGED dead
             \/ out' = "dead" /\ dead' \in Reasons /\ dead \in {"none", dead'}
      PROVE  Contract!Next
  BY <1>2 DEF Contract!Next, Contract!End
<1>3. CASE ReadTop
  <2>1. UNCHANGED <<closed, broken, dead>>  BY <1>3 DEF ReadTop
  <2>2. CASE dead # "none" /\ out' = "dead" /\ reader = "top"
    <3>1. dead \in Reasons  BY <1>0, <2>2 DEF TypeWrite
    <3> QED  BY <1>1, <1>2, <2>1, <2>2, <3>1
  <2>3. CASE closed /\ out' = "closed" /\ reader = "top"
    BY <1>1, <1>2, <2>1, <2>3
  <2>4. CASE UNCHANGED out  BY <2>1, <2>4
  <2> QED  BY <1>3, <2>2, <2>3, <2>4 DEF ReadTop, SeesDead
<1>4. CASE ReadSocket
  <2>1. UNCHANGED <<closed, broken, dead>>  BY <1>4 DEF ReadSocket
  <2>2. CASE closed /\ out' = "closed" /\ reader = "read"
    BY <1>1, <1>2, <2>1, <2>2
  <2>3. CASE UNCHANGED out  BY <2>1, <2>3
  <2> QED  BY <1>4, <2>2, <2>3 DEF ReadSocket
<1>5. CASE ReadBreaks
  BY <1>5 DEF ReadBreaks, Contract!Next, Contract!Break
<1>6. CASE ReadRequest
  BY <1>6 DEF ReadRequest
<1>7. CASE ReadError
  <2>1. UNCHANGED <<closed, broken>> /\ reader # "ended"  BY <1>7 DEF ReadError
  <2>2. CASE closed /\ out' = "closed" /\ UNCHANGED dead
    BY <1>1, <1>2, <2>1, <2>2
  <2>3. CASE UNCHANGED <<out, dead>>  BY <2>1, <2>3
\* The socket read is current, so it is open: only the network can have failed it.
  <2>4. CASE ~closed /\ ~Stale(readSock) /\ reader \in {"net", "shut"} /\ out' = reader
             /\ UNCHANGED dead
    <3>1. sock[readSock] = "open"  BY <2>4 DEF Stale, IInv, TargetIsOpen
    <3>2. reader = "net" /\ broken  BY <2>4, <3>1 DEF IInv, ReadReason
    <3> QED  BY <1>1, <1>2, <2>1, <2>4, <3>2
  <2>5. CASE out' = "dead" /\ MarkDead("idle")
    <3>1. dead' \in Reasons /\ dead \in {"none", dead'}
      BY <1>0, <2>5 DEF MarkDead, TypeWrite, Reasons
    <3> QED  BY <1>1, <1>2, <2>1, <2>5, <3>1
  <2> QED  BY <1>7, <2>2, <2>3, <2>4, <2>5 DEF ReadError
<1> QED  BY <1>3, <1>4, <1>5, <1>6, <1>7 DEF ReadActs

LEMMA WriteKeepsContract ==
    ASSUME IInv, WriteActs
    PROVE  Contract!Next \/ UNCHANGED contractVars
<1> USE DEF contractVars, endVars, readVars, deadVars, WriteOnly
<1>1. PICK w \in Writers :
          \/ Write(w) \/ WriteSocket(w) \/ WriteError(w) \/ WriteRequest(w)
          \/ WriteWindow(w) \/ Swallow(w) \/ SwallowSince(w) \/ SwallowMark(w)
  BY DEF WriteActs
<1>2. CASE SwallowMark(w)
  BY <1>2 DEF SwallowMark, MarkDead, Reasons, Contract!Next, Contract!Die
<1>3. CASE ~SwallowMark(w)
  BY <1>1, <1>3 DEF Write, WriteSocket, WriteError, WriteRequest, WriteWindow, Swallow,
                    SwallowSince
<1> QED  BY <1>2, <1>3

LEMMA ContractNext ==
    ASSUME IInv, [Next]_vars
    PROVE  [Contract!Next]_<<closed, dead, broken, out>>
<1> USE DEF contractVars, endVars, readVars, deadVars
<1>1. CASE LoopActs
  <2> PICK l \in Loops :
          \/ Dial(l) \/ DialFail(l) \/ HelloFail(l) \/ Install(l) \/ InstallRefused(l)
          \/ ShutOld(l) \/ ResetSwallowed(l) \/ Settle(l) \/ Failed(l) \/ Decide(l)
          \/ Retry(l) \/ Finish(l)
    BY <1>1 DEF LoopActs
  <2> QED
    BY DEF Dial, DialFail, HelloFail, Install, InstallRefused, ShutOld, ResetSwallowed,
           Settle, Failed, Decide, Retry, Finish, LoopOnly
<1>2. CASE ReadActs  BY <1>2, ReadKeepsContract
<1>3. CASE WriteActs  BY <1>3, WriteKeepsContract
<1>4. CASE CloseActs
  BY <1>4 DEF CloseActs, Close, CloseCurrent, CloseCancel, CloseShut, CloseOnly,
              Contract!Next, Contract!Shut
<1>5. CASE Other
  BY <1>5 DEF Other, NetworkChange, WatcherRequest, vars
<1> QED  BY <1>1, <1>2, <1>3, <1>4, <1>5, Actions

(* However often the socket under it is replaced, ReadFrom ends only       *)
(* because of Close, of a dead flow or of an error of the network          *)
(* (ReadFrom, migrate).                                                    *)
THEOREM Refinement == Spec => KeepsContract
<1>1. Init => Contract!Init  BY DEF Init, Contract!Init
<1>2. IInv /\ [Next]_vars => [Contract!Next]_<<closed, dead, broken, out>>
  BY ContractNext
<1> QED  BY Invariant, <1>1, <1>2, PTL DEF Spec, KeepsContract, Contract!Spec, Contract!vars
=============================================================================
