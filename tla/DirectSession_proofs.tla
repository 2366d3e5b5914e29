------------------------ MODULE DirectSession_proofs ------------------------
(***************************************************************************)
(* Machine-checked facts about DirectSession, for every set of requests,   *)
(* of Reconnects and of closers, every bound on the generations, every     *)
(* capacity of s.manual and every set of options.                          *)
(***************************************************************************)
EXTENDS DirectSession, FiniteSetTheorems, TLAPS

-----------------------------------------------------------------------------
(* The invariants the properties rest on.                                  *)

(* markEnded: the kind is known with the flag, and from the store on the   *)
(* state is that kind; before it the state is not terminal.                *)
EndInv ==
    /\ end = "none" <=> kind = "none"
    /\ end \in {"none", "flagged"} => state \notin TerminalStates
    /\ end \in {"marked", "settled", "done"} => state = kind

(* A key is in the table from the registration of its call until its call  *)
(* returns or its one result is there.                                     *)
KeyInv ==
    /\ \A r \in inflight : call[r] \in {"lock", "writing", "await"} /\ reply[r] = "none"
    /\ \A r \in Requests : call[r] \in {"idle", "snap"} => reply[r] = "none"

(* A waiter's result channel is empty, and nobody waits before he asks.    *)
WaiterInv ==
    /\ \A w \in waiters : answer[w] = "none"
    /\ \A w \in Reconnectors :
          rec[w] \in {"idle", "enqueue"} => w \notin waiters /\ answer[w] = "none"

Writing(r) == call[r] = "writing"

(* writeMu has one holder, and once the session is terminal only the one   *)
(* that had it then: it writes the one late frame, or has written it.      *)
WriterInv ==
    /\ \A q, r \in Requests : Writing(q) /\ Writing(r) => q = r
    /\ late # {} => Terminal
    /\ Terminal =>
          \A q, r \in Requests :
              (q \in late \/ Writing(q)) /\ (r \in late \/ Writing(r)) => q = r

(* Nothing is registered any more once the table has been settled.         *)
SettledInv == end \in {"settled", "done"} => inflight = {}

(* A read loop leaves an open connection only to close it.                 *)
ReaderInv ==
    \A e \in Gens : conn[e] = "up" =>
        reader[e] \in {"reading", "ending"} \/ (reader[e] = "failing" /\ cause[e] = "proto")

(* What Close leaves behind: the state, and what has stopped stays so.     *)
CloseInv ==
    /\ \A c \in Closers : closer[c] # "idle" => closed
    /\ closed =>
          \/ state \in TerminalStates \union {"Disconnected"}
          \/ end = "flagged"
          \/ \E c \in Closers : closer[c] = "closing"
    /\ (\E c \in Closers : closer[c] = "returned") => Quiet

IInv ==
    /\ TypeOK /\ EndInv /\ KeyInv /\ WaiterInv /\ WriterInv /\ SettledInv
    /\ ReaderInv /\ CloseInv

-----------------------------------------------------------------------------
(* The steps, by who takes them.                                           *)

CallActs ==
    \E r \in Requests :
       \/ Invoke(r) \/ Register(r) \/ LockWrite(r) \/ WriteFrame(r) \/ Await(r)
       \/ Timeout(r)
       \/ \E e \in Gens, res \in {"reply"} \union TerminalStates : Response(e, r, res)

ReaderActs == \E e \in Gens : EndNotify(e) \/ ReadExit(e) \/ FailInflight(e) \/ ConnLost(e)

SupActs == \E s \in Gens : SupStep(s)

RecActs ==
    \E w \in Reconnectors :
       \/ Reconnect(w) \/ Enqueue(w) \/ SendManual(w) \/ ReconnectReturn(w)
       \/ ReconnectCancel(w)

CloserActs == \E c \in Closers : CloseBegin(c) \/ CloseSettle(c) \/ CloseReturn(c)

LEMMA Actions ==
    [Next]_vars => \/ OpenReturn \/ CallActs \/ EndStep \/ ReaderActs \/ SupActs
                   \/ RecActs \/ CloserActs \/ UNCHANGED vars
<1> SUFFICES ASSUME [Next]_vars
             PROVE  \/ OpenReturn \/ CallActs \/ EndStep \/ ReaderActs \/ SupActs
                    \/ RecActs \/ CloserActs \/ UNCHANGED vars
  OBVIOUS
<1>1. CASE \E r \in Requests :
              \/ Invoke(r) \/ CallStep(r) \/ Timeout(r)
              \/ \E e \in Gens, res \in {"reply"} \union TerminalStates : Response(e, r, res)
  BY <1>1 DEF CallStep, CallActs
<1>2. CASE \E e \in Gens :
              EndNotify(e) \/ ReadExit(e) \/ FailInflight(e) \/ ConnLost(e) \/ SupStep(e)
  BY <1>2 DEF ReaderActs, SupActs
<1>3. CASE \E w \in Reconnectors : Reconnect(w) \/ RecStep(w) \/ ReconnectCancel(w)
  BY <1>3 DEF RecStep, RecActs
<1>4. CASE \E c \in Closers : CloseBegin(c) \/ CloserStep(c)
  BY <1>4 DEF CloserStep, CloserActs
<1>5. CASE Done \/ UNCHANGED vars
  BY <1>5 DEF Done
<1> QED  BY <1>1, <1>2, <1>3, <1>4, <1>5 DEF Next

-----------------------------------------------------------------------------
(* Type correctness, by groups of variables.                               *)

States == {"Connected", "Reconnecting", "Disconnected"} \union TerminalStates

TypeFlags ==
    /\ opts \in Options
    /\ opened \in BOOLEAN /\ closed \in BOOLEAN /\ fatal \in BOOLEAN
    /\ state \in States

TypeConn ==
    /\ gen \in Gens /\ started \in Gens
    /\ conn \in [Gens -> {"none", "up", "lost", "shut"}]
    /\ reader \in [Gens -> {"none", "reading", "ending", "failing", "done"}]
    /\ cause \in [Gens -> {"none", "net", "proto"}]

TypeSup ==
    /\ sup \in [Gens -> {"none", "await", "lost", "drop", "idle", "backoff", "dial",
                         "restore", "ending", "failed", "ok", "next", "exit"}]
    /\ watch \in [Gens -> Gens]

TypeRec ==
    /\ manual \in 0..ManualCap
    /\ waiters \subseteq Reconnectors
    /\ rec \in [Reconnectors -> {"idle", "enqueue", "send", "wait", "returned"}]
    /\ answer \in [Reconnectors -> {"none", "ok", "failed", "closed"}]

Replies == {"none", "reply", "lost", "timeout", "settled"} \union TerminalStates

TypeCall ==
    /\ call \in [Requests -> {"idle", "snap", "lock", "writing", "await", "ending",
                              "returned"}]
    /\ epoch \in [Requests -> 0..MaxGen]
    /\ inflight \subseteq Requests
    /\ reply \in [Requests -> Replies]
    /\ wire \in [Requests -> 0..MaxGen]
    /\ late \subseteq Requests

TypeEnd ==
    /\ end \in {"none", "flagged", "marked", "settled", "done"}
    /\ kind \in {"none"} \union TerminalStates
    /\ linger \in {"none", "armed", "done"}

TypeClose == closer \in [Closers -> {"idle", "closing", "waiting", "returned"}]

LEMMA TypeGroups ==
    TypeOK <=> /\ TypeFlags /\ TypeConn /\ TypeSup /\ TypeRec /\ TypeCall /\ TypeEnd
               /\ TypeClose
  BY DEF TypeOK, TypeFlags, TypeConn, TypeSup, TypeRec, TypeCall, TypeEnd, TypeClose,
         States, Replies

LEMMA TypeInit == Init => TypeOK
<1> SUFFICES ASSUME Init PROVE TypeOK
  OBVIOUS
<1> USE DirectAssumption DEF Init, Gens
<1>1. TypeFlags /\ TypeEnd /\ TypeClose  BY DEF TypeFlags, TypeEnd, TypeClose, States
<1>2. TypeConn  BY DEF TypeConn
<1>3. TypeSup  BY DEF TypeSup
<1>4. TypeRec  BY DEF TypeRec
<1>5. TypeCall  BY DEF TypeCall, Replies
<1> QED  BY <1>1, <1>2, <1>3, <1>4, <1>5, TypeGroups

(* What a step does to the state: setState, or the store of markEnded.     *)
LEMMA StateSteps ==
    ASSUME [Next]_vars
    PROVE  \/ UNCHANGED state
           \/ \E st \in {"Connected", "Reconnecting", "Disconnected"} :
                 SetState(st) /\ UNCHANGED <<end, kind>>
           \/ EndMark
<1> USE DEF connVars, supVars, recVars, callVars, endVars, SupOnly
<1>1. CASE OpenReturn  BY <1>1 DEF OpenReturn
<1>2. CASE CallActs
  BY <1>2 DEF CallActs, Invoke, Register, LockWrite, WriteFrame, Await, Timeout, Response
<1>3. CASE EndStep
  BY <1>3 DEF EndStep, EndSettle, EndClose, LingerEnd
<1>4. CASE ReaderActs
  BY <1>4 DEF ReaderActs, EndNotify, ReadExit, FailInflight, ConnLost
<1>5. CASE SupActs
  <2> PICK s \in Gens : SupStep(s)
    BY <1>5 DEF SupActs
  <2>1. CASE AwaitEnd(s) \/ Backoff(s) \/ BackoffStop(s) \/ DialFails(s) \/ StartGeneration(s)
             \/ Restore(s) \/ SupNext(s)
    BY <2>1 DEF AwaitEnd, Backoff, BackoffStop, DialFails, StartGeneration, Restore, SupNext
  <2>2. CASE GenerationOver(s)  BY <2>2 DEF GenerationOver
  <2>3. CASE WaitManual(s)  BY <2>3 DEF WaitManual
  <2>4. CASE SupFailed(s)  BY <2>4 DEF SupFailed
  <2>5. CASE SupRestored(s)  BY <2>5 DEF SupRestored
  <2> QED  BY <2>1, <2>2, <2>3, <2>4, <2>5 DEF SupStep
<1>6. CASE RecActs
  BY <1>6 DEF RecActs, Reconnect, Enqueue, SendManual, ReconnectReturn, ReconnectCancel
<1>7. CASE CloserActs
  BY <1>7 DEF CloserActs, CloseBegin, CloseSettle, CloseReturn
<1>8. CASE UNCHANGED vars  BY <1>8 DEF vars
<1> QED  BY <1>1, <1>2, <1>3, <1>4, <1>5, <1>6, <1>7, <1>8, Actions

(* What a step does to markEnded: the flag is taken, or markEnded goes on. *)
LEMMA EndSteps ==
    ASSUME TypeOK, [Next]_vars
    PROVE  \/ UNCHANGED <<end, kind>>
           \/ \E k \in TerminalStates : EndFlag(k) /\ UNCHANGED <<state, closed>>
           \/ EndStep
<1> USE DEF connVars, supVars, recVars, callVars, endVars, SupOnly
<1>1. CASE OpenReturn  BY <1>1 DEF OpenReturn
<1>2. CASE CallActs
  BY <1>2 DEF CallActs, Invoke, Register, LockWrite, WriteFrame, Await, Timeout, Response
<1>3. CASE ReaderActs
  BY <1>3 DEF ReaderActs, EndNotify, ReadExit, FailInflight, ConnLost, TerminalStates
<1>4. CASE SupActs
  <2> PICK s \in Gens : SupStep(s)
    BY <1>4 DEF SupActs
  <2>1. CASE AwaitEnd(s) \/ Backoff(s) \/ BackoffStop(s) \/ DialFails(s) \/ StartGeneration(s)
             \/ SupNext(s) \/ SupRestored(s) \/ GenerationOver(s) \/ WaitManual(s)
             \/ SupFailed(s)
    BY <2>1 DEF AwaitEnd, Backoff, BackoffStop, DialFails, StartGeneration, SupNext,
                SupRestored, GenerationOver, WaitManual, SupFailed
  <2>2. CASE Restore(s)  BY <2>2 DEF Restore
  <2> QED  BY <2>1, <2>2 DEF SupStep
<1>5. CASE RecActs
  BY <1>5 DEF RecActs, Reconnect, Enqueue, SendManual, ReconnectReturn, ReconnectCancel
<1>6. CASE CloserActs
  BY <1>6 DEF CloserActs, CloseBegin, CloseSettle, CloseReturn
<1>7. CASE UNCHANGED vars  BY <1>7 DEF vars
<1> QED  BY <1>1, <1>2, <1>3, <1>4, <1>5, <1>6, <1>7, Actions

-----------------------------------------------------------------------------
(* Type correctness of a step.                                             *)

LEMMA FlagsNext == TypeOK /\ EndInv /\ [Next]_vars => TypeFlags'
<1> SUFFICES ASSUME TypeOK, EndInv, [Next]_vars PROVE TypeFlags'
  OBVIOUS
<1>1. TypeFlags /\ TypeEnd  BY TypeGroups
<1>2. state' \in States
  <2>1. CASE UNCHANGED state  BY <1>1, <2>1 DEF TypeFlags
  <2>2. CASE EndMark
    BY <1>1, <2>2 DEF EndMark, SetState, AfterSetState, TypeFlags, TypeEnd, EndInv, States
  <2>3. CASE \E st \in {"Connected", "Reconnecting", "Disconnected"} : SetState(st)
    BY <1>1, <2>3 DEF SetState, AfterSetState, TypeFlags, States
  <2> QED  BY <2>1, <2>2, <2>3, StateSteps
<1>3. opts' = opts /\ opened' \in BOOLEAN /\ closed' \in BOOLEAN /\ fatal' \in BOOLEAN
  <2> USE <1>1 DEF TypeFlags, connVars, supVars, recVars, callVars, endVars, SupOnly
  <2>1. CASE OpenReturn  BY <2>1 DEF OpenReturn
  <2>2. CASE CallActs
    BY <2>2 DEF CallActs, Invoke, Register, LockWrite, WriteFrame, Await, Timeout, Response
  <2>3. CASE EndStep
    BY <2>3 DEF EndStep, EndMark, EndSettle, EndClose, LingerEnd
  <2>4. CASE ReaderActs
    BY <2>4 DEF ReaderActs, EndNotify, ReadExit, FailInflight, ConnLost
  <2>5. CASE SupActs
    <3> PICK s \in Gens : SupStep(s)
      BY <2>5 DEF SupActs
    <3>1. CASE SupFailed(s)  BY <3>1 DEF SupFailed
    <3>2. CASE ~SupFailed(s)
      BY <3>2 DEF SupStep, AwaitEnd, Backoff, BackoffStop, DialFails, StartGeneration,
                  SupNext, SupRestored, GenerationOver, WaitManual, Restore
    <3> QED  BY <3>1, <3>2
  <2>6. CASE RecActs
    BY <2>6 DEF RecActs, Reconnect, Enqueue, SendManual, ReconnectReturn, ReconnectCancel
  <2>7. CASE CloserActs
    BY <2>7 DEF CloserActs, CloseBegin, CloseSettle, CloseReturn
  <2>8. CASE UNCHANGED vars  BY <2>8 DEF vars
  <2> QED  BY <2>1, <2>2, <2>3, <2>4, <2>5, <2>6, <2>7, <2>8, Actions
<1> QED  BY <1>1, <1>2, <1>3 DEF TypeFlags

LEMMA ConnNext == TypeOK /\ [Next]_vars => TypeConn'
<1> SUFFICES ASSUME TypeOK, [Next]_vars PROVE TypeConn'
  OBVIOUS
<1>0. TypeConn /\ TypeSup  BY TypeGroups
<1> USE <1>0, DirectAssumption
    DEF TypeConn, connVars, supVars, recVars, callVars, endVars, SupOnly, Shut
<1>1. CASE OpenReturn  BY <1>1 DEF OpenReturn
<1>2. CASE CallActs
  BY <1>2 DEF CallActs, Invoke, Register, LockWrite, WriteFrame, Await, Timeout, Response
<1>3. CASE EndStep
  BY <1>3 DEF EndStep, EndMark, EndSettle, EndClose, LingerEnd
<1>4. CASE ReaderActs
  BY <1>4 DEF ReaderActs, EndNotify, ReadExit, FailInflight, ConnLost
<1>5. CASE SupActs
  <2> PICK s \in Gens : SupStep(s)
    BY <1>5 DEF SupActs
  <2>1. CASE AwaitEnd(s)  BY <2>1 DEF AwaitEnd
  <2>2. CASE StartGeneration(s)
    BY <2>2 DEF StartGeneration, NextGen, Gens
  <2>3. CASE Restore(s)  BY <2>3 DEF Restore
  <2>4. CASE Backoff(s) \/ BackoffStop(s) \/ DialFails(s) \/ SupNext(s) \/ SupRestored(s)
             \/ GenerationOver(s) \/ WaitManual(s) \/ SupFailed(s)
    BY <2>4 DEF Backoff, BackoffStop, DialFails, SupNext, SupRestored, GenerationOver,
                WaitManual, SupFailed
  <2> QED  BY <2>1, <2>2, <2>3, <2>4 DEF SupStep
<1>6. CASE RecActs
  BY <1>6 DEF RecActs, Reconnect, Enqueue, SendManual, ReconnectReturn, ReconnectCancel
<1>7. CASE CloserActs
  BY <1>7 DEF CloserActs, CloseBegin, CloseSettle, CloseReturn
<1>8. CASE UNCHANGED vars  BY <1>8 DEF vars
<1> QED  BY <1>1, <1>2, <1>3, <1>4, <1>5, <1>6, <1>7, <1>8, Actions

LEMMA SupNextType == TypeOK /\ [Next]_vars => TypeSup'
<1> SUFFICES ASSUME TypeOK, [Next]_vars PROVE TypeSup'
  OBVIOUS
<1>0. TypeConn /\ TypeSup  BY TypeGroups
<1> USE <1>0 DEF TypeSup, TypeConn, connVars, supVars, recVars, callVars, endVars,
                 SupOnly, Go
<1>1. CASE OpenReturn  BY <1>1 DEF OpenReturn
<1>2. CASE CallActs
  BY <1>2 DEF CallActs, Invoke, Register, LockWrite, WriteFrame, Await, Timeout, Response
<1>3. CASE EndStep
  BY <1>3 DEF EndStep, EndMark, EndSettle, EndClose, LingerEnd
<1>4. CASE ReaderActs
  BY <1>4 DEF ReaderActs, EndNotify, ReadExit, FailInflight, ConnLost
<1>5. CASE SupActs
  <2> PICK s \in Gens : SupStep(s)
    BY <1>5 DEF SupActs
  <2>1. CASE AwaitEnd(s)  BY <2>1 DEF AwaitEnd
  <2>2. CASE StartGeneration(s)  BY <2>2 DEF StartGeneration
  <2>3. CASE Restore(s)  BY <2>3 DEF Restore
  <2>4. CASE Backoff(s) \/ BackoffStop(s) \/ DialFails(s) \/ SupNext(s) \/ SupRestored(s)
    BY <2>4 DEF Backoff, BackoffStop, DialFails, SupNext, SupRestored
  <2>5. CASE GenerationOver(s) \/ WaitManual(s) \/ SupFailed(s)
    BY <2>5 DEF GenerationOver, WaitManual, SupFailed
  <2> QED  BY <2>1, <2>2, <2>3, <2>4, <2>5 DEF SupStep
<1>6. CASE RecActs
  BY <1>6 DEF RecActs, Reconnect, Enqueue, SendManual, ReconnectReturn, ReconnectCancel
<1>7. CASE CloserActs
  BY <1>7 DEF CloserActs, CloseBegin, CloseSettle, CloseReturn
<1>8. CASE UNCHANGED vars  BY <1>8 DEF vars
<1> QED  BY <1>1, <1>2, <1>3, <1>4, <1>5, <1>6, <1>7, <1>8, Actions

LEMMA RecNext == TypeOK /\ [Next]_vars => TypeRec'
<1> SUFFICES ASSUME TypeOK, [Next]_vars PROVE TypeRec'
  OBVIOUS
<1>0. TypeRec  BY TypeGroups
<1> USE <1>0, DirectAssumption
    DEF TypeRec, connVars, supVars, recVars, callVars, endVars, SupOnly, FinishWaiters
<1>1. CASE OpenReturn  BY <1>1 DEF OpenReturn
<1>2. CASE CallActs
  BY <1>2 DEF CallActs, Invoke, Register, LockWrite, WriteFrame, Await, Timeout, Response
<1>3. CASE EndStep
  BY <1>3 DEF EndStep, EndMark, EndSettle, EndClose, LingerEnd
<1>4. CASE ReaderActs
  BY <1>4 DEF ReaderActs, EndNotify, ReadExit, FailInflight, ConnLost
<1>5. CASE SupActs
  <2> PICK s \in Gens : SupStep(s)
    BY <1>5 DEF SupActs
  <2>1. CASE AwaitEnd(s)  BY <2>1 DEF AwaitEnd
  <2>2. CASE StartGeneration(s) \/ Restore(s) \/ Backoff(s) \/ BackoffStop(s)
             \/ DialFails(s) \/ SupNext(s) \/ GenerationOver(s)
    BY <2>2 DEF StartGeneration, Restore, Backoff, BackoffStop, DialFails, SupNext,
                GenerationOver
  <2>3. CASE WaitManual(s)  BY <2>3 DEF WaitManual
  <2>4. CASE SupFailed(s)  BY <2>4 DEF SupFailed
  <2>5. CASE SupRestored(s)  BY <2>5 DEF SupRestored
  <2> QED  BY <2>1, <2>2, <2>3, <2>4, <2>5 DEF SupStep
<1>6. CASE RecActs
  BY <1>6 DEF RecActs, Reconnect, Enqueue, SendManual, ReconnectReturn, ReconnectCancel
<1>7. CASE CloserActs
  BY <1>7 DEF CloserActs, CloseBegin, CloseSettle, CloseReturn
<1>8. CASE UNCHANGED vars  BY <1>8 DEF vars
<1> QED  BY <1>1, <1>2, <1>3, <1>4, <1>5, <1>6, <1>7, <1>8, Actions

(* The steps that touch no call: everything but the calls themselves, the  *)
(* read loops, the settling of markEnded and of Close.                     *)
LEMMA CallSteps ==
    ASSUME [Next]_vars
    PROVE  \/ CallActs
           \/ EndSettle
           \/ EndClose
           \/ \E e \in Gens : FailInflight(e)
           \/ \E c \in Closers : CloseSettle(c)
           \/ UNCHANGED callVars
<1> USE DEF callVars, connVars, supVars, recVars, endVars, SupOnly
<1>1. CASE OpenReturn  BY <1>1 DEF OpenReturn
<1>2. CASE EndStep
  BY <1>2 DEF EndStep, EndMark, LingerEnd
<1>3. CASE ReaderActs
  BY <1>3 DEF ReaderActs, EndNotify, ReadExit, ConnLost
<1>4. CASE SupActs
  <2> PICK s \in Gens : SupStep(s)
    BY <1>4 DEF SupActs
  <2> QED
    BY DEF SupStep, AwaitEnd, StartGeneration, Restore, Backoff, BackoffStop, DialFails,
           SupNext, GenerationOver, WaitManual, SupFailed, SupRestored
<1>5. CASE RecActs
  BY <1>5 DEF RecActs, Reconnect, Enqueue, SendManual, ReconnectReturn, ReconnectCancel
<1>6. CASE CloserActs
  BY <1>6 DEF CloserActs, CloseBegin, CloseReturn
<1>7. CASE UNCHANGED vars  BY <1>7 DEF vars
<1> QED  BY <1>1, <1>2, <1>3, <1>4, <1>5, <1>6, <1>7, Actions

LEMMA CallNext == TypeOK /\ [Next]_vars => TypeCall'
<1> SUFFICES ASSUME TypeOK, [Next]_vars PROVE TypeCall'
  OBVIOUS
<1>0. TypeCall /\ TypeConn  BY TypeGroups
<1> USE <1>0 DEF TypeCall, TypeConn, callVars, SettleInflight, Replies
<1>1. CASE CallActs
  <2> PICK r \in Requests :
        \/ Invoke(r) \/ Register(r) \/ LockWrite(r) \/ WriteFrame(r) \/ Await(r)
        \/ Timeout(r)
        \/ \E e \in Gens, res \in {"reply"} \union TerminalStates : Response(e, r, res)
    BY <1>1 DEF CallActs
  <2> USE DEF Return
  <2>1. CASE Invoke(r) \/ LockWrite(r) \/ Await(r)
    BY <2>1 DEF Invoke, LockWrite, Await
  <2>2. CASE Register(r)
    <3>1. gen \in 0..MaxGen  BY DirectAssumption DEF Gens
    <3>2. epoch' = [epoch EXCEPT ![r] = gen]  BY <2>2 DEF Register
    <3>3. epoch' \in [Requests -> 0..MaxGen]  BY <3>1, <3>2
    <3> QED  BY <2>2, <3>3 DEF Register
  <2>3. CASE WriteFrame(r)  BY <2>3 DEF WriteFrame
  <2>4. CASE Timeout(r)  BY <2>4 DEF Timeout
  <2>5. CASE \E e \in Gens, res \in {"reply"} \union TerminalStates : Response(e, r, res)
    BY <2>5 DEF Response
  <2> QED  BY <2>1, <2>2, <2>3, <2>4, <2>5
<1>2. CASE EndSettle  BY <1>2 DEF EndSettle
<1>3. CASE EndClose  BY <1>3 DEF EndClose
<1>4. CASE \E e \in Gens : FailInflight(e)  BY <1>4 DEF FailInflight
<1>5. CASE \E c \in Closers : CloseSettle(c)  BY <1>5 DEF CloseSettle
<1>6. CASE UNCHANGED callVars  BY <1>6
<1> QED  BY <1>1, <1>2, <1>3, <1>4, <1>5, <1>6, CallSteps

(* linger changes with the window alone.                                   *)
LEMMA LingerSteps ==
    ASSUME TypeOK, [Next]_vars
    PROVE  UNCHANGED linger \/ EndClose \/ LingerEnd
<1> USE DEF callVars, connVars, supVars, recVars, endVars, SupOnly
<1>1. CASE OpenReturn  BY <1>1 DEF OpenReturn
<1>2. CASE CallActs
  BY <1>2 DEF CallActs, Invoke, Register, LockWrite, WriteFrame, Await, Timeout, Response,
              EndFlag
<1>3. CASE EndStep
  BY <1>3 DEF EndStep, EndMark, EndSettle
<1>4. CASE ReaderActs
  BY <1>4 DEF ReaderActs, EndNotify, ReadExit, FailInflight, ConnLost, EndFlag
<1>5. CASE SupActs
  <2> PICK s \in Gens : SupStep(s)
    BY <1>5 DEF SupActs
  <2> QED
    BY DEF SupStep, AwaitEnd, StartGeneration, Restore, Backoff, BackoffStop, DialFails,
           SupNext, GenerationOver, WaitManual, SupFailed, SupRestored, EndFlag
<1>6. CASE RecActs
  BY <1>6 DEF RecActs, Reconnect, Enqueue, SendManual, ReconnectReturn, ReconnectCancel
<1>7. CASE CloserActs
  BY <1>7 DEF CloserActs, CloseBegin, CloseSettle, CloseReturn
<1>8. CASE UNCHANGED vars  BY <1>8 DEF vars
<1> QED  BY <1>1, <1>2, <1>3, <1>4, <1>5, <1>6, <1>7, <1>8, Actions

LEMMA EndNext == TypeOK /\ [Next]_vars => TypeEnd'
<1> SUFFICES ASSUME TypeOK, [Next]_vars PROVE TypeEnd'
  OBVIOUS
<1>0. TypeEnd  BY TypeGroups
<1>1. linger' \in {"none", "armed", "done"}
  <2>1. CASE UNCHANGED linger  BY <1>0, <2>1 DEF TypeEnd
  <2>2. CASE EndClose \/ LingerEnd
    BY <1>0, <2>2 DEF TypeEnd, EndClose, LingerEnd
  <2> QED  BY <2>1, <2>2, LingerSteps
<1>2. end' \in {"none", "flagged", "marked", "settled", "done"}
      /\ kind' \in {"none"} \union TerminalStates
  <2>1. CASE UNCHANGED <<end, kind>>  BY <1>0, <2>1 DEF TypeEnd
  <2>2. CASE \E k \in TerminalStates : EndFlag(k)
    BY <1>0, <2>2 DEF TypeEnd, EndFlag
  <2>3. CASE EndStep
    BY <1>0, <2>3 DEF TypeEnd, EndStep, EndMark, EndSettle, EndClose, LingerEnd
  <2> QED  BY <2>1, <2>2, <2>3, EndSteps
<1> QED  BY <1>1, <1>2 DEF TypeEnd

(* closer changes with Close alone.                                        *)
LEMMA CloserSteps ==
    ASSUME [Next]_vars
    PROVE  CloserActs \/ UNCHANGED <<closed, closer>>
<1> USE DEF callVars, connVars, supVars, recVars, endVars, SupOnly
<1>1. CASE OpenReturn  BY <1>1 DEF OpenReturn
<1>2. CASE CallActs
  BY <1>2 DEF CallActs, Invoke, Register, LockWrite, WriteFrame, Await, Timeout, Response
<1>3. CASE EndStep
  BY <1>3 DEF EndStep, EndMark, EndSettle, EndClose, LingerEnd
<1>4. CASE ReaderActs
  BY <1>4 DEF ReaderActs, EndNotify, ReadExit, FailInflight, ConnLost
<1>5. CASE SupActs
  <2> PICK s \in Gens : SupStep(s)
    BY <1>5 DEF SupActs
  <2> QED
    BY DEF SupStep, AwaitEnd, StartGeneration, Restore, Backoff, BackoffStop, DialFails,
           SupNext, GenerationOver, WaitManual, SupFailed, SupRestored
<1>6. CASE RecActs
  BY <1>6 DEF RecActs, Reconnect, Enqueue, SendManual, ReconnectReturn, ReconnectCancel
<1>7. CASE UNCHANGED vars  BY <1>7 DEF vars
<1> QED  BY <1>1, <1>2, <1>3, <1>4, <1>5, <1>6, <1>7, Actions

LEMMA CloseNext == TypeOK /\ [Next]_vars => TypeClose'
<1> SUFFICES ASSUME TypeOK, [Next]_vars PROVE TypeClose'
  OBVIOUS
<1>0. TypeClose  BY TypeGroups
<1>1. CASE CloserActs
  BY <1>0, <1>1 DEF TypeClose, CloserActs, CloseBegin, CloseSettle, CloseReturn
<1>2. CASE UNCHANGED closer  BY <1>0, <1>2 DEF TypeClose
<1> QED  BY <1>1, <1>2, CloserSteps

LEMMA TypeNext ==
    ASSUME TypeOK, EndInv, [Next]_vars
    PROVE  TypeOK'
  BY FlagsNext, ConnNext, SupNextType, RecNext, CallNext, EndNext, CloseNext, TypeGroups, PTL

-----------------------------------------------------------------------------
(* The terminal state.                                                     *)

LEMMA EndInvNext ==
    ASSUME TypeOK, EndInv, [Next]_vars
    PROVE  EndInv'
<1>0. TypeFlags /\ TypeEnd  BY TypeGroups
<1> USE DEF EndInv
\* Before the store the state is not terminal; after it setState leaves it.
<1>1. CASE EndMark
  BY <1>0, <1>1 DEF EndMark, SetState, AfterSetState, TypeEnd
<1>2. CASE EndSettle \/ EndClose \/ LingerEnd
  BY <1>0, <1>2 DEF EndSettle, EndClose, LingerEnd, TypeEnd
<1>3. CASE \E k \in TerminalStates : EndFlag(k) /\ UNCHANGED <<state, closed>>
  BY <1>0, <1>3 DEF EndFlag, TerminalStates
<1>4. CASE UNCHANGED <<end, kind>>
  <2>1. CASE UNCHANGED state  BY <1>4, <2>1
  <2>2. CASE \E st \in {"Connected", "Reconnecting", "Disconnected"} : SetState(st)
    BY <1>0, <1>4, <2>2 DEF SetState, AfterSetState, Terminal, TypeEnd, TerminalStates
  <2>3. CASE EndMark  BY <1>1, <2>3
  <2> QED  BY <2>1, <2>2, <2>3, StateSteps
<1> QED  BY <1>1, <1>2, <1>3, <1>4, EndSteps DEF EndStep

(* What TerminalIsFinal says of one step.                                  *)
Final ==
    /\ state \in TerminalStates => state' = state
    /\ Terminal => Terminal' /\ kind' = kind

LEMMA FinalStep ==
    ASSUME TypeOK, EndInv, [Next]_vars
    PROVE  Final
<1>0. TypeFlags /\ TypeEnd  BY TypeGroups
<1>1. Terminal => Terminal' /\ kind' = kind
  <2>1. CASE EndStep
    BY <1>0, <2>1 DEF EndStep, EndMark, EndSettle, EndClose, LingerEnd, Terminal
  <2>2. CASE \E k \in TerminalStates : EndFlag(k)
    BY <2>2 DEF EndFlag, Terminal
  <2>3. CASE UNCHANGED <<end, kind>>  BY <2>3 DEF Terminal
  <2> QED  BY <2>1, <2>2, <2>3, EndSteps
<1>2. state \in TerminalStates => state' = state
  <2> SUFFICES ASSUME state \in TerminalStates PROVE state' = state
    OBVIOUS
  <2>1. end \in {"marked", "settled", "done"}
    BY <1>0 DEF EndInv, TypeEnd
  <2>2. ~EndMark  BY <2>1 DEF EndMark
  <2>3. ASSUME NEW st \in {"Connected", "Reconnecting", "Disconnected"}, SetState(st)
        PROVE  state' = state
    BY <2>1, <2>3 DEF SetState, AfterSetState, Terminal, TerminalStates
  <2> QED  BY <2>2, <2>3, StateSteps
<1> QED  BY <1>1, <1>2 DEF Final

-----------------------------------------------------------------------------
(* Keys, writers and the settled table.                                    *)

(* A result goes to calls in the table, which it takes out.                *)
LEMMA SettleKeys ==
    ASSUME TypeCall, KeyInv, NEW res, SettleInflight(res),
           \A r \in Requests : call'[r] \in {"idle", "snap"} => call[r] = call'[r]
    PROVE  KeyInv'
  BY DEF TypeCall, KeyInv, SettleInflight

LEMMA KeyInvNext ==
    ASSUME TypeOK, KeyInv, [Next]_vars
    PROVE  KeyInv'
<1>0. TypeCall  BY TypeGroups
<1>1. CASE CallActs
  <2> PICK r \in Requests :
        \/ Invoke(r) \/ Register(r) \/ LockWrite(r) \/ WriteFrame(r) \/ Await(r)
        \/ Timeout(r)
        \/ \E e \in Gens, res \in {"reply"} \union TerminalStates : Response(e, r, res)
    BY <1>1 DEF CallActs
  <2> USE <1>0 DEF TypeCall, KeyInv, Return
  <2>1. CASE Invoke(r)  BY <2>1 DEF Invoke
  <2>2. CASE Register(r)  BY <2>2 DEF Register
  <2>3. CASE LockWrite(r)  BY <2>3 DEF LockWrite
  <2>4. CASE WriteFrame(r)  BY <2>4 DEF WriteFrame
  <2>5. CASE Await(r)  BY <2>5 DEF Await, TerminalStates
  <2>6. CASE Timeout(r)  BY <2>6 DEF Timeout
  <2>7. CASE \E e \in Gens, res \in {"reply"} \union TerminalStates : Response(e, r, res)
    BY <2>7 DEF Response
  <2> QED  BY <2>1, <2>2, <2>3, <2>4, <2>5, <2>6, <2>7
<1>2. CASE EndSettle  BY <1>0, <1>2, SettleKeys DEF EndSettle
<1>3. CASE EndClose  BY <1>0, <1>3 DEF EndClose, TypeCall, KeyInv
<1>4. CASE \E e \in Gens : FailInflight(e)
  BY <1>0, <1>4, SettleKeys DEF FailInflight
<1>5. CASE \E c \in Closers : CloseSettle(c)
  BY <1>0, <1>5, SettleKeys DEF CloseSettle
<1>6. CASE UNCHANGED callVars  BY <1>6 DEF callVars, KeyInv
<1> QED  BY <1>1, <1>2, <1>3, <1>4, <1>5, <1>6, CallSteps

(* Terminal is never taken back, and a step that makes the session         *)
(* terminal starts no writer.                                              *)
LEMMA WriterInvNext ==
    ASSUME TypeOK, EndInv, WriterInv, [Next]_vars
    PROVE  WriterInv'
<1>0. TypeCall  BY TypeGroups
<1>1. Terminal => Terminal'  BY FinalStep DEF Final
<1> USE DEF WriterInv, Writing
\* No new writer and no new late frame.
<1>2. ASSUME \A q \in Requests : call'[q] = "writing" => call[q] = "writing",
             UNCHANGED late
      PROVE  WriterInv'
  BY <1>1, <1>2
<1>3. CASE CallActs
  <2> PICK r \in Requests :
        \/ Invoke(r) \/ Register(r) \/ LockWrite(r) \/ WriteFrame(r) \/ Await(r)
        \/ Timeout(r)
        \/ \E e \in Gens, res \in {"reply"} \union TerminalStates : Response(e, r, res)
    BY <1>3 DEF CallActs
  <2> USE <1>0 DEF TypeCall, Return, endVars
  <2>1. CASE Invoke(r)  BY <1>2, <2>1 DEF Invoke
  <2>2. CASE Register(r)  BY <1>2, <2>2 DEF Register
  <2>3. CASE LockWrite(r)
    <3>1. CASE ~MayWrite  BY <1>2, <2>3, <3>1 DEF LockWrite
    <3>2. CASE MayWrite
      <4>1. ~Terminal /\ UNCHANGED <<end, late>>
            /\ call' = [call EXCEPT ![r] = "writing"]
            /\ \A q \in Requests : call[q] # "writing"
        BY <2>3, <3>2 DEF LockWrite, MayWrite
      <4>2. late' = {} /\ ~Terminal'  BY <4>1 DEF Terminal
      <4> QED  BY <4>1, <4>2
    <3> QED  BY <3>1, <3>2
  <2>4. CASE WriteFrame(r)
    <3>1. /\ call[r] = "writing" /\ UNCHANGED end
          /\ \A q \in Requests : call'[q] = "writing" => call[q] = "writing" /\ q # r
      BY <2>4 DEF WriteFrame
    <3>2. Terminal' = Terminal  BY <3>1 DEF Terminal
    <3>3. late' = late \/ (Terminal /\ late' = late \union {r})
      BY <2>4 DEF WriteFrame
    <3>4. CASE late' = late  BY <1>2, <3>1, <3>4
    <3>5. CASE Terminal /\ late' = late \union {r}
      BY <3>1, <3>2, <3>5
    <3> QED  BY <3>3, <3>4, <3>5
  <2>5. CASE Await(r)  BY <1>2, <2>5 DEF Await
  <2>6. CASE Timeout(r)  BY <1>2, <2>6 DEF Timeout
  <2>7. CASE \E e \in Gens, res \in {"reply"} \union TerminalStates : Response(e, r, res)
    BY <1>2, <2>7 DEF Response
  <2> QED  BY <2>1, <2>2, <2>3, <2>4, <2>5, <2>6, <2>7
<1>4. CASE EndSettle  BY <1>2, <1>4 DEF EndSettle
<1>5. CASE EndClose  BY <1>0, <1>2, <1>5 DEF EndClose, TypeCall
<1>6. CASE \E e \in Gens : FailInflight(e)  BY <1>2, <1>6 DEF FailInflight
<1>7. CASE \E c \in Closers : CloseSettle(c)  BY <1>2, <1>7 DEF CloseSettle
<1>8. CASE UNCHANGED callVars  BY <1>2, <1>8 DEF callVars
<1> QED  BY <1>3, <1>4, <1>5, <1>6, <1>7, <1>8, CallSteps

LEMMA SettledNext ==
    ASSUME TypeOK, EndInv, SettledInv, [Next]_vars
    PROVE  SettledInv'
<1>0. TypeCall /\ TypeEnd  BY TypeGroups
<1>1. CASE EndSettle  BY <1>1 DEF EndSettle, SettleInflight, SettledInv
<1>2. ASSUME ~EndSettle, end' \in {"settled", "done"}
      PROVE  end \in {"settled", "done"}
  <2>1. CASE EndStep
    BY <1>2, <2>1 DEF EndStep, EndMark, EndClose, LingerEnd
  <2>2. CASE \E k \in TerminalStates : EndFlag(k)  BY <1>2, <2>2 DEF EndFlag
  <2>3. CASE UNCHANGED end  BY <1>2, <2>3
  <2> QED  BY <2>1, <2>2, <2>3, EndSteps
\* A table that is settled takes no new key: Register sees the flag.
<1>3. ASSUME Terminal PROVE inflight' \subseteq inflight
  <2>1. CASE CallActs
    BY <1>3, <2>1 DEF CallActs, Invoke, Register, LockWrite, WriteFrame, Await, Timeout,
                      Response, Return
  <2>2. CASE EndSettle \/ EndClose
    BY <2>2 DEF EndSettle, EndClose, SettleInflight
  <2>3. CASE \E e \in Gens : FailInflight(e)  BY <2>3 DEF FailInflight, SettleInflight
  <2>4. CASE \E c \in Closers : CloseSettle(c)  BY <2>4 DEF CloseSettle, SettleInflight
  <2>5. CASE UNCHANGED callVars  BY <2>5 DEF callVars
  <2> QED  BY <2>1, <2>2, <2>3, <2>4, <2>5, CallSteps
<1>4. CASE ~EndSettle
  BY <1>2, <1>3, <1>4 DEF SettledInv, Terminal
<1> QED  BY <1>1, <1>4

-----------------------------------------------------------------------------
(* The waiters of Reconnect.                                               *)

(* finishWaiters answers those whose channel is empty, and they are gone.  *)
LEMMA FinishKeeps ==
    ASSUME TypeRec, WaiterInv, NEW res, FinishWaiters(res), UNCHANGED rec
    PROVE  WaiterInv'
  BY DEF TypeRec, WaiterInv, FinishWaiters

LEMMA WaiterInvNext ==
    ASSUME TypeOK, WaiterInv, [Next]_vars
    PROVE  WaiterInv'
<1>0. TypeRec  BY TypeGroups
<1> USE DEF connVars, supVars, recVars, callVars, endVars, SupOnly
<1>1. ASSUME UNCHANGED <<waiters, answer, rec>> PROVE WaiterInv'
  BY <1>1 DEF WaiterInv
<1>2. CASE OpenReturn  BY <1>1, <1>2 DEF OpenReturn
<1>3. CASE CallActs
  BY <1>1, <1>3 DEF CallActs, Invoke, Register, LockWrite, WriteFrame, Await, Timeout,
                    Response
<1>4. CASE EndStep
  BY <1>1, <1>4 DEF EndStep, EndMark, EndSettle, EndClose, LingerEnd
<1>5. CASE ReaderActs
  BY <1>1, <1>5 DEF ReaderActs, EndNotify, ReadExit, FailInflight, ConnLost
<1>6. CASE SupActs
  <2> PICK s \in Gens : SupStep(s)
    BY <1>6 DEF SupActs
  <2>1. CASE AwaitEnd(s) \/ Backoff(s) \/ BackoffStop(s) \/ DialFails(s)
             \/ StartGeneration(s) \/ Restore(s) \/ SupNext(s) \/ GenerationOver(s)
    BY <1>1, <2>1 DEF AwaitEnd, Backoff, BackoffStop, DialFails, StartGeneration, Restore,
                      SupNext, GenerationOver
  <2>2. CASE WaitManual(s)
    <3>1. CASE FinishWaiters("closed")  BY <1>0, <2>2, <3>1, FinishKeeps DEF WaitManual
    <3>2. CASE UNCHANGED <<waiters, answer>>  BY <1>1, <2>2, <3>2 DEF WaitManual
    <3> QED  BY <2>2, <3>1, <3>2 DEF WaitManual
  <2>3. CASE SupFailed(s)  BY <1>0, <2>3, FinishKeeps DEF SupFailed
  <2>4. CASE SupRestored(s)  BY <1>0, <2>4, FinishKeeps DEF SupRestored
  <2> QED  BY <2>1, <2>2, <2>3, <2>4 DEF SupStep
<1>7. CASE RecActs
  <2> PICK w \in Reconnectors :
         \/ Reconnect(w) \/ Enqueue(w) \/ SendManual(w) \/ ReconnectReturn(w)
         \/ ReconnectCancel(w)
    BY <1>7 DEF RecActs
  <2> USE <1>0 DEF TypeRec, WaiterInv
  <2>1. CASE Reconnect(w)  BY <2>1 DEF Reconnect
  <2>2. CASE Enqueue(w)  BY <2>2 DEF Enqueue
  <2>3. CASE SendManual(w)  BY <2>3 DEF SendManual
  <2>4. CASE ReconnectReturn(w) \/ ReconnectCancel(w)
    BY <2>4 DEF ReconnectReturn, ReconnectCancel
  <2> QED  BY <2>1, <2>2, <2>3, <2>4
<1>8. CASE CloserActs
  <2> PICK c \in Closers : CloseBegin(c) \/ CloseSettle(c) \/ CloseReturn(c)
    BY <1>8 DEF CloserActs
  <2>1. CASE CloseBegin(c) \/ CloseReturn(c)
    BY <1>1, <2>1 DEF CloseBegin, CloseReturn
  <2>2. CASE CloseSettle(c)  BY <1>0, <2>2, FinishKeeps DEF CloseSettle
  <2> QED  BY <2>1, <2>2
<1>9. CASE UNCHANGED vars  BY <1>1, <1>9 DEF vars
<1> QED  BY <1>2, <1>3, <1>4, <1>5, <1>6, <1>7, <1>8, <1>9, Actions

-----------------------------------------------------------------------------
(* Read loops and Close.                                                   *)

LEMMA ReaderInvNext ==
    ASSUME TypeOK, ReaderInv, [Next]_vars
    PROVE  ReaderInv'
<1>0. TypeConn /\ TypeSup  BY TypeGroups
<1> USE DEF connVars, supVars, recVars, callVars, endVars, SupOnly
\* A connection that closes takes its read loop out of the claim.
<1>1. ASSUME UNCHANGED <<reader, cause>>, UNCHANGED conn \/ \E e \in Gens : Shut(e)
      PROVE  ReaderInv'
  BY <1>0, <1>1 DEF ReaderInv, Shut, TypeConn
<1>2. CASE OpenReturn  BY <1>1, <1>2 DEF OpenReturn
<1>3. CASE CallActs
  BY <1>1, <1>3 DEF CallActs, Invoke, Register, LockWrite, WriteFrame, Await, Timeout,
                    Response
<1>4. CASE EndStep
  <2>1. CASE EndMark \/ EndSettle  BY <1>1, <2>1 DEF EndMark, EndSettle
  <2>2. CASE LingerEnd  BY <1>0, <1>1, <2>2 DEF LingerEnd, TypeConn
  <2>3. CASE EndClose
    <3>1. /\ UNCHANGED cause
          /\ UNCHANGED conn \/ Shut(gen)
          /\ \A e \in Gens : reader'[e] = reader[e]
                             \/ (reader[e] = "ending" /\ reader'[e] = "reading")
      BY <1>0, <2>3 DEF EndClose, TypeConn
    <3> QED  BY <1>0, <3>1 DEF ReaderInv, Shut, TypeConn
  <2> QED  BY <1>4, <2>1, <2>2, <2>3 DEF EndStep
<1>5. CASE ReaderActs
  <2> PICK e \in Gens : EndNotify(e) \/ ReadExit(e) \/ FailInflight(e) \/ ConnLost(e)
    BY <1>5 DEF ReaderActs
  <2> USE <1>0 DEF TypeConn, ReaderInv
  <2>1. CASE EndNotify(e)  BY <2>1 DEF EndNotify
  <2>2. CASE ReadExit(e)  BY <2>2 DEF ReadExit
  <2>3. CASE FailInflight(e)  BY <2>3 DEF FailInflight, Shut
  <2>4. CASE ConnLost(e)  BY <2>4 DEF ConnLost
  <2> QED  BY <2>1, <2>2, <2>3, <2>4
<1>6. CASE SupActs
  <2> PICK s \in Gens : SupStep(s)
    BY <1>6 DEF SupActs
  <2>1. CASE AwaitEnd(s)  BY <1>0, <1>1, <2>1 DEF AwaitEnd, TypeSup
  <2>2. CASE Restore(s)  BY <1>0, <1>1, <2>2 DEF Restore, TypeConn
  <2>3. CASE StartGeneration(s)
    <3>1. CASE UNCHANGED connVars  BY <1>1, <3>1
    <3>2. CASE ~UNCHANGED connVars
      <4>1. /\ conn' = [conn EXCEPT ![NextGen] = "up"]
            /\ reader' = [reader EXCEPT ![NextGen] = "reading"]
            /\ UNCHANGED cause
        BY <2>3, <3>2 DEF StartGeneration
      <4> QED  BY <1>0, <4>1 DEF ReaderInv, TypeConn
    <3> QED  BY <3>1, <3>2
  <2>4. CASE Backoff(s) \/ BackoffStop(s) \/ DialFails(s) \/ SupNext(s) \/ SupRestored(s)
             \/ GenerationOver(s) \/ WaitManual(s) \/ SupFailed(s)
    BY <1>1, <2>4 DEF Backoff, BackoffStop, DialFails, SupNext, SupRestored,
                      GenerationOver, WaitManual, SupFailed
  <2> QED  BY <2>1, <2>2, <2>3, <2>4 DEF SupStep
<1>7. CASE RecActs
  BY <1>1, <1>7 DEF RecActs, Reconnect, Enqueue, SendManual, ReconnectReturn,
                    ReconnectCancel
<1>8. CASE CloserActs
  BY <1>0, <1>1, <1>8 DEF CloserActs, CloseBegin, CloseSettle, CloseReturn, TypeConn
<1>9. CASE UNCHANGED vars  BY <1>1, <1>9 DEF vars
<1> QED  BY <1>2, <1>3, <1>4, <1>5, <1>6, <1>7, <1>8, <1>9, Actions

(* Nothing starts in a closed session that is quiet.                       *)
LEMMA QuietStays ==
    ASSUME TypeOK, [Next]_vars, closed, Quiet
    PROVE  Quiet'
<1>0. TypeConn /\ TypeSup  BY TypeGroups
<1> USE DEF connVars, supVars, recVars, callVars, endVars, SupOnly, Go
<1>1. linger' # "armed"
  BY LingerSteps DEF Quiet, EndClose, LingerEnd, MayLinger
<1>2. ASSUME UNCHANGED <<reader, sup>> PROVE Quiet'
  BY <1>1, <1>2 DEF Quiet
<1>3. CASE OpenReturn  BY <1>2, <1>3 DEF OpenReturn
<1>4. CASE CallActs
  BY <1>2, <1>4 DEF CallActs, Invoke, Register, LockWrite, WriteFrame, Await, Timeout,
                    Response
<1>5. CASE EndStep
  <2>1. CASE EndMark \/ EndSettle \/ LingerEnd
    BY <1>2, <2>1 DEF EndMark, EndSettle, LingerEnd
  <2>2. CASE EndClose
    <3>1. \A e \in Gens : reader'[e] = reader[e] /\ sup'[e] = sup[e]
      BY <1>0, <2>2 DEF EndClose, TypeConn, TypeSup, Quiet
    <3> QED  BY <1>1, <3>1 DEF Quiet
  <2> QED  BY <1>5, <2>1, <2>2 DEF EndStep
<1>6. CASE ReaderActs
  <2> PICK e \in Gens : EndNotify(e) \/ ReadExit(e) \/ FailInflight(e) \/ ConnLost(e)
    BY <1>6 DEF ReaderActs
  <2>1. ConnLost(e)
    BY <1>0 DEF EndNotify, ReadExit, FailInflight, Quiet
  <2> QED  BY <1>2, <2>1 DEF ConnLost
<1>7. CASE SupActs
  <2> PICK s \in Gens : SupStep(s)
    BY <1>7 DEF SupActs
  <2>1. sup[s] \in {"none", "exit"}  BY DEF Quiet
  <2> QED
    BY <2>1 DEF SupStep, AwaitEnd, StartGeneration, Restore, Backoff, BackoffStop,
                DialFails, SupNext, GenerationOver, WaitManual, SupFailed, SupRestored
<1>8. CASE RecActs
  BY <1>2, <1>8 DEF RecActs, Reconnect, Enqueue, SendManual, ReconnectReturn,
                    ReconnectCancel
<1>9. CASE CloserActs
  BY <1>2, <1>9 DEF CloserActs, CloseBegin, CloseSettle, CloseReturn
<1>10. CASE UNCHANGED vars  BY <1>2, <1>10 DEF vars
<1> QED  BY <1>3, <1>4, <1>5, <1>6, <1>7, <1>8, <1>9, <1>10, Actions

(* The state of a closed session: not a live one, or about to be replaced. *)
ClosedState ==
    \/ state \in TerminalStates \union {"Disconnected"}
    \/ end = "flagged"
    \/ \E c \in Closers : closer[c] = "closing"

LEMMA ClosedStateStays ==
    ASSUME TypeOK, EndInv, [Next]_vars, closed, ClosedState
    PROVE  ClosedState'
<1>0. TypeFlags /\ TypeEnd /\ TypeClose  BY TypeGroups
<1>1. CASE state \in TerminalStates \union {"Disconnected"}
  <2>1. ASSUME NEW st \in {"Connected", "Reconnecting", "Disconnected"}, SetState(st)
        PROVE  state' \in TerminalStates \union {"Disconnected"}
    BY <1>1, <2>1 DEF SetState, AfterSetState, TerminalStates
  <2>2. EndMark => state' \in TerminalStates
    BY <1>0 DEF EndMark, EndInv, SetState, AfterSetState, TypeEnd
  <2> QED  BY <1>1, <2>1, <2>2, StateSteps DEF ClosedState
<1>2. CASE end = "flagged"
  <2>1. CASE EndMark
    <3>1. state' \in TerminalStates
      BY <1>0, <2>1 DEF EndMark, EndInv, SetState, AfterSetState, TypeEnd
    <3> QED  BY <3>1 DEF ClosedState
  <2>2. CASE ~EndMark
    <3>1. end' = "flagged"
      BY <1>2, <2>2, EndSteps DEF EndFlag, EndStep, EndSettle, EndClose, LingerEnd
    <3> QED  BY <3>1 DEF ClosedState
  <2> QED  BY <2>1, <2>2
<1>3. CASE end # "flagged" /\ \E c \in Closers : closer[c] = "closing"
  <2> PICK c \in Closers : closer[c] = "closing"
    BY <1>3
  <2>1. CASE \E d \in Closers : CloseSettle(d)
    <3> PICK d \in Closers : CloseSettle(d)
      BY <2>1
    <3>1. SetState("Disconnected") /\ UNCHANGED end  BY DEF CloseSettle, endVars
    <3>2. state' \in TerminalStates \union {"Disconnected"}
      <4>1. CASE Terminal
        <5>1. state = kind /\ kind \in TerminalStates
          BY <1>0, <1>3, <4>1 DEF EndInv, TypeEnd, Terminal
        <5> QED  BY <3>1, <4>1, <5>1 DEF SetState, AfterSetState
      <4>2. CASE ~Terminal
        BY <3>1, <4>2 DEF SetState, AfterSetState, TerminalStates
      <4> QED  BY <4>1, <4>2
    <3> QED  BY <3>2 DEF ClosedState
  <2>2. CASE ~ \E d \in Closers : CloseSettle(d)
    <3>1. closer'[c] = "closing"
      BY <1>0, <2>2, CloserSteps DEF CloserActs, CloseBegin, CloseReturn, TypeClose
    <3> QED  BY <3>1 DEF ClosedState
  <2> QED  BY <2>1, <2>2
<1> QED  BY <1>1, <1>2, <1>3 DEF ClosedState

LEMMA CloseInvNext ==
    ASSUME TypeOK, EndInv, CloseInv, [Next]_vars
    PROVE  CloseInv'
<1>0. TypeClose  BY TypeGroups
<1>1. closed => closed'
  BY CloserSteps DEF CloserActs, CloseBegin, CloseSettle, CloseReturn
<1>2. \A c \in Closers : closer'[c] # "idle" => closed'
  BY <1>0, <1>1, CloserSteps
  DEF CloserActs, CloseBegin, CloseSettle, CloseReturn, CloseInv, TypeClose
<1>3. closed' => ClosedState'
  <2>1. CASE closed  BY <2>1, ClosedStateStays DEF CloseInv, ClosedState
  <2>2. ASSUME ~closed, closed' PROVE \E c \in Closers : closer'[c] = "closing"
    BY <1>0, <2>2, CloserSteps
    DEF CloserActs, CloseBegin, CloseSettle, CloseReturn, TypeClose
  <2> QED  BY <2>1, <2>2 DEF ClosedState
<1>4. (\E c \in Closers : closer'[c] = "returned") => Quiet'
  <2> SUFFICES ASSUME NEW c \in Closers, closer'[c] = "returned" PROVE Quiet'
    OBVIOUS
  <2>1. closer[c] # "idle" /\ (closer[c] = "returned" \/ Quiet)
    BY <1>0, CloserSteps DEF CloserActs, CloseBegin, CloseSettle, CloseReturn, TypeClose
  <2> QED  BY <2>1, QuietStays DEF CloseInv
<1> QED  BY <1>2, <1>3, <1>4 DEF CloseInv, ClosedState

-----------------------------------------------------------------------------
(* The theorems.                                                           *)

LEMMA IndInit == Init => IInv
<1> SUFFICES ASSUME Init PROVE IInv
  OBVIOUS
<1>1. TypeOK  BY TypeInit
<1>2. EndInv /\ WriterInv /\ SettledInv  BY DEF Init, EndInv, WriterInv, Writing, SettledInv,
                                                Terminal, TerminalStates
<1>3. KeyInv /\ WaiterInv  BY DEF Init, KeyInv, WaiterInv
<1>4. ReaderInv  BY DEF Init, ReaderInv
<1>5. CloseInv  BY DEF Init, CloseInv
<1> QED  BY <1>1, <1>2, <1>3, <1>4, <1>5 DEF IInv

LEMMA IndNext ==
    ASSUME IInv, [Next]_vars
    PROVE  IInv'
<1>1. TypeOK' /\ EndInv'  BY TypeNext, EndInvNext DEF IInv
<1>2. KeyInv' /\ WaiterInv'  BY KeyInvNext, WaiterInvNext DEF IInv
<1>3. WriterInv' /\ SettledInv'  BY WriterInvNext, SettledNext DEF IInv
<1>4. ReaderInv' /\ CloseInv'  BY ReaderInvNext, CloseInvNext DEF IInv
<1> QED  BY <1>1, <1>2, <1>3, <1>4 DEF IInv

(* The inductive invariant: how far markEnded is and what the state shows  *)
(* of it, which keys and waiters still expect a result, who holds writeMu, *)
(* and what has stopped for good.                                          *)
THEOREM Invariant == Spec => []IInv
<1>1. Init => IInv  BY IndInit
<1>2. IInv /\ [Next]_vars => IInv'  BY IndNext
<1> QED  BY <1>1, <1>2, PTL DEF Spec

(* Every variable of the session keeps its type.                           *)
THEOREM TypeCorrect == Spec => []TypeOK
<1>1. IInv => TypeOK  BY DEF IInv
<1> QED  BY Invariant, <1>1, PTL

(* Whichever of the response, the timer, a read loop that fails, markEnded *)
(* and Close comes first, a key and a waiter get one result: no send into  *)
(* a result channel blocks (settleInflight, finishWaiters).                *)
THEOREM OneResultEach == Spec => []OneResult
<1>1. IInv => OneResult  BY DEF IInv, KeyInv, WaiterInv, OneResult
<1> QED  BY Invariant, <1>1, PTL

(* A terminal state is final, whoever stores a state after it (setState,   *)
(* markEnded).                                                             *)
THEOREM TerminalStays == Spec => TerminalIsFinal
<1>1. IInv /\ [Next]_vars => [Final]_vars  BY FinalStep DEF IInv
<1> QED  BY Invariant, <1>1, PTL DEF Spec, TerminalIsFinal, Final

(* However many callers invoke, at most one frame is written in a terminal *)
(* session: that of the caller which held writeMu then (writeRequest).     *)
THEOREM OneLateFrame == Spec => []LastFrame
<1>1. ASSUME IInv PROVE LastFrame
  <2>1. late \subseteq Requests  BY <1>1 DEF IInv, TypeOK
  <2>2. \A q, r \in late : q = r
    BY <1>1, <2>1 DEF IInv, WriterInv
  <2>3. CASE late = {}
    BY <2>3, FS_EmptySet DEF LastFrame
  <2>4. CASE late # {}
    <3> PICK r \in late : TRUE
      BY <2>4
    <3>1. late = {r}  BY <2>2
    <3>2. Cardinality(late) = 1  BY <3>1, FS_Singleton
    <3> QED  BY <3>2 DEF LastFrame
  <2> QED  BY <2>3, <2>4
<1> QED  BY Invariant, <1>1, PTL

(* Once markEnded has settled the table no call waits for a response, also *)
(* none that registered while the session was ending (markEnded,           *)
(* writeRequest).                                                          *)
THEOREM NobodyIsLeft == Spec => []NobodyLeftWaiting
<1>1. IInv => NobodyLeftWaiting  BY DEF IInv, SettledInv, NobodyLeftWaiting
<1> QED  BY Invariant, <1>1, PTL

(* Close has the last word: what runs when a Close returns is nothing, and *)
(* nothing is started after it (Close, startGeneration).                   *)
THEOREM CloseLeavesNothing == Spec => []CloseIsFinal
<1>1. ASSUME IInv PROVE CloseIsFinal
  <2> SUFFICES ASSUME \E c \in Closers : closer[c] = "returned" PROVE
        /\ linger # "armed"
        /\ \A e \in Gens :
              conn[e] # "up" /\ reader[e] \in {"none", "done"}
              /\ sup[e] \in {"none", "exit"}
        /\ \/ state \in TerminalStates \union {"Disconnected"}
           \/ end = "flagged"
           \/ \E c \in Closers : closer[c] = "closing"
    BY DEF CloseIsFinal
  <2>1. Quiet /\ closed  BY <1>1 DEF IInv, CloseInv
  <2>2. \A e \in Gens : conn[e] # "up"
    BY <1>1, <2>1 DEF IInv, ReaderInv, Quiet
  <2> QED  BY <1>1, <2>1, <2>2 DEF IInv, CloseInv, Quiet
<1> QED  BY Invariant, <1>1, PTL

(* No connection is taken into a closed session, however late the dial     *)
(* that Close did not wait for succeeds (startGeneration).                 *)
THEOREM ClosedStartsNothing == Spec => NoStartAfterClose
<1>1. ASSUME [Next]_vars, closed PROVE started' = started
  <2> USE <1>1 DEF connVars, supVars, recVars, callVars, endVars, SupOnly
  <2>1. CASE OpenReturn  BY <2>1 DEF OpenReturn
  <2>2. CASE CallActs
    BY <2>2 DEF CallActs, Invoke, Register, LockWrite, WriteFrame, Await, Timeout, Response
  <2>3. CASE EndStep
    BY <2>3 DEF EndStep, EndMark, EndSettle, EndClose, LingerEnd
  <2>4. CASE ReaderActs
    BY <2>4 DEF ReaderActs, EndNotify, ReadExit, FailInflight, ConnLost
  <2>5. CASE SupActs
    <3> PICK s \in Gens : SupStep(s)
      BY <2>5 DEF SupActs
    <3> QED
      BY DEF SupStep, AwaitEnd, StartGeneration, MayStart, Restore, Backoff, BackoffStop,
             DialFails, SupNext, GenerationOver, WaitManual, SupFailed, SupRestored
  <2>6. CASE RecActs
    BY <2>6 DEF RecActs, Reconnect, Enqueue, SendManual, ReconnectReturn, ReconnectCancel
  <2>7. CASE CloserActs
    BY <2>7 DEF CloserActs, CloseBegin, CloseSettle, CloseReturn
  <2>8. CASE UNCHANGED vars  BY <2>8 DEF vars
  <2> QED  BY <2>1, <2>2, <2>3, <2>4, <2>5, <2>6, <2>7, <2>8, Actions
<1>2. [Next]_vars => [closed => started' = started]_vars  BY <1>1
<1> QED  BY <1>2, PTL DEF Spec, NoStartAfterClose
=============================================================================
