-------------------------- MODULE DirectOpen_proofs --------------------------
(***************************************************************************)
(* Machine-checked facts about DirectOpen, for every set of pushes and     *)
(* options that Open may be called with, every number of retries, and      *)
(* everything DirectSession is a parameter of; and about what Open makes   *)
(* of a push, of its options and of the ticket (the operators of           *)
(* DirectPlan and DirectHello), for durations and bytes of any width.      *)
(***************************************************************************)
EXTENDS DirectOpen, DirectSession_proofs, WellFoundedInduction, TLAPS

-----------------------------------------------------------------------------
(* The invariants the properties rest on.                                  *)

Stages == {"none", "socket", "upgrade", "hello", "session", "made", "starting", "done",
           "failed"}

WithSocket == {"upgrade", "hello", "session", "made"}

(* A stage that keeps a socket has it closed when it fails, and a          *)
(* supervisor that dials or starts a generation does nothing else.         *)
DialInv ==
    /\ \A d \in Diallers : dial[d].sock => dial[d].at \in WithSocket
    /\ \A s \in Gens :
          /\ dial[s].at \in WithSocket \union {"socket", "failed"} => sup[s] = "dial"
          /\ dial[s].at = "starting" => sup[s] = "restore"
    /\ \A e \in Gens : e > started => sup[e] = "none"

(* Until Open has started the first generation, it alone dials: nobody     *)
(* can close a session that Open has not returned.                         *)
PreInv ==
    /\ ask # NoAsk => ask \in Asks /\ dial[0].at = "none"
    /\ opened => Live
    /\ ~Live => /\ gen = 1
                /\ \A s \in Gens : dial[s].at = "none"
                /\ \A c \in Closers : closer[c] = "idle"

Starting(e) == \E d \in Diallers : dial[d].at = "starting" /\ dial[d].new = e

(* The current generation's heartbeat runs, or is about to be started,     *)
(* until its read loop is over.                                            *)
AliveInv ==
    /\ Live /\ sess.kind # "none" /\ sess.beats
    /\ ~closed /\ ~Terminal
    /\ reader[gen] # "done"
    => beat[gen] \in {"tick", "probe"} \/ Starting(gen)

OpenIInv == OpenTypeOK /\ IInv /\ DialInv /\ PreInv /\ AliveInv

-----------------------------------------------------------------------------
(* A step of DirectOpen, seen from DirectSession: one of its own, or the   *)
(* terminal flag set by a heartbeat.                                       *)

BeatFlag == \E k \in TerminalStates :
    /\ EndFlag(k)
    /\ UNCHANGED <<opts, opened, closed, state, fatal, connVars, supVars, recVars, callVars,
                   closer>>

LEMMA SessionSteps == [OpenNext]_allVars => [Next]_vars \/ BeatFlag
<1> SUFFICES ASSUME [OpenNext]_allVars PROVE [Next]_vars \/ BeatFlag
  OBVIOUS
<1>1. CASE Prepare  BY <1>1 DEF Prepare
<1>2. CASE \E d \in Diallers : DialStep(d) \/ StartHeartbeat(d)
  BY <1>2 DEF DialStep, DialSocket, Upgrade, Hello, NewSession, StartHeartbeat, Rest
<1>3. CASE FirstGeneration  BY <1>3 DEF FirstGeneration, Rest
<1>4. CASE Ready  BY <1>4 DEF Ready, Next
<1>5. CASE \E s \in Gens : Redial(s) \/ Redialled(s) \/ NewGeneration(s) \/ Replay(s)
  <2> PICK s \in Gens : Redial(s) \/ Redialled(s) \/ NewGeneration(s) \/ Replay(s)
    BY <1>5
  <2>1. SupStep(s)
    BY DEF Redial, Redialled, NewGeneration, Replay, SupStep
  <2> QED  BY <2>1 DEF Next
<1>6. CASE \E e \in Gens : BeatTick(e) \/ BeatEnd(e) \/ BeatOver(e)
  BY <1>6 DEF BeatTick, BeatEnd, BeatOver, BeatOnly
<1>7. CASE \E e \in Gens : BeatTerminal(e)
  BY <1>7 DEF BeatTerminal, BeatFlag, KindOf, TerminalStates
<1>8. CASE SessionStep
  <2>1. CASE EndStep  BY <2>1 DEF Next
  <2>2. ASSUME NEW e \in Gens,
               \/ EndNotify(e) \/ ReadExit(e) \/ FailInflight(e) \/ ConnLost(e)
               \/ AwaitEnd(e) \/ GenerationOver(e) \/ WaitManual(e) \/ BackoffStop(e)
               \/ SupFailed(e) \/ SupRestored(e) \/ SupNext(e)
        PROVE  Next
    BY <2>2, Zenon DEF Next, SupStep
  <2>3. CASE \E c \in Closers : CloseBegin(c) \/ CloseSettle(c)
    BY <2>3 DEF Next, CloserStep
  <2> QED  BY <1>8, <2>1, <2>2, <2>3, Zenon DEF SessionStep
<1>9. CASE \E c \in Closers : CloseWaits(c)
  BY <1>9 DEF CloseWaits, CloserStep, Next
<1>10. CASE OpenDone \/ UNCHANGED allVars
  BY <1>10 DEF OpenDone, allVars
<1> QED  BY <1>1, <1>2, <1>3, <1>4, <1>5, <1>6, <1>7, <1>8, <1>9, <1>10 DEF OpenNext

LEMMA FlagKeeps == IInv /\ BeatFlag => IInv'
<1> SUFFICES ASSUME IInv, BeatFlag PROVE IInv'
  OBVIOUS
<1>1. PICK k \in TerminalStates :
        EndFlag(k) /\ UNCHANGED <<opts, opened, closed, state, fatal, connVars, supVars,
                                  recVars, callVars, closer>>
  BY DEF BeatFlag
<1> USE <1>1 DEF IInv, EndFlag, connVars, supVars, recVars, callVars
<1>2. TypeOK'  BY DEF TypeOK
<1>3. EndInv' /\ SettledInv'  BY DEF EndInv, SettledInv, TerminalStates
<1>4. KeyInv' /\ WaiterInv' /\ ReaderInv'  BY DEF KeyInv, WaiterInv, ReaderInv
<1>5. WriterInv'
  <2>1. late = {}  BY DEF WriterInv, Terminal
  <2> QED  BY <2>1 DEF WriterInv, Terminal, Writing
<1>6. CloseInv'  BY DEF CloseInv, Quiet
<1> QED  BY <1>2, <1>3, <1>4, <1>5, <1>6

LEMMA SessionInv == IInv /\ [OpenNext]_allVars => IInv'
BY SessionSteps, FlagKeeps, IndNext

-----------------------------------------------------------------------------
(* What a step does to the dials.                                          *)

DialRec == [at : Stages, sock : BOOLEAN, tries : 0 .. HelloRetries,
            err : {"none", "network", "rejected"}, new : 0 .. MaxGen]

LEMMA OpenTypes ==
    OpenTypeOK <=> /\ TypeOK
                   /\ dial \in [Diallers -> DialRec]
                   /\ beat \in [Gens -> {"none", "tick", "probe", "ending", "over"}]
BY DEF OpenTypeOK, DialRec, Stages

LEMMA NotDiallingType ==
    /\ NotDialling \in DialRec
    /\ NotDialling.at = "none" /\ NotDialling.sock = FALSE
BY OpenAssumption, DirectAssumption DEF NotDialling, DialRec, Stages

(* dial'[d] has one other value, the other dials have theirs.              *)
Moves(d, r) ==
    /\ dial' \in [Diallers -> DialRec]
    /\ dial'[d] = r
    /\ \A x \in Diallers : x # d => dial'[x] = dial[x]

LEMMA Moved ==
    ASSUME dial \in [Diallers -> DialRec], NEW d \in Diallers, NEW r \in DialRec,
           dial' = [dial EXCEPT ![d] = r]
    PROVE  Moves(d, r)
BY Zenon DEF Moves

LEMMA Staged ==
    ASSUME dial \in [Diallers -> DialRec], NEW d \in Diallers, NEW st \in Stages,
           Stage(d, st)
    PROVE  Moves(d, [dial[d] EXCEPT !.at = st, !.sock = TRUE])
<1> DEFINE r == [dial[d] EXCEPT !.at = st, !.sock = TRUE]
<1>1. r \in DialRec  BY DEF DialRec
<1>2. dial' = [dial EXCEPT ![d] = r]  BY DEF Stage
<1> HIDE DEF r
<1> QED  BY <1>1, <1>2, Moved DEF r

LEMMA Failed ==
    ASSUME dial \in [Diallers -> DialRec], NEW d \in Diallers,
           NEW err \in {"network", "rejected"}, Fail(d, err)
    PROVE  Moves(d, [NotDialling EXCEPT !.at = "failed", !.err = err])
<1> DEFINE r == [NotDialling EXCEPT !.at = "failed", !.err = err]
<1>1. r \in DialRec
  BY NotDiallingType DEF DialRec, Stages
<1>2. dial' = [dial EXCEPT ![d] = r]  BY DEF Fail
<1> HIDE DEF r
<1> QED  BY <1>1, <1>2, Moved DEF r

(* One stage of a dial: the next one, the same one, or failure.            *)
LEMMA DialStepMoves ==
    ASSUME dial \in [Diallers -> DialRec], NEW d \in Diallers, DialStep(d)
    PROVE  /\ UNCHANGED <<vars, ask, sess, beat>>
           /\ dial[d].at \in {"socket", "upgrade", "hello", "session"}
           /\ \E r \in DialRec :
                 /\ Moves(d, r)
                 /\ r.at \in WithSocket \/ (r.at = "failed" /\ ~r.sock)
<1> DEFINE Goal == \E r \in DialRec :
                      /\ Moves(d, r)
                      /\ r.at \in WithSocket \/ (r.at = "failed" /\ ~r.sock)
<1>1. ASSUME NEW st \in WithSocket, Stage(d, st) PROVE Goal
  <2> DEFINE r == [dial[d] EXCEPT !.at = st, !.sock = TRUE]
  <2>1. st \in Stages  BY DEF WithSocket, Stages
  <2>2. r \in DialRec /\ r.at = st  BY <2>1 DEF DialRec
  <2>3. Moves(d, r)  BY <1>1, <2>1, Staged
  <2> HIDE DEF r
  <2> QED  BY <2>2, <2>3
<1>2. ASSUME NEW err \in {"network", "rejected"}, Fail(d, err) PROVE Goal
  <2> DEFINE r == [NotDialling EXCEPT !.at = "failed", !.err = err]
  <2>1. r \in DialRec /\ r.at = "failed" /\ ~r.sock
    BY NotDiallingType DEF DialRec, Stages
  <2>2. Moves(d, r)  BY <1>2, Failed
  <2> HIDE DEF r
  <2> QED  BY <2>1, <2>2
<1> HIDE DEF Goal
<1>3. AfterHello \in WithSocket /\ AfterSocket \in WithSocket
  BY DEF AfterHello, AfterSocket, WithSocket
<1>4. CASE DialSocket(d)
  BY <1>1, <1>2, <1>3, <1>4 DEF DialSocket, Rest, At, Goal
<1>5. CASE Upgrade(d)
  <2>1. "made" \in WithSocket  BY DEF WithSocket
  <2> QED  BY <1>1, <1>2, <1>5, <2>1 DEF Upgrade, Rest, At, Goal
<1>6. CASE Hello(d)
  <2>1. CASE Stage(d, AfterHello)  BY <1>1, <1>3, <1>6, <2>1 DEF Hello, Rest, At, Goal
  <2>2. CASE \E err \in {"network", "rejected"} : Fail(d, err)
    BY <1>2, <1>6, <2>2 DEF Hello, Rest, At, Goal
  <2>3. CASE dial[d].tries < HelloRetries /\ dial' = [dial EXCEPT ![d].tries = @ + 1]
    <3> DEFINE r == [dial[d] EXCEPT !.tries = @ + 1]
    <3>1. r \in DialRec /\ r.at = dial[d].at
      BY <2>3, OpenAssumption DEF DialRec
    <3>2. dial' = [dial EXCEPT ![d] = r]  BY <2>3
    <3> HIDE DEF r
    <3>3. Moves(d, r)  BY <3>1, <3>2, Moved
    <3>4. dial[d].at = "hello" /\ UNCHANGED <<vars, ask, sess, beat>>
      BY <1>6 DEF Hello, Rest, At
    <3> QED  BY <3>1, <3>3, <3>4 DEF WithSocket
  <2> QED  BY <1>6, <2>1, <2>2, <2>3 DEF Hello
<1>7. CASE NewSession(d)
  <2>1. "made" \in WithSocket  BY DEF WithSocket
  <2> QED  BY <1>1, <1>2, <1>7, <2>1 DEF NewSession, Rest, At, Goal
<1> QED  BY <1>4, <1>5, <1>6, <1>7 DEF DialStep

-----------------------------------------------------------------------------
(* What a step does to the session that the dials and heartbeats look at.  *)

(* Flags stay set, and a read loop that is over stays so.                  *)
LEMMA Forward ==
    ASSUME TypeOK, [Next]_vars
    PROVE  /\ opened => opened'
           /\ closed => closed'
           /\ Terminal => Terminal'
           /\ UNCHANGED started =>
                 /\ UNCHANGED gen
                 /\ \A e \in Gens : reader[e] = "done" => reader'[e] = "done"
<1>0. TypeConn /\ TypeFlags  BY TypeGroups
<1>1. Terminal => Terminal'
  BY EndSteps DEF Terminal, EndFlag, EndStep, EndMark, EndSettle, EndClose, LingerEnd
<1> USE <1>0, <1>1
    DEF connVars, supVars, recVars, callVars, endVars, SupOnly, TypeConn, TypeFlags
<1>2. CASE OpenReturn  BY <1>2 DEF OpenReturn
<1>3. CASE CallActs
  BY <1>3 DEF CallActs, Invoke, Register, LockWrite, WriteFrame, Await, Timeout, Response
<1>4. CASE EndStep
  BY <1>4 DEF EndStep, EndMark, EndSettle, EndClose, LingerEnd
<1>5. CASE ReaderActs
  BY <1>5 DEF ReaderActs, EndNotify, ReadExit, FailInflight, ConnLost
<1>6. CASE SupActs
  <2> PICK s \in Gens : SupStep(s)
    BY <1>6 DEF SupActs
  <2>1. CASE StartGeneration(s)
    BY <2>1, DirectAssumption DEF StartGeneration, NextGen, Gens
  <2>2. CASE ~StartGeneration(s)
    BY <2>2 DEF SupStep, AwaitEnd, Restore, Backoff, BackoffStop, DialFails, SupNext,
                SupRestored, GenerationOver, WaitManual, SupFailed
  <2> QED  BY <2>1, <2>2
<1>7. CASE RecActs
  BY <1>7 DEF RecActs, Reconnect, Enqueue, SendManual, ReconnectReturn, ReconnectCancel
<1>8. CASE CloserActs
  BY <1>8 DEF CloserActs, CloseBegin, CloseSettle, CloseReturn
<1>9. CASE UNCHANGED vars  BY <1>9 DEF vars
<1> QED  BY <1>2, <1>3, <1>4, <1>5, <1>6, <1>7, <1>8, <1>9, Actions

(* The rest of the session starts no generation, and leaves a supervisor   *)
(* alone that dials or replays.                                            *)
LEMMA SessionLeaves ==
    ASSUME TypeOK, SessionStep
    PROVE  /\ UNCHANGED <<opened, gen, started>>
           /\ \A e \in Gens : sup[e] \in {"none", "dial", "restore"} => sup'[e] = sup[e]
<1>0. TypeSup  BY TypeGroups
<1> USE <1>0 DEF connVars, supVars, recVars, callVars, endVars, SupOnly, TypeSup, Go
<1>1. CASE EndStep
  BY <1>1 DEF EndStep, EndMark, EndSettle, EndClose, LingerEnd
<1>2. ASSUME NEW s \in Gens,
             EndNotify(s) \/ ReadExit(s) \/ FailInflight(s) \/ ConnLost(s)
      PROVE  UNCHANGED <<opened, gen, started, sup>>
  BY <1>2 DEF EndNotify, ReadExit, FailInflight, ConnLost
<1>3. ASSUME NEW s \in Gens,
             \/ AwaitEnd(s) \/ GenerationOver(s) \/ WaitManual(s) \/ BackoffStop(s)
             \/ SupFailed(s) \/ SupRestored(s) \/ SupNext(s)
      PROVE  /\ UNCHANGED <<opened, gen, started>>
             /\ sup[s] \notin {"none", "dial", "restore"}
             /\ \E st : sup' = [sup EXCEPT ![s] = st]
  <2>1. CASE AwaitEnd(s)  BY <2>1 DEF AwaitEnd
  <2>2. CASE GenerationOver(s)  BY <2>2 DEF GenerationOver
  <2>3. CASE WaitManual(s) \/ BackoffStop(s) \/ SupFailed(s) \/ SupRestored(s) \/ SupNext(s)
    BY <2>3 DEF WaitManual, BackoffStop, SupFailed, SupRestored, SupNext
  <2> QED  BY <1>3, <2>1, <2>2, <2>3
<1>4. CASE \E c \in Closers : CloseBegin(c) \/ CloseSettle(c)
  BY <1>4 DEF CloseBegin, CloseSettle
<1> QED  BY <1>1, <1>2, <1>3, <1>4 DEF SessionStep

(* The steps of the session that leave the dials and heartbeats alone.     *)
SessionOnly ==
    /\ Live /\ UNCHANGED openVars
    /\ OpenReturn \/ SessionStep \/ \E c \in Closers : CloseReturn(c)

LEMMA OpenActions ==
    ASSUME [OpenNext]_allVars
    PROVE  \/ Prepare
           \/ \E d \in Diallers : DialStep(d) \/ StartHeartbeat(d)
           \/ FirstGeneration
           \/ \E s \in Gens : Redial(s) \/ Redialled(s) \/ NewGeneration(s) \/ Replay(s)
           \/ \E e \in Gens : BeatTick(e) \/ BeatEnd(e) \/ BeatTerminal(e) \/ BeatOver(e)
           \/ SessionOnly
           \/ UNCHANGED allVars
<1>1. CASE Ready  BY <1>1 DEF Ready, SessionOnly, Live, At
<1>2. CASE Live /\ SessionStep /\ UNCHANGED openVars  BY <1>2 DEF SessionOnly
<1>3. CASE \E c \in Closers : CloseWaits(c)  BY <1>3 DEF CloseWaits, SessionOnly
<1>4. CASE OpenDone \/ UNCHANGED allVars  BY <1>4 DEF OpenDone
<1> QED  BY <1>1, <1>2, <1>3, <1>4, Zenon DEF OpenNext

LEMMA SessionOnlyLeaves ==
    ASSUME TypeOK, SessionOnly
    PROVE  /\ UNCHANGED <<gen, started>>
           /\ \A e \in Gens : sup[e] \in {"none", "dial", "restore"} => sup'[e] = sup[e]
<1>1. CASE SessionStep  BY <1>1, SessionLeaves
<1>2. CASE OpenReturn  BY <1>2 DEF OpenReturn, connVars, supVars
<1>3. CASE \E c \in Closers : CloseReturn(c)
  BY <1>3 DEF CloseReturn, connVars, supVars
<1> QED  BY <1>1, <1>2, <1>3 DEF SessionOnly

-----------------------------------------------------------------------------
(* Type correctness.                                                       *)

LEMMA StartingType ==
    ASSUME NEW n \in Gens
    PROVE  LET r == [NotDialling EXCEPT !.at = "starting", !.new = n]
           IN  r \in DialRec /\ r.at = "starting" /\ r.new = n /\ ~r.sock
<1>1. n \in 0 .. MaxGen  BY DirectAssumption DEF Gens
<1> QED  BY <1>1, NotDiallingType DEF DialRec, Stages

(* The generation a supervisor starts is one of Gens.                       *)
LEMMA StartedIsGen ==
    ASSUME TypeOK, NEW s \in Gens, StartGeneration(s), ~closed
    PROVE  gen' \in Gens
<1>1. started < MaxGen /\ gen' = started + 1  BY DEF StartGeneration, MayStart, NextGen
<1>2. started \in Gens  BY DEF TypeOK
<1> QED  BY <1>1, <1>2, DirectAssumption DEF Gens

(* What the other steps do to one dial.                                    *)
LEMMA GenerationMoves ==
    ASSUME OpenTypeOK
    PROVE  /\ FirstGeneration =>
                Moves(0, [NotDialling EXCEPT !.at = "starting", !.new = 1])
           /\ \A s \in Gens :
                 /\ Redial(s) => Moves(s, [dial[s] EXCEPT !.at = "socket"])
                 /\ Redialled(s) => Moves(s, NotDialling)
                 /\ NewGeneration(s) =>
                       Moves(s, IF closed THEN NotDialling
                                ELSE [NotDialling EXCEPT !.at = "starting", !.new = gen'])
           /\ \A d \in Diallers :
                 StartHeartbeat(d) => Moves(d, IF d = 0 THEN Over ELSE NotDialling)
<1>0. /\ dial \in [Diallers -> DialRec] /\ TypeOK
      /\ 0 \in Diallers /\ 1 \in Gens /\ Gens \subseteq Diallers /\ Gens \subseteq 0 .. MaxGen
      /\ NotDialling \in DialRec
  BY OpenTypes, NotDiallingType, DirectAssumption DEF Diallers, Gens
<1>1. ASSUME NEW n \in Gens
      PROVE  [NotDialling EXCEPT !.at = "starting", !.new = n] \in DialRec
  BY StartingType
<1>2. ASSUME FirstGeneration
      PROVE  Moves(0, [NotDialling EXCEPT !.at = "starting", !.new = 1])
  <2> DEFINE r == [NotDialling EXCEPT !.at = "starting", !.new = 1]
  <2>1. r \in DialRec /\ dial' = [dial EXCEPT ![0] = r]  BY <1>0, <1>1, <1>2 DEF FirstGeneration
  <2> HIDE DEF r
  <2> QED  BY <1>0, <2>1, Moved DEF r
<1>3. ASSUME NEW s \in Gens, Redial(s)
      PROVE  Moves(s, [dial[s] EXCEPT !.at = "socket"])
  <2> DEFINE r == [dial[s] EXCEPT !.at = "socket"]
  <2>1. r \in DialRec  BY <1>0 DEF DialRec, Stages
  <2>2. dial' = [dial EXCEPT ![s] = r]  BY <1>3 DEF Redial
  <2> HIDE DEF r
  <2> QED  BY <1>0, <2>1, <2>2, Moved DEF r
<1>4. ASSUME NEW s \in Gens, Redialled(s) PROVE Moves(s, NotDialling)
  BY <1>0, <1>4, Moved DEF Redialled
<1>5. ASSUME NEW s \in Gens, NewGeneration(s)
      PROVE  Moves(s, IF closed THEN NotDialling
                      ELSE [NotDialling EXCEPT !.at = "starting", !.new = gen'])
  <2> DEFINE r == IF closed THEN NotDialling
                  ELSE [NotDialling EXCEPT !.at = "starting", !.new = gen']
  <2>1. closed \in BOOLEAN  BY <1>0 DEF TypeOK
  <2>2. ASSUME ~closed PROVE gen' \in Gens
    BY <1>0, <1>5, <2>2, StartedIsGen DEF NewGeneration
  <2>3. r \in DialRec  BY <1>0, <1>1, <2>1, <2>2
  <2>4. dial' = [dial EXCEPT ![s] = r]
    BY <1>5 DEF NewGeneration, HandOver, MayStart
  <2> HIDE DEF r
  <2> QED  BY <1>0, <2>3, <2>4, Moved DEF r
<1>6. ASSUME NEW d \in Diallers, StartHeartbeat(d)
      PROVE  Moves(d, IF d = 0 THEN Over ELSE NotDialling)
  <2> DEFINE r == IF d = 0 THEN Over ELSE NotDialling
  <2>1. r \in DialRec  BY <1>0 DEF Over, DialRec, Stages
  <2>2. dial' = [dial EXCEPT ![d] = r]  BY <1>6 DEF StartHeartbeat
  <2> HIDE DEF r
  <2> QED  BY <1>0, <2>1, <2>2, Moved DEF r
<1> QED  BY <1>2, <1>3, <1>4, <1>5, <1>6, Zenon

LEMMA PrepareMoves ==
    ASSUME OpenTypeOK, Prepare
    PROVE  \E st \in {"socket", "failed"} : Moves(0, [dial[0] EXCEPT !.at = st])
<1>0. dial \in [Diallers -> DialRec] /\ 0 \in Diallers
  BY OpenTypes DEF Diallers
<1>1. PICK st \in {"socket", "failed"} : dial' = [dial EXCEPT ![0].at = st]
  BY DEF Prepare
<1> DEFINE r == [dial[0] EXCEPT !.at = st]
<1>2. r \in DialRec  BY <1>0 DEF DialRec, Stages
<1>3. dial' = [dial EXCEPT ![0] = r]  BY <1>1
<1> HIDE DEF r
<1>4. Moves(0, r)  BY <1>0, <1>2, <1>3, Moved
<1> QED  BY <1>4 DEF r

(* The steps that leave every dial alone.                                  *)
LEMMA DialsLeft ==
    ASSUME SessionOnly \/ UNCHANGED allVars
           \/ (\E s \in Gens : Replay(s))
           \/ \E e \in Gens : BeatTick(e) \/ BeatEnd(e) \/ BeatTerminal(e) \/ BeatOver(e)
    PROVE  UNCHANGED <<ask, sess, dial>>
BY DEF SessionOnly, openVars, allVars, Replay, BeatTick, BeatEnd, BeatTerminal, BeatOver,
       BeatOnly

LEMMA OpenTypeNext ==
    ASSUME OpenTypeOK, IInv, [OpenNext]_allVars
    PROVE  OpenTypeOK'
<1>1. TypeOK'  BY SessionInv DEF IInv
<1>2. dial' \in [Diallers -> DialRec]
  <2>0. dial \in [Diallers -> DialRec]  BY OpenTypes
  <2>1. CASE Prepare  BY <2>1, PrepareMoves DEF Moves
  <2>2. CASE \E d \in Diallers : DialStep(d)
    BY <2>0, <2>2, DialStepMoves DEF Moves
  <2>3. CASE FirstGeneration \/ \E d \in Diallers : StartHeartbeat(d)
    BY <2>3, GenerationMoves DEF Moves
  <2>4. CASE \E s \in Gens : Redial(s) \/ Redialled(s) \/ NewGeneration(s)
    BY <2>4, GenerationMoves DEF Moves
  <2>5. CASE UNCHANGED dial  BY <2>0, <2>5
  <2> QED  BY <2>1, <2>2, <2>3, <2>4, <2>5, OpenActions, DialsLeft
<1>3. beat' \in [Gens -> {"none", "tick", "probe", "ending", "over"}]
  <2>0. beat \in [Gens -> {"none", "tick", "probe", "ending", "over"}]  BY OpenTypes
  <2>1. CASE UNCHANGED beat  BY <2>0, <2>1
  <2>2. CASE \E d \in Diallers : StartHeartbeat(d)
    BY <2>0, <2>2 DEF StartHeartbeat
  <2>3. CASE \E e \in Gens : BeatTick(e) \/ BeatEnd(e) \/ BeatTerminal(e) \/ BeatOver(e)
    BY <2>0, <2>3 DEF BeatTick, BeatEnd, BeatTerminal, BeatOver, Loop
  <2>4. ASSUME OpenNext PROVE UNCHANGED beat \/ (\E d \in Diallers : StartHeartbeat(d))
          \/ \E e \in Gens : BeatTick(e) \/ BeatEnd(e) \/ BeatTerminal(e) \/ BeatOver(e)
    <3>1. ASSUME NEW d \in Diallers, DialStep(d) PROVE UNCHANGED beat
      BY <3>1 DEF DialStep, DialSocket, Upgrade, Hello, NewSession, Rest
    <3> QED  BY <2>4, <3>1, OpenActions
             DEF Prepare, FirstGeneration, Redial, Redialled, NewGeneration, Replay, Rest,
                 SessionOnly, openVars, allVars
  <2> QED  BY <2>1, <2>2, <2>3, <2>4 DEF allVars, openVars
<1> QED  BY <1>1, <1>2, <1>3 DEF OpenTypeOK, DialRec, Stages

-----------------------------------------------------------------------------
(* The dials.                                                              *)

(* One dial, and the supervisor that it belongs to.                        *)
Fits(r, what) ==
    /\ r.sock => r.at \in WithSocket
    /\ r.at \in WithSocket \union {"socket", "failed"} => what = "dial"
    /\ r.at = "starting" => what = "restore"

LEMMA DialInvFits ==
    DialInv <=> /\ dial[0].sock => dial[0].at \in WithSocket
                /\ \A s \in Gens : Fits(dial[s], sup[s])
                /\ \A e \in Gens : e > started => sup[e] = "none"
BY DEF DialInv, Fits, Diallers

LEMMA SupNotStarted ==
    ASSUME TypeOK, DialInv, [Next]_vars
    PROVE  \A e \in Gens : e > started' => sup'[e] = "none"
<1>0. TypeSup /\ TypeConn  BY TypeGroups
<1>1. \A e \in Gens : e > started => sup[e] = "none"  BY DEF DialInv
<1>2. ASSUME UNCHANGED <<sup, started>> PROVE \A e \in Gens : e > started' => sup'[e] = "none"
  BY <1>1, <1>2
<1>3. CASE OpenReturn  BY <1>2, <1>3 DEF OpenReturn, connVars, supVars
<1>4. CASE CallActs
  <2>1. UNCHANGED <<sup, started>>
    BY <1>4 DEF CallActs, Invoke, Register, LockWrite, WriteFrame, Await, Timeout, Response,
                connVars, supVars
  <2> QED  BY <1>2, <2>1
<1>5. CASE EndStep
  <2>1. CASE EndClose
    BY <1>0, <1>1, <2>1 DEF EndClose, TypeSup
  <2>2. CASE EndMark \/ EndSettle \/ LingerEnd
    BY <1>2, <2>2 DEF EndMark, EndSettle, LingerEnd, connVars, supVars
  <2> QED  BY <1>5, <2>1, <2>2 DEF EndStep
<1>6. CASE ReaderActs
  <2>1. UNCHANGED <<sup, started>>
    BY <1>6 DEF ReaderActs, EndNotify, ReadExit, FailInflight, ConnLost, connVars, supVars
  <2> QED  BY <1>2, <2>1
<1>7. CASE SupActs
  <2> PICK s \in Gens : SupStep(s)
    BY <1>7 DEF SupActs
  <2> USE <1>0, <1>1, DirectAssumption DEF connVars, SupOnly, TypeSup, TypeConn, Go, Gens
  <2>1. CASE StartGeneration(s)
    <3>1. sup[s] = "dial" /\ s <= started  BY <2>1 DEF StartGeneration
    <3>2. CASE UNCHANGED started /\ sup' = [sup EXCEPT ![s] = "exit"]
      BY <3>1, <3>2
    <3>3. CASE /\ started' = started + 1
               /\ sup' = [sup EXCEPT ![s] = "restore", ![started + 1] = "await"]
      BY <3>1, <3>3
    <3> QED  BY <2>1, <3>2, <3>3 DEF StartGeneration, NextGen
  <2>2. CASE AwaitEnd(s)  BY <2>2 DEF AwaitEnd
  <2>3. CASE Restore(s)  BY <2>3 DEF Restore
  <2>4. CASE GenerationOver(s)  BY <2>4 DEF GenerationOver
  <2>5. ASSUME NEW a, sup' = [sup EXCEPT ![s] = a], sup[s] # "none", UNCHANGED started
        PROVE  \A e \in Gens : e > started' => sup'[e] = "none"
    BY <2>5
  <2>6. CASE WaitManual(s)  BY <2>5, <2>6 DEF WaitManual
  <2>7. CASE BackoffStop(s) \/ Backoff(s)  BY <2>5, <2>7 DEF BackoffStop, Backoff
  <2>8. CASE SupFailed(s)  BY <2>5, <2>8 DEF SupFailed
  <2>9. CASE SupRestored(s) \/ SupNext(s)  BY <2>5, <2>9 DEF SupRestored, SupNext
  <2>10. CASE DialFails(s)  BY <2>5, <2>10 DEF DialFails
  <2> QED
    BY <2>1, <2>2, <2>3, <2>4, <2>6, <2>7, <2>8, <2>9, <2>10, Zenon DEF SupStep
<1>8. CASE RecActs
  <2>1. UNCHANGED <<sup, started>>
    BY <1>8 DEF RecActs, Reconnect, Enqueue, SendManual, ReconnectReturn, ReconnectCancel,
                connVars, supVars
  <2> QED  BY <1>2, <2>1
<1>9. CASE CloserActs
  <2>1. UNCHANGED <<sup, started>>
    BY <1>9 DEF CloserActs, CloseBegin, CloseSettle, CloseReturn, connVars, supVars
  <2> QED  BY <1>2, <2>1
<1>10. CASE UNCHANGED vars
  <2>1. UNCHANGED <<sup, started>>  BY <1>10 DEF vars, connVars, supVars
  <2> QED  BY <1>2, <2>1
<1> QED  BY <1>3, <1>4, <1>5, <1>6, <1>7, <1>8, <1>9, <1>10, Actions

LEMMA DialInvNext ==
    ASSUME OpenTypeOK, DialInv, PreInv, [OpenNext]_allVars
    PROVE  DialInv'
<1>0. /\ TypeOK /\ dial \in [Diallers -> DialRec] /\ TypeSup /\ TypeConn
      /\ 0 \in Diallers /\ Gens \subseteq Diallers /\ 0 \notin Gens
  BY OpenTypes, TypeGroups DEF Diallers, Gens
<1>1. /\ dial[0].sock => dial[0].at \in WithSocket
      /\ \A s \in Gens : Fits(dial[s], sup[s])
      /\ \A e \in Gens : e > started => sup[e] = "none"
  BY DialInvFits
<1>2. \A e \in Gens : e > started' => sup'[e] = "none"
  <2>1. CASE BeatFlag
    BY <1>1, <2>1 DEF BeatFlag, connVars, supVars
  <2> QED  BY <1>0, <2>1, SupNotStarted, SessionSteps
<1> DEFINE Rest0 == dial'[0].sock => dial'[0].at \in WithSocket
           RestS == \A s \in Gens : Fits(dial'[s], sup'[s])
<1>3. ASSUME UNCHANGED sup, NEW r \in DialRec, Moves(0, r), r.sock => r.at \in WithSocket
      PROVE  Rest0 /\ RestS
  BY <1>0, <1>1, <1>3 DEF Moves
<1>4. ASSUME NEW s \in Gens, NEW r \in DialRec, Moves(s, r), Fits(r, sup'[s]),
             \A e \in Gens : e # s /\ sup[e] \in {"dial", "restore"} => sup'[e] = sup[e]
      PROVE  Rest0 /\ RestS
  BY <1>0, <1>1, <1>4 DEF Fits, Moves
<1>5. ASSUME UNCHANGED dial,
             \A e \in Gens : sup[e] \in {"dial", "restore"} => sup'[e] = sup[e]
      PROVE  Rest0 /\ RestS
  BY <1>0, <1>1, <1>5 DEF Fits
<1> HIDE DEF Rest0, RestS
<1>6. ASSUME Prepare PROVE Rest0 /\ RestS
  <2>1. PICK st \in {"socket", "failed"} : Moves(0, [dial[0] EXCEPT !.at = st])
    BY <1>6, PrepareMoves
  <2> DEFINE r == [dial[0] EXCEPT !.at = st]
  <2>2. ~dial[0].sock  BY <1>1, <1>6 DEF Prepare, PreInv, WithSocket
  <2>3. r \in DialRec /\ ~r.sock  BY <1>0, <2>2 DEF DialRec, Stages
  <2>4. UNCHANGED sup  BY <1>6 DEF Prepare, vars, supVars
  <2>5. Moves(0, r)  BY <2>1
  <2> HIDE DEF r
  <2> QED  BY <1>0, <1>3, <2>3, <2>4, <2>5
<1>7. ASSUME NEW d \in Diallers, DialStep(d) PROVE Rest0 /\ RestS
  <2>1. PICK r \in DialRec :
           Moves(d, r) /\ (r.at \in WithSocket \/ (r.at = "failed" /\ ~r.sock))
    BY <1>0, <1>7, DialStepMoves
  <2>2. UNCHANGED sup /\ dial[d].at \in {"socket", "upgrade", "hello", "session"}
    BY <1>0, <1>7, DialStepMoves DEF vars, supVars
  <2>3. d # 0 => sup[d] = "dial"
    BY <1>1, <2>2 DEF Fits, WithSocket, Diallers
  <2>4. d # 0 => Fits(r, sup[d])  BY <2>1, <2>3 DEF Fits, WithSocket
  <2>5. CASE d = 0  BY <1>3, <2>1, <2>2, <2>5
  <2>6. CASE d # 0  BY <1>4, <2>1, <2>2, <2>4, <2>6 DEF Diallers
  <2> QED  BY <2>5, <2>6
<1>8. ASSUME NEW d \in Diallers, StartHeartbeat(d) PROVE Rest0 /\ RestS
  <2> DEFINE r == IF d = 0 THEN Over ELSE NotDialling
  <2>1. r \in DialRec /\ ~r.sock /\ r.at \in {"none", "done"}
    BY NotDiallingType DEF Over, DialRec, Stages
  <2>2. Moves(d, r)  BY <1>8, GenerationMoves
  <2>3. UNCHANGED sup  BY <1>8 DEF StartHeartbeat, vars, supVars
  <2> HIDE DEF r
  <2>4. Fits(r, sup[d])  BY <2>1 DEF Fits, WithSocket
  <2>5. CASE d = 0  BY <1>3, <2>1, <2>2, <2>3, <2>5
  <2>6. CASE d # 0  BY <1>4, <2>1, <2>2, <2>3, <2>4, <2>6 DEF Diallers
  <2> QED  BY <2>5, <2>6
<1>9. ASSUME FirstGeneration PROVE Rest0 /\ RestS
  <2> DEFINE r == [NotDialling EXCEPT !.at = "starting", !.new = 1]
  <2>0. 1 \in Gens  BY DirectAssumption DEF Gens
  <2>1. r \in DialRec /\ ~r.sock  BY <2>0, StartingType
  <2>2. Moves(0, r)  BY <1>9, GenerationMoves
  <2>3. UNCHANGED sup  BY <1>9 DEF FirstGeneration, Rest, vars, supVars
  <2> HIDE DEF r
  <2> QED  BY <1>0, <1>3, <2>1, <2>2, <2>3
<1>10. ASSUME NEW s \in Gens, Redial(s) PROVE Rest0 /\ RestS
  <2> DEFINE r == [dial[s] EXCEPT !.at = "socket"]
  <2>1. sup[s] = "backoff" /\ sup' = [sup EXCEPT ![s] = "dial"]
    BY <1>10 DEF Redial, Backoff, Go
  <2>2. ~dial[s].sock  BY <1>1, <2>1 DEF Fits
  <2>3. r \in DialRec /\ r.at = "socket" /\ ~r.sock  BY <1>0, <2>2 DEF DialRec, Stages
  <2>4. Moves(s, r)  BY <1>10, GenerationMoves
  <2> HIDE DEF r
  <2>5. sup'[s] = "dial"  BY <1>0, <2>1 DEF TypeSup
  <2>6. Fits(r, sup'[s])  BY <2>3, <2>5 DEF Fits
  <2>7. \A e \in Gens : e # s => sup'[e] = sup[e]  BY <1>0, <2>1 DEF TypeSup
  <2> QED  BY <1>4, <2>3, <2>4, <2>6, <2>7
<1>11. ASSUME NEW s \in Gens, Redialled(s) PROVE Rest0 /\ RestS
  <2>1. Moves(s, NotDialling)  BY <1>11, GenerationMoves
  <2>2. \E st : sup' = [sup EXCEPT ![s] = st]  BY <1>11 DEF Redialled, DialFails, Go
  <2>3. \A e \in Gens : e # s => sup'[e] = sup[e]  BY <1>0, <2>2 DEF TypeSup
  <2>4. Fits(NotDialling, sup'[s])  BY NotDiallingType DEF Fits, WithSocket
  <2> QED  BY <1>4, <2>1, <2>3, <2>4, NotDiallingType
<1>12. ASSUME NEW s \in Gens, NewGeneration(s) PROVE Rest0 /\ RestS
  <2> DEFINE r == IF closed THEN NotDialling
                  ELSE [NotDialling EXCEPT !.at = "starting", !.new = gen']
  <2>1. Moves(s, r)  BY <1>12, GenerationMoves
  <2>2. closed \in BOOLEAN  BY <1>0 DEF TypeOK
  <2>3. CASE closed
    <3>1. sup' = [sup EXCEPT ![s] = "exit"]
      BY <1>12, <2>3 DEF NewGeneration, StartGeneration, MayStart
    <3>2. \A e \in Gens : e # s => sup'[e] = sup[e]  BY <1>0, <3>1 DEF TypeSup
    <3>3. r = NotDialling /\ Fits(NotDialling, sup'[s])
      BY <2>3, NotDiallingType DEF Fits, WithSocket
    <3> QED  BY <1>4, <2>1, <3>2, <3>3, NotDiallingType
  <2>4. CASE ~closed
    <3>1. /\ sup' = [sup EXCEPT ![s] = "restore", ![started + 1] = "await"]
          /\ started + 1 \in Gens /\ sup[s] = "dial" /\ gen' = started + 1
      BY <1>0, <1>12, <2>4, DirectAssumption
         DEF NewGeneration, StartGeneration, MayStart, NextGen, TypeConn, Gens
    <3>2. sup[started + 1] = "none"  BY <1>0, <1>1, <3>1 DEF TypeConn, Gens
    <3>3. s # started + 1 /\ sup'[s] = "restore"  BY <1>0, <3>1, <3>2 DEF TypeSup
    <3>4. \A e \in Gens : e # s /\ sup[e] \in {"dial", "restore"} => sup'[e] = sup[e]
      BY <1>0, <3>1, <3>2 DEF TypeSup
    <3>5. r \in DialRec /\ ~r.sock /\ r.at = "starting"
      BY <2>4, <3>1, StartingType
    <3> HIDE DEF r
    <3>6. Fits(r, sup'[s])  BY <3>3, <3>5 DEF Fits, WithSocket
    <3> QED  BY <1>4, <2>1, <3>4, <3>5, <3>6
  <2> QED  BY <2>2, <2>3, <2>4
<1>13. ASSUME NEW s \in Gens, Replay(s) PROVE Rest0 /\ RestS
  <2>1. UNCHANGED dial /\ dial[s].at = "none"
    BY <1>13 DEF Replay, At, openVars
  <2>2. \E st : sup' = [sup EXCEPT ![s] = st]  BY <1>13 DEF Replay, Restore
  <2>3. \A e \in Gens : e # s => sup'[e] = sup[e]  BY <1>0, <2>2 DEF TypeSup
  <2>4. Fits(dial[s], sup'[s])  BY <1>1, <2>1 DEF Fits, WithSocket
  <2>5. Moves(s, dial[s]) /\ dial[s] \in DialRec  BY <1>0, <2>1 DEF Moves
  <2> QED  BY <1>4, <2>3, <2>4, <2>5
<1>14. ASSUME SessionOnly PROVE Rest0 /\ RestS
  BY <1>0, <1>5, <1>14, SessionOnlyLeaves DEF SessionOnly, openVars
<1>15. ASSUME \E e \in Gens : BeatTick(e) \/ BeatEnd(e) \/ BeatTerminal(e) \/ BeatOver(e)
       PROVE  Rest0 /\ RestS
  <2>1. UNCHANGED <<dial, sup>>
    BY <1>15 DEF BeatTick, BeatEnd, BeatTerminal, BeatOver, BeatOnly, vars, supVars
  <2> QED  BY <1>5, <2>1
<1>16. ASSUME UNCHANGED allVars PROVE Rest0 /\ RestS
  <2>1. UNCHANGED <<dial, sup>>  BY <1>16 DEF allVars, openVars, vars, supVars
  <2> QED  BY <1>5, <2>1
<1>17. ASSUME \/ \E d \in Diallers : DialStep(d) \/ StartHeartbeat(d)
              \/ \E s \in Gens : Redial(s) \/ Redialled(s) \/ NewGeneration(s) \/ Replay(s)
       PROVE  Rest0 /\ RestS
  BY <1>7, <1>8, <1>10, <1>11, <1>12, <1>13, <1>17, Zenon
<1>18. Rest0 /\ RestS
  BY <1>6, <1>9, <1>14, <1>15, <1>16, <1>17, OpenActions, Zenon
<1>19. \A d \in Diallers : dial'[d].sock => dial'[d].at \in WithSocket
  BY <1>18 DEF Rest0, RestS, Fits, Diallers
<1> QED  BY <1>2, <1>18, <1>19 DEF DialInv, RestS, Fits

-----------------------------------------------------------------------------
(* Before the first generation.                                            *)

LEMMA PreInvNext ==
    ASSUME OpenTypeOK, PreInv, [OpenNext]_allVars
    PROVE  PreInv'
<1>0. /\ TypeOK /\ dial \in [Diallers -> DialRec]
      /\ 0 \in Diallers /\ Gens \subseteq Diallers /\ 0 \notin Gens
  BY OpenTypes DEF Diallers, Gens
<1> USE <1>0
<1>1. ASSUME UNCHANGED <<ask, opened, gen, closer>>, NEW r \in DialRec, Moves(0, r),
             ask = NoAsk, Live => r.at \in {"starting", "done"}
      PROVE  PreInv'
  BY <1>1 DEF PreInv, Live, Moves
<1>2. ASSUME Live, UNCHANGED <<ask, dial>> \/ \E s \in Gens, r \in DialRec : Moves(s, r),
             UNCHANGED ask
      PROVE  PreInv'
  BY <1>2 DEF PreInv, Live, Moves
<1>3. ASSUME ~Live, UNCHANGED <<ask, dial, opened, gen, closer>>
      PROVE  PreInv'
  BY <1>3 DEF PreInv, Live
<1>4. CASE Prepare
  <2>1. PICK st \in {"socket", "failed"} : Moves(0, [dial[0] EXCEPT !.at = st])
    BY <1>4, PrepareMoves
  <2>2. ask # NoAsk /\ ask' = NoAsk /\ UNCHANGED <<opened, gen, closer>>
    BY <1>4 DEF Prepare, vars, connVars
  <2>3. ~Live /\ ~opened  BY <2>2 DEF PreInv, Live
  <2>4. \A s \in Gens : dial'[s].at = "none"  BY <2>1, <2>3 DEF PreInv, Moves
  <2> QED  BY <2>2, <2>3, <2>4 DEF PreInv
<1>5. ASSUME NEW d \in Diallers, DialStep(d) PROVE PreInv'
  <2>1. PICK r \in DialRec : Moves(d, r)  BY <1>5, DialStepMoves
  <2>2. /\ UNCHANGED <<ask, opened, gen, closer>>
        /\ dial[d].at \in {"socket", "upgrade", "hello", "session"}
    BY <1>5, DialStepMoves DEF vars, connVars
  <2>3. CASE d = 0
    BY <1>1, <2>1, <2>2, <2>3 DEF PreInv, Live
  <2>4. CASE d # 0
    <3>1. d \in Gens  BY <2>4 DEF Diallers
    <3>2. Live  BY <2>2, <3>1 DEF PreInv
    <3> QED  BY <1>2, <2>1, <2>2, <3>1, <3>2
  <2> QED  BY <2>3, <2>4
<1>6. ASSUME NEW d \in Diallers, StartHeartbeat(d) PROVE PreInv'
  <2> DEFINE r == IF d = 0 THEN Over ELSE NotDialling
  <2>1. r \in DialRec /\ (d = 0 => r.at = "done")
    BY NotDiallingType DEF Over, DialRec, Stages
  <2>2. Moves(d, r)  BY <1>6, GenerationMoves
  <2>3. UNCHANGED <<ask, opened, gen, closer>> /\ dial[d].at = "starting"
    BY <1>6 DEF StartHeartbeat, At, vars, connVars
  <2> HIDE DEF r
  <2>4. CASE d = 0
    BY <1>1, <2>1, <2>2, <2>3, <2>4 DEF PreInv
  <2>5. CASE d # 0
    <3>1. d \in Gens  BY <2>5 DEF Diallers
    <3>2. Live  BY <2>3, <3>1 DEF PreInv
    <3> QED  BY <1>2, <2>1, <2>2, <2>3, <3>1, <3>2
  <2> QED  BY <2>4, <2>5
<1>7. CASE FirstGeneration
  <2> DEFINE r == [NotDialling EXCEPT !.at = "starting", !.new = 1]
  <2>0. 1 \in Gens  BY DirectAssumption DEF Gens
  <2>1. r \in DialRec /\ r.at = "starting"  BY <2>0, StartingType
  <2>2. Moves(0, r)  BY <1>7, GenerationMoves
  <2>3. UNCHANGED <<ask, opened, gen, closer>> /\ dial[0].at = "made"
    BY <1>7 DEF FirstGeneration, At, Rest, vars, connVars
  <2> HIDE DEF r
  <2> QED  BY <1>1, <2>1, <2>2, <2>3 DEF PreInv
<1>8. ASSUME NEW s \in Gens, Redial(s) \/ Redialled(s) \/ NewGeneration(s) PROVE PreInv'
  <2>1. Live  BY <1>8 DEF Redial, Redialled, NewGeneration, At, PreInv
  <2>2. \E r : Moves(s, r)  BY <1>8, GenerationMoves
  <2>3. UNCHANGED ask  BY <1>8 DEF Redial, Redialled, NewGeneration
  <2>4. \E r \in DialRec : Moves(s, r)  BY <2>2 DEF Moves
  <2> QED  BY <1>2, <2>1, <2>3, <2>4
<1>9. CASE \E s \in Gens : Replay(s)
  BY <1>2, <1>3, <1>9 DEF Replay, Restore, openVars
<1>10. CASE \E e \in Gens : BeatTick(e) \/ BeatEnd(e) \/ BeatTerminal(e) \/ BeatOver(e)
  <2>1. UNCHANGED <<ask, dial, opened, gen, closer>>
    BY <1>10 DEF BeatTick, BeatEnd, BeatTerminal, BeatOver, BeatOnly, vars, connVars
  <2> QED  BY <1>2, <1>3, <2>1
<1>11. CASE SessionOnly
  <2>1. Live /\ UNCHANGED <<ask, dial>>  BY <1>11 DEF SessionOnly, openVars
  <2> QED  BY <1>2, <2>1
<1>12. CASE UNCHANGED allVars
  <2>1. UNCHANGED <<ask, dial, opened, gen, closer>>
    BY <1>12 DEF allVars, openVars, vars, connVars
  <2> QED  BY <1>2, <1>3, <2>1
<1> QED
  BY <1>4, <1>5, <1>6, <1>7, <1>8, <1>9, <1>10, <1>11, <1>12, OpenActions, Zenon

-----------------------------------------------------------------------------
(* The heartbeats.                                                         *)

(* When the current generation must be kept alive.                         *)
Needed ==
    /\ Live /\ sess.kind # "none" /\ sess.beats
    /\ ~closed /\ ~Terminal
    /\ reader[gen] # "done"

Beating == beat[gen] \in {"tick", "probe"}

LEMMA AliveNeeded == AliveInv <=> (Needed => Beating \/ Starting(gen))
BY Zenon DEF AliveInv, Needed, Beating

LEMMA AliveInvNext ==
    ASSUME OpenTypeOK, DialInv, PreInv, AliveInv, [OpenNext]_allVars
    PROVE  AliveInv'
<1> SUFFICES ASSUME Needed' PROVE Beating' \/ Starting(gen)'
  BY AliveNeeded, PTL
<1>0. /\ TypeOK /\ dial \in [Diallers -> DialRec] /\ gen \in Gens
      /\ beat \in [Gens -> {"none", "tick", "probe", "ending", "over"}]
      /\ 0 \in Diallers /\ Gens \subseteq Diallers /\ 0 \notin Gens
  BY OpenTypes DEF Diallers, Gens, TypeOK
<1>1. Needed => Beating \/ Starting(gen)  BY AliveNeeded
<1>2. /\ Live' /\ sess'.kind # "none" /\ sess'.beats /\ ~closed' /\ ~Terminal'
      /\ reader'[gen'] # "done"
  BY DEF Needed
<1>3. [Next]_vars
  <2>1. ASSUME BeatFlag PROVE FALSE  BY <1>2, <2>1 DEF BeatFlag, EndFlag, Terminal, TerminalStates
  <2> QED  BY <2>1, SessionSteps
<1>4. ~closed /\ ~Terminal  BY <1>0, <1>2, <1>3, Forward
<1>5. ASSUME UNCHANGED <<sess, started>>, Live
      PROVE  UNCHANGED gen /\ (Beating \/ Starting(gen))
  BY <1>0, <1>1, <1>2, <1>3, <1>4, <1>5, Forward DEF Needed
(* A dial of which the next generation is not about to start moves on.     *)
<1>6. ASSUME UNCHANGED <<sess, started, beat>>, Live,
             NEW d \in Diallers, NEW r, Moves(d, r), dial[d].at # "starting"
      PROVE  Beating' \/ Starting(gen)'
  BY <1>5, <1>6 DEF Moves, Starting, Beating
<1>7. ASSUME UNCHANGED <<sess, started, beat, dial>>, Live
      PROVE  Beating' \/ Starting(gen)'
  BY <1>5, <1>7 DEF Starting, Beating
<1>8. ASSUME Prepare PROVE FALSE
  <2>1. PICK st \in {"socket", "failed"} : Moves(0, [dial[0] EXCEPT !.at = st])
    BY <1>8, PrepareMoves
  <2>2. dial[0] \in DialRec /\ dial'[0] = [dial[0] EXCEPT !.at = st]
    BY <1>0, <2>1 DEF Moves
  <2>3. dial'[0].at = st  BY <2>2 DEF DialRec
  <2> QED  BY <1>2, <2>3 DEF Live
<1>9. ASSUME NEW d \in Diallers, DialStep(d) PROVE Beating' \/ Starting(gen)'
  <2>1. PICK r \in DialRec :
           Moves(d, r) /\ (r.at \in WithSocket \/ (r.at = "failed" /\ ~r.sock))
    BY <1>0, <1>9, DialStepMoves
  <2>2. /\ UNCHANGED <<sess, started, beat>>
        /\ dial[d].at \in {"socket", "upgrade", "hello", "session"}
    BY <1>0, <1>9, DialStepMoves DEF vars, connVars
  <2>3. d # 0  BY <1>2, <2>1 DEF Moves, Live, WithSocket
  <2>4. Live  BY <1>0, <1>2, <2>1, <2>3 DEF Moves, Live
  <2> QED  BY <1>6, <2>1, <2>2, <2>4
<1>10. ASSUME NEW d \in Diallers, StartHeartbeat(d) PROVE Beating' \/ Starting(gen)'
  <2> DEFINE r == IF d = 0 THEN Over ELSE NotDialling
  <2>1. Moves(d, r)  BY <1>10, GenerationMoves
  <2>2. /\ UNCHANGED <<sess, started, gen>> /\ dial[d].at = "starting"
        /\ beat' = [beat EXCEPT ![dial[d].new] =
                      IF sess.beats /\ ~closed /\ gen = dial[d].new THEN "tick" ELSE @]
    BY <1>10 DEF StartHeartbeat, At, vars, connVars
  <2> HIDE DEF r
  <2>3. Live  BY <1>0, <1>2, <2>1, <2>2 DEF Moves, Live
  <2>4. CASE dial[d].new = gen
    BY <1>0, <1>2, <1>4, <2>2, <2>4 DEF Beating
  <2>5. CASE dial[d].new # gen
    <3>1. Beating \/ \E x \in Diallers : x # d /\ dial[x].at = "starting" /\ dial[x].new = gen
      BY <1>5, <2>2, <2>3, <2>5 DEF Starting
    <3>2. Beating => Beating'  BY <1>0, <2>2, <2>5 DEF Beating
    <3>3. ASSUME NEW x \in Diallers, x # d, dial[x].at = "starting", dial[x].new = gen
          PROVE  Starting(gen)'
      BY <2>1, <2>2, <3>3 DEF Moves, Starting
    <3> QED  BY <3>1, <3>2, <3>3
  <2> QED  BY <2>4, <2>5
<1>11. ASSUME FirstGeneration PROVE Starting(gen)'
  <2> DEFINE r == [NotDialling EXCEPT !.at = "starting", !.new = 1]
  <2>0. 1 \in Gens  BY DirectAssumption DEF Gens
  <2>1. r.at = "starting" /\ r.new = 1  BY <2>0, StartingType
  <2>2. Moves(0, r)  BY <1>11, GenerationMoves
  <2>3. UNCHANGED gen /\ dial[0].at = "made"
    BY <1>11 DEF FirstGeneration, At, Rest, vars, connVars
  <2>4. gen = 1  BY <2>3 DEF PreInv, Live
  <2> HIDE DEF r
  <2> QED  BY <1>0, <2>1, <2>2, <2>3, <2>4 DEF Moves, Starting
<1>12. ASSUME NEW s \in Gens, Redial(s) \/ Redialled(s) PROVE Beating' \/ Starting(gen)'
  <2>1. \E r : Moves(s, r)  BY <1>12, GenerationMoves
  <2>2. UNCHANGED <<sess, started, beat>>
    BY <1>12 DEF Redial, Redialled, Backoff, DialFails, SupOnly, connVars
  <2>3. dial[s].at # "starting"
    BY <1>12 DEF Redial, Redialled, Backoff, Go, At, DialInv
  <2>4. Live  BY <1>0, <1>2, <2>1 DEF Moves, Live
  <2> QED  BY <1>0, <1>6, <2>1, <2>2, <2>3, <2>4
<1>13. ASSUME NEW s \in Gens, NewGeneration(s) PROVE Starting(gen)'
  <2> DEFINE r == [NotDialling EXCEPT !.at = "starting", !.new = gen']
  <2>1. Moves(s, r)  BY <1>4, <1>13, GenerationMoves
  <2>2. gen' \in Gens
    BY <1>0, <1>4, <1>13, StartedIsGen DEF NewGeneration
  <2>3. r.at = "starting" /\ r.new = gen'  BY <2>2, StartingType
  <2> HIDE DEF r
  <2> QED  BY <1>0, <2>1, <2>3 DEF Moves, Starting
<1>14. ASSUME NEW s \in Gens, Replay(s) PROVE Beating' \/ Starting(gen)'
  <2>1. UNCHANGED <<sess, started, beat, dial>>
    BY <1>14 DEF Replay, Restore, openVars
  <2> QED  BY <1>2, <1>7, <2>1 DEF Live
<1>15. ASSUME NEW e \in Gens, BeatTick(e) \/ BeatEnd(e) \/ BeatTerminal(e) \/ BeatOver(e)
       PROVE  Beating' \/ Starting(gen)'
  <2>1. UNCHANGED <<sess, started, gen, dial>> /\ Live /\ reader[gen] # "done"
    BY <1>2, <1>15 DEF BeatTick, BeatEnd, BeatTerminal, BeatOver, BeatOnly, vars, connVars,
                       Live
  <2>2. ASSUME Starting(gen) PROVE Starting(gen)'  BY <2>1, <2>2 DEF Starting
  <2>3. ASSUME Beating, BeatTick(e) PROVE Beating'
    BY <1>0, <1>4, <2>1, <2>3 DEF BeatTick, Loop, Beating
  <2>4. ASSUME Beating, BeatEnd(e) PROVE Beating'
    <3>1. PICK result \in {"sent", "unsent"} \union {RefusedFor(r) : r \in Reasons}
                            \union (IF closed THEN {"closed"} ELSE {}) :
             /\ result = "terminal" => Terminal
             /\ Loop(e, "probe", IF GoesOn(result) THEN "tick" ELSE "over")
      BY <2>4 DEF BeatEnd
    <3>2. GoesOn(result)  BY <1>4, <3>1 DEF GoesOn, RefusedFor
    <3> QED  BY <1>0, <2>1, <2>4, <3>1, <3>2 DEF Loop, Beating
  <2>5. ASSUME Beating, BeatOver(e) PROVE Beating'
    BY <1>0, <2>1, <2>5 DEF BeatOver, Loop, Beating
  <2>6. ASSUME BeatTerminal(e) PROVE FALSE
    BY <1>2, <2>6 DEF BeatTerminal, EndFlag, Terminal
  <2> QED  BY <1>5, <1>15, <2>1, <2>2, <2>3, <2>4, <2>5, <2>6
<1>16. ASSUME SessionOnly PROVE Beating' \/ Starting(gen)'
  <2>1. UNCHANGED <<sess, started, beat, dial>> /\ Live
    BY <1>0, <1>16, SessionOnlyLeaves DEF SessionOnly, openVars
  <2> QED  BY <1>7, <2>1
<1>17. ASSUME UNCHANGED allVars PROVE Beating' \/ Starting(gen)'
  <2>1. UNCHANGED <<sess, started, beat, dial>> /\ Live
    BY <1>2, <1>17 DEF allVars, openVars, vars, connVars, Live
  <2> QED  BY <1>7, <2>1
<1> QED
  BY <1>8, <1>9, <1>10, <1>11, <1>12, <1>13, <1>14, <1>15, <1>16, <1>17, OpenActions, Zenon

-----------------------------------------------------------------------------
(* The theorems about the dials and the heartbeats.                        *)

LEMMA OpenIndInit == OpenInit => OpenIInv
<1> SUFFICES ASSUME OpenInit PROVE OpenIInv
  OBVIOUS
<1>1. /\ Init /\ ask \in Asks /\ sess = NoParams
      /\ dial = [d \in Diallers |-> NotDialling] /\ beat = [e \in Gens |-> "none"]
  BY DEF OpenInit
<1>2. IInv  BY <1>1, IndInit
<1>3. 0 \in Diallers /\ Gens \subseteq Diallers  BY DEF Diallers
<1>4. OpenTypeOK
  BY <1>1, <1>2, NotDiallingType, OpenTypes DEF IInv
<1>5. DialInv
  BY <1>1, <1>3, NotDiallingType DEF DialInv, Init, WithSocket, Gens
<1>6. PreInv
  BY <1>1, <1>3, NotDiallingType DEF PreInv, Init, Live
<1>7. AliveInv
  BY <1>1 DEF AliveInv, NoParams
<1> QED  BY <1>2, <1>4, <1>5, <1>6, <1>7 DEF OpenIInv

(* The inductive invariant of the dials and the heartbeats.                *)
THEOREM OpenInvariant == OpenSpec => []OpenIInv
<1>1. OpenIInv /\ [OpenNext]_allVars => OpenIInv'
  BY OpenTypeNext, SessionInv, DialInvNext, PreInvNext, AliveInvNext DEF OpenIInv
<1> QED  BY OpenIndInit, <1>1, PTL DEF OpenSpec

(* Every variable of the session, its dials and its heartbeats has its     *)
(* type.                                                                   *)
THEOREM OpenTypeCorrect == OpenSpec => []OpenTypeOK
<1>1. OpenIInv => OpenTypeOK  BY DEF OpenIInv
<1> QED  BY OpenInvariant, <1>1, PTL

(* A socket belongs to a dial that is under way, and Close, once it has    *)
(* returned, leaves none: dialKCP, dialUDP and startGeneration.            *)
THEOREM SocketsAreOwned == OpenSpec => []NoSocketLeft
<1>1. OpenIInv => NoSocketLeft
  <2> SUFFICES ASSUME OpenIInv, NEW d \in Diallers, dial[d].sock
               PROVE  /\ dial[d].at \in WithSocket
                      /\ \A c \in Closers : closer[c] # "returned"
    BY DEF NoSocketLeft, WithSocket
  <2> USE DEF OpenIInv
  <2>1. dial[d].at \in WithSocket  BY DEF DialInv
  <2>2. CASE d = 0
    <3>1. ~Live  BY <2>1, <2>2 DEF Live, WithSocket
    <3> QED  BY <2>1, <3>1 DEF PreInv
  <2>3. CASE d # 0
    <3>1. d \in Gens /\ sup[d] = "dial"  BY <2>1, <2>3 DEF DialInv, Diallers
    <3>2. ~Quiet  BY <3>1 DEF Quiet
    <3> QED  BY <2>1, <3>2 DEF IInv, CloseInv
  <2> QED  BY <2>2, <2>3
<1> QED  BY OpenInvariant, <1>1, PTL

(* A live connection of a connected session has a heartbeat loop, whatever *)
(* became of earlier probes and generations: heartbeat.go, startHeartbeat  *)
(* and beat.                                                               *)
THEOREM HeartKeepsBeating == OpenSpec => []KeptAlive
<1>1. OpenIInv => KeptAlive
  BY DEF OpenIInv, PreInv, AliveInv, KeptAlive, Starting
<1> QED  BY OpenInvariant, <1>1, PTL

-----------------------------------------------------------------------------
(* The hello.                                                              *)

(* The length field: a number of two bytes, taken apart and put together.  *)
LEMMA TwoBytes ==
    ASSUME NEW n \in Nat, n < Byte * Byte
    PROVE  /\ n % (Byte * Byte) = n
           /\ n \div Byte \in Nat /\ n % Byte \in Nat
           /\ Byte * (n \div Byte) + (n % Byte) = n
<1>1. Byte \in Nat \ {0} /\ Byte * Byte \in Nat \ {0}  BY HelloAssumption
<1>2. ASSUME NEW m \in Nat \ {0} PROVE n < m => n % m = n  OBVIOUS
<1>3. ASSUME NEW m \in Nat \ {0}
      PROVE  n \div m \in Nat /\ n % m \in Nat /\ m * (n \div m) + (n % m) = n
  OBVIOUS
<1> QED  BY <1>1, <1>2, <1>3

(* The parts of two sequences, and of three, put together.                 *)
LEMMA Parts ==
    ASSUME NEW h \in Seq(Nat), NEW t \in Seq(Nat)
    PROVE  /\ h \o t \in Seq(Nat) /\ Len(h \o t) = Len(h) + Len(t)
           /\ SubSeq(h \o t, 1, Len(h)) = h
           /\ \A i \in 1 .. Len(h) : (h \o t)[i] = h[i]
           /\ \A i \in 1 .. Len(t) : (h \o t)[Len(h) + i] = t[i]
OBVIOUS

(* What precedes the ticket: the magic, the version, the length field.     *)
Fields(t) == <<HelloVersion, Len(t) \div Byte, Len(t) % Byte>>
Header(t) == HelloMagic \o Fields(t)

LEMMA HeaderFields ==
    ASSUME NEW t \in Seq(Nat), Len(t) < Byte * Byte
    PROVE  /\ Header(t) \in Seq(Nat) /\ Len(Header(t)) = 7
           /\ SubSeq(Header(t), 1, 4) = HelloMagic
           /\ Header(t)[5] = HelloVersion
           /\ Header(t)[6] = Len(t) \div Byte /\ Header(t)[7] = Len(t) % Byte
<1>1. Len(t) \div Byte \in Nat /\ Len(t) % Byte \in Nat  BY TwoBytes
<1>2. HelloMagic \in Seq(Nat) /\ Len(HelloMagic) = 4  BY DEF HelloMagic
<1>3. /\ Fields(t) \in Seq(Nat) /\ Len(Fields(t)) = 3
      /\ Fields(t)[1] = HelloVersion
      /\ Fields(t)[2] = Len(t) \div Byte /\ Fields(t)[3] = Len(t) % Byte
  BY <1>1 DEF Fields, HelloVersion
<1>4. /\ Header(t) \in Seq(Nat) /\ Len(Header(t)) = 7
      /\ SubSeq(Header(t), 1, 4) = HelloMagic
      /\ \A i \in 1 .. 3 : Header(t)[4 + i] = Fields(t)[i]
  <2> DEFINE m == HelloMagic
             f == Fields(t)
  <2>1. m \in Seq(Nat) /\ f \in Seq(Nat) /\ Len(m) = 4 /\ Len(f) = 3  BY <1>2, <1>3
  <2> HIDE DEF m, f
  <2>2. /\ m \o f \in Seq(Nat) /\ Len(m \o f) = Len(m) + Len(f)
        /\ SubSeq(m \o f, 1, Len(m)) = m
        /\ \A i \in 1 .. Len(f) : (m \o f)[Len(m) + i] = f[i]
    BY <2>1, Parts
  <2>3. m \o f \in Seq(Nat) /\ Len(m \o f) = 7  BY <2>1, <2>2
  <2>4. SubSeq(m \o f, 1, 4) = m  BY <2>1, <2>2
  <2>5. ASSUME NEW i \in 1 .. 3 PROVE (m \o f)[4 + i] = f[i]  BY <2>1, <2>2
  <2> QED  BY <2>3, <2>4, <2>5 DEF Header, m, f
<1>5. Header(t)[4 + 1] = Fields(t)[1] /\ Header(t)[4 + 2] = Fields(t)[2]
      /\ Header(t)[4 + 3] = Fields(t)[3]
  BY <1>4
<1> QED  BY <1>3, <1>4, <1>5

(* A buffer b of three parts.                                              *)
Holds(b, h, t, r) ==
    /\ b \in Seq(Nat) /\ Len(b) = Len(h) + Len(t) + Len(r)
    /\ \A i \in 1 .. Len(h) : b[i] = h[i]
    /\ SubSeq(b, 1, Len(h)) = h
    /\ SubSeq(b, Len(h) + 1, Len(h) + Len(t)) = t
    /\ SubSeq(b, Len(h) + Len(t) + 1, Len(h) + Len(t) + Len(r)) = r

LEMMA ThreeParts ==
    ASSUME NEW h \in Seq(Nat), NEW t \in Seq(Nat), NEW r \in Seq(Nat)
    PROVE  Holds((h \o t) \o r, h, t, r)
BY DEF Holds

(* What a decoder sees of a header whose length is the one of the ticket.  *)
LEMMA HeaderIsRead ==
    ASSUME NEW h \in Seq(Nat), NEW t \in Seq(Nat), NEW r \in Seq(Nat),
           Len(h) = 7, SubSeq(h, 1, 4) = HelloMagic, h[5] = HelloVersion,
           Byte * h[6] + h[7] = Len(t)
    PROVE  IsHello((h \o t) \o r) /\ TicketLen((h \o t) \o r) = Len(t)
<1> DEFINE b == (h \o t) \o r
<1>1. Len(t) \in Nat /\ Len(r) \in Nat  OBVIOUS
<1>2. HelloHeaderLen = 7 /\ Len(HelloMagic) = 4  BY DEF HelloHeaderLen, HelloMagic
<1>3. Holds(b, h, t, r)  BY ThreeParts, Zenon
<1> HIDE DEF b
<1> USE DEF Holds
<1>4. IsHello(b)
  <2>1. SubSeq(b, 1, 4) = SubSeq(SubSeq(b, 1, 7), 1, 4)  BY <1>1, <1>3
  <2>2. b[5] = HelloVersion  BY <1>3
  <2> QED  BY <1>1, <1>2, <1>3, <2>1, <2>2 DEF IsHello
<1>5. TicketLen(b) = Len(t)
  <2>1. b[6] = h[6] /\ b[7] = h[7]  BY <1>3
  <2> QED  BY <1>2, <2>1 DEF TicketLen
<1> QED  BY <1>4, <1>5 DEF b

(* What a decoder makes of it.                                             *)
LEMMA Decoding ==
    ASSUME NEW h \in Seq(Nat), NEW t \in Seq(Nat), NEW r \in Seq(Nat),
           Len(h) = 7, SubSeq(h, 1, 4) = HelloMagic, h[5] = HelloVersion,
           Byte * h[6] + h[7] = Len(t)
    PROVE  DecodeHello((h \o t) \o r) =
              IF Len(t) <= MaxTicketLen THEN {[ticket |-> t, rest |-> r]} ELSE {}
<1> DEFINE b == (h \o t) \o r
<1>1. Len(t) \in Nat /\ Len(r) \in Nat /\ HelloHeaderLen = 7
  BY DEF HelloHeaderLen, HelloMagic
<1>2. IsHello(b) /\ TicketLen(b) = Len(t)  BY HeaderIsRead
<1>3. Holds(b, h, t, r)  BY ThreeParts, Zenon
<1> HIDE DEF b
<1> USE DEF Holds
<1>4. DecodeHello(b) =
         IF Len(t) <= MaxTicketLen
         THEN {[ticket |-> SubSeq(b, 7 + 1, 7 + Len(t)), rest |-> Drop(b, 7 + Len(t))]} ELSE {}
  <2>1. Len(b) >= 7 + Len(t)  BY <1>1, <1>3
  <2> QED  BY <1>1, <1>2, <2>1, Zenon DEF DecodeHello
<1>5. Drop(b, 7 + Len(t)) = r  BY <1>1, <1>3 DEF Drop
<1>6. SubSeq(b, 7 + 1, 7 + Len(t)) = t  BY <1>3
<1> QED  BY <1>4, <1>5, <1>6, Zenon DEF b

(* EncodeHello writes a header of this kind, and the ticket.               *)
LEMMA EncodedParts ==
    ASSUME NEW t \in Seq(Nat), Len(t) < Byte * Byte
    PROVE  /\ EncodeHello(t) = Header(t) \o t /\ EncodeHello(t) \in Seq(Nat)
           /\ Header(t) \in Seq(Nat) /\ Len(Header(t)) = 7
           /\ SubSeq(Header(t), 1, 4) = HelloMagic
           /\ Header(t)[5] = HelloVersion /\ Byte * Header(t)[6] + Header(t)[7] = Len(t)
<1>1. Len(t) \in Nat  OBVIOUS
<1>2. Len(t) % (Byte * Byte) = Len(t) /\ Byte * (Len(t) \div Byte) + (Len(t) % Byte) = Len(t)
  BY <1>1, TwoBytes
<1>3. EncodeHello(t) = Header(t) \o t
  <2>1. Fields(t) \in Seq(Nat)  BY <1>1, TwoBytes DEF Fields, HelloVersion
  <2> QED  BY <1>2, <2>1 DEF EncodeHello, Header, Fields, HelloMagic
<1>4. /\ Header(t) \in Seq(Nat) /\ Len(Header(t)) = 7 /\ SubSeq(Header(t), 1, 4) = HelloMagic
      /\ Header(t)[5] = HelloVersion /\ Byte * Header(t)[6] + Header(t)[7] = Len(t)
  BY <1>1, <1>2, HeaderFields
<1>5. Header(t) \o t \in Seq(Nat)  BY <1>4, Parts
<1> QED  BY <1>3, <1>4, <1>5, Zenon

(* A decoder finds what EncodeHello wrote, whatever follows it in the      *)
(* buffer, and leaves the rest; a ticket beyond the limit it refuses:      *)
(* hello.go, EncodeHello and DecodeHello.                                  *)
THEOREM EncodedIsDecoded ==
    ASSUME NEW t \in Seq(Nat), NEW r \in Seq(Nat), Len(t) < Byte * Byte
    PROVE  DecodeHello(EncodeHello(t) \o r) =
              IF Len(t) <= MaxTicketLen THEN {[ticket |-> t, rest |-> r]} ELSE {}
<1> DEFINE h == Header(t)
<1>1. /\ EncodeHello(t) = h \o t /\ h \in Seq(Nat) /\ Len(h) = 7
      /\ SubSeq(h, 1, 4) = HelloMagic /\ h[5] = HelloVersion
      /\ Byte * h[6] + h[7] = Len(t)
  BY EncodedParts
<1> HIDE DEF h
<1>2. DecodeHello((h \o t) \o r) =
         IF Len(t) <= MaxTicketLen THEN {[ticket |-> t, rest |-> r]} ELSE {}
  BY <1>1, Decoding
<1> QED  BY <1>1, <1>2, Zenon

-----------------------------------------------------------------------------
(* The deadlines.                                                          *)

(* The arithmetic of a duration's width takes multiples of it away.        *)
LEMMA WrapTakes ==
    ASSUME NEW n \in Int
    PROVE  \E q \in Int : Wrap(n) = n - 2 * (Top * q)
<1>1. Top \in Nat \ {0}  BY PlanAssumption
<1> DEFINE w == 2 * Top
           m == n + Top
<1>2. w \in Nat \ {0} /\ m \in Int  BY <1>1
<1>3. Wrap(n) = (m % w) - Top  BY DEF Wrap
<1> HIDE DEF w, m
<1>4. m \div w \in Int /\ m % w \in Int /\ w * (m \div w) + (m % w) = m
  BY <1>2
<1>5. PICK q \in Int : w * q + (m % w) = m  BY <1>4
<1>6. w * q = 2 * (Top * q)  BY <1>1, <1>5 DEF w
<1>7. Top * q \in Int  BY <1>1
<1>8. m % w = m - 2 * (Top * q)  BY <1>2, <1>4, <1>5, <1>6, <1>7
<1>9. Wrap(n) = n - 2 * (Top * q)  BY <1>1, <1>3, <1>7, <1>8 DEF m
<1> QED  BY <1>9

LEMMA WrapType == ASSUME NEW n \in Int PROVE Wrap(n) \in Int
<1>1. Top \in Nat \ {0}  BY PlanAssumption
<1>2. PICK q \in Int : Wrap(n) = n - 2 * (Top * q)  BY WrapTakes
<1>3. Top * q \in Int  BY <1>1
<1> QED  BY <1>2, <1>3

(* A duration that fits is kept.                                           *)
LEMMA WrapKeeps == ASSUME NEW n \in Nat, n < Top PROVE Wrap(n) = n
<1>1. Top \in Nat \ {0}  BY PlanAssumption
<1>2. ASSUME NEW m \in Nat, NEW k \in Nat PROVE m < k => m % k = m  OBVIOUS
<1>3. n + Top \in Nat /\ 2 * Top \in Nat /\ n + Top < 2 * Top  BY <1>1
<1>4. (n + Top) % (2 * Top) = n + Top  BY <1>2, <1>3
<1>5. Wrap(n) = (n + Top) - Top  BY <1>4, Zenon DEF Wrap
<1> QED  BY <1>1, <1>5

(* The gap of a plan is a number of milliseconds, however long a push says *)
(* it is: never a single nanosecond.                                       *)
LEMMA GapIsEven ==
    ASSUME NEW f, f.gap \subseteq Int
    PROVE  GapOf(f) \in Int /\ GapOf(f) # 1
<1>1. Top \in Nat \ {0} /\ Milli \in Nat \ {0} /\ Milli % 2 = 0  BY PlanAssumption
<1>2. PICK k \in Int : Milli = 2 * k  BY <1>1
<1> DEFINE v == The(f.gap, 0)
           raw == RawInt64(f.gap)
<1>3. v \in Int  BY DEF The
<1>4. raw = Max({v, 0})  BY DEF RawInt64
<1> HIDE DEF v
<1>5. \E x \in {v, 0} : \A y \in {v, 0} : x >= y
  <2>1. CASE v >= 0  BY <1>3, <2>1
  <2>2. CASE 0 >= v  BY <1>3, <2>2
  <2> QED  BY <1>3, <2>1, <2>2
<1>6. raw \in {v, 0}  BY <1>4, <1>5 DEF Max
<1> HIDE DEF raw
<1>7. raw \in Int  BY <1>3, <1>6
<1>8. raw * Milli \in Int /\ raw * Milli = 2 * (raw * k) /\ raw * k \in Int
  BY <1>1, <1>2, <1>7
<1>9. PICK q \in Int : Wrap(raw * Milli) = raw * Milli - 2 * (Top * q)
  BY <1>8, WrapTakes
<1>10. Top * q \in Int  BY <1>1
<1>11. Wrap(raw * Milli) = 2 * (raw * k) - 2 * (Top * q)  BY <1>8, <1>9
<1>12. ASSUME NEW a \in Int, NEW b \in Int PROVE 2 * a - 2 * b \in Int /\ 2 * a - 2 * b # 1
  OBVIOUS
<1>13. Wrap(raw * Milli) \in Int /\ Wrap(raw * Milli) # 1  BY <1>8, <1>10, <1>11, <1>12
<1> QED  BY <1>13 DEF GapOf, raw

(* The deadline T2 made of a gap is past the first switch T1, also where   *)
(* the arithmetic overflows, and past the gap itself where it does not, as *)
(* plan.go 107 asks: options.go, clientIdleDeadline.  A gap of one         *)
(* nanosecond is no whole number of milliseconds.                          *)
THEOREM DeadlineIsPastGap ==
    ASSUME NEW gap \in Int, NEW idleSwitch \in Int, gap > 0, gap # 1,
           idleSwitch + Second < Top
    PROVE  /\ ClientIdleDeadline(gap, idleSwitch) \in Int
           /\ idleSwitch >= 0 => ClientIdleDeadline(gap, idleSwitch) > idleSwitch
           /\ 3 * gap < Top => ClientIdleDeadline(gap, idleSwitch) > gap
<1> DEFINE d == Wrap(gap * 3) \div 2
           lifted == Wrap(idleSwitch + Second)
<1>1. Second \in Nat \ {0} /\ Top \in Nat \ {0} /\ gap * 3 = 3 * gap  BY PlanAssumption
<1>2. Wrap(gap * 3) \in Int  BY WrapType
<1>3. d \in Int  BY <1>2
<1>4. lifted \in Int  BY <1>1, WrapType
<1>5. idleSwitch >= 0 => lifted = idleSwitch + Second
  BY <1>1, WrapKeeps
<1>6. 3 * gap < Top => d > gap
  <2> HAVE 3 * gap < Top
  <2>1. Wrap(3 * gap) = 3 * gap  BY WrapKeeps
  <2>2. (3 * gap) \div 2 > gap  OBVIOUS
  <2> QED  BY <1>1, <2>1, <2>2
<1> HIDE DEF d, lifted
<1>7. ClientIdleDeadline(gap, idleSwitch) = IF d <= idleSwitch THEN lifted ELSE d
  BY DEF ClientIdleDeadline, d, lifted
<1> QED  BY <1>1, <1>3, <1>4, <1>5, <1>6, <1>7

(* No gap makes good options bad, so a plan cannot keep Open from passing  *)
(* validateSwitchOptions, and what a gap that fits its width sets is past  *)
(* it, unless WithIdleDeadline was given: options.go, applyPlanDefaults.   *)
THEOREM PlanKeepsOptionsValid ==
    ASSUME NEW plan, NEW o \in AnyOptions, plan.gap \in Int \ {1},
           o.idleSwitch + Second < Top
    PROVE  /\ ValidSwitchOptions(o) => ValidSwitchOptions(ApplyPlanDefaults(plan, o))
           /\ plan.gap > 0 /\ 3 * plan.gap < Top /\ ~o.explicit =>
                ApplyPlanDefaults(plan, o).idleDead > plan.gap
<1> DEFINE d == ClientIdleDeadline(plan.gap, o.idleSwitch)
<1>1. CASE plan.gap > 0 /\ ~o.explicit
  <2>1. o.idleSwitch \in Int  BY DEF AnyOptions
  <2>2. /\ d \in Int
        /\ o.idleSwitch >= 0 => d > o.idleSwitch
        /\ 3 * plan.gap < Top => d > plan.gap
    BY <1>1, <2>1, DeadlineIsPastGap
  <2>3. ApplyPlanDefaults(plan, o) = [o EXCEPT !.idleDead = d]
    BY <1>1 DEF ApplyPlanDefaults
  <2> HIDE DEF d
  <2> DEFINE n == [o EXCEPT !.idleDead = d]
  <2>4. /\ n.idleDead = d /\ n.idleSwitch = o.idleSwitch /\ n.window = o.window
        /\ n.swallow = o.swallow /\ n.helloTimeout = o.helloTimeout
    BY DEF AnyOptions
  <2> HIDE DEF n
  <2>5. ValidSwitchOptions(o) => ValidSwitchOptions(n)
    BY <2>1, <2>2, <2>4 DEF ValidSwitchOptions
  <2> QED  BY <2>2, <2>3, <2>4, <2>5 DEF n
<1>2. CASE ~(plan.gap > 0 /\ ~o.explicit)
  BY <1>2 DEF ApplyPlanDefaults
<1> QED  BY <1>1, <1>2

-----------------------------------------------------------------------------
(* The addresses.                                                          *)

(* Every set of natural numbers that is not empty has a least one.         *)
LEMMA Least ==
    ASSUME NEW T, T \subseteq Nat, T # {}
    PROVE  \E x \in T : \A y \in T : x <= y
<1> DEFINE R == {ss \in Nat \X Nat : ss[1] < ss[2]}
<1>1. IsWellFoundedOn(R, Nat)  BY NatLessThanWellFounded, Zenon DEF OpToRel
<1> HIDE DEF R
<1>2. \E x \in T : \A y \in T : ~ (<<y, x>> \in R)  BY <1>1, WFMin, Zenon
<1>3. PICK x \in T : \A y \in T : ~ (<<y, x>> \in R)  BY <1>2
<1>4. ASSUME NEW y \in T PROVE x <= y
  <2>1. ~ (<<y, x>> \in R) /\ x \in Nat /\ y \in Nat  BY <1>3
  <2>2. y < x => <<y, x>> \in R  BY <2>1 DEF R
  <2> QED  BY <2>1, <2>2
<1> QED  BY <1>3, <1>4
LEMMA LeastOf ==
    ASSUME NEW n \in Nat, NEW T, T \subseteq 1 .. n, T # {}
    PROVE  /\ \E x \in T : \A y \in T : x =< y
           /\ \E x \in T : \A y \in T : x >= y
<1>1. \E x \in T : \A y \in T : x <= y
  <2>1. T \subseteq Nat  OBVIOUS
  <2> QED  BY <2>1, Least, Zenon
<1> DEFINE U == {n - x : x \in T}
<1>2. U \subseteq Nat /\ U # {}
  <2>1. ASSUME NEW x \in T PROVE n - x \in Nat  OBVIOUS
  <2>2. PICK x \in T : TRUE  OBVIOUS
  <2>3. n - x \in U  OBVIOUS
  <2> QED  BY <2>1, <2>3, Zenon
<1>3. PICK u \in U : \A y \in U : u <= y  BY <1>2, Least, Zenon
<1>4. PICK x \in T : u = n - x  BY <1>3
<1>5. ASSUME NEW y \in T PROVE x >= y
  <2>1. u <= n - y  BY <1>3
  <2>2. x \in Int /\ y \in Int  OBVIOUS
  <2> HIDE DEF U
  <2> QED  BY <1>4, <2>1, <2>2
<1> QED  BY <1>1, <1>5

(* A list has a last and a first place of every kind that it has.          *)
LEMMA MaxOf ==
    ASSUME NEW n \in Nat, NEW T, T \subseteq 1 .. n, T # {}
    PROVE  Max(T) \in T /\ Min(T) \in T
BY LeastOf, Zenon DEF Max, Min

(* A face's address is the one of a usable item, and an item that is       *)
(* usable gives its face.                                                  *)
LEMMA FacesOfItems ==
    ASSUME NEW items \in ItemLists
    PROVE  /\ \A t \in DOMAIN EndpointList(items) :
                 \E i \in DOMAIN items :
                    Usable(items[i]) /\ EndpointList(items)[t] = items[i].address
           /\ (\E i \in DOMAIN items : Usable(items[i])) => EndpointList(items) # NoFaces
<1> DEFINE ofFace(t) == {i \in DOMAIN items :
                            Usable(items[i]) /\ ParseTransport(items[i].transport) = {t}}
           faces == {t \in {"ws", "kcp", "udp"} : ofFace(t) # {}}
<1>1. EndpointList(items) = [t \in faces |-> items[Max(ofFace(t))].address]
  BY DEF EndpointList
<1>2. Len(items) \in Nat /\ DOMAIN items = 1 .. Len(items)  BY DEF ItemLists
<1>3. ASSUME NEW t \in faces PROVE Max(ofFace(t)) \in ofFace(t)
  <2>1. ofFace(t) \subseteq 1 .. Len(items) /\ ofFace(t) # {}  BY <1>2
  <2> HIDE DEF ofFace
  <2> QED  BY <1>2, <2>1, MaxOf
<1>4. ASSUME NEW i \in DOMAIN items, Usable(items[i]) PROVE \E t : t \in faces
  <2>1. PICK t \in {"ws", "kcp", "udp"} : ParseTransport(items[i].transport) = {t}
    BY <1>4 DEF Usable, ParseTransport
  <2>2. i \in ofFace(t)  BY <1>4, <2>1
  <2> QED  BY <2>2
<1>5. ASSUME NEW t \in faces
      PROVE  \E i \in DOMAIN items :
                Usable(items[i]) /\ EndpointList(items)[t] = items[i].address
  <2>1. EndpointList(items)[t] = items[Max(ofFace(t))].address  BY <1>1
  <2>2. Max(ofFace(t)) \in ofFace(t)  BY <1>3
  <2> QED  BY <2>1, <2>2
<1> HIDE DEF faces, ofFace
<1>6. DOMAIN EndpointList(items) = faces  BY <1>1
<1>7. DOMAIN NoFaces = {}  BY DEF NoFaces
<1> QED  BY <1>4, <1>5, <1>6, <1>7

LEMMA ReadField ==
    ASSUME NEW S, NEW field \in SUBSET S, NEW default \in S
    PROVE  The(field, default) \in S
BY DEF The

(* The faces of a ticket in a list of entries come from an entry that      *)
(* holds this ticket; if there are none, no such entry has a usable item.  *)
LEMMA FacesOfTicket ==
    ASSUME NEW field \in SUBSET Entries, NEW ticket
    PROVE  LET list == The(field, << >>)
               mine == {i \in DOMAIN list : ticket \in Decoded(The(list[i].ticket, NoText))}
           IN  /\ TicketEntriesOf(field, ticket) # NoFaces =>
                    \E i \in mine :
                       TicketEntriesOf(field, ticket) = EndpointItems(list[i].endpoints)
               /\ TicketEntriesOf(field, ticket) = NoFaces =>
                    \A i \in mine : EndpointItems(list[i].endpoints) = NoFaces
<1> DEFINE list == The(field, << >>)
           mine == {i \in DOMAIN list : ticket \in Decoded(The(list[i].ticket, NoText))}
           hits == {i \in DOMAIN list : TicketEntryOf(list[i], ticket) # NoFaces}
<1>1. list \in Entries
  <2>1. << >> \in Entries  BY DEF Entries
  <2> QED  BY <2>1, ReadField
<1> HIDE DEF list
<1>2. Len(list) \in Nat /\ DOMAIN list = 1 .. Len(list)  BY <1>1 DEF Entries
<1>3. TicketEntriesOf(field, ticket) =
         IF hits = {} THEN NoFaces ELSE TicketEntryOf(list[Min(hits)], ticket)
  BY DEF TicketEntriesOf, list
<1>4. hits # {} => Min(hits) \in hits
  <2>1. hits \subseteq 1 .. Len(list)  BY <1>2
  <2> HIDE DEF hits
  <2> QED  BY <1>2, <2>1, MaxOf
<1>5. \A i \in hits : i \in mine
                      /\ TicketEntryOf(list[i], ticket) = EndpointItems(list[i].endpoints)
  BY Zenon DEF TicketEntryOf
<1>6. \A i \in mine : TicketEntryOf(list[i], ticket) = EndpointItems(list[i].endpoints)
  <2> SUFFICES ASSUME NEW i \in mine
               PROVE  Decoded(The(list[i].ticket, NoText)) = {ticket}
    BY Zenon DEF TicketEntryOf
  <2> QED  BY DEF Decoded
<1>7. \A i \in mine : i \notin hits => EndpointItems(list[i].endpoints) = NoFaces
  BY <1>6
<1> HIDE DEF mine, hits
<1>8. CASE hits = {}  BY <1>3, <1>7, <1>8 DEF list, mine
<1>9. CASE hits # {}
  <2>1. /\ Min(hits) \in hits
        /\ TicketEntriesOf(field, ticket) = TicketEntryOf(list[Min(hits)], ticket)
    BY <1>3, <1>4, <1>9
  <2>2. TicketEntryOf(list[Min(hits)], ticket) # NoFaces  BY <2>1 DEF hits
  <2>3. Min(hits) \in mine
        /\ TicketEntriesOf(field, ticket) = EndpointItems(list[Min(hits)].endpoints)
    BY <1>5, <2>1
  <2> QED  BY <2>1, <2>2, <2>3 DEF list, mine
<1> QED  BY <1>8, <1>9

-----------------------------------------------------------------------------
(* The theorems about what Open makes of its arguments.                    *)

LEMMA AskIsAsked == OpenSpec => [](ask # NoAsk => ask \in Asks)
<1>1. OpenIInv => (ask # NoAsk => ask \in Asks)  BY DEF OpenIInv, PreInv
<1> QED  BY OpenInvariant, <1>1, PTL

(* A plan is made of the fields of one object of the push.                 *)
LEMMA PlanParts ==
    ASSUME NEW push \in AnyPush, NEW plan \in PlanFromPush(push)
    PROVE  LET f == NotifyObject(push)
           IN  /\ f \in Notifies
               /\ plan = [ticket |-> plan.ticket, endpoints |-> plan.endpoints,
                          gap |-> plan.gap]
               /\ plan.ticket \in Seq(Nat)
               /\ plan.endpoints = ResolveEndpoints(f, plan.ticket)
               /\ plan.gap = GapOf(f)
<1> DEFINE f == NotifyObject(push)
<1>1. f \in Notifies
  <2>1. push.fields \in Notifies /\ push.inner \in SUBSET Notifies  BY DEF AnyPush
  <2> QED  BY <2>1, ReadField DEF NotifyObject
<1> HIDE DEF f
<1>2. PICK t \in NotifyTicket(f) :
         plan = [ticket |-> t, endpoints |-> ResolveEndpoints(f, t), gap |-> GapOf(f)]
  BY DEF PlanFromPush, f
<1>3. t \in Seq(Nat)
  <2>1. f.ticket \subseteq Texts  BY <1>1 DEF Notifies
  <2> QED  BY <2>1 DEF NotifyTicket, Decoded, Texts
<1> QED  BY <1>1, <1>2, <1>3 DEF f

(* The parameters of a session are those of a plan and of the options.     *)
LEMMA ParamsParts ==
    ASSUME NEW a, NEW p \in Params(a)
    PROVE  \E plan \in PlanFromPush(a.push) :
              \E k \in DOMAIN plan.endpoints :
                 p = [kind |-> k, addr |-> plan.endpoints[k], ticket |-> plan.ticket,
                      opt |-> OptionsOf(plan, a.given)]
<1>1. PICK plan \in PlanFromPush(a.push) :
         \E k \in Pick(plan, OptionsOf(plan, a.given).transport) :
            p = [kind |-> k, addr |-> plan.endpoints[k], ticket |-> plan.ticket,
                 opt |-> OptionsOf(plan, a.given)]
  BY Zenon DEF Params, Opening
<1>2. ASSUME NEW want, NEW k \in Pick(plan, want) PROVE k \in DOMAIN plan.endpoints
  BY DEF Pick
<1> QED  BY <1>1, <1>2

(* The edge reads the ticket of a hello, or, beyond its limit, none:       *)
(* EncodeHello and DecodeHello.                                            *)
THEOREM HelloReadsBack == OpenSpec => []HelloIsWhole
<1>1. (ask # NoAsk => ask \in Asks) => HelloIsWhole
  <2> SUFFICES ASSUME ask \in Asks, NEW p \in Params(ask), Len(p.ticket) < Byte * Byte
               PROVE  DecodeHello(EncodeHello(p.ticket)) =
                         IF Len(p.ticket) <= MaxTicketLen
                         THEN {[ticket |-> p.ticket, rest |-> << >>]} ELSE {}
    BY DEF HelloIsWhole
  <2> DEFINE t == p.ticket
  <2>1. t \in Seq(Nat)
    <3>1. ask.push \in AnyPush  BY OpenAssumption
    <3> QED  BY <3>1, ParamsParts, PlanParts
  <2> HIDE DEF t
  <2>2. Len(t) < Byte * Byte  BY DEF t
  <2>3. EncodeHello(t) \in Seq(Nat)  BY <2>1, <2>2, EncodedParts
  <2>4. EncodeHello(t) \o << >> = EncodeHello(t)  BY <2>3
  <2>5. << >> \in Seq(Nat)  OBVIOUS
  <2>6. DecodeHello(EncodeHello(t) \o << >>) =
           IF Len(t) <= MaxTicketLen THEN {[ticket |-> t, rest |-> << >>]} ELSE {}
    BY <2>1, <2>2, <2>5, EncodedIsDecoded
  <2> QED  BY <2>4, <2>6 DEF t
<1> QED  BY AskIsAsked, <1>1, PTL

(* A gap never makes Open refuse options that are fine without it, and the *)
(* session waits longer than the gap, unless the application chose T2:     *)
(* applyPlanDefaults and validateSwitchOptions.                            *)
THEOREM GapsAreOutlasted == OpenSpec => []GapIsOutlasted
<1>1. (ask # NoAsk => ask \in Asks) => GapIsOutlasted
  <2> SUFFICES ASSUME ask \in Asks, NEW plan \in PlanFromPush(ask.push)
               PROVE  LET bare == OptionsOf([plan EXCEPT !.gap = 0], ask.given)
                          o    == OptionsOf(plan, ask.given)
                      IN  /\ ValidSwitchOptions(bare) => ValidSwitchOptions(o)
                          /\ plan.gap \in 1 .. (Top - 1) \div 3 /\ ~o.explicit =>
                                o.idleDead > plan.gap
    BY DEF GapIsOutlasted
  <2> DEFINE t == Told(ask.given)
             none == [plan EXCEPT !.gap = 0]
             o == ApplyPlanDefaults(plan, t)
  <2>1. ask.push \in AnyPush /\ t \in AnyOptions /\ t.idleSwitch + Second < Top
    BY OpenAssumption
  <2> HIDE DEF t
  <2>2. plan.gap \in Int /\ plan.gap # 1 /\ none.gap = 0
    <3>1. NotifyObject(ask.push).gap \subseteq Int
      BY <2>1, PlanParts DEF Notifies
    <3>2. plan.gap = GapOf(NotifyObject(ask.push))  BY <2>1, PlanParts
    <3>3. plan = [ticket |-> plan.ticket, endpoints |-> plan.endpoints, gap |-> plan.gap]
      BY <2>1, PlanParts
    <3> QED  BY <3>1, <3>2, <3>3, GapIsEven
  <2>3. ApplyPlanDefaults(none, t) = t
    <3> HIDE DEF none
    <3> QED  BY <2>2 DEF ApplyPlanDefaults
  <2>4. /\ ValidSwitchOptions(t) => ValidSwitchOptions(o)
        /\ plan.gap > 0 /\ 3 * plan.gap < Top /\ ~t.explicit => o.idleDead > plan.gap
    BY <2>1, <2>2, PlanKeepsOptionsValid
  <2>5. o.explicit = t.explicit
    BY <2>1 DEF ApplyPlanDefaults, AnyOptions
  <2>6. plan.gap \in 1 .. (Top - 1) \div 3 => plan.gap > 0 /\ 3 * plan.gap < Top
    BY <2>2, PlanAssumption
  <2> HIDE DEF o, none
  <2>7. /\ OptionsOf(none, ask.given) = t
        /\ OptionsOf(plan, ask.given) = o
    BY <2>3 DEF OptionsOf, t, o
  <2> QED  BY <2>4, <2>5, <2>6, <2>7 DEF none
<1> QED  BY AskIsAsked, <1>1, PTL

(* What an item list of the model and OwnInstance have in common.          *)
LEMMA FaceAddresses ==
    ASSUME NEW field \in SUBSET ItemLists
    PROVE  /\ \A t \in DOMAIN EndpointItems(field) :
                 EndpointItems(field)[t] \in Addresses(The(field, << >>))
           /\ EndpointItems(field) = NoFaces => Addresses(The(field, << >>)) = {}
<1> DEFINE items == The(field, << >>)
<1>1. items \in ItemLists
  <2>1. << >> \in ItemLists  BY DEF ItemLists
  <2> QED  BY <2>1, ReadField
<1>2. EndpointItems(field) = EndpointList(items)  BY DEF EndpointItems
<1> HIDE DEF items
<1>3. Addresses(items) = {items[i].address : i \in {i \in DOMAIN items : Usable(items[i])}}
  BY DEF Addresses, Range
<1> QED  BY <1>1, <1>2, <1>3, FacesOfItems DEF items

(* The faces that a list of entries gives a ticket are among the player's  *)
(* own addresses; if it gives none there are none in it.                   *)
OwnIn(field, ticket) ==
    UNION {Addresses(The(entry.endpoints, << >>)) :
              entry \in {n \in Range(The(field, << >>)) :
                            ticket \in Decoded(The(n.ticket, NoText))}}

LEMMA OwnFaces ==
    ASSUME NEW field \in SUBSET Entries, NEW ticket
    PROVE  /\ TicketEntriesOf(field, ticket) # NoFaces =>
                \A t \in DOMAIN TicketEntriesOf(field, ticket) :
                   TicketEntriesOf(field, ticket)[t] \in OwnIn(field, ticket)
           /\ TicketEntriesOf(field, ticket) = NoFaces => OwnIn(field, ticket) = {}
<1> DEFINE list == The(field, << >>)
           mine == {i \in DOMAIN list : ticket \in Decoded(The(list[i].ticket, NoText))}
           faces == TicketEntriesOf(field, ticket)
<1>1. list \in Entries
  <2>1. << >> \in Entries  BY DEF Entries
  <2> QED  BY <2>1, ReadField
<1>2. /\ faces # NoFaces => \E i \in mine : faces = EndpointItems(list[i].endpoints)
      /\ faces = NoFaces => \A i \in mine : EndpointItems(list[i].endpoints) = NoFaces
  BY FacesOfTicket
<1>3. OwnIn(field, ticket) = UNION {Addresses(The(list[i].endpoints, << >>)) : i \in mine}
  BY DEF OwnIn, Range
<1> HIDE DEF list, faces
<1>4. \A i \in mine : list[i].endpoints \in SUBSET ItemLists
  <2> DEFINE S == [ticket : SUBSET Texts, endpoints : SUBSET ItemLists]
  <2>0. list \in Seq(S)  BY <1>1 DEF Entries
  <2> HIDE DEF S
  <2>1. \A i \in DOMAIN list : list[i] \in S  BY <2>0
  <2> USE DEF S
  <2>2. \A i \in DOMAIN list : list[i].endpoints \in SUBSET ItemLists  BY <2>1
  <2> QED  BY <2>2
<1> HIDE DEF mine
<1>5. \A i \in mine :
         /\ \A t \in DOMAIN EndpointItems(list[i].endpoints) :
               EndpointItems(list[i].endpoints)[t] \in Addresses(The(list[i].endpoints, << >>))
         /\ EndpointItems(list[i].endpoints) = NoFaces =>
               Addresses(The(list[i].endpoints, << >>)) = {}
  BY <1>4, FaceAddresses
<1>6. faces # NoFaces => \A t \in DOMAIN faces : faces[t] \in OwnIn(field, ticket)
  <2> SUFFICES ASSUME faces # NoFaces, NEW t \in DOMAIN faces
               PROVE  faces[t] \in OwnIn(field, ticket)
    OBVIOUS
  <2>1. PICK i \in mine : faces = EndpointItems(list[i].endpoints)  BY <1>2
  <2>2. faces[t] \in Addresses(The(list[i].endpoints, << >>))  BY <1>5, <2>1
  <2> QED  BY <1>3, <2>2
<1>7. faces = NoFaces => OwnIn(field, ticket) = {}
  BY <1>2, <1>3, <1>5
<1> QED  BY <1>6, <1>7 DEF faces

(* The address dialled is one of the player's own instance if the push     *)
(* names any for the ticket that it gives the player, else one of the      *)
(* event's: resolveEndpoints and ticketEntryOf.                            *)
THEOREM InstanceIsOwn == OpenSpec => []OwnInstance
<1>1. (ask # NoAsk => ask \in Asks) => OwnInstance
  <2> SUFFICES ASSUME ask \in Asks, NEW p \in Params(ask)
               PROVE  LET f   == NotifyObject(ask.push)
                          own == OwnAddresses(f, p.ticket)
                      IN  p.addr \in IF own # {} THEN own ELSE Addresses(The(f.endpoints, << >>))
    BY DEF OwnInstance
  <2> DEFINE f   == NotifyObject(ask.push)
             own == OwnAddresses(f, p.ticket)
             of(field) == TicketEntriesOf(field, p.ticket)
  <2>1. ask.push \in AnyPush  BY OpenAssumption
  <2>2. PICK plan \in PlanFromPush(ask.push) :
           \E k \in DOMAIN plan.endpoints :
              p = [kind |-> k, addr |-> plan.endpoints[k], ticket |-> plan.ticket,
                   opt |-> OptionsOf(plan, ask.given)]
    BY ParamsParts
  <2>3. f \in Notifies /\ plan.endpoints = ResolveEndpoints(f, plan.ticket)
    BY <2>1, PlanParts
  <2>4. PICK k \in DOMAIN ResolveEndpoints(f, p.ticket) :
           p.addr = ResolveEndpoints(f, p.ticket)[k]
    BY <2>2, <2>3
  <2> HIDE DEF f
  <2>5. /\ f.tickets \in SUBSET Entries /\ f.battleTickets \in SUBSET Entries
        /\ f.endpoints \in SUBSET ItemLists
    BY <2>3 DEF Notifies
  <2>6. own = OwnIn(f.tickets, p.ticket) \union OwnIn(f.battleTickets, p.ticket)
    BY DEF OwnAddresses, OwnIn
  <2> HIDE DEF own
  <2>7. ASSUME NEW field \in {f.tickets, f.battleTickets}
        PROVE  /\ of(field) # NoFaces =>
                     \A t \in DOMAIN of(field) : of(field)[t] \in OwnIn(field, p.ticket)
               /\ of(field) = NoFaces => OwnIn(field, p.ticket) = {}
    BY <2>5, OwnFaces
  <2>8. CASE of(f.tickets) # NoFaces
    <3>1. ResolveEndpoints(f, p.ticket) = of(f.tickets)
      BY <2>8 DEF ResolveEndpoints, TicketEntryEndpoints
    <3>2. p.addr \in own  BY <2>4, <2>6, <2>7, <2>8, <3>1
    <3> QED  BY <3>2 DEF own, f
  <2>9. CASE of(f.tickets) = NoFaces /\ of(f.battleTickets) # NoFaces
    <3>1. ResolveEndpoints(f, p.ticket) = of(f.battleTickets)
      BY <2>9 DEF ResolveEndpoints, TicketEntryEndpoints
    <3>2. p.addr \in own  BY <2>4, <2>6, <2>7, <2>9, <3>1
    <3> QED  BY <3>2 DEF own, f
  <2>10. CASE of(f.tickets) = NoFaces /\ of(f.battleTickets) = NoFaces
    <3>1. ResolveEndpoints(f, p.ticket) = EndpointItems(f.endpoints)
      BY <2>10 DEF ResolveEndpoints, TicketEntryEndpoints
    <3>2. own = {}  BY <2>6, <2>7, <2>10
    <3>3. p.addr \in Addresses(The(f.endpoints, << >>))
      BY <2>4, <2>5, <3>1, FaceAddresses
    <3> QED  BY <3>2, <3>3 DEF own, f
  <2> QED  BY <2>8, <2>9, <2>10
<1> QED  BY AskIsAsked, <1>1, PTL
=============================================================================
