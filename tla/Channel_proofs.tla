--------------------------- MODULE Channel_proofs ---------------------------
(***************************************************************************)
(* Machine-checked facts about Channel, for every set of requests and of   *)
(* closers, every queue size and every number of generations.              *)
(***************************************************************************)
EXTENDS ChannelInvariant, TLAPS

-----------------------------------------------------------------------------
(* Type correctness.                                                       *)

LEMMA TypeInit == Init => TypeOK
<1> SUFFICES ASSUME Init PROVE TypeOK
  OBVIOUS
<1> USE ChannelAssumption DEF Init, Gens, Results, GenMuHolders
<1>1. FlagsOK  BY DEF FlagsOK
<1>2. ConnectionOK  BY DEF ConnectionOK
<1>3. QueueOK /\ CallOK /\ FrameOK  BY DEF QueueOK, CallOK, FrameOK
<1> QED  BY <1>1, <1>2, <1>3 DEF TypeOK

LEMMA FlagsNext == FlagsOK /\ [Next]_vars => FlagsOK'
<1> SUFFICES ASSUME FlagsOK, [Next]_vars PROVE FlagsOK'
  OBVIOUS
<1> USE DEF FlagsOK, chanVars, supVars, queueVars, reqVars
<1>1. ASSUME NEW r \in Requests, Invoke(r) PROVE FlagsOK'
  BY <1>1 DEF Invoke, Return
<1>2. ASSUME NEW r \in Requests, Gate(r) PROVE FlagsOK'
  BY <1>2 DEF Gate, Return
<1>3. ASSUME NEW r \in Requests, NEW res, Finish(r, res) PROVE FlagsOK'
  BY <1>3 DEF Finish, Return
<1>4. ASSUME NEW r \in Requests, CheckState(r) PROVE FlagsOK'
  <2>1. CASE Finish(r, "net")
    BY <1>3, <2>1
  <2>2. CASE ~(Finish(r, "net"))
    BY <1>4, <2>2 DEF CheckState, Step
  <2> QED  BY <2>1, <2>2
<1>5. ASSUME NEW r \in Requests, Snapshot(r) PROVE FlagsOK'
  <2>1. CASE Finish(r, "net") \/ Finish(r, "proto")
    BY <1>3, <2>1
  <2>2. CASE ~(Finish(r, "net") \/ Finish(r, "proto"))
    BY <1>5, <2>2 DEF Snapshot, Step
  <2> QED  BY <2>1, <2>2
<1>6. ASSUME NEW r \in Requests, Register(r) PROVE FlagsOK'
  BY <1>6 DEF Register, Step
<1>7. ASSUME NEW r \in Requests, WriteFrame(r) PROVE FlagsOK'
  <2>1. CASE Finish(r, "net")
    BY <1>3, <2>1
  <2>2. CASE ~(Finish(r, "net"))
    BY <1>7, <2>2 DEF WriteFrame, Step
  <2> QED  BY <2>1, <2>2
<1>8. ASSUME NEW r \in Requests, Await(r) PROVE FlagsOK'
  <2>1. PICK res : Finish(r, res)
    BY <1>8 DEF Await
  <2> QED  BY <1>3, <2>1
<1>9. ASSUME NEW r \in Requests, AwaitQueued(r) PROVE FlagsOK'
  BY <1>9 DEF AwaitQueued, Return, Claim
<1>10. ASSUME NEW r \in Requests, Timer(r) PROVE FlagsOK'
  BY <1>10 DEF Timer, Timeout, QueueDeadline, Claim
<1>11. ASSUME NEW r \in Requests, CancelCtx(r) PROVE FlagsOK'
  BY <1>11 DEF CancelCtx
<1>12. ASSUME NEW e \in Gens, ReaderStep(e) PROVE FlagsOK'
  <2>1. CASE ReadExit(e)  BY <2>1 DEF ReadExit
  <2>2. CASE FailInflight(e)
    BY <2>2 DEF FailInflight, SettleInflight
  <2>3. CASE Terminate(e)  BY <2>3 DEF Terminate, ShutCurrent
  <2>4. CASE TerminateState(e)  BY <2>4 DEF TerminateState
  <2> QED  BY <1>12, <2>1, <2>2, <2>3, <2>4 DEF ReaderStep
<1>13. ASSUME NEW e \in Gens, ConnLost(e) \/ HeartbeatDead(e) PROVE FlagsOK'
  BY <1>13 DEF ConnLost, HeartbeatDead
<1>14. ASSUME NEW e \in Gens, NEW r \in Requests, Response(e, r) PROVE FlagsOK'
  BY <1>14 DEF Response
<1>15. ASSUME SupStep PROVE FlagsOK'
  <2> USE DEF SupMove
  <2>1. CASE SupStart \/ SupMark \/ SupTimer \/ SupInterrupted \/ SupDialFail
    BY <2>1 DEF SupStart, SupMark, SupTimer, SupInterrupted, SupDialFail
  <2>2. CASE SupWatch  BY <2>2 DEF SupWatch
  <2>3. CASE SupAdopt  BY <2>3 DEF SupAdopt, NextEpoch
  <2>4. CASE SupAdopted  BY <2>4 DEF SupAdopted, Settle
  <2>5. CASE HookStart \/ HookOK \/ HookFail
    BY <2>5 DEF HookStart, HookOK, HookFail, ShutCurrent
  <2>6. CASE SupLock \/ SupStore \/ DrainDone \/ SupGiveUp
    BY <2>6 DEF SupLock, SupStore, DrainDone, SupGiveUp
  <2>7. CASE Drain  BY <2>7 DEF Drain
  <2> QED  BY <1>15, <2>1, <2>2, <2>3, <2>4, <2>5, <2>6, <2>7 DEF SupStep
<1>16. ASSUME NEW c \in Closers, CloseBegin(c) \/ CloserStep(c) PROVE FlagsOK'
  BY <1>16 DEF CloseBegin, CloserStep, CloseWaited, CloseInflight, CloseQueued,
               ShutCurrent, SettleInflight
<1>17. CASE Done \/ UNCHANGED vars
  BY <1>17 DEF Done, vars
<1> QED
  BY <1>1, <1>2, <1>4, <1>5, <1>6, <1>7, <1>8, <1>9, <1>10, <1>11, <1>12,
     <1>13, <1>14, <1>15, <1>16, <1>17 DEF Next, RequestStep

LEMMA ConnectionNext == ConnectionOK /\ [Next]_vars => ConnectionOK'
<1> SUFFICES ASSUME ConnectionOK, [Next]_vars PROVE ConnectionOK'
  OBVIOUS
<1> USE ChannelAssumption
    DEF ConnectionOK, Gens, GenMuHolders, chanVars, supVars, queueVars, reqVars
<1>1. ASSUME NEW r \in Requests, Invoke(r) PROVE ConnectionOK'
  BY <1>1 DEF Invoke, Return
<1>2. ASSUME NEW r \in Requests, Gate(r) PROVE ConnectionOK'
  BY <1>2 DEF Gate, Return
<1>3. ASSUME NEW r \in Requests, NEW res, Finish(r, res) PROVE ConnectionOK'
  BY <1>3 DEF Finish, Return
<1>4. ASSUME NEW r \in Requests, CheckState(r) PROVE ConnectionOK'
  <2>1. CASE Finish(r, "net")
    BY <1>3, <2>1
  <2>2. CASE ~(Finish(r, "net"))
    BY <1>4, <2>2 DEF CheckState, Step
  <2> QED  BY <2>1, <2>2
<1>5. ASSUME NEW r \in Requests, Snapshot(r) PROVE ConnectionOK'
  <2>1. CASE Finish(r, "net") \/ Finish(r, "proto")
    BY <1>3, <2>1
  <2>2. CASE ~(Finish(r, "net") \/ Finish(r, "proto"))
    BY <1>5, <2>2 DEF Snapshot, Step
  <2> QED  BY <2>1, <2>2
<1>6. ASSUME NEW r \in Requests, Register(r) PROVE ConnectionOK'
  BY <1>6 DEF Register, Step
<1>7. ASSUME NEW r \in Requests, WriteFrame(r) PROVE ConnectionOK'
  <2>1. CASE Finish(r, "net")
    BY <1>3, <2>1
  <2>2. CASE ~(Finish(r, "net"))
    BY <1>7, <2>2 DEF WriteFrame, Step
  <2> QED  BY <2>1, <2>2
<1>8. ASSUME NEW r \in Requests, Await(r) PROVE ConnectionOK'
  <2>1. PICK res : Finish(r, res)
    BY <1>8 DEF Await
  <2> QED  BY <1>3, <2>1
<1>9. ASSUME NEW r \in Requests, AwaitQueued(r) PROVE ConnectionOK'
  BY <1>9 DEF AwaitQueued, Return, Claim
<1>10. ASSUME NEW r \in Requests, Timer(r) PROVE ConnectionOK'
  BY <1>10 DEF Timer, Timeout, QueueDeadline, Claim
<1>11. ASSUME NEW r \in Requests, CancelCtx(r) PROVE ConnectionOK'
  BY <1>11 DEF CancelCtx
<1>12. ASSUME NEW e \in Gens, ReaderStep(e) PROVE ConnectionOK'
  <2>1. CASE ReadExit(e)  BY <2>1 DEF ReadExit
  <2>2. CASE FailInflight(e)
    BY <2>2 DEF FailInflight, SettleInflight
  <2>3. CASE Terminate(e)  BY <2>3 DEF Terminate, ShutCurrent
  <2>4. CASE TerminateState(e)  BY <2>4 DEF TerminateState
  <2> QED  BY <1>12, <2>1, <2>2, <2>3, <2>4 DEF ReaderStep
<1>13. ASSUME NEW e \in Gens, ConnLost(e) \/ HeartbeatDead(e) PROVE ConnectionOK'
  BY <1>13 DEF ConnLost, HeartbeatDead
<1>14. ASSUME NEW e \in Gens, NEW r \in Requests, Response(e, r) PROVE ConnectionOK'
  BY <1>14 DEF Response
<1>15. ASSUME SupStep PROVE ConnectionOK'
  <2> USE DEF SupMove
  <2>1. CASE SupStart \/ SupMark \/ SupTimer \/ SupInterrupted \/ SupDialFail
    BY <2>1 DEF SupStart, SupMark, SupTimer, SupInterrupted, SupDialFail
  <2>2. CASE SupWatch  BY <2>2 DEF SupWatch
  <2>3. CASE SupAdopt
    <3>1. CASE UNCHANGED <<chanVars, hookOK, closer>> /\ sup' = "giveup"
      BY <2>3, <3>1
    <3>2. CASE gen < MaxGen /\ gen' = gen + 1
      <4>1. gen + 1 \in Gens
        BY <3>2
      <4> QED  BY <2>3, <3>2, <4>1 DEF SupAdopt, NextEpoch
    <3> QED  BY <2>3, <3>1, <3>2 DEF SupAdopt, NextEpoch
  <2>4. CASE SupAdopted  BY <2>4 DEF SupAdopted, Settle
  <2>5. CASE HookStart \/ HookOK \/ HookFail
    BY <2>5 DEF HookStart, HookOK, HookFail, ShutCurrent
  <2>6. CASE SupLock \/ SupStore \/ DrainDone \/ SupGiveUp
    BY <2>6 DEF SupLock, SupStore, DrainDone, SupGiveUp
  <2>7. CASE Drain  BY <2>7 DEF Drain
  <2> QED  BY <1>15, <2>1, <2>2, <2>3, <2>4, <2>5, <2>6, <2>7 DEF SupStep
<1>16. ASSUME NEW c \in Closers, CloseBegin(c) \/ CloserStep(c) PROVE ConnectionOK'
  BY <1>16 DEF CloseBegin, CloserStep, CloseWaited, CloseInflight, CloseQueued,
               ShutCurrent, SettleInflight
<1>17. CASE Done \/ UNCHANGED vars
  BY <1>17 DEF Done, vars
<1> QED
  BY <1>1, <1>2, <1>4, <1>5, <1>6, <1>7, <1>8, <1>9, <1>10, <1>11, <1>12,
     <1>13, <1>14, <1>15, <1>16, <1>17 DEF Next, RequestStep

LEMMA QueueNext == QueueOK /\ FrameOK /\ [Next]_vars => QueueOK'
<1> SUFFICES ASSUME QueueOK, FrameOK, [Next]_vars PROVE QueueOK'
  OBVIOUS
<1> USE DEF QueueOK, Results, chanVars, supVars, queueVars, reqVars
<1>1. ASSUME NEW r \in Requests, Invoke(r) PROVE QueueOK'
  BY <1>1 DEF Invoke, Return
<1>2. ASSUME NEW r \in Requests, Gate(r) PROVE QueueOK'
  <2>1. Append(queue, r) \in Seq(Requests)
    OBVIOUS
  <2> QED  BY <1>2, <2>1 DEF Gate, Return
<1>3. ASSUME NEW r \in Requests, NEW res \in Results, Finish(r, res) PROVE QueueOK'
  BY <1>3 DEF Finish, Return
<1>4. ASSUME NEW r \in Requests, CheckState(r) PROVE QueueOK'
  <2>1. CASE Finish(r, "net")
    BY <1>3, <2>1 DEF Results
  <2>2. CASE ~(Finish(r, "net"))
    BY <1>4, <2>2 DEF CheckState, Step
  <2> QED  BY <2>1, <2>2
<1>5. ASSUME NEW r \in Requests, Snapshot(r) PROVE QueueOK'
  <2>1. CASE Finish(r, "net") \/ Finish(r, "proto")
    BY <1>3, <2>1 DEF Results
  <2>2. CASE ~(Finish(r, "net") \/ Finish(r, "proto"))
    BY <1>5, <2>2 DEF Snapshot, Step
  <2> QED  BY <2>1, <2>2
<1>6. ASSUME NEW r \in Requests, Register(r) PROVE QueueOK'
  BY <1>6 DEF Register, Step
<1>7. ASSUME NEW r \in Requests, WriteFrame(r) PROVE QueueOK'
  <2>1. CASE Finish(r, "net")
    BY <1>3, <2>1 DEF Results
  <2>2. CASE ~(Finish(r, "net"))
    BY <1>7, <2>2 DEF WriteFrame, Step
  <2> QED  BY <2>1, <2>2
<1>8. ASSUME NEW r \in Requests, Await(r) PROVE QueueOK'
  <2>1. PICK res \in Results : Finish(r, res)
    BY <1>8 DEF Await, FrameOK
  <2> QED  BY <1>3, <2>1
<1>9. ASSUME NEW r \in Requests, AwaitQueued(r) PROVE QueueOK'
  BY <1>9 DEF AwaitQueued, Return, Claim
<1>10. ASSUME NEW r \in Requests, Timer(r) PROVE QueueOK'
  BY <1>10 DEF Timer, Timeout, QueueDeadline, Claim
<1>11. ASSUME NEW r \in Requests, CancelCtx(r) PROVE QueueOK'
  BY <1>11 DEF CancelCtx
<1>12. ASSUME NEW e \in Gens, ReaderStep(e) PROVE QueueOK'
  <2>1. CASE ReadExit(e)  BY <2>1 DEF ReadExit
  <2>2. CASE FailInflight(e)
    BY <2>2 DEF FailInflight, SettleInflight
  <2>3. CASE Terminate(e)  BY <2>3 DEF Terminate, ShutCurrent
  <2>4. CASE TerminateState(e)  BY <2>4 DEF TerminateState
  <2> QED  BY <1>12, <2>1, <2>2, <2>3, <2>4 DEF ReaderStep
<1>13. ASSUME NEW e \in Gens, ConnLost(e) \/ HeartbeatDead(e) PROVE QueueOK'
  BY <1>13 DEF ConnLost, HeartbeatDead
<1>14. ASSUME NEW e \in Gens, NEW r \in Requests, Response(e, r) PROVE QueueOK'
  BY <1>14 DEF Response
<1>15. ASSUME SupStep PROVE QueueOK'
  <2> USE DEF SupMove
  <2>1. CASE SupStart \/ SupMark \/ SupTimer \/ SupInterrupted \/ SupDialFail
    BY <2>1 DEF SupStart, SupMark, SupTimer, SupInterrupted, SupDialFail
  <2>2. CASE SupWatch  BY <2>2 DEF SupWatch
  <2>3. CASE SupAdopt  BY <2>3 DEF SupAdopt, NextEpoch
  <2>4. CASE SupAdopted  BY <2>4 DEF SupAdopted, Settle
  <2>5. CASE HookStart \/ HookOK \/ HookFail
    BY <2>5 DEF HookStart, HookOK, HookFail, ShutCurrent
  <2>6. CASE SupLock \/ SupStore \/ DrainDone \/ SupGiveUp
    BY <2>6 DEF SupLock, SupStore, DrainDone, SupGiveUp
  <2>7. CASE Drain
    <3>1. queue \in Seq(Requests) /\ queue # <<>>
      BY <2>7 DEF Drain
    <3>2. Head(queue) \in Requests /\ Tail(queue) \in Seq(Requests)
      BY <3>1
    <3> QED  BY <2>7, <3>2 DEF Drain, Claim
  <2> QED  BY <1>15, <2>1, <2>2, <2>3, <2>4, <2>5, <2>6, <2>7 DEF SupStep
<1>16. ASSUME NEW c \in Closers, CloseBegin(c) \/ CloserStep(c) PROVE QueueOK'
  <2>1. CASE CloseBegin(c) \/ CloseWaited(c) \/ CloseInflight(c)
    BY <2>1 DEF CloseBegin, CloseWaited, CloseInflight
  <2>2. CASE CloseQueued(c)
    <3>1. <<>> \in Seq(Requests)
      OBVIOUS
    <3> QED  BY <2>2, <3>1 DEF CloseQueued
  <2> QED  BY <1>16, <2>1, <2>2 DEF CloserStep
<1>17. CASE Done \/ UNCHANGED vars
  BY <1>17 DEF Done, vars
<1> QED
  BY <1>1, <1>2, <1>4, <1>5, <1>6, <1>7, <1>8, <1>9, <1>10, <1>11, <1>12,
     <1>13, <1>14, <1>15, <1>16, <1>17 DEF Next, RequestStep

LEMMA CallNext == CallOK /\ QueueOK /\ FrameOK /\ [Next]_vars => CallOK'
<1> SUFFICES ASSUME CallOK, QueueOK, FrameOK, [Next]_vars PROVE CallOK'
  OBVIOUS
<1> USE DEF CallOK, Results, chanVars, supVars, queueVars, reqVars
<1>1. ASSUME NEW r \in Requests, Invoke(r) PROVE CallOK'
  BY <1>1 DEF Invoke, Return
<1>2. ASSUME NEW r \in Requests, Gate(r) PROVE CallOK'
  BY <1>2 DEF Gate, Return
<1>3. ASSUME NEW r \in Requests, NEW res \in Results, Finish(r, res) PROVE CallOK'
  BY <1>3 DEF Finish, Return
<1>4. ASSUME NEW r \in Requests, CheckState(r) PROVE CallOK'
  <2>1. CASE Finish(r, "net")
    BY <1>3, <2>1 DEF Results
  <2>2. CASE ~(Finish(r, "net"))
    BY <1>4, <2>2 DEF CheckState, Step
  <2> QED  BY <2>1, <2>2
<1>5. ASSUME NEW r \in Requests, Snapshot(r) PROVE CallOK'
  <2>1. CASE Finish(r, "net") \/ Finish(r, "proto")
    BY <1>3, <2>1 DEF Results
  <2>2. CASE ~(Finish(r, "net") \/ Finish(r, "proto"))
    BY <1>5, <2>2 DEF Snapshot, Step
  <2> QED  BY <2>1, <2>2
<1>6. ASSUME NEW r \in Requests, Register(r) PROVE CallOK'
  BY <1>6 DEF Register, Step
<1>7. ASSUME NEW r \in Requests, WriteFrame(r) PROVE CallOK'
  <2>1. CASE Finish(r, "net")
    BY <1>3, <2>1 DEF Results
  <2>2. CASE ~(Finish(r, "net"))
    BY <1>7, <2>2 DEF WriteFrame, Step
  <2> QED  BY <2>1, <2>2
<1>8. ASSUME NEW r \in Requests, Await(r) PROVE CallOK'
  <2>1. PICK res \in Results : Finish(r, res)
    BY <1>8 DEF Await, FrameOK
  <2> QED  BY <1>3, <2>1
<1>9. ASSUME NEW r \in Requests, AwaitQueued(r) PROVE CallOK'
  BY <1>9 DEF AwaitQueued, Return, Claim, QueueOK
<1>10. ASSUME NEW r \in Requests, Timer(r) PROVE CallOK'
  BY <1>10 DEF Timer, Timeout, QueueDeadline, Claim
<1>11. ASSUME NEW r \in Requests, CancelCtx(r) PROVE CallOK'
  BY <1>11 DEF CancelCtx
<1>12. ASSUME NEW e \in Gens, ReaderStep(e) PROVE CallOK'
  <2>1. CASE ReadExit(e)  BY <2>1 DEF ReadExit
  <2>2. CASE FailInflight(e)
    BY <2>2 DEF FailInflight, SettleInflight
  <2>3. CASE Terminate(e)  BY <2>3 DEF Terminate, ShutCurrent
  <2>4. CASE TerminateState(e)  BY <2>4 DEF TerminateState
  <2> QED  BY <1>12, <2>1, <2>2, <2>3, <2>4 DEF ReaderStep
<1>13. ASSUME NEW e \in Gens, ConnLost(e) \/ HeartbeatDead(e) PROVE CallOK'
  BY <1>13 DEF ConnLost, HeartbeatDead
<1>14. ASSUME NEW e \in Gens, NEW r \in Requests, Response(e, r) PROVE CallOK'
  BY <1>14 DEF Response
<1>15. ASSUME SupStep PROVE CallOK'
  <2> USE DEF SupMove
  <2>1. CASE SupStart \/ SupMark \/ SupTimer \/ SupInterrupted \/ SupDialFail
    BY <2>1 DEF SupStart, SupMark, SupTimer, SupInterrupted, SupDialFail
  <2>2. CASE SupWatch  BY <2>2 DEF SupWatch
  <2>3. CASE SupAdopt  BY <2>3 DEF SupAdopt, NextEpoch
  <2>4. CASE SupAdopted  BY <2>4 DEF SupAdopted, Settle
  <2>5. CASE HookStart \/ HookOK \/ HookFail
    BY <2>5 DEF HookStart, HookOK, HookFail, ShutCurrent
  <2>6. CASE SupLock \/ SupStore \/ DrainDone \/ SupGiveUp
    BY <2>6 DEF SupLock, SupStore, DrainDone, SupGiveUp
  <2>7. CASE Drain  BY <2>7 DEF Drain, Claim
  <2> QED  BY <1>15, <2>1, <2>2, <2>3, <2>4, <2>5, <2>6, <2>7 DEF SupStep
<1>16. ASSUME NEW c \in Closers, CloseBegin(c) \/ CloserStep(c) PROVE CallOK'
  BY <1>16 DEF CloseBegin, CloserStep, CloseWaited, CloseInflight, CloseQueued,
               ShutCurrent, SettleInflight
<1>17. CASE Done \/ UNCHANGED vars
  BY <1>17 DEF Done, vars
<1> QED
  BY <1>1, <1>2, <1>4, <1>5, <1>6, <1>7, <1>8, <1>9, <1>10, <1>11, <1>12,
     <1>13, <1>14, <1>15, <1>16, <1>17 DEF Next, RequestStep

LEMMA FrameNext == FrameOK /\ ConnectionOK /\ [Next]_vars => FrameOK'
<1> SUFFICES ASSUME FrameOK, ConnectionOK, [Next]_vars PROVE FrameOK'
  OBVIOUS
<1>a. gen \in 0..MaxGen
  BY ChannelAssumption DEF ConnectionOK, Gens
<1> USE DEF FrameOK, Results, chanVars, supVars, queueVars, reqVars
<1>1. ASSUME NEW r \in Requests, Invoke(r) PROVE FrameOK'
  BY <1>1 DEF Invoke, Return
<1>2. ASSUME NEW r \in Requests, Gate(r) PROVE FrameOK'
  BY <1>2 DEF Gate, Return
<1>3. ASSUME NEW r \in Requests, NEW res \in Results, Finish(r, res) PROVE FrameOK'
  BY <1>3 DEF Finish, Return
<1>4. ASSUME NEW r \in Requests, CheckState(r) PROVE FrameOK'
  <2>1. CASE Finish(r, "net")
    BY <1>3, <2>1 DEF Results
  <2>2. CASE ~(Finish(r, "net"))
    BY <1>4, <2>2 DEF CheckState, Step
  <2> QED  BY <2>1, <2>2
<1>5. ASSUME NEW r \in Requests, Snapshot(r) PROVE FrameOK'
  <2>1. CASE Finish(r, "net") \/ Finish(r, "proto")
    BY <1>3, <2>1 DEF Results
  <2>2. CASE ~(Finish(r, "net") \/ Finish(r, "proto"))
    BY <1>a, <1>5, <2>2 DEF Snapshot, Step
  <2> QED  BY <2>1, <2>2
<1>6. ASSUME NEW r \in Requests, Register(r) PROVE FrameOK'
  BY <1>6 DEF Register, Step
<1>7. ASSUME NEW r \in Requests, WriteFrame(r) PROVE FrameOK'
  <2>1. CASE Finish(r, "net")
    BY <1>3, <2>1 DEF Results
  <2>2. CASE ~(Finish(r, "net"))
    BY <1>7, <2>2 DEF WriteFrame, Step
  <2> QED  BY <2>1, <2>2
<1>8. ASSUME NEW r \in Requests, Await(r) PROVE FrameOK'
  <2>1. PICK res \in Results : Finish(r, res)
    BY <1>8 DEF Await
  <2> QED  BY <1>3, <2>1
<1>9. ASSUME NEW r \in Requests, AwaitQueued(r) PROVE FrameOK'
  BY <1>9 DEF AwaitQueued, Return, Claim
<1>10. ASSUME NEW r \in Requests, Timer(r) PROVE FrameOK'
  BY <1>10 DEF Timer, Timeout, QueueDeadline, Claim
<1>11. ASSUME NEW r \in Requests, CancelCtx(r) PROVE FrameOK'
  BY <1>11 DEF CancelCtx
<1>12. ASSUME NEW e \in Gens, ReaderStep(e) PROVE FrameOK'
  <2>1. CASE ReadExit(e)  BY <2>1 DEF ReadExit
  <2>2. CASE FailInflight(e)
    BY ChannelAssumption, <2>2 DEF FailInflight, SettleInflight, Gens
  <2>3. CASE Terminate(e)  BY <2>3 DEF Terminate, ShutCurrent
  <2>4. CASE TerminateState(e)  BY <2>4 DEF TerminateState
  <2> QED  BY <1>12, <2>1, <2>2, <2>3, <2>4 DEF ReaderStep
<1>13. ASSUME NEW e \in Gens, ConnLost(e) \/ HeartbeatDead(e) PROVE FrameOK'
  BY <1>13 DEF ConnLost, HeartbeatDead
<1>14. ASSUME NEW e \in Gens, NEW r \in Requests, Response(e, r) PROVE FrameOK'
  BY <1>14 DEF Response
<1>15. ASSUME SupStep PROVE FrameOK'
  <2> USE DEF SupMove
  <2>1. CASE SupStart \/ SupMark \/ SupTimer \/ SupInterrupted \/ SupDialFail
    BY <2>1 DEF SupStart, SupMark, SupTimer, SupInterrupted, SupDialFail
  <2>2. CASE SupWatch  BY <2>2 DEF SupWatch
  <2>3. CASE SupAdopt  BY <2>3 DEF SupAdopt, NextEpoch
  <2>4. CASE SupAdopted  BY <2>4 DEF SupAdopted, Settle
  <2>5. CASE HookStart \/ HookOK \/ HookFail
    BY <2>5 DEF HookStart, HookOK, HookFail, ShutCurrent
  <2>6. CASE SupLock \/ SupStore \/ DrainDone \/ SupGiveUp
    BY <2>6 DEF SupLock, SupStore, DrainDone, SupGiveUp
  <2>7. CASE Drain  BY <2>7 DEF Drain, Claim
  <2> QED  BY <1>15, <2>1, <2>2, <2>3, <2>4, <2>5, <2>6, <2>7 DEF SupStep
<1>16. ASSUME NEW c \in Closers, CloseBegin(c) \/ CloserStep(c) PROVE FrameOK'
  BY <1>16 DEF CloseBegin, CloserStep, CloseWaited, CloseInflight, CloseQueued,
               ShutCurrent, SettleInflight
<1>17. CASE Done \/ UNCHANGED vars
  BY <1>17 DEF Done, vars
<1> QED
  BY <1>1, <1>2, <1>4, <1>5, <1>6, <1>7, <1>8, <1>9, <1>10, <1>11, <1>12,
     <1>13, <1>14, <1>15, <1>16, <1>17 DEF Next, RequestStep

(* Every variable of the channel keeps its type (TypeOK).                  *)
THEOREM TypeCorrect == Spec => []TypeOK
  <1>1. TypeOK /\ [Next]_vars => TypeOK'
  BY FlagsNext, ConnectionNext, QueueNext, CallNext, FrameNext DEF TypeOK
<1> QED  BY TypeInit, <1>1, PTL DEF Spec

-----------------------------------------------------------------------------
(* The invariant IInv.                                                     *)

core == <<queue, claimed, qres, call, once, epoch, inflight, reply, ret, wire>>

(* The steps that touch a request; the others leave core alone.            *)
CoreStep ==
    \/ \E r \in Requests :
          \/ Invoke(r) \/ Gate(r) \/ CheckState(r) \/ Snapshot(r) \/ Register(r)
          \/ WriteFrame(r) \/ Await(r) \/ AwaitQueued(r) \/ Timer(r)
    \/ \E e \in Gens : FailInflight(e) \/ \E r \in Requests : Response(e, r)
    \/ Drain
    \/ \E c \in Closers : CloseInflight(c) \/ CloseQueued(c)

LEMMA CoreSteps == [Next]_vars => CoreStep \/ UNCHANGED core
<1> SUFFICES ASSUME [Next]_vars, ~CoreStep PROVE UNCHANGED core
  OBVIOUS
<1> USE DEF core, chanVars, supVars, queueVars, reqVars
<1>1. ASSUME NEW r \in Requests, CancelCtx(r) PROVE UNCHANGED core
  BY <1>1 DEF CancelCtx
<1>2. ASSUME NEW e \in Gens, ReaderStep(e) PROVE UNCHANGED core
  BY <1>2 DEF ReaderStep, ReadExit, Terminate, TerminateState, CoreStep
<1>3. ASSUME NEW e \in Gens, ConnLost(e) \/ HeartbeatDead(e) PROVE UNCHANGED core
  BY <1>3 DEF ConnLost, HeartbeatDead
<1>4. ASSUME SupStep PROVE UNCHANGED core
  <2>1. CASE SupStart \/ SupWatch \/ SupMark \/ SupTimer \/ SupInterrupted
    BY <2>1 DEF SupStart, SupWatch, SupMark, SupTimer, SupInterrupted
  <2>2. CASE SupDialFail \/ SupAdopt \/ SupAdopted
    BY <2>2 DEF SupDialFail, SupAdopt, SupAdopted
  <2>3. CASE HookStart \/ HookOK \/ HookFail
    BY <2>3 DEF HookStart, HookOK, HookFail
  <2>4. CASE SupLock \/ SupStore \/ DrainDone \/ SupGiveUp
    BY <2>4 DEF SupLock, SupStore, DrainDone, SupGiveUp
  <2> QED  BY <1>4, <2>1, <2>2, <2>3, <2>4 DEF SupStep, CoreStep
<1>5. ASSUME NEW c \in Closers, CloseBegin(c) \/ CloserStep(c) PROVE UNCHANGED core
  BY <1>5 DEF CloseBegin, CloserStep, CloseWaited, CoreStep
<1>6. CASE Done \/ UNCHANGED vars
  BY <1>6 DEF Done, vars
<1> QED
  BY <1>1, <1>2, <1>3, <1>4, <1>5, <1>6 DEF Next, RequestStep, CoreStep

ReqInv(r) == CallInv(r) /\ OnceInv(r) /\ ResultInv(r)

LEMMA IndInit == Init => IInv
<1> SUFFICES ASSUME Init PROVE IInv
  OBVIOUS
<1>1. TypeOK  BY TypeInit
<1>2. QueueInv  BY DEF Init, QueueInv
<1>3. \A r \in Requests : ReqInv(r)
  BY DEF Init, ReqInv, CallInv, OnceInv, ResultInv, Sending
<1> QED  BY <1>1, <1>2, <1>3 DEF IInv, ReqInv

(* What is known of every request is known after any step.                 *)
LEMMA ReqNext ==
  ASSUME TypeOK, QueueInv, \A r \in Requests : ReqInv(r), CoreStep,
         NEW q \in Requests
  PROVE  ReqInv(q)'
<1> USE DEF ReqInv, CallInv, OnceInv, ResultInv, Sending
<1>0. ReqInv(q)
  OBVIOUS
<1>t. /\ QueueOK
      /\ call \in [Requests -> {"idle", "gate", "direct", "queued", "returned"}]
      /\ ret \in [Requests -> Results \union {"none"}]
      /\ FrameOK
  BY DEF TypeOK, CallOK
<1> USE DEF QueueOK, FrameOK, Results
<1>1. ASSUME NEW r \in Requests, Invoke(r) PROVE ReqInv(q)'
  BY <1>0, <1>t, <1>1 DEF Invoke, Return, queueVars
<1>2. ASSUME NEW r \in Requests, Gate(r) PROVE ReqInv(q)'
  BY <1>0, <1>t, <1>2 DEF Gate, Return
<1>3. ASSUME NEW r \in Requests, NEW res \in Results, Finish(r, res),
             res = "reply" => wire[r] # 0, once[r] \in Sending
      PROVE ReqInv(q)'
  BY <1>0, <1>t, <1>3 DEF Finish, Return
<1>4. ASSUME NEW r \in Requests, CheckState(r) PROVE ReqInv(q)'
  <2>1. CASE Finish(r, "net") /\ once[r] = "check"
    BY <1>3, <2>1
  <2>2. CASE Step(r, "check", "snap") /\ UNCHANGED <<epoch, inflight, wire>>
    BY <1>0, <1>t, <2>2 DEF Step, queueVars
  <2> QED  BY <1>4, <2>1, <2>2 DEF CheckState
<1>5. ASSUME NEW r \in Requests, Snapshot(r) PROVE ReqInv(q)'
  <2>1. CASE once[r] = "snap" /\ (Finish(r, "net") \/ Finish(r, "proto"))
    BY <1>3, <2>1
  <2>2. CASE /\ Step(r, "snap", "register")
             /\ epoch' = [epoch EXCEPT ![r] = gen]
             /\ UNCHANGED <<inflight, wire>>
    <3>1. gen \in 1..MaxGen
      BY DEF TypeOK, ConnectionOK, Gens
    <3> QED  BY <1>0, <1>t, <2>2, <3>1 DEF Step, queueVars
  <2> QED  BY <1>5, <2>1, <2>2 DEF Snapshot
<1>6. ASSUME NEW r \in Requests, Register(r) PROVE ReqInv(q)'
  BY <1>0, <1>t, <1>6 DEF Register, Step, queueVars
<1>7. ASSUME NEW r \in Requests, WriteFrame(r) PROVE ReqInv(q)'
  <2>1. CASE once[r] = "write" /\ Finish(r, "net")
    BY <1>3, <2>1
  <2>2. CASE /\ Step(r, "write", "await")
             /\ wire' = [wire EXCEPT ![r] = epoch[r]]
             /\ UNCHANGED <<epoch, inflight>>
    BY <1>0, <1>t, <2>2 DEF Step, queueVars
  <2> QED  BY <1>7, <2>1, <2>2 DEF WriteFrame
<1>8. ASSUME NEW r \in Requests, Await(r) PROVE ReqInv(q)'
  <2>1. PICK res \in Results : Finish(r, res) /\ (res = "reply" => wire[r] # 0)
    BY <1>8, <1>t DEF Await
  <2>2. once[r] \in Sending
    BY <1>8 DEF Await
  <2> QED  BY <1>3, <2>1, <2>2
<1>9. ASSUME NEW r \in Requests, AwaitQueued(r) PROVE ReqInv(q)'
  BY <1>0, <1>t, <1>9 DEF AwaitQueued, Return, Claim, CanClaim
<1>10. ASSUME NEW r \in Requests, Timer(r) PROVE ReqInv(q)'
  <2>1. CASE Timeout(r)
    BY <1>0, <1>t, <2>1 DEF Timeout, queueVars
  <2>2. CASE QueueDeadline(r)
    <3>1. once[r] = "none" /\ call[r] \in {"queued", "returned"}
      BY <2>2 DEF QueueDeadline, CanClaim, InQueue, QueueInv
    <3> QED  BY <1>0, <1>t, <2>2, <3>1 DEF QueueDeadline, Claim, CanClaim, reqVars
  <2> QED  BY <1>10, <2>1, <2>2 DEF Timer
<1>11. ASSUME NEW e \in Gens, FailInflight(e) PROVE ReqInv(q)'
  BY <1>0, <1>t, <1>11 DEF FailInflight, SettleInflight, queueVars
<1>12. ASSUME NEW e \in Gens, NEW r \in Requests, Response(e, r) PROVE ReqInv(q)'
  <2>1. wire[r] # 0
    BY <1>12 DEF Response, Gens
  <2> QED  BY <1>0, <1>t, <1>12, <2>1 DEF Response, queueVars
<1>13. ASSUME Drain PROVE ReqInv(q)'
  <2> DEFINE r == Head(queue)
  <2>1. queue # <<>> /\ r = queue[1] /\ 1 \in DOMAIN queue
    BY <1>13, <1>t DEF Drain
  <2>2. r \in Requests /\ once[r] = "none" /\ call[r] \in {"queued", "returned"}
    BY <1>t, <2>1 DEF QueueInv
  <2> HIDE DEF r
  <2>3. /\ UNCHANGED <<call, epoch, inflight, reply, ret, wire>>
        /\ \/ UNCHANGED <<claimed, qres, once>>
           \/ /\ CanClaim(r) /\ Claim(r, "ctx")
              /\ qres' = [qres EXCEPT ![r] = "net"]
              /\ UNCHANGED once
           \/ /\ CanClaim(r) /\ Claim(r, "drain")
              /\ once' = [once EXCEPT ![r] = "check"]
              /\ UNCHANGED qres
    BY <1>13 DEF Drain, r
  <2> QED  BY <1>0, <1>t, <2>2, <2>3 DEF Claim, CanClaim
<1>14. ASSUME NEW c \in Closers, CloseInflight(c) PROVE ReqInv(q)'
  BY <1>0, <1>t, <1>14 DEF CloseInflight, SettleInflight, queueVars
<1>15. ASSUME NEW c \in Closers, CloseQueued(c) PROVE ReqInv(q)'
  <2>1. InQueue(q) => once[q] = "none" /\ call[q] \in {"queued", "returned"}
    BY DEF InQueue, QueueInv
  <2> QED  BY <1>0, <1>t, <1>15, <2>1 DEF CloseQueued, CanClaim, reqVars
<1> QED
  BY <1>1, <1>2, <1>4, <1>5, <1>6, <1>7, <1>8, <1>9, <1>10, <1>11, <1>12,
     <1>13, <1>14, <1>15 DEF CoreStep

(* The queue keeps no request twice and none that was started.             *)
LEMMA QueueInvNext ==
  ASSUME TypeOK, QueueInv, \A r \in Requests : ReqInv(r), CoreStep
  PROVE  QueueInv'
<1> DEFINE Waiting(i) ==
      /\ call[queue[i]] \in {"queued", "returned"}
      /\ once[queue[i]] = "none"
      /\ claimed[queue[i]] # "drain"
<1>t. /\ queue \in Seq(Requests)
      /\ claimed \in [Requests -> {"none", "watch", "ctx", "close", "drain"}]
      /\ call \in [Requests -> {"idle", "gate", "direct", "queued", "returned"}]
      /\ once \in [Requests -> {"none", "check", "snap", "register", "write",
                                "await", "done"}]
  BY DEF TypeOK, QueueOK, CallOK, FrameOK
<1>q. /\ DOMAIN queue = 1..Len(queue) /\ Len(queue) \in Nat
      /\ \A i \in DOMAIN queue : queue[i] \in Requests
  BY <1>t
\* A step of another request, or one that keeps these three facts.
<1>1. ASSUME UNCHANGED queue,
             \A b \in Requests :
                /\ call[b] \in {"queued", "returned"} /\ once[b] = "none"
                   /\ claimed[b] # "drain"
                => /\ call'[b] \in {"queued", "returned"} /\ once'[b] = "none"
                   /\ claimed'[b] # "drain"
      PROVE QueueInv'
  BY <1>1, <1>q DEF QueueInv
<1>2. ASSUME NEW r \in Requests, Invoke(r) PROVE QueueInv'
  BY <1>1, <1>2, <1>t DEF Invoke, Return, queueVars
<1>3. ASSUME NEW r \in Requests, Gate(r) PROVE QueueInv'
  <2>1. CASE UNCHANGED queue
    BY <1>1, <1>3, <2>1, <1>t DEF Gate, Return
  <2>2. CASE queue' = Append(queue, r) /\ call' = [call EXCEPT ![r] = "queued"]
             /\ UNCHANGED <<once, claimed>>
    <3>1. /\ DOMAIN queue' = 1..(Len(queue) + 1)
          /\ queue'[Len(queue) + 1] = r
          /\ \A i \in DOMAIN queue : queue'[i] = queue[i]
      BY <1>t, <1>q, <2>2
    <3>2. call[r] = "gate" /\ once[r] = "none" /\ claimed[r] = "none"
      BY <1>3 DEF Gate, ReqInv, CallInv
    <3>3. \A i \in DOMAIN queue : queue[i] # r
      BY <3>2 DEF QueueInv
    <3>4. ASSUME NEW i \in DOMAIN queue'
          PROVE  /\ call'[queue'[i]] \in {"queued", "returned"}
                 /\ once'[queue'[i]] = "none"
                 /\ claimed'[queue'[i]] # "drain"
      BY <1>t, <1>q, <2>2, <3>1, <3>2, <3>3, <3>4 DEF QueueInv
    <3>5. ASSUME NEW i \in DOMAIN queue', NEW j \in DOMAIN queue',
                 queue'[i] = queue'[j]
          PROVE  i = j
      BY <1>q, <3>1, <3>3, <3>5 DEF QueueInv
    <3> QED  BY <3>4, <3>5 DEF QueueInv
  <2> QED  BY <1>3, <2>1, <2>2 DEF Gate
<1>4. ASSUME NEW r \in Requests, NEW res, Finish(r, res), once[r] \in Sending
      PROVE QueueInv'
  BY <1>1, <1>4, <1>t DEF Finish, Return, Sending
<1>5. ASSUME NEW r \in Requests, NEW from \in Sending, NEW to, Step(r, from, to)
      PROVE QueueInv'
  BY <1>1, <1>5, <1>t DEF Step, Sending, queueVars
<1>6. ASSUME NEW r \in Requests, CheckState(r) \/ Snapshot(r) \/ Register(r)
      PROVE QueueInv'
  BY <1>4, <1>5, <1>6 DEF CheckState, Snapshot, Register, Sending
<1>7. ASSUME NEW r \in Requests, WriteFrame(r) \/ Await(r)
      PROVE QueueInv'
  BY <1>4, <1>5, <1>7 DEF WriteFrame, Await, Sending
<1>8. ASSUME NEW r \in Requests, AwaitQueued(r) PROVE QueueInv'
  BY <1>1, <1>8, <1>t DEF AwaitQueued, Return, Claim
<1>9. ASSUME NEW r \in Requests, Timer(r) PROVE QueueInv'
  <2>1. UNCHANGED <<queue, call, once>> /\ (UNCHANGED claimed \/ Claim(r, "watch"))
    BY <1>9 DEF Timer, Timeout, QueueDeadline, queueVars, reqVars
  <2> QED  BY <1>1, <2>1, <1>t DEF Claim
<1>10. ASSUME NEW e \in Gens, FailInflight(e) \/ \E r \in Requests : Response(e, r)
       PROVE QueueInv'
  BY <1>1, <1>10 DEF FailInflight, Response, queueVars
<1>11. ASSUME Drain PROVE QueueInv'
  <2> DEFINE r == Head(queue)
  <2>1. /\ queue # <<>> /\ queue' = Tail(queue)
        /\ Len(queue) # 0 /\ r = queue[1]
    BY <1>11, <1>t DEF Drain
  <2>2. /\ DOMAIN queue' = 1..(Len(queue) - 1)
        /\ \A i \in DOMAIN queue' : queue'[i] = queue[i + 1]
    BY <1>t, <1>q, <2>1
  <2>3. \A i \in DOMAIN queue' : i + 1 \in DOMAIN queue /\ queue[i + 1] # r
    BY <1>q, <2>1, <2>2 DEF QueueInv
  <2> HIDE DEF r
  <2>4. UNCHANGED call /\ \A b \in Requests \ {r} :
          once'[b] = once[b] /\ claimed'[b] = claimed[b]
    BY <1>11, <1>t DEF Drain, Claim, r
  <2>5. ASSUME NEW i \in DOMAIN queue'
        PROVE  /\ call'[queue'[i]] \in {"queued", "returned"}
               /\ once'[queue'[i]] = "none"
               /\ claimed'[queue'[i]] # "drain"
    BY <1>q, <2>2, <2>3, <2>4, <2>5 DEF QueueInv
  <2>6. ASSUME NEW i \in DOMAIN queue', NEW j \in DOMAIN queue',
               queue'[i] = queue'[j]
        PROVE  i = j
    BY <1>q, <2>2, <2>3, <2>6 DEF QueueInv
  <2> QED  BY <2>5, <2>6 DEF QueueInv
<1>12. ASSUME NEW c \in Closers, CloseInflight(c) PROVE QueueInv'
  BY <1>1, <1>12 DEF CloseInflight, queueVars
<1>13. ASSUME NEW c \in Closers, CloseQueued(c) PROVE QueueInv'
  BY <1>13 DEF CloseQueued, QueueInv
<1> QED
  BY <1>2, <1>3, <1>6, <1>7, <1>8, <1>9, <1>10, <1>11, <1>12, <1>13 DEF CoreStep

(* IInv is inductive.                                                      *)
LEMMA IndNext == IInv /\ [Next]_vars => IInv'
<1> SUFFICES ASSUME IInv, [Next]_vars PROVE IInv'
  OBVIOUS
<1>1. TypeOK /\ QueueInv /\ \A r \in Requests : ReqInv(r)
  BY DEF IInv, ReqInv
<1>2. TypeOK'
  BY <1>1, FlagsNext, ConnectionNext, QueueNext, CallNext, FrameNext DEF TypeOK
<1>3. CASE CoreStep
  <2>1. QueueInv'  BY <1>1, <1>3, QueueInvNext
  <2>2. \A r \in Requests : ReqInv(r)'  BY <1>1, <1>3, ReqNext
  <2> QED  BY <1>2, <2>1, <2>2 DEF IInv, ReqInv
<1>4. CASE UNCHANGED core
  <2>1. QueueInv'
    BY <1>1, <1>4 DEF core, QueueInv
  <2>2. \A r \in Requests : ReqInv(r)'
    BY <1>1, <1>4 DEF core, ReqInv, CallInv, OnceInv, ResultInv
  <2> QED  BY <1>2, <2>1, <2>2 DEF IInv, ReqInv
<1> QED  BY <1>3, <1>4, CoreSteps

(* IInv holds in every state of the channel.                               *)
THEOREM Invariant == Spec => []IInv
<1> QED  BY IndInit, IndNext, PTL DEF Spec

(* A request is answered once, whoever wins the race for it (OneAnswer).   *)
THEOREM AnsweredOnce == Spec => []OneAnswer
<1>1. IInv => OneAnswer
  BY DEF IInv, OnceInv, ResultInv, OneAnswer
<1> QED  BY <1>1, Invariant, PTL

(* What was given up in the queue is never sent (AbandonedNeverSent).      *)
THEOREM NothingAbandonedIsSent == Spec => []AbandonedNeverSent
<1>1. IInv => AbandonedNeverSent
  BY DEF IInv, OnceInv, ResultInv, AbandonedNeverSent
<1> QED  BY <1>1, Invariant, PTL
-----------------------------------------------------------------------------
(* Refinement of InvokeContract.                                           *)

FateMoves(r) ==
    \/ Fate(r)' = Fate(r)
    \/ Fate(r) = "idle" /\ Fate(r)' \in {"open", "dropped"}
    \/ Fate(r) = "open" /\ Fate(r)' \in {"sent", "dropped"}

LEMMA FateNext ==
  ASSUME TypeOK, QueueInv, \A r \in Requests : ReqInv(r), CoreStep,
         NEW q \in Requests
  PROVE  FateMoves(q)
<1> USE DEF FateMoves, Fate, ReqInv, CallInv, OnceInv, ResultInv, Sending
<1>0. ReqInv(q)
  OBVIOUS
<1>t. /\ queue \in Seq(Requests)
      /\ claimed \in [Requests -> {"none", "watch", "ctx", "close", "drain"}]
      /\ call \in [Requests -> {"idle", "gate", "direct", "queued", "returned"}]
      /\ FrameOK
  BY DEF TypeOK, QueueOK, CallOK
<1>i. InQueue(q) => /\ once[q] = "none" /\ claimed[q] # "drain"
                    /\ call[q] \in {"queued", "returned"}
  BY DEF InQueue, QueueInv
<1>u. UNCHANGED queue => InQueue(q)' = InQueue(q)
  BY DEF InQueue
<1> USE DEF FrameOK
<1>1. ASSUME NEW r \in Requests, Invoke(r) PROVE FateMoves(q)
  BY <1>0, <1>t, <1>i, <1>u, <1>1 DEF Invoke, Return, queueVars
<1>2. ASSUME NEW r \in Requests, Gate(r) PROVE FateMoves(q)
  <2>1. r # q => InQueue(q)' = InQueue(q)
    <3>1. ASSUME r # q, queue' = Append(queue, r) PROVE InQueue(q)' = InQueue(q)
      <4>0. DOMAIN queue = 1..Len(queue) /\ Len(queue) \in Nat
        BY <1>t
      <4>1. /\ DOMAIN queue' = 1..(Len(queue) + 1)
            /\ queue'[Len(queue) + 1] = r
            /\ \A i \in DOMAIN queue : i \in DOMAIN queue' /\ queue'[i] = queue[i]
        BY <1>t, <3>1, <4>0
      <4>2. \A i \in DOMAIN queue' : i \in DOMAIN queue \/ i = Len(queue) + 1
        BY <4>0, <4>1
      <4> QED  BY <3>1, <4>0, <4>1, <4>2 DEF InQueue
    <3> QED  BY <1>2, <1>u, <3>1 DEF Gate
  <2> QED  BY <1>0, <1>t, <1>i, <1>2, <2>1 DEF Gate, Return
<1>3. ASSUME NEW r \in Requests, NEW res, Finish(r, res), once[r] \in Sending
      PROVE FateMoves(q)
  BY <1>0, <1>t, <1>i, <1>u, <1>3 DEF Finish, Return
<1>4. ASSUME NEW r \in Requests, NEW from \in Sending, NEW to \in Sending,
             Step(r, from, to),
             \/ UNCHANGED wire
             \/ /\ from = "write"
                /\ wire' = [wire EXCEPT ![r] = epoch[r]]
      PROVE FateMoves(q)
  <2>1. UNCHANGED <<queue, claimed, call>> /\ once[r] = from
        /\ once' = [once EXCEPT ![r] = to]
    BY <1>4 DEF Step, queueVars
  <2> QED  BY <1>0, <1>t, <1>i, <1>u, <1>4, <2>1
<1>5. ASSUME NEW r \in Requests,
             CheckState(r) \/ Snapshot(r) \/ Register(r) \/ WriteFrame(r) \/ Await(r)
      PROVE FateMoves(q)
  BY <1>3, <1>4, <1>5 DEF CheckState, Snapshot, Register, WriteFrame, Await
<1>6. ASSUME NEW r \in Requests, AwaitQueued(r) PROVE FateMoves(q)
  BY <1>0, <1>t, <1>i, <1>u, <1>6 DEF AwaitQueued, Return, Claim, CanClaim
<1>7. ASSUME NEW r \in Requests, Timer(r) PROVE FateMoves(q)
  <2>1. CASE Timeout(r)
    <3>1. UNCHANGED <<queue, claimed, call, once, wire>>
      BY <2>1 DEF Timeout, queueVars
    <3> QED  BY <1>u, <3>1
  <2>2. CASE QueueDeadline(r)
    <3>1. UNCHANGED <<queue, call, once, wire>>
      BY <2>2 DEF QueueDeadline, reqVars
    <3> QED  BY <1>0, <1>t, <1>i, <1>u, <2>2, <3>1 DEF QueueDeadline, Claim, CanClaim
  <2> QED  BY <1>7, <2>1, <2>2 DEF Timer
<1>8. ASSUME UNCHANGED <<queue, claimed, call, once, wire>> PROVE FateMoves(q)
  BY <1>u, <1>8
<1>9. ASSUME NEW e \in Gens, FailInflight(e) \/ \E r \in Requests : Response(e, r)
      PROVE FateMoves(q)
  BY <1>8, <1>9 DEF FailInflight, Response, queueVars
<1>10. ASSUME Drain PROVE FateMoves(q)
  <2> DEFINE r == Head(queue)
  <2>1. queue # <<>> /\ r = queue[1] /\ queue' = Tail(queue)
    BY <1>10, <1>t DEF Drain
  <2>2. r \in Requests /\ once[r] = "none" /\ call[r] \in {"queued", "returned"}
        /\ claimed[r] # "drain" /\ InQueue(r)
    BY <1>t, <2>1 DEF QueueInv, InQueue
  <2>3. q # r => InQueue(q)' = InQueue(q)
    <3>1. /\ DOMAIN queue = 1..Len(queue) /\ Len(queue) \in Nat \ {0}
          /\ DOMAIN queue' = 1..(Len(queue) - 1)
          /\ \A i \in DOMAIN queue' :
                i + 1 \in DOMAIN queue /\ queue'[i] = queue[i + 1]
      BY <1>t, <2>1
    <3>2. \A i \in DOMAIN queue : i = 1 \/ i - 1 \in DOMAIN queue'
      BY <3>1
    <3>3. \A i \in DOMAIN queue : i = 1 \/ queue'[i - 1] = queue[i]
      BY <3>1, <3>2
    <3> QED  BY <2>1, <3>1, <3>2, <3>3 DEF InQueue
  <2> HIDE DEF r
  <2>4. /\ UNCHANGED <<call, wire>>
        /\ \/ ~CanClaim(r) /\ UNCHANGED <<claimed, once>>
           \/ Claim(r, "ctx") /\ CanClaim(r) /\ UNCHANGED once
           \/ /\ Claim(r, "drain") /\ CanClaim(r)
              /\ once' = [once EXCEPT ![r] = "check"]
    BY <1>10 DEF Drain, r
  <2>5. CASE ~CanClaim(r) /\ UNCHANGED <<claimed, once>>
    BY <1>0, <1>t, <1>i, <2>2, <2>3, <2>4, <2>5 DEF CanClaim
  <2>6. CASE Claim(r, "ctx") /\ CanClaim(r) /\ UNCHANGED once
    BY <1>0, <1>t, <1>i, <2>2, <2>3, <2>4, <2>6 DEF Claim, CanClaim
  <2>7. CASE /\ Claim(r, "drain") /\ CanClaim(r)
             /\ once' = [once EXCEPT ![r] = "check"]
    BY <1>0, <1>t, <1>i, <2>2, <2>3, <2>4, <2>7 DEF Claim, CanClaim
  <2> QED  BY <2>4, <2>5, <2>6, <2>7
<1>11. ASSUME NEW c \in Closers, CloseInflight(c) PROVE FateMoves(q)
  BY <1>8, <1>11 DEF CloseInflight, queueVars
<1>12. ASSUME NEW c \in Closers, CloseQueued(c) PROVE FateMoves(q)
  BY <1>0, <1>t, <1>i, <1>12 DEF CloseQueued, CanClaim, InQueue, reqVars
<1> QED
  BY <1>1, <1>2, <1>5, <1>6, <1>7, <1>9, <1>10, <1>11, <1>12 DEF CoreStep

(* A result is set once, on return, and a reply answers a frame.           *)
LEMMA ResultNext ==
  ASSUME TypeOK, \A r \in Requests : ReqInv(r), CoreStep, NEW q \in Requests
  PROVE  \/ ret'[q] = ret[q]
         \/ /\ ret[q] = "none" /\ ret'[q] \in Results
            /\ call'[q] = "returned"
            /\ ret'[q] = "reply" => wire'[q] # 0
<1> DEFINE Kept == ret'[q] = ret[q]
           Set == /\ ret[q] = "none" /\ ret'[q] \in Results
                  /\ call'[q] = "returned"
                  /\ ret'[q] = "reply" => wire'[q] # 0
<1>t. /\ call \in [Requests -> {"idle", "gate", "direct", "queued", "returned"}]
      /\ ret \in [Requests -> Results \union {"none"}]
      /\ reply \in [Requests -> Results \union {"none"}]
      /\ qres \in [Requests -> Results \union {"none"}]
  BY DEF TypeOK, CallOK, FrameOK, QueueOK
<1>1. ASSUME NEW r \in Requests, NEW res \in Results, Return(r, res),
             call[r] # "returned", UNCHANGED wire, res = "reply" => wire[r] # 0
      PROVE Kept \/ Set
  BY <1>t, <1>1 DEF Return, ReqInv, CallInv
<1>2. ASSUME UNCHANGED ret PROVE Kept \/ Set
  BY <1>2
<1>3. ASSUME NEW r \in Requests, NEW res \in Results, Finish(r, res),
             res = "reply" => wire[r] # 0
      PROVE Kept \/ Set
  BY <1>1, <1>2, <1>3 DEF Finish
<1>4. ASSUME NEW r \in Requests, Invoke(r) \/ Gate(r) PROVE Kept \/ Set
  BY <1>1, <1>2, <1>4 DEF Invoke, Gate, Results
<1>5. ASSUME NEW r \in Requests,
             CheckState(r) \/ Snapshot(r) \/ Register(r) \/ WriteFrame(r)
      PROVE Kept \/ Set
  BY <1>2, <1>3, <1>5 DEF CheckState, Snapshot, Register, WriteFrame, Step, Results
<1>6. ASSUME NEW r \in Requests, Await(r) PROVE Kept \/ Set
  BY <1>t, <1>3, <1>6 DEF Await, Results, ReqInv, ResultInv
<1>7. ASSUME NEW r \in Requests, AwaitQueued(r) PROVE Kept \/ Set
  BY <1>t, <1>1, <1>7 DEF AwaitQueued, Results, ReqInv, ResultInv
<1>8. ASSUME NEW r \in Requests, Timer(r) PROVE Kept \/ Set
  BY <1>2, <1>8 DEF Timer, Timeout, QueueDeadline, reqVars
<1>9. ASSUME NEW e \in Gens, FailInflight(e) \/ \E r \in Requests : Response(e, r)
      PROVE Kept \/ Set
  BY <1>2, <1>9 DEF FailInflight, Response
<1>10. ASSUME Drain PROVE Kept \/ Set
  BY <1>2, <1>10 DEF Drain
<1>11. ASSUME NEW c \in Closers, CloseInflight(c) \/ CloseQueued(c)
       PROVE Kept \/ Set
  BY <1>2, <1>11 DEF CloseInflight, CloseQueued, reqVars
<1> QED
  BY <1>4, <1>5, <1>6, <1>7, <1>8, <1>9, <1>10, <1>11 DEF CoreStep

(* The channel implements the contract of Invoke (KeepsContract).          *)
THEOREM Refinement == Spec => KeepsContract
<1>1. Init => Contract!Init
  BY DEF Init, Contract!Init, Fate
<1>2. IInv /\ [Next]_vars => [Contract!Next]_(Contract!vars)
  <2> SUFFICES ASSUME IInv, [Next]_vars PROVE [Contract!Next]_(Contract!vars)
    OBVIOUS
  <2>1. TypeOK /\ QueueInv /\ \A r \in Requests : ReqInv(r)
    BY DEF IInv, ReqInv
  <2>2. CASE CoreStep
    <3>1. ASSUME NEW q \in Requests
          PROVE  Contract!FateStep(q) /\ Contract!ResultStep(q)
      <4>1. FateMoves(q)
        BY <2>1, <2>2, FateNext
      <4>2. \/ ret'[q] = ret[q]
            \/ /\ ret[q] = "none" /\ ret'[q] \in Results
               /\ call'[q] = "returned"
               /\ ret'[q] = "reply" => wire'[q] # 0
        BY <2>1, <2>2, ResultNext
      <4>3. /\ call'[q] = "returned" => Fate(q)' # "idle"
            /\ call'[q] = "returned" /\ wire'[q] # 0 => Fate(q)' = "sent"
        BY DEF Fate
      <4> QED
        BY <4>1, <4>2, <4>3 DEF FateMoves, Contract!FateStep, Contract!ResultStep
    <3> QED  BY <3>1 DEF Contract!Next
  <2>3. CASE UNCHANGED core
    BY <2>3 DEF core, Contract!vars, Fate, InQueue
  <2> QED  BY <2>2, <2>3, CoreSteps
<1> QED  BY <1>1, <1>2, Invariant, PTL DEF Spec, KeepsContract, Contract!Spec

-----------------------------------------------------------------------------
(* The invariant LifeInv.                                                  *)

life == <<opts, closed, state, gen, conn, reader, cause, settling, bypass, hookOK, closer>>

ReqActs(r) == Invoke(r) \/ RequestStep(r) \/ Timer(r) \/ CancelCtx(r)

(* A step of a request leaves the supervisor alone, unless it is the end   *)
(* of one that drainQueue sent.                                            *)
LEMMA ReqSteps ==
    ASSUME TypeOK, NEW r \in Requests, ReqInv(r), ReqActs(r)
    PROVE  /\ UNCHANGED life
           /\ UNCHANGED sup \/ (Draining(r) /\ once'[r] = "done" /\ sup' = "drain")
<1> USE DEF life, chanVars, supVars, queueVars, reqVars
<1>1. once \in [Requests -> {"none", "check", "snap", "register", "write", "await",
                             "done"}]
  BY DEF TypeOK, FrameOK
<1>2. ASSUME NEW res, Finish(r, res), once[r] \in Sending
      PROVE  /\ UNCHANGED life
             /\ UNCHANGED sup \/ (Draining(r) /\ once'[r] = "done" /\ sup' = "drain")
  BY <1>1, <1>2 DEF Finish, Draining
<1>3. CASE Invoke(r) \/ Gate(r) \/ Register(r) \/ AwaitQueued(r) \/ CancelCtx(r)
  BY <1>3 DEF Invoke, Gate, Register, Step, AwaitQueued, CancelCtx
<1>4. CASE Timer(r)  BY <1>4 DEF Timer, Timeout, QueueDeadline
<1>5. CASE CheckState(r)  BY <1>2, <1>5 DEF CheckState, Step, Sending
<1>6. CASE Snapshot(r)  BY <1>2, <1>6 DEF Snapshot, Step, Sending
<1>7. CASE WriteFrame(r)  BY <1>2, <1>7 DEF WriteFrame, Step, Sending
<1>8. CASE Await(r)  BY <1>2, <1>8 DEF Await, Sending
<1> QED  BY <1>3, <1>4, <1>5, <1>6, <1>7, <1>8 DEF ReqActs, RequestStep

(* The steps of the read loops and the network.                            *)
ReadActs ==
    \E e \in Gens :
       \/ ReaderStep(e) \/ ConnLost(e) \/ HeartbeatDead(e)
       \/ \E r \in Requests : Response(e, r)

CloseActs == \E c \in Closers : CloseBegin(c) \/ CloserStep(c)

LEMMA LifeSteps ==
    [Next]_vars =>
      \/ \E r \in Requests : ReqActs(r)
      \/ ReadActs \/ SupStep \/ CloseActs \/ UNCHANGED vars
  BY DEF Next, ReqActs, ReadActs, CloseActs, Done

LEMMA SupInvNext ==
    ASSUME IInv, LifeInv, [Next]_vars
    PROVE  SupInv'
<1>t. /\ TypeOK /\ \A r \in Requests : ReqInv(r)
      /\ queue \in Seq(Requests) /\ gen \in Gens
  BY DEF IInv, ReqInv, TypeOK, QueueOK, ConnectionOK
<1>i. SupInv /\ ConnInv /\ DrainInv /\ CloserInv  BY DEF LifeInv
<1> USE DEF SupInv, HasHook, GenMuHolders, chanVars, supVars, queueVars, reqVars
<1>1. ASSUME NEW r \in Requests, ReqActs(r) PROVE SupInv'
  <2>1. /\ UNCHANGED life
        /\ UNCHANGED sup \/ (sup = "draining" /\ sup' = "drain")
    BY <1>t, <1>i, <1>1, ReqSteps DEF DrainInv
  <2>2. UNCHANGED queue \/ state = "Reconnecting"
    BY <1>1 DEF ReqActs, RequestStep, Invoke, Gate, CheckState, Snapshot, Register,
                WriteFrame, Await, AwaitQueued, Timer, Timeout, QueueDeadline, CancelCtx,
                Finish, Step
  <2> QED  BY <1>i, <2>1, <2>2 DEF life
<1>2. CASE ReadActs
  <2> PICK e \in Gens :
         \/ ReaderStep(e) \/ ConnLost(e) \/ HeartbeatDead(e)
         \/ \E r \in Requests : Response(e, r)
    BY <1>2 DEF ReadActs
  <2>1. UNCHANGED <<opts, gen, sup, bypass, hookOK, queue>>
    BY DEF ReaderStep, ReadExit, FailInflight, Terminate, TerminateState, ConnLost,
           HeartbeatDead, Response
  <2>2. /\ closed' = closed \/ closed'
        /\ UNCHANGED state \/ (closed /\ state' = "Disconnected" /\ UNCHANGED closed)
    BY <1>i DEF ReaderStep, ReadExit, FailInflight, Terminate, TerminateState, ConnLost,
                HeartbeatDead, Response, ConnInv
  <2> QED  BY <1>i, <2>1, <2>2
<1>3. CASE SupStep
  <2> USE <1>i DEF SupMove
  <2>1. CASE SupStart \/ SupMark \/ SupTimer \/ SupInterrupted \/ SupDialFail
    BY <2>1 DEF SupStart, SupMark, SupTimer, SupInterrupted, SupDialFail
  <2>2. CASE SupWatch  BY <2>2 DEF SupWatch
  <2>3. CASE SupAdopt  BY <1>t, <2>3 DEF SupAdopt, NextEpoch
  <2>4. CASE SupAdopted  BY <2>4 DEF SupAdopted, Settle
  <2>5. CASE HookStart \/ HookOK \/ HookFail
    BY <2>5 DEF HookStart, HookOK, HookFail
  <2>6. CASE SupLock \/ SupStore \/ DrainDone \/ SupGiveUp
    BY <2>6 DEF SupLock, SupStore, DrainDone, SupGiveUp
  <2>7. CASE Drain  BY <2>7 DEF Drain
  <2> QED  BY <1>3, <2>1, <2>2, <2>3, <2>4, <2>5, <2>6, <2>7 DEF SupStep
<1>4. CASE CloseActs
  <2> PICK c \in Closers : CloseBegin(c) \/ CloserStep(c)
    BY <1>4 DEF CloseActs
  <2>1. /\ UNCHANGED <<opts, gen, sup, bypass, hookOK>>
        /\ UNCHANGED queue \/ queue' = <<>>
        /\ UNCHANGED state \/ (state' = "Disconnected" /\ queue' = <<>>)
        /\ UNCHANGED closed \/ closed'
    BY DEF CloseBegin, CloserStep, CloseWaited, CloseInflight, CloseQueued
  <2> QED  BY <1>i, <2>1
<1>5. CASE UNCHANGED vars  BY <1>i, <1>5 DEF vars
<1> QED  BY <1>1, <1>2, <1>3, <1>4, <1>5, LifeSteps

LEMMA ConnInvNext ==
    ASSUME IInv, LifeInv, [Next]_vars
    PROVE  ConnInv'
<1>t. /\ TypeOK /\ \A r \in Requests : ReqInv(r)
      /\ gen \in Gens
      /\ conn \in [Gens -> {"none", "up", "lost", "shut"}]
      /\ reader \in [Gens -> {"none", "reading", "failing", "terminating", "stopping",
                              "done"}]
      /\ cause \in [Gens -> {"none", "net", "proto"}]
  BY DEF IInv, ReqInv, TypeOK, ConnectionOK
<1>i. SupInv /\ ConnInv /\ DrainInv /\ CloserInv  BY DEF LifeInv
<1> USE DEF ConnInv, chanVars, supVars, queueVars, reqVars
\* Nothing but an open connection less, and nobody starts to look for one.
<1>0. ASSUME UNCHANGED <<gen, reader, cause>>,
             \A e \in Gens : conn'[e] = "up" => conn[e] = "up",
             closed => closed',
             sup' = sup \/ (sup # "start" /\ sup' \notin {"start", "mark", "backoff", "dial"})
      PROVE  ConnInv'
  BY <1>i, <1>t, <1>0
<1>1. ASSUME NEW r \in Requests, ReqActs(r) PROVE ConnInv'
  <2>1. /\ UNCHANGED life
        /\ UNCHANGED sup \/ (sup = "draining" /\ sup' = "drain")
    BY <1>t, <1>i, <1>1, ReqSteps DEF DrainInv
  <2> QED  BY <1>0, <2>1 DEF life
<1>2. CASE ReadActs
  <2> PICK e \in Gens :
         \/ ReaderStep(e) \/ ConnLost(e) \/ HeartbeatDead(e)
         \/ \E r \in Requests : Response(e, r)
    BY <1>2 DEF ReadActs
  <2>1. CASE ReadExit(e)  BY <1>t, <1>i, <2>1 DEF ReadExit
  <2>2. CASE FailInflight(e)  BY <1>t, <1>i, <2>2 DEF FailInflight
  <2>3. CASE Terminate(e)  BY <1>t, <1>i, <2>3 DEF Terminate, ShutCurrent
  <2>4. CASE TerminateState(e)  BY <1>t, <1>i, <2>4 DEF TerminateState
  <2>5. CASE ConnLost(e) \/ HeartbeatDead(e)
    BY <1>t, <1>0, <2>5 DEF ConnLost, HeartbeatDead
  <2>6. CASE \E r \in Requests : Response(e, r)  BY <1>0, <2>6 DEF Response
  <2> QED  BY <2>1, <2>2, <2>3, <2>4, <2>5, <2>6 DEF ReaderStep
<1>3. CASE SupStep
  <2> USE DEF SupMove
  <2>1. CASE SupStart  BY <1>t, <1>i, <2>1, ChannelAssumption DEF SupStart, Gens
  <2>2. CASE SupMark \/ SupTimer \/ SupInterrupted \/ SupDialFail
    BY <1>t, <1>i, <2>2 DEF SupMark, SupTimer, SupInterrupted, SupDialFail
  <2>3. CASE SupWatch  BY <1>t, <1>i, <2>3 DEF SupWatch
  <2>4. CASE SupAdopt
    <3>1. CASE closed  BY <1>t, <1>0, <2>4, <3>1 DEF SupAdopt, MayAdopt
    <3>2. CASE ~closed
      <4>1. /\ sup = "dial" /\ sup' = "adopted"
            /\ gen' = NextEpoch /\ NextEpoch \in Gens
            /\ conn' = [conn EXCEPT ![NextEpoch] = "up"]
            /\ reader' = [reader EXCEPT ![NextEpoch] = "reading"]
            /\ UNCHANGED <<closed, cause>>
        BY <1>t, <2>4, <3>2, ChannelAssumption DEF SupAdopt, NextEpoch, Gens
      <4>2. \A e \in Gens : conn[e] # "up"  BY <1>i, <4>1
      <4> QED  BY <1>t, <1>i, <4>1, <4>2
    <3> QED  BY <3>1, <3>2
  <2>5. CASE SupAdopted
    <3>1. sup = "adopted" /\ sup' \in {"giveup", "exit", "hook", "lock"}
      BY <2>5 DEF SupAdopted, Settle
    <3> QED  BY <1>0, <2>5, <3>1 DEF SupAdopted
  <2>6. CASE HookStart \/ HookOK
    BY <1>0, <2>6 DEF HookStart, HookOK
  <2>7. CASE HookFail
    <3>1. conn'[gen] # "up" /\ \A e \in Gens : conn'[e] = "up" => conn[e] = "up"
      BY <1>t, <2>7 DEF HookFail, ShutCurrent
    <3> QED  BY <1>t, <1>i, <2>7, <3>1 DEF HookFail
  <2>8. CASE SupLock \/ SupStore \/ DrainDone \/ SupGiveUp
    BY <1>0, <2>8 DEF SupLock, SupStore, DrainDone, SupGiveUp
  <2>9. CASE Drain  BY <1>0, <2>9 DEF Drain
  <2> QED  BY <1>3, <2>1, <2>2, <2>3, <2>4, <2>5, <2>6, <2>7, <2>8, <2>9 DEF SupStep
<1>4. CASE CloseActs
  <2> PICK c \in Closers : CloseBegin(c) \/ CloserStep(c)
    BY <1>4 DEF CloseActs
  <2> QED
    BY <1>t, <1>0 DEF CloseBegin, CloserStep, CloseWaited, CloseInflight, CloseQueued,
                      ShutCurrent
<1>5. CASE UNCHANGED vars  BY <1>0, <1>5 DEF vars
<1> QED  BY <1>1, <1>2, <1>3, <1>4, <1>5, LifeSteps

(* drainQueue's request is the only one that is sent for another caller.   *)
LEMMA DrainingNext ==
    ASSUME IInv, LifeInv, [Next]_vars
    PROVE  \/ \A r \in Requests : Draining(r)' => Draining(r) /\ sup' = sup
           \/ /\ sup' = "draining"
              /\ \A q, r \in Requests : Draining(q)' /\ Draining(r)' => q = r
<1> DEFINE Goal == \/ \A r \in Requests : Draining(r)' => Draining(r) /\ sup' = sup
                   \/ /\ sup' = "draining"
                      /\ \A q, r \in Requests : Draining(q)' /\ Draining(r)' => q = r
<1> SUFFICES Goal
  OBVIOUS
<1>t. /\ TypeOK /\ QueueInv /\ \A r \in Requests : ReqInv(r)
      /\ once \in [Requests -> {"none", "check", "snap", "register", "write", "await",
                                "done"}]
      /\ call \in [Requests -> {"idle", "gate", "direct", "queued", "returned"}]
      /\ queue \in Seq(Requests)
  BY DEF IInv, ReqInv, TypeOK, FrameOK, CallOK, QueueOK
<1>i. DrainInv  BY DEF LifeInv
<1>1. ASSUME UNCHANGED <<call, once>>,
             UNCHANGED sup \/ sup # "draining"
      PROVE  Goal
  BY <1>i, <1>1 DEF Draining, DrainInv
<1>2. ASSUME NEW r \in Requests, ReqActs(r) PROVE Goal
  <2>1. UNCHANGED sup \/ (Draining(r) /\ once'[r] = "done")
    BY <1>t, <1>2, ReqSteps
  <2>2. /\ \A q \in Requests \ {r} : once'[q] = once[q] /\ call'[q] = call[q]
        /\ once'[r] \in Sending /\ call'[r] # "direct" =>
              once[r] \in Sending /\ call[r] # "direct"
    <3> USE <1>t DEF Return, Sending, reqVars, queueVars
    <3>1. ASSUME NEW res, Finish(r, res)
          PROVE /\ \A q \in Requests \ {r} : once'[q] = once[q] /\ call'[q] = call[q]
                /\ once'[r] = "done"
      BY <3>1 DEF Finish
    <3>2. ASSUME NEW from, NEW to, Step(r, from, to), from \in Sending
          PROVE /\ \A q \in Requests \ {r} : once'[q] = once[q] /\ call'[q] = call[q]
                /\ once[r] \in Sending /\ call'[r] = call[r]
      BY <3>2 DEF Step
    <3>3. CASE Invoke(r)
      <4>1. once[r] = "none"  BY <3>3 DEF Invoke, ReqInv, CallInv
      <4> QED  BY <3>3, <4>1 DEF Invoke
    <3>4. CASE Gate(r)
      <4>1. once[r] = "none"  BY <3>4 DEF Gate, ReqInv, CallInv
      <4> QED  BY <3>4, <4>1 DEF Gate
    <3>5. CASE AwaitQueued(r)  BY <3>5 DEF AwaitQueued
    <3>6. CASE Timer(r) \/ CancelCtx(r)
      BY <3>6 DEF Timer, Timeout, QueueDeadline, CancelCtx
    <3>7. CASE CheckState(r)  BY <3>1, <3>2, <3>7 DEF CheckState
    <3>8. CASE Snapshot(r)  BY <3>1, <3>2, <3>8 DEF Snapshot
    <3>9. CASE Register(r)  BY <3>2, <3>9 DEF Register
    <3>10. CASE WriteFrame(r)  BY <3>1, <3>2, <3>10 DEF WriteFrame
    <3>11. CASE Await(r)  BY <3>1, <3>11 DEF Await
    <3> QED
      BY <1>2, <3>3, <3>4, <3>5, <3>6, <3>7, <3>8, <3>9, <3>10, <3>11
      DEF ReqActs, RequestStep
  <2>3. \A q \in Requests : Draining(q)' => Draining(q)
    BY <2>2 DEF Draining
  <2>4. CASE UNCHANGED sup  BY <2>3, <2>4
  <2>5. CASE Draining(r) /\ once'[r] = "done"
    <3>1. \A q \in Requests : ~Draining(q)'
      BY <1>i, <2>3, <2>5 DEF DrainInv, Draining, Sending
    <3> QED  BY <3>1
  <2> QED  BY <2>1, <2>4, <2>5
<1>3. CASE ReadActs
  BY <1>1, <1>3 DEF ReadActs, ReaderStep, ReadExit, FailInflight, Terminate,
                    TerminateState, ConnLost, HeartbeatDead, Response, supVars, reqVars
<1>4. CASE SupStep
  <2> USE DEF SupMove, reqVars
  <2>1. CASE ~Drain
    <3>1. sup # "draining" /\ UNCHANGED <<call, once>>
      BY <1>4, <2>1 DEF SupStep, SupStart, SupMark, SupTimer, SupInterrupted, SupDialFail,
            SupWatch, SupAdopt, SupAdopted, HookStart, HookOK, HookFail, SupLock, SupStore,
            DrainDone, SupGiveUp
    <3>2. \A r \in Requests : ~Draining(r)  BY <1>i, <3>1 DEF DrainInv
    <3>3. \A r \in Requests : ~Draining(r)'  BY <3>1, <3>2 DEF Draining
    <3> QED  BY <3>3
  <2>2. CASE Drain
    <3>1. \A r \in Requests : ~Draining(r)
      BY <1>i, <2>2 DEF DrainInv, Drain
    <3>2. CASE UNCHANGED once
      <4>1. \A r \in Requests : ~Draining(r)'
        BY <2>2, <3>1, <3>2 DEF Drain, Draining
      <4> QED  BY <4>1
    <3>3. CASE sup' = "draining" /\ once' = [once EXCEPT ![Head(queue)] = "check"]
      <4>1. \A q \in Requests : Draining(q)' => q = Head(queue)
        BY <1>t, <2>2, <3>1, <3>3 DEF Drain, Draining
      <4> QED  BY <3>3, <4>1
    <3> QED  BY <2>2, <3>2, <3>3 DEF Drain
  <2> QED  BY <2>1, <2>2
<1>5. CASE CloseActs
  BY <1>1, <1>5 DEF CloseActs, CloseBegin, CloserStep, CloseWaited, CloseInflight,
                    CloseQueued, supVars, reqVars
<1>6. CASE UNCHANGED vars
  BY <1>1, <1>6 DEF vars, supVars, reqVars
<1> QED  BY <1>2, <1>3, <1>4, <1>5, <1>6, LifeSteps

(* A drained request takes the generation that is being settled.           *)
DrainedOn(r) ==
    claimed[r] = "drain" =>
        /\ once[r] \in {"register", "write", "await"} => epoch[r] \in hookOK
        /\ wire[r] # 0 => wire[r] \in hookOK

LEMMA DrainedOnNext ==
    ASSUME IInv, LifeInv, [Next]_vars, NEW r \in Requests
    PROVE  DrainedOn(r)'
<1>t. /\ TypeOK /\ QueueInv /\ \A q \in Requests : ReqInv(q)
      /\ once \in [Requests -> {"none", "check", "snap", "register", "write", "await",
                                "done"}]
      /\ claimed \in [Requests -> {"none", "watch", "ctx", "close", "drain"}]
      /\ epoch \in [Requests -> 0..MaxGen]
      /\ wire \in [Requests -> 0..MaxGen]
      /\ queue \in Seq(Requests)
  BY DEF IInv, ReqInv, TypeOK, FrameOK, QueueOK
<1>0. DrainedOn(r)  BY DEF LifeInv, DrainInv, DrainedOn
<1>h. hookOK \subseteq hookOK'
  <2>1. ASSUME NEW q \in Requests, ReqActs(q) PROVE UNCHANGED hookOK
    BY <1>t, <2>1, ReqSteps DEF life
  <2>2. CASE ReadActs
    BY <2>2 DEF ReadActs, ReaderStep, ReadExit, FailInflight, Terminate,
                TerminateState, ConnLost, HeartbeatDead, Response, supVars
  <2>3. CASE SupStep
    BY <2>3 DEF SupStep, SupStart, SupMark, SupTimer, SupInterrupted, SupDialFail,
          SupWatch, SupAdopt, SupAdopted, HookStart, HookOK, HookFail, SupLock, SupStore,
          Drain, DrainDone, SupGiveUp
  <2>4. CASE CloseActs
    BY <2>4 DEF CloseActs, CloseBegin, CloserStep, CloseWaited, CloseInflight,
                CloseQueued, supVars
  <2>5. CASE UNCHANGED vars  BY <2>5 DEF vars, supVars
  <2> QED  BY <2>1, <2>2, <2>3, <2>4, <2>5, LifeSteps
<1> USE DEF DrainedOn
\* A step that takes no frame further.
<1>1. ASSUME claimed'[r] = "drain" => claimed[r] = "drain" \/ once'[r] \in {"check", "done"},
             claimed'[r] = "drain" /\ claimed[r] # "drain" => wire'[r] = 0,
             \/ once'[r] \in {once[r], "check", "snap", "done"}
             \/ once[r] = "register" /\ once'[r] = "write",
             epoch'[r] = epoch[r] \/ once'[r] \notin {"register", "write", "await"},
             wire'[r] = wire[r]
      PROVE  DrainedOn(r)'
  BY <1>0, <1>h, <1>1
<1>2. CASE UNCHANGED core  BY <1>1, <1>2 DEF core
<1>3. CASE CoreStep
  <2> USE <1>t DEF Return, Claim, CanClaim, reqVars, queueVars
  <2>1. ASSUME NEW q \in Requests, Invoke(q) \/ Gate(q) PROVE DrainedOn(r)'
    <3>1. once[q] = "none"  BY <2>1 DEF Invoke, Gate, ReqInv, CallInv
    <3> QED  BY <1>1, <2>1, <3>1 DEF Invoke, Gate
  <2>2. ASSUME NEW q \in Requests, NEW res, Finish(q, res) PROVE DrainedOn(r)'
    BY <1>1, <2>2 DEF Finish
  <2>3. ASSUME NEW q \in Requests, CheckState(q) PROVE DrainedOn(r)'
    BY <1>1, <2>2, <2>3 DEF CheckState, Step
  <2>4. ASSUME NEW q \in Requests, Snapshot(q) PROVE DrainedOn(r)'
    <3>1. CASE \E res : Finish(q, res)  BY <2>2, <3>1
    <3>2. CASE Step(q, "snap", "register") /\ epoch' = [epoch EXCEPT ![q] = gen]
               /\ UNCHANGED wire
      <4>1. CASE q = r /\ claimed[r] = "drain"
        <5>1. Draining(r)
          BY <3>2, <4>1 DEF Step, Draining, Sending, ReqInv, CallInv
        <5>2. gen \in hookOK
          BY <5>1 DEF LifeInv, DrainInv, SupInv, GenMuHolders
        <5> QED  BY <1>0, <1>h, <3>2, <4>1, <5>2 DEF Step
      <4>2. CASE q # r \/ claimed[r] # "drain"
        BY <1>0, <1>h, <3>2, <4>2 DEF Step
      <4> QED  BY <4>1, <4>2
    <3> QED  BY <2>4, <3>1, <3>2 DEF Snapshot
  <2>5. ASSUME NEW q \in Requests, Register(q) PROVE DrainedOn(r)'
    BY <1>1, <2>5 DEF Register, Step
  <2>6. ASSUME NEW q \in Requests, WriteFrame(q) PROVE DrainedOn(r)'
    <3>1. CASE \E res : Finish(q, res)  BY <2>2, <3>1
    <3>2. CASE Step(q, "write", "await") /\ wire' = [wire EXCEPT ![q] = epoch[q]]
               /\ UNCHANGED epoch
      BY <1>0, <1>h, <3>2 DEF Step
    <3> QED  BY <2>6, <3>1, <3>2 DEF WriteFrame
  <2>7. ASSUME NEW q \in Requests, Await(q) PROVE DrainedOn(r)'
    BY <2>2, <2>7 DEF Await
  <2>8. ASSUME NEW q \in Requests, AwaitQueued(q) \/ Timer(q) PROVE DrainedOn(r)'
    BY <1>1, <2>8 DEF AwaitQueued, Timer, Timeout, QueueDeadline
  <2>9. CASE \E e \in Gens : FailInflight(e) \/ \E q \in Requests : Response(e, q)
    BY <1>1, <2>9 DEF FailInflight, Response
  <2>10. CASE Drain
    <3>1. UNCHANGED <<epoch, wire>>  BY <2>10 DEF Drain
    <3>2. \/ UNCHANGED once /\ (claimed'[r] = "drain" => claimed[r] = "drain")
          \/ r = Head(queue) /\ once'[r] = "check" /\ once[r] = "none"
          \/ r # Head(queue) /\ once'[r] = once[r] /\ claimed'[r] = claimed[r]
      <4>1. queue # <<>> => once[Head(queue)] = "none" /\ Head(queue) \in Requests
        BY DEF QueueInv
      <4> QED  BY <2>10, <4>1 DEF Drain
    <3>3. once[r] = "none" => wire[r] = 0  BY DEF ReqInv, OnceInv
    <3> QED  BY <1>1, <3>1, <3>2, <3>3
  <2>11. CASE \E c \in Closers : CloseInflight(c) \/ CloseQueued(c)
    BY <1>1, <2>11 DEF CloseInflight, CloseQueued
  <2> QED
    BY <1>3, <2>1, <2>3, <2>4, <2>5, <2>6, <2>7, <2>8, <2>9, <2>10, <2>11 DEF CoreStep
<1> QED  BY <1>2, <1>3, CoreSteps

LEMMA DrainInvNext ==
    ASSUME IInv, LifeInv, [Next]_vars
    PROVE  DrainInv'
<1>1. \A r \in Requests : Draining(r)' => sup' = "draining"
  BY DrainingNext DEF LifeInv, DrainInv
<1>2. \A q, r \in Requests : Draining(q)' /\ Draining(r)' => q = r
  BY DrainingNext DEF LifeInv, DrainInv
<1>3. \A r \in Requests : DrainedOn(r)'  BY DrainedOnNext
<1> QED  BY <1>1, <1>2, <1>3 DEF DrainInv, DrainedOn

(* What has stopped stays so: no redial, and nobody drains.                *)
LEMMA QuietStays ==
    ASSUME IInv, LifeInv, [Next]_vars, Quiet
    PROVE  Quiet'
<1>t. /\ TypeOK /\ \A r \in Requests : ReqInv(r)
      /\ reader \in [Gens -> {"none", "reading", "failing", "terminating", "stopping",
                              "done"}]
  BY DEF IInv, ReqInv, TypeOK, ConnectionOK
<1>i. sup = "exit" /\ \A r \in Requests : ~Draining(r)
  BY DEF Quiet, LifeInv, DrainInv
<1> USE DEF Quiet, chanVars, supVars
<1>1. ASSUME NEW r \in Requests, ReqActs(r) PROVE Quiet'
  BY <1>t, <1>i, <1>1, ReqSteps DEF life
<1>2. CASE ReadActs
  BY <1>t, <1>2 DEF ReadActs, ReaderStep, ReadExit, FailInflight, Terminate,
                    TerminateState, ConnLost, HeartbeatDead, Response
<1>3. ~SupStep
  BY <1>i DEF SupStep, SupStart, SupMark, SupTimer, SupInterrupted, SupDialFail,
              SupWatch, SupAdopt, SupAdopted, HookStart, HookOK, HookFail, SupLock,
              SupStore, Drain, DrainDone, SupGiveUp, SupMove
<1>4. CASE CloseActs
  BY <1>4 DEF CloseActs, CloseBegin, CloserStep, CloseWaited, CloseInflight, CloseQueued
<1>5. CASE UNCHANGED vars  BY <1>5 DEF vars
<1> QED  BY <1>1, <1>2, <1>3, <1>4, <1>5, LifeSteps

(* closed is set once and for all, and only Close moves a closer.          *)
LEMMA CloserSteps ==
    ASSUME IInv, [Next]_vars
    PROVE  /\ closed => closed'
           /\ CloseActs \/ UNCHANGED closer
<1>t. TypeOK /\ \A r \in Requests : ReqInv(r)  BY DEF IInv, ReqInv
<1> USE DEF chanVars
<1>1. ASSUME NEW r \in Requests, ReqActs(r) PROVE UNCHANGED <<closed, closer>>
  BY <1>t, <1>1, ReqSteps DEF life
<1>2. CASE ReadActs
  BY <1>2 DEF ReadActs, ReaderStep, ReadExit, FailInflight, Terminate,
              TerminateState, ConnLost, HeartbeatDead, Response
<1>3. CASE SupStep
  BY <1>3 DEF SupStep, SupStart, SupMark, SupTimer, SupInterrupted, SupDialFail,
        SupWatch, SupAdopt, SupAdopted, HookStart, HookOK, HookFail, SupLock, SupStore,
        Drain, DrainDone, SupGiveUp
<1>4. CASE CloseActs
  BY <1>4 DEF CloseActs, CloseBegin, CloserStep, CloseWaited, CloseInflight, CloseQueued
<1>5. CASE UNCHANGED vars  BY <1>5 DEF vars
<1> QED  BY <1>1, <1>2, <1>3, <1>4, <1>5, LifeSteps

LEMMA CloserInvNext ==
    ASSUME IInv, LifeInv, [Next]_vars
    PROVE  CloserInv'
<1>t. closer \in [Closers -> {"idle", "waiting", "closing", "draining", "returned"}]
  BY DEF IInv, TypeOK, ConnectionOK
<1>i. CloserInv  BY DEF LifeInv
<1>1. Quiet => Quiet'  BY QuietStays
<1>2. closed => closed'  BY CloserSteps
<1>3. CASE UNCHANGED closer  BY <1>i, <1>1, <1>2, <1>3 DEF CloserInv
<1>4. CASE CloseActs
  <2> PICK c \in Closers : CloseBegin(c) \/ CloserStep(c)
    BY <1>4 DEF CloseActs
  <2>1. /\ \A d \in Closers \ {c} : closer'[d] = closer[d]
        /\ closer[c] = "idle" => closed' /\ closer'[c] \in {"waiting", "closing"}
        /\ closer[c] # "idle" => closer'[c] # "idle" /\ (Quiet \/ closer[c] = "draining")
    BY <1>t DEF CloseBegin, CloserStep, CloseWaited, CloseInflight, CloseQueued
  <2> QED  BY <1>i, <1>1, <1>2, <2>1 DEF CloserInv
<1> QED  BY <1>3, <1>4, CloserSteps

-----------------------------------------------------------------------------
(* Who goes first.                                                         *)

(* A claim is final, and FailFast calls are fixed.                         *)
LEMMA ClaimStays ==
    ASSUME IInv, [Next]_vars, NEW b \in Requests, claimed[b] # "none"
    PROVE  claimed'[b] # "none"
<1>t. /\ claimed \in [Requests -> {"none", "watch", "ctx", "close", "drain"}]
      /\ queue \in Seq(Requests)
  BY DEF IInv, TypeOK, QueueOK
<1>1. CASE UNCHANGED core  BY <1>1 DEF core
<1>2. CASE CoreStep
  <2> USE <1>t DEF Claim, CanClaim, queueVars, Return
  <2>1. ASSUME NEW r \in Requests,
               \/ Invoke(r) \/ Gate(r) \/ CheckState(r) \/ Snapshot(r) \/ Register(r)
               \/ WriteFrame(r) \/ Await(r)
        PROVE  UNCHANGED claimed
    BY <2>1 DEF Invoke, Gate, CheckState, Snapshot, Register, WriteFrame, Await, Finish,
                Step
  <2>2. ASSUME NEW r \in Requests, AwaitQueued(r) \/ Timer(r) PROVE claimed'[b] # "none"
    BY <2>2 DEF AwaitQueued, Timer, Timeout, QueueDeadline
  <2>3. CASE \E e \in Gens : FailInflight(e) \/ \E r \in Requests : Response(e, r)
    BY <2>3 DEF FailInflight, Response
  <2>4. CASE Drain  BY <2>4 DEF Drain
  <2>5. CASE \E c \in Closers : CloseInflight(c) \/ CloseQueued(c)
    BY <2>5 DEF CloseInflight, CloseQueued
  <2> QED  BY <1>2, <2>1, <2>2, <2>3, <2>4, <2>5 DEF CoreStep
<1> QED  BY <1>1, <1>2, CoreSteps

(* A request whose call takes part is where it was, or is claimed.         *)
LEMMA ServedNext ==
    ASSUME IInv, LifeInv, [Next]_vars,
           NEW r \in Requests, NEW b \in Requests, Served(r, b),
           call[r] # "idle", r \notin FailFast \union direct
    PROVE  Served(r, b)'
<1>t. /\ TypeOK /\ QueueInv /\ \A q \in Requests : ReqInv(q)
      /\ once \in [Requests -> {"none", "check", "snap", "register", "write", "await",
                                "done"}]
      /\ call \in [Requests -> {"idle", "gate", "direct", "queued", "returned"}]
      /\ wire \in [Requests -> 0..MaxGen]
      /\ queue \in Seq(Requests)
  BY DEF IInv, ReqInv, TypeOK, FrameOK, CallOK, QueueOK
<1>q. /\ DOMAIN queue = 1..Len(queue) /\ Len(queue) \in Nat
      /\ \A i \in DOMAIN queue : queue[i] \in Requests
  BY <1>t
<1>c. closed => closed'  BY CloserSteps
<1>1. CASE claimed[b] # "none"
  BY <1>1, ClaimStays DEF Served
<1>2. ASSUME UNCHANGED <<queue, claimed>>, call'[r] = call[r], once'[r] = once[r],
             wire'[r] = wire[r]
      PROVE  Served(r, b)'
  BY <1>2, <1>c DEF Served, InQueue
<1>3. CASE UNCHANGED core  BY <1>2, <1>3 DEF core
<1>4. CASE CoreStep /\ claimed[b] = "none"
  <2> USE DEF reqVars, queueVars
\* A step of another request.
  <2>1. ASSUME NEW q \in Requests \ {r},
               \/ Invoke(q) \/ CheckState(q) \/ Snapshot(q) \/ Register(q)
               \/ WriteFrame(q) \/ Await(q)
        PROVE  Served(r, b)'
    BY <1>2, <1>t, <2>1 DEF Invoke, Return, CheckState, Snapshot, Register, WriteFrame,
                            Await, Finish, Step
  <2>2. ASSUME NEW q \in Requests, Gate(q), UNCHANGED queue, q # r PROVE Served(r, b)'
    BY <1>2, <1>t, <2>2 DEF Gate, Return
  <2>3. ASSUME NEW q \in Requests, Gate(q), queue' = Append(queue, q), q # r
        PROVE Served(r, b)'
    <3>1. /\ DOMAIN queue' = 1..(Len(queue) + 1)
          /\ queue'[Len(queue) + 1] = q
          /\ \A i \in DOMAIN queue : i \in DOMAIN queue' /\ queue'[i] = queue[i]
      BY <1>q, <1>t, <2>3
    <3>2. InQueue(b) => InQueue(b)'  BY <3>1 DEF InQueue
    <3>3. ~InQueue(r) => ~InQueue(r)'
      BY <1>q, <2>3, <3>1 DEF InQueue
    <3>4. /\ UNCHANGED claimed /\ call'[r] = call[r] /\ once'[r] = once[r]
          /\ wire'[r] = wire[r]
      BY <1>t, <2>3 DEF Gate, Return
    <3>5. (\E i, j \in DOMAIN queue : i < j /\ queue[i] = b /\ queue[j] = r)
          => \E i, j \in DOMAIN queue' : i < j /\ queue'[i] = b /\ queue'[j] = r
      BY <3>1
    <3> QED  BY <1>c, <3>2, <3>3, <3>4, <3>5 DEF Served
\* Its own steps.
  <2>4. ASSUME Gate(r) PROVE Served(r, b)'
    <3>1. call[r] = "gate" /\ once[r] = "none" /\ wire[r] = 0 /\ ~InQueue(r)
      <4>1. call[r] = "gate"  BY <2>4 DEF Gate
      <4> QED  BY <1>t, <4>1 DEF ReqInv, CallInv, QueueInv, InQueue
    <3>2. InQueue(b)  BY <1>4, <3>1 DEF Served, InQueue
    <3>3. CASE state # "Reconnecting"
      <4>1. sup \notin GenMuHolders /\ queue # <<>>
        BY <2>4, <3>2, <1>q DEF Gate, GenMuFree, InQueue
      <4>2. closed  BY <3>3, <4>1 DEF LifeInv, SupInv, GenMuHolders
      <4>3. call'[r] = "direct" /\ once'[r] = "check"
        BY <1>t, <2>4, <3>3 DEF Gate
      <4> QED  BY <1>c, <4>2, <4>3 DEF Served
    <3>4. CASE state = "Reconnecting" /\ queue' = Append(queue, r)
      <4> PICK i \in DOMAIN queue : queue[i] = b
        BY <3>2 DEF InQueue
      <4>1. /\ i \in DOMAIN queue' /\ Len(queue) + 1 \in DOMAIN queue'
            /\ i < Len(queue) + 1 /\ queue'[i] = b /\ queue'[Len(queue) + 1] = r
        BY <1>q, <1>t, <3>4
      <4> QED  BY <4>1 DEF Served
    <3>5. CASE state = "Reconnecting" /\ UNCHANGED queue /\ Return(r, "net")
      <4>1. call'[r] = "returned" /\ UNCHANGED <<once, wire>>
        BY <1>t, <2>4, <3>5 DEF Gate, Return
      <4> QED  BY <3>1, <3>5, <4>1 DEF Served, InQueue
    <3> QED  BY <2>4, <3>3, <3>4, <3>5 DEF Gate
  <2>5. ASSUME once[r] \in Sending
        PROVE  closed /\ call[r] = "direct" /\ once[r] \in {"check", "snap"}
    <3>1. \A i \in DOMAIN queue : queue[i] # r
      BY <2>5, <1>t DEF QueueInv, Sending
    <3>2. call[r] # "gate"  BY <2>5, <1>t DEF ReqInv, CallInv, Sending
    <3> QED  BY <1>4, <2>5, <3>1, <3>2 DEF Served, Sending
  <2>6. ASSUME NEW res, Finish(r, res), once[r] \in Sending PROVE Served(r, b)'
    <3>1. call[r] = "direct" /\ once[r] \in {"check", "snap"} /\ wire[r] = 0 /\ ~InQueue(r)
      BY <2>5, <2>6, <1>t DEF ReqInv, OnceInv, QueueInv, InQueue
    <3>2. /\ call'[r] = "returned" /\ once'[r] = "done" /\ wire'[r] = 0
          /\ UNCHANGED queue
      BY <1>t, <2>6, <3>1 DEF Finish, Return
    <3> QED  BY <3>1, <3>2 DEF Served, InQueue
  <2>7. ASSUME CheckState(r) PROVE Served(r, b)'
    <3>1. once[r] = "check"  BY <2>7 DEF CheckState, Step
    <3>2. CASE \E res : Finish(r, res)  BY <2>6, <3>1, <3>2 DEF Sending
    <3>3. CASE Step(r, "check", "snap")
      <4>1. call'[r] = "direct" /\ once'[r] = "snap"
        BY <1>t, <2>5, <3>1, <3>3 DEF Step, Sending
      <4> QED  BY <1>c, <2>5, <3>1, <4>1 DEF Served, Sending
    <3> QED  BY <2>7, <3>2, <3>3 DEF CheckState
  <2>8. ASSUME Snapshot(r) PROVE Served(r, b)'
    <3>1. once[r] = "snap"  BY <2>8 DEF Snapshot, Step
    <3>2. closed  BY <2>5, <3>1 DEF Sending
    <3>3. \E res : Finish(r, res)  BY <2>8, <3>2 DEF Snapshot
    <3> QED  BY <2>6, <3>1, <3>3 DEF Sending
  <2>9. ~(Register(r) \/ WriteFrame(r) \/ Await(r))
    BY <2>5 DEF Register, WriteFrame, Await, Step, Sending
  <2>10. ~Invoke(r)  BY DEF Invoke
\* Steps that only claim or return.
  <2>11. ASSUME NEW q \in Requests, AwaitQueued(q) \/ Timer(q) PROVE Served(r, b)'
    <3>1. UNCHANGED <<queue, once, wire>>
      BY <2>11 DEF AwaitQueued, Timer, Timeout, QueueDeadline
    <3>2. call'[r] = call[r] \/ (call[r] = "queued" /\ call'[r] = "returned")
      BY <1>t, <2>11 DEF AwaitQueued, Return, Timer, Timeout, QueueDeadline
    <3>3. CASE call'[r] = call[r]
      BY <1>4, <1>c, <3>1, <3>3 DEF Served, InQueue
    <3>4. CASE call[r] = "queued"
      BY <1>4, <3>1, <3>4 DEF Served
    <3> QED  BY <3>2, <3>3, <3>4
  <2>12. CASE \E e \in Gens : FailInflight(e) \/ \E q \in Requests : Response(e, q)
    BY <1>2, <2>12 DEF FailInflight, Response
\* The head of the queue is claimed, and the others move up.
  <2>13. CASE Drain
    <3>1. /\ queue # <<>> /\ queue' = Tail(queue) /\ UNCHANGED <<call, wire>>
          /\ claimed'[Head(queue)] # "none"
      <4>1. Head(queue) \in Requests /\ queue # <<>>  BY <1>t, <2>13 DEF Drain
      <4>2. claimed \in [Requests -> {"none", "watch", "ctx", "close", "drain"}]
        BY <1>t DEF TypeOK, QueueOK
      <4> QED  BY <2>13, <4>1, <4>2 DEF Drain, Claim, CanClaim
    <3>2. /\ DOMAIN queue' = 1..(Len(queue) - 1)
          /\ \A i \in DOMAIN queue' : queue'[i] = queue[i + 1]
          /\ Head(queue) = queue[1]
      BY <1>t, <1>q, <3>1
    <3>3. CASE b = Head(queue)  BY <3>1, <3>3 DEF Served
    <3>4. CASE b # Head(queue)
      <4>1. CASE call[r] = "gate" /\ InQueue(b)
        <5> PICK i \in DOMAIN queue : queue[i] = b
          BY <4>1 DEF InQueue
        <5>1. i - 1 \in DOMAIN queue' /\ queue'[i - 1] = b
          BY <1>q, <3>2, <3>4
        <5> QED  BY <3>1, <4>1, <5>1 DEF Served, InQueue
      <4>2. CASE \E i, j \in DOMAIN queue : i < j /\ queue[i] = b /\ queue[j] = r
        <5> PICK i \in DOMAIN queue, j \in DOMAIN queue : i < j /\ queue[i] = b /\ queue[j] = r
          BY <4>2
        <5>1. /\ i - 1 \in DOMAIN queue' /\ j - 1 \in DOMAIN queue' /\ i - 1 < j - 1
              /\ queue'[i - 1] = b /\ queue'[j - 1] = r
          BY <1>q, <3>2, <3>4
        <5> QED  BY <5>1 DEF Served
      <4>3. CASE call[r] \in {"direct", "returned"} /\ ~InQueue(r)
        <5>1. Head(queue) # r
          BY <1>q, <3>1, <3>2, <4>3 DEF InQueue
        <5>2. once'[r] = once[r]
          BY <1>t, <2>13, <5>1 DEF Drain
        <5>3. ~InQueue(r)'
          BY <1>q, <3>1, <3>2, <4>3 DEF InQueue
        <5>4. ~(call[r] = "gate")  BY <4>3
        <5>5. ~ \E i, j \in DOMAIN queue : i < j /\ queue[i] = b /\ queue[j] = r
          BY <4>3 DEF InQueue
        <5> QED  BY <1>4, <1>c, <3>1, <5>2, <5>3, <5>4, <5>5 DEF Served
      <4>4. call[r] = "direct" => ~InQueue(r)
        BY <1>t DEF QueueInv, InQueue
      <4> QED  BY <1>4, <4>1, <4>2, <4>3, <4>4 DEF Served
    <3> QED  BY <3>3, <3>4
\* failAllQueued claims all that wait.
  <2>14. ASSUME NEW c \in Closers, CloseInflight(c) PROVE Served(r, b)'
    BY <1>2, <2>14 DEF CloseInflight
  <2>15. ASSUME NEW c \in Closers, CloseQueued(c) PROVE Served(r, b)'
    <3>1. InQueue(b) => claimed'[b] = "close"
      BY <1>4, <2>15 DEF CloseQueued, CanClaim
    <3>2. queue' = <<>> /\ UNCHANGED <<call, once, wire, closed>>
      BY <2>15 DEF CloseQueued
    <3>3. CASE InQueue(b)  BY <3>1, <3>3 DEF Served
    <3>4. CASE ~InQueue(b)
      <4>1. ~InQueue(r)'  BY <3>2 DEF InQueue
      <4> QED  BY <1>4, <3>2, <3>4, <4>1 DEF Served, InQueue
    <3> QED  BY <3>3, <3>4
  <2>16. ASSUME NEW q \in Requests, Gate(q) PROVE Served(r, b)'
    <3>1. UNCHANGED queue \/ queue' = Append(queue, q)  BY <2>16 DEF Gate
    <3> QED  BY <2>2, <2>3, <2>4, <2>16, <3>1
  <2> QED
    BY <1>4, <2>1, <2>7, <2>8, <2>9, <2>10, <2>11, <2>12, <2>13, <2>14, <2>15, <2>16
    DEF CoreStep
<1> QED  BY <1>1, <1>3, <1>4, CoreSteps

(* The history of who was waiting when a call began.                       *)
LEMMA BehindSteps ==
    ASSUME IInv, [Next]_vars, NEW r \in Requests
    PROVE  /\ UNCHANGED opts /\ direct \subseteq direct'
           /\ Invoke(r) \/ behind'[r] = behind[r]
<1>t. /\ TypeOK /\ \A q \in Requests : ReqInv(q)
      /\ behind \in [Requests -> SUBSET Requests]
  BY DEF IInv, ReqInv, TypeOK, CallOK
<1> USE <1>t DEF reqVars
<1>1. ASSUME NEW q \in Requests, ReqActs(q)
      PROVE  /\ UNCHANGED opts /\ direct \subseteq direct'
             /\ Invoke(r) \/ behind'[r] = behind[r]
  <2>1. UNCHANGED opts  BY <1>1, ReqSteps DEF life
  <2>2. CASE Invoke(q)  BY <2>1, <2>2 DEF Invoke
  <2>3. CASE ~Invoke(q)
    <3>1. UNCHANGED <<direct, behind>>
      BY <1>1, <2>3 DEF ReqActs, RequestStep, Gate, CheckState, Snapshot, Register,
                  WriteFrame, Await, AwaitQueued, Timer, Timeout, QueueDeadline, CancelCtx,
                  Finish, Step
    <3> QED  BY <2>1, <3>1
  <2> QED  BY <2>2, <2>3
<1>2. CASE ReadActs
  BY <1>2 DEF ReadActs, ReaderStep, ReadExit, FailInflight, Terminate,
              TerminateState, ConnLost, HeartbeatDead, Response
<1>3. CASE SupStep
  BY <1>3 DEF SupStep, SupStart, SupMark, SupTimer, SupInterrupted, SupDialFail,
        SupWatch, SupAdopt, SupAdopted, HookStart, HookOK, HookFail, SupLock, SupStore,
        Drain, DrainDone, SupGiveUp
<1>4. CASE CloseActs
  BY <1>4 DEF CloseActs, CloseBegin, CloserStep, CloseWaited, CloseInflight, CloseQueued
<1>5. CASE UNCHANGED vars  BY <1>5 DEF vars
<1> QED  BY <1>1, <1>2, <1>3, <1>4, <1>5, LifeSteps

LEMMA BehindInvNext ==
    ASSUME IInv, LifeInv, [Next]_vars
    PROVE  BehindInv'
<1> SUFFICES ASSUME NEW r \in Requests \ (FailFast' \union direct'), NEW b \in behind'[r]
             PROVE  Served(r, b)'
  BY DEF BehindInv
<1>t. /\ TypeOK /\ QueueInv /\ \A q \in Requests : ReqInv(q)
      /\ call \in [Requests -> {"idle", "gate", "direct", "queued", "returned"}]
      /\ behind \in [Requests -> SUBSET Requests]
  BY DEF IInv, ReqInv, TypeOK, CallOK
<1>1. UNCHANGED opts /\ r \notin FailFast \union direct
  BY BehindSteps DEF FailFast
<1>2. CASE Invoke(r)
  <2>1. /\ b \in Requests /\ InQueue(b) /\ UNCHANGED <<queue, wire>>
        /\ call[r] = "idle" /\ once[r] = "none" /\ wire[r] = 0 /\ ~InQueue(r)
    <3>1. b \in Requests /\ InQueue(b) /\ UNCHANGED <<queue, wire>> /\ call[r] = "idle"
      BY <1>t, <1>2 DEF Invoke, queueVars
    <3> QED  BY <1>t, <3>1 DEF ReqInv, CallInv, QueueInv, InQueue
  <2>2. CASE closed
    <3>1. call'[r] = "returned" /\ UNCHANGED once
      BY <1>t, <1>2, <2>2 DEF Invoke, Return
    <3> QED  BY <2>1, <3>1 DEF Served, InQueue
  <2>3. CASE ~closed
    <3>1. call'[r] = "gate"
      BY <1>t, <1>1, <1>2, <2>3 DEF Invoke
    <3> QED  BY <2>1, <3>1 DEF Served, InQueue
  <2> QED  BY <2>2, <2>3
<1>3. CASE ~Invoke(r)
  <2>1. b \in behind[r] /\ b \in Requests
    BY <1>t, <1>3, BehindSteps
  <2>2. Served(r, b)  BY <1>1, <2>1 DEF LifeInv, BehindInv
  <2>3. CASE call[r] = "idle"
    <3>1. claimed[b] # "none"
      BY <1>t, <2>2, <2>3 DEF Served, QueueInv
    <3> QED  BY <2>1, <3>1, ClaimStays DEF Served
  <2>4. CASE call[r] # "idle"
    BY <1>1, <2>1, <2>2, <2>4, ServedNext
  <2> QED  BY <2>3, <2>4
<1> QED  BY <1>2, <1>3

-----------------------------------------------------------------------------
(* The theorems on the order of the frames and on Close.                   *)

LEMMA LifeInit == Init => LifeInv
<1> SUFFICES ASSUME Init PROVE LifeInv
  OBVIOUS
<1>1. SupInv  BY DEF Init, SupInv, GenMuHolders
<1>2. ConnInv  BY DEF Init, ConnInv
<1>3. DrainInv  BY DEF Init, DrainInv, Draining, Sending
<1>4. CloserInv /\ BehindInv  BY DEF Init, CloserInv, BehindInv
<1> QED  BY <1>1, <1>2, <1>3, <1>4 DEF LifeInv

LEMMA LifeNext == IInv /\ LifeInv /\ [Next]_vars => LifeInv'
  BY SupInvNext, ConnInvNext, DrainInvNext, CloserInvNext, BehindInvNext DEF LifeInv

(* LifeInv, on top of IInv: what the supervisor holds and settles, which   *)
(* connection is open, who drains, and where the requests of the queue are *)
(* until they are served.                                                  *)
THEOREM LifeInvariant == Spec => []LifeInv
<1> QED  BY LifeInit, LifeNext, Invariant, PTL DEF Spec

(* However many calls, reconnects and closers: a request that waited when  *)
(* a call began goes out, or is given up, before the frame of that call    *)
(* (invoke, settleGeneration, drainQueue).                                 *)
THEOREM QueueIsFirst == Spec => []QueuedGoFirst
<1>1. ASSUME IInv, LifeInv PROVE QueuedGoFirst
  <2> SUFFICES ASSUME NEW r \in Requests, wire[r] # 0, r \notin FailFast \union direct,
                      NEW b \in behind[r]
               PROVE  claimed[b] # "none"
    BY DEF QueuedGoFirst
  <2>1. Served(r, b)  BY <1>1 DEF LifeInv, BehindInv
  <2>2. once[r] \notin {"none", "check", "snap", "register"} /\ ReqInv(r)
    BY <1>1 DEF IInv, ReqInv, OnceInv
  <2>3. call[r] # "gate"  BY <2>2 DEF ReqInv, CallInv
  <2>4. ~ \E j \in DOMAIN queue : queue[j] = r
    BY <1>1, <2>2 DEF IInv, QueueInv
  <2> QED  BY <2>1, <2>2, <2>3, <2>4 DEF Served
<1> QED  BY <1>1, Invariant, LifeInvariant, PTL

(* drainQueue sends nothing on a generation whose session hook has not     *)
(* succeeded, whatever fails and is redialled meanwhile (settleGeneration).*)
THEOREM DrainedAfterHook == Spec => []DrainedOnSettledGen
<1>1. LifeInv => DrainedOnSettledGen  BY DEF LifeInv, DrainInv, DrainedOnSettledGen
<1> QED  BY <1>1, LifeInvariant, PTL

(* When a Close returns no goroutine of the channel runs, no connection is *)
(* open and none is taken in later (Close, terminate, reconnectFrom).            *)
THEOREM ClosedForGood == Spec => []CloseIsFinal
<1>1. ASSUME LifeInv PROVE CloseIsFinal
  <2> SUFFICES ASSUME \E c \in Closers : closer[c] = "returned"
               PROVE  /\ sup = "exit" /\ ~bypass
                      /\ \A e \in Gens : conn[e] # "up" /\ reader[e] \in {"none", "done"}
    BY DEF CloseIsFinal
  <2>1. Quiet  BY <1>1 DEF LifeInv, CloserInv
  <2> QED  BY <1>1, <2>1 DEF LifeInv, SupInv, ConnInv, Quiet
<1> QED  BY <1>1, LifeInvariant, PTL
=============================================================================
