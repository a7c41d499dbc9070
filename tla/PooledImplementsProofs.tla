----------------------- MODULE PooledImplementsProofs -----------------------
(***************************************************************************)
(* Every step of PooledCalls is a step of CallContract, or changes nothing *)
(* a caller relies on, for any number of calls and any pool size.          *)
(***************************************************************************)
EXTENDS PooledImplements, PooledCallsProofs

Mutates  == {c \in Calls : EffectiveOp(entry[c]) = "execute"}
Effects  == [c \in Calls |-> Effect(c)]
Verdicts == [c \in Calls |-> Verdict(c)]

\* Emptying one session's transaction takes exactly its work out of the open
\* work, because no call has work on two sessions.
LEMMA EmptiedSession ==
  ASSUME NEW s \in Sessions, IInv, txn' = [txn EXCEPT ![s] = {}]
  PROVE  OpenWork' = OpenWork \ txn[s]
BY DEF IInv, TypeOK, WorkStages, OpenWork

\* The mutating calls are known once they begin; later steps keep the set.
LEMMA MutatesStays ==
  ASSUME entry' = entry
  PROVE  Mutates' = Mutates
BY DEF Mutates

\* The verdicts only move with the callers.
LEMMA VerdictsStay ==
  ASSUME \A c \in Calls : Verdict(c)' = Verdict(c)
  PROVE  Verdicts' = Verdicts
BY DEF Verdicts

LEMMA VerdictMoves ==
  ASSUME NEW c \in Calls, NEW v,
         \A d \in Calls : Verdict(d)' = IF d = c THEN v ELSE Verdict(d)
  PROVE  Verdicts' = [Verdicts EXCEPT ![c] = v]
BY DEF Verdicts

LEMMA EffectsStay ==
  ASSUME \A c \in Calls : Effect(c)' = Effect(c)
  PROVE  Effects' = Effects
BY DEF Effects

\* A step that moves neither callers nor work is a stutter of the contract.
LEMMA Stutters ==
  ASSUME entry' = entry, durable' = durable, OpenWork' = OpenWork,
         \A c \in Calls : Verdict(c)' = Verdict(c),
         \A c \in Calls : worker'[c] \in {"none", "spawned"}
                            <=> worker[c] \in {"none", "spawned"}
  PROVE  UNCHANGED Contract!contractVars
<1>1. \A c \in Calls : Effect(c)' = Effect(c)
  BY DEF Effect
<1>. QED
  BY <1>1, MutatesStays, VerdictsStay, EffectsStay
  DEF Contract!contractVars, Mutates, Effects, Verdicts

\* The five shapes a step has for the contract, over the refinement mapping.
LEMMA SubmitShape ==
  ASSUME NEW c \in Calls, Verdict(c) = "idle", Effects' = Effects,
         Mutates' = Mutates \/ Mutates' = Mutates \cup {c},
         Verdicts' = [Verdicts EXCEPT ![c] = "pending"]
  PROVE  Contract!Next
BY DEF Contract!Next, Contract!Submit, Mutates, Effects, Verdicts

LEMMA AnswerShape ==
  ASSUME NEW c \in Calls, NEW v, Verdict(c) = "pending",
         Mutates' = Mutates, Effects' = Effects,
         Verdicts' = [Verdicts EXCEPT ![c] = v],
         \/ v = "unknown"
         \/ v = "not_run" /\ Effect(c) = "unapplied"
         \/ v = "done" /\ (c \in Mutates => Effect(c) = "durable")
  PROVE  Contract!Next
BY DEF Contract!Next, Contract!Done, Contract!NotRun, Contract!Unknown,
       Mutates, Effects, Verdicts

LEMMA ApplyShape ==
  ASSUME NEW c \in Calls, Verdict(c) \in {"pending", "unknown"}, c \in Mutates,
         Effect(c) = "unapplied", Mutates' = Mutates, Verdicts' = Verdicts,
         Effects' = [d \in Calls |-> IF d \in {c} THEN "open" ELSE Effects[d]]
  PROVE  Contract!Next
BY DEF Contract!Next, Contract!Apply, Contract!Live, Contract!Becomes,
       Mutates, Effects, Verdicts

LEMMA CommitShape ==
  ASSUME NEW S \in SUBSET Calls, \A d \in S : Effect(d) = "open",
         Mutates' = Mutates, Verdicts' = Verdicts,
         Effects' = [d \in Calls |-> IF d \in S THEN "durable" ELSE Effects[d]]
  PROVE  Contract!Next
BY DEF Contract!Next, Contract!CommitAll, Contract!Becomes, Mutates, Effects, Verdicts

\* Work a statement in flight may turn out never to do.
Voidable(d) == Effect(d) = "unapplied" /\ Verdict(d) \in {"pending", "unknown"}

LEMMA DiscardShape ==
  ASSUME NEW S \in SUBSET Calls,
         \A d \in S : Effect(d) = "open" \/ Voidable(d),
         Mutates' = Mutates, Verdicts' = Verdicts,
         Effects' = [d \in Calls |-> IF d \in S THEN "void" ELSE Effects[d]]
  PROVE  Contract!Next
BY DEF Contract!Next, Contract!Discard, Contract!Live, Contract!Becomes, Voidable,
       Mutates, Effects, Verdicts

-----------------------------------------------------------------------------
(* One lemma per group of actions of PooledCalls. *)

ContractStep == [Contract!Next]_(Contract!contractVars)

\* A begun call is a submitted one; it mutates when it will run as execute.
LEMMA BeginMaps ==
  ASSUME NEW c \in Calls, IInv, Begin(c)
  PROVE  ContractStep
<1>. USE DEF IInv, TypeOK, Begin, dbVars, poolVars
<1>1. Effects' = Effects
  <2>1. \A d \in Calls : Effect(d)' = Effect(d)
    BY DEF Effect, OpenWork
  <2>. QED
    BY <2>1, EffectsStay
<1>2. Verdict(c) = "idle" /\ Verdicts' = [Verdicts EXCEPT ![c] = "pending"]
  <2>1. \A d \in Calls : Verdict(d)' = IF d = c THEN "pending" ELSE Verdict(d)
    BY DEF Verdict
  <2>. QED
    BY <2>1, VerdictMoves DEF Verdict
<1>3. Mutates' = Mutates \/ Mutates' = Mutates \cup {c}
  BY DEF Mutates, EffectiveOp, Stages
<1>. QED
  BY <1>1, <1>2, <1>3, SubmitShape DEF ContractStep

\* get() is invisible, but for the open work of a session it evicts.
LEMMA AcquireMaps ==
  ASSUME NEW c \in Calls, IInv, AcquirePermit(c) \/ PingOk(c) \/ ConnectOk(c)
  PROVE  ContractStep
<1>. USE DEF IInv, TypeOK, Stages, Acquiring, AcquirePermit, PingOk, ConnectOk, TakeSlot,
          Spawn, dbVars, poolVars
<1>1. entry' = entry /\ durable' = durable /\ OpenWork' = OpenWork
  BY DEF OpenWork
<1>2. \A d \in Calls : Verdict(d)' = Verdict(d)
  BY DEF Verdict
<1>3. \A d \in Calls : worker'[d] \in {"none", "spawned"}
                         <=> worker[d] \in {"none", "spawned"}
  OBVIOUS
<1>. QED
  BY <1>1, <1>2, <1>3, Stutters DEF ContractStep

\* Emptying a session without a commit voids the work that was open on it.
LEMMA LostWorkMaps ==
  ASSUME NEW s \in Sessions, IInv, txn' = [txn EXCEPT ![s] = {}],
         durable' = durable, entry' = entry,
         \A d \in Calls : Verdict(d)' = Verdict(d),
         \A d \in Calls : worker'[d] \in {"none", "spawned"}
                            <=> worker[d] \in {"none", "spawned"}
  PROVE  Contract!Next
<1>1. OpenWork' = OpenWork \ txn[s]
  BY EmptiedSession
<1>2. txn[s] \in SUBSET Calls
  BY DEF IInv, TypeOK
<1>3. \A d \in txn[s] : /\ d \in OpenWork /\ d \notin durable
                        /\ worker[d] \notin {"none", "spawned"}
  BY DEF IInv, WorkStages, OpenWork, OpenWorkIsFailedOrCurrent
<1>4. \A d \in txn[s] : Effect(d) = "open"
  BY <1>3 DEF Effect
<1>5. \A d \in Calls : Effect(d)' = IF d \in txn[s] THEN "void" ELSE Effect(d)
  BY <1>1, <1>3 DEF Effect
<1>6. Effects' = [d \in Calls |-> IF d \in txn[s] THEN "void" ELSE Effects[d]]
  BY <1>5 DEF Effects
<1>. QED
  BY <1>2, <1>4, <1>6, MutatesStays, VerdictsStay, DiscardShape

LEMMA PingFailsMaps ==
  ASSUME NEW c \in Calls, IInv, PingFails(c)
  PROVE  ContractStep
<1>1. held[c] \in Sessions
  BY DEF IInv, TypeOK, Holding, PingFails
<1>2. \A d \in Calls : Verdict(d)' = Verdict(d)
  BY DEF IInv, TypeOK, PingFails, TakeSlot, Verdict
<1>3. /\ txn' = [txn EXCEPT ![held[c]] = {}]
      /\ durable' = durable /\ entry' = entry /\ worker' = worker
  BY DEF PingFails
<1>. QED
  BY <1>1, <1>2, <1>3, LostWorkMaps DEF ContractStep

\* A failed get() never spawned a task, so its statement is unapplied.
LEMMA AcquireErrorMaps ==
  ASSUME NEW c \in Calls, IInv, ConnectFails(c) \/ AcquireTimeout(c)
  PROVE  ContractStep
<1>. USE DEF IInv, TypeOK, Stages, Acquiring, ConnectFails, AcquireTimeout, Answered, dbVars
<1>1. Effects' = Effects /\ Mutates' = Mutates
  <2>1. \A d \in Calls : Effect(d)' = Effect(d)
    BY DEF Effect, OpenWork
  <2>. QED
    BY <2>1, EffectsStay, MutatesStays
<1>2. Verdict(c) = "pending" /\ Verdicts' = [Verdicts EXCEPT ![c] = "not_run"]
  <2>1. \A d \in Calls : Verdict(d)' = IF d = c THEN "not_run" ELSE Verdict(d)
    BY DEF Verdict, NotRun
  <2>. QED
    BY <2>1, VerdictMoves DEF Verdict
<1>3. Effect(c) = "unapplied"
  BY DEF Effect, WorkStages, OpenWorkIsFailedOrCurrent, OpenWork, Results
<1>. QED
  BY <1>1, <1>2, <1>3, AnswerShape DEF ContractStep

\* A running or abandoned caller has a pending or an unknown verdict while its
\* task is still at work.
LEMMA UnfinishedIsLive ==
  ASSUME NEW c \in Calls, IInv, worker[c] \in Unfinished
  PROVE  Verdict(c) \in {"pending", "unknown"}
BY DEF IInv, TypeOK, Stages, Acquiring, Unfinished, Results, NotRun, Verdict

\* A statement that ends before it is applied never takes effect.
LEMMA NoEffectMaps ==
  ASSUME NEW c \in Calls, NEW r \in Results, IInv, worker[c] = "spawned",
         Finish(c, r), UNCHANGED <<txn, durable>>
  PROVE  ContractStep
<1>. USE DEF IInv, TypeOK, Stages, Acquiring, Finish, Results
<1>1. Mutates' = Mutates /\ Verdicts' = Verdicts
  BY MutatesStays, VerdictsStay DEF Verdict
<1>2. c \notin durable \cup OpenWork
  BY DEF WorkStages, OpenWorkIsFailedOrCurrent, OpenWork
<1>3. OpenWork' = OpenWork
  BY DEF OpenWork
<1>4. \A d \in Calls : Effect(d)' = IF d \in {c} THEN "void" ELSE Effect(d)
  BY <1>2, <1>3 DEF Effect
<1>5. Effects' = [d \in Calls |-> IF d \in {c} THEN "void" ELSE Effects[d]]
  BY <1>4 DEF Effects
<1>6. Voidable(c)
  BY <1>2, UnfinishedIsLive DEF Effect, Unfinished, Voidable
<1>7. {c} \in SUBSET Calls /\ \A d \in {c} : Effect(d) = "open" \/ Voidable(d)
  BY <1>6
<1>. QED
  BY <1>1, <1>5, <1>7, DiscardShape DEF ContractStep

\* The statement of a mutating call joins the open work.
LEMMA WorkerExecutesMaps ==
  ASSUME NEW c \in Calls, IInv, WorkerExecutes(c)
  PROVE  ContractStep
<1>. USE DEF IInv, TypeOK, WorkerExecutes
<1>1. held[c] \in Sessions
  BY DEF Holding, Unfinished
<1>2. Mutates' = Mutates /\ Verdicts' = Verdicts /\ c \in Mutates
  BY MutatesStays, VerdictsStay DEF Verdict, Mutates
<1>3. c \notin durable \cup OpenWork
  BY DEF WorkStages, OpenWorkIsFailedOrCurrent, OpenWork, Results
<1>4. OpenWork' = OpenWork \cup {c}
  BY <1>1 DEF OpenWork
<1>5. \A d \in Calls : Effect(d)' = IF d \in {c} THEN "open" ELSE Effect(d)
  BY <1>3, <1>4 DEF Effect
<1>6. Effects' = [d \in Calls |-> IF d \in {c} THEN "open" ELSE Effects[d]]
  BY <1>5 DEF Effects
<1>7. Effect(c) = "unapplied" /\ Verdict(c) \in {"pending", "unknown"}
  BY <1>3, UnfinishedIsLive DEF Effect, Unfinished
<1>. QED
  BY <1>2, <1>6, <1>7, ApplyShape DEF ContractStep

\* A commit makes all the work open on the session durable.
LEMMA CommitMaps ==
  ASSUME NEW c \in Calls, NEW r \in Results, IInv, worker[c] = "applied",
         Commit(held[c]), Finish(c, r)
  PROVE  ContractStep
<1>. DEFINE S == txn[held[c]]
<1>1. held[c] \in Sessions
  BY DEF IInv, TypeOK, Holding, Unfinished
<1>2. Mutates' = Mutates /\ Verdicts' = Verdicts
  BY MutatesStays, VerdictsStay DEF Verdict, Finish
<1>3. OpenWork' = OpenWork \ S /\ durable' = durable \cup S
  BY <1>1, EmptiedSession DEF Commit
<1>4. S \in SUBSET Calls
  BY <1>1 DEF IInv, TypeOK
<1>5. \A d \in S : d \in OpenWork /\ d \notin durable
  BY <1>1 DEF IInv, WorkStages, OpenWork
<1>6. \A d \in S : Effect(d) = "open"
  BY <1>5 DEF Effect
<1>7. \A d \in Calls : worker'[d] \in {"none", "spawned"}
                         <=> worker[d] \in {"none", "spawned"}
  BY DEF IInv, TypeOK, Finish, Results
<1>8. \A d \in Calls : Effect(d)' = IF d \in S THEN "durable" ELSE Effect(d)
  BY <1>3, <1>5, <1>7 DEF Effect
<1>9. Effects' = [d \in Calls |-> IF d \in S THEN "durable" ELSE Effects[d]]
  BY <1>8 DEF Effects
<1>. QED
  BY <1>2, <1>4, <1>6, <1>9, CommitShape DEF ContractStep

\* An applied statement whose task ends without a commit stays as it is, or is
\* lost with its transaction.
LEMMA LeftOpenMaps ==
  ASSUME NEW c \in Calls, NEW r \in Results, IInv, worker[c] = "applied",
         Finish(c, r), durable' = durable,
         txn' = txn \/ txn' = [txn EXCEPT ![held[c]] = {}]
  PROVE  ContractStep
<1>1. held[c] \in Sessions
  BY DEF IInv, TypeOK, Holding, Unfinished
<1>2. entry' = entry /\ \A d \in Calls : Verdict(d)' = Verdict(d)
  BY DEF Verdict, Finish
<1>3. \A d \in Calls : worker'[d] \in {"none", "spawned"}
                         <=> worker[d] \in {"none", "spawned"}
  BY DEF IInv, TypeOK, Finish, Results
<1>4. CASE txn' = txn
  <2>1. OpenWork' = OpenWork
    BY <1>4 DEF OpenWork
  <2>. QED
    BY <2>1, <1>2, <1>3, Stutters DEF ContractStep
<1>5. CASE txn' = [txn EXCEPT ![held[c]] = {}]
  BY <1>1, <1>2, <1>3, <1>5, LostWorkMaps DEF ContractStep
<1>. QED
  BY <1>4, <1>5

\* Every step of the task, whether or not its caller is still there.
LEMMA WorkerMaps ==
  ASSUME NEW c \in Calls, IInv, WorkerStep(c)
  PROVE  ContractStep
<1>1. CASE WorkerQueries(c) \/ WorkerFails(c)
  BY <1>1, NoEffectMaps DEF WorkerQueries, WorkerFails, Results
<1>2. CASE WorkerExecutes(c)
  BY <1>2, WorkerExecutesMaps
<1>3. CASE WorkerCommits(c)
  BY <1>3, CommitMaps DEF WorkerCommits, Results
<1>4. CASE WorkerCommitFails(c)
  BY <1>4, CommitMaps, LeftOpenMaps DEF WorkerCommitFails, Results
<1>5. CASE WorkerPanics(c)
  BY <1>5, NoEffectMaps, LeftOpenMaps DEF WorkerPanics, Unfinished, Results
<1>. QED
  BY <1>1, <1>2, <1>3, <1>4, <1>5 DEF WorkerStep

\* The caller is told "done" only by a task that ended with its commit.
LEMMA AnswerMaps ==
  ASSUME NEW c \in Calls, IInv, Deliver(c) \/ CallTimeout(c)
  PROVE  ContractStep
<1>. USE DEF IInv, TypeOK, Stages, Deliver, CallTimeout, Answered, dbVars
<1>1. Effects' = Effects /\ Mutates' = Mutates
  <2>1. \A d \in Calls : Effect(d)' = Effect(d)
    BY DEF Effect, OpenWork
  <2>. QED
    BY <2>1, EffectsStay, MutatesStays
<1>2. Verdict(c) = "pending"
  BY DEF Verdict
<1>3. CASE Deliver(c) /\ worker[c] = "ok"
  <2>1. Verdicts' = [Verdicts EXCEPT ![c] = "done"]
    <3>1. \A d \in Calls : Verdict(d)' = IF d = c THEN "done" ELSE Verdict(d)
      BY <1>3 DEF Verdict, NotRun
    <3>. QED
      BY <3>1, VerdictMoves
  <2>2. c \in Mutates => Effect(c) = "durable"
    BY <1>3 DEF Mutates, Effect, WorkStages
  <2>. QED
    BY <1>1, <1>2, <2>1, <2>2, AnswerShape DEF ContractStep
<1>4. CASE CallTimeout(c) \/ (Deliver(c) /\ worker[c] # "ok")
  <2>1. Verdicts' = [Verdicts EXCEPT ![c] = "unknown"]
    <3>1. \A d \in Calls : Verdict(d)' = IF d = c THEN "unknown" ELSE Verdict(d)
      BY <1>4 DEF Verdict, NotRun, Results
    <3>. QED
      BY <3>1, VerdictMoves
  <2>. QED
    BY <1>1, <1>2, <2>1, AnswerShape DEF ContractStep
<1>. QED
  BY <1>3, <1>4

\* A session that dies takes its open work with it; abandoned ones have none.
LEMMA SessionMaps ==
  ASSUME NEW s \in Sessions, IInv, SessionStep(s)
  PROVE  ContractStep
<1>1. \A d \in Calls : Verdict(d)' = Verdict(d)
  BY DEF SessionStep, OrphanConnects, OrphanEnds, SessionDies, callVars, Verdict
<1>2. entry' = entry /\ worker' = worker /\ durable' = durable
  BY DEF SessionStep, OrphanConnects, OrphanEnds, SessionDies, callVars
<1>3. CASE SessionDies(s)
  BY <1>1, <1>2, <1>3, LostWorkMaps DEF SessionDies, ContractStep
<1>4. CASE OrphanConnects(s) \/ OrphanEnds(s)
  <2>1. OpenWork' = OpenWork
    BY <1>4 DEF OrphanConnects, OrphanEnds, OpenWork
  <2>. QED
    BY <1>1, <1>2, <2>1, Stutters DEF ContractStep
<1>. QED
  BY <1>3, <1>4 DEF SessionStep

\* The initial states correspond.
LEMMA InitMaps == Init => Contract!Init
<1>. SUFFICES ASSUME Init PROVE Contract!Init
  OBVIOUS
<1>1. Mutates = {}
  BY DEF Init, Mutates, EffectiveOp
<1>2. Effects = [c \in Calls |-> "unapplied"]
  BY DEF Init, Effects, Effect, OpenWork
<1>3. Verdicts = [c \in Calls |-> "idle"]
  BY DEF Init, Verdicts, Verdict
<1>. QED
  BY <1>1, <1>2, <1>3 DEF Contract!Init, Mutates, Effects, Verdicts

LEMMA NextMaps == IInv /\ [Next]_vars => ContractStep
<1>. SUFFICES ASSUME IInv, [Next]_vars PROVE ContractStep
  OBVIOUS
<1>1. ASSUME NEW c \in Calls, CallStep(c) PROVE ContractStep
  BY <1>1, BeginMaps, AcquireMaps, PingFailsMaps, AcquireErrorMaps, WorkerMaps,
     AnswerMaps DEF CallStep
<1>2. ASSUME NEW s \in Sessions, SessionStep(s) PROVE ContractStep
  BY <1>2, SessionMaps
<1>3. CASE Quiet \/ UNCHANGED vars
  <2>1. UNCHANGED vars
    BY <1>3 DEF Quiet
  <2>2. OpenWork' = OpenWork /\ \A d \in Calls : Verdict(d)' = Verdict(d)
    BY <2>1 DEF vars, callVars, dbVars, OpenWork, Verdict
  <2>. QED
    BY <2>1, <2>2, Stutters DEF vars, callVars, dbVars, ContractStep
<1>. QED
  BY <1>1, <1>2, <1>3 DEF Next

\* run_pooled over the pool and the database implements the call contract.
THEOREM PooledImplementsContract == Spec => KeepsContract
<1>1. Init => Contract!Init
  BY InitMaps
<1>2. IInv /\ [Next]_vars => [Contract!Next]_(Contract!contractVars)
  BY NextMaps DEF ContractStep
<1>. QED
  BY <1>1, <1>2, InvariantHolds, PTL DEF Spec, KeepsContract, Contract!Spec
==============================================================================
