-------------------------- MODULE PooledCallsProofs --------------------------
(***************************************************************************)
(* The inductive invariant IInv of PooledCalls holds for any number of     *)
(* calls, any supply of sessions and any pool size, and with it the type   *)
(* invariant and the safety properties.                                    *)
(***************************************************************************)
EXTENDS PooledCalls, FiniteSetTheorems, TLAPS

USE CallsAssumption, SessionAssumption, PoolAssumption

\* The calls that own a session are finitely many.
LEMMA HoldersFinite == IsFiniteSet(Holders) /\ Cardinality(Holders) \in Nat
  BY CallsAssumption, FS_Subset, FS_CardinalityType DEF Holders

\* A call that takes a session with one permit keeps the permits accounted for.
LEMMA TakePermit ==
  ASSUME NEW c \in Calls, NEW s \in Sessions, TypeOK, PermitAccounting,
         held[c] = NoSession, held' = [held EXCEPT ![c] = s],
         permits' = permits - 1
  PROVE  PermitAccounting'
<1>1. Holders' = Holders \cup {c}
  BY SessionAssumption DEF Holders, TypeOK
<1>2. c \notin Holders
  BY DEF Holders
<1>3. Cardinality(Holders') = Cardinality(Holders) + 1
  BY <1>1, <1>2, HoldersFinite, FS_AddElement
<1>. QED
  BY <1>3, HoldersFinite, PoolAssumption DEF PermitAccounting, TypeOK

\* A call that gives up its session gives back one permit, and there is room
\* for it.
LEMMA GivePermit ==
  ASSUME NEW c \in Calls, TypeOK, PermitAccounting, held[c] # NoSession,
         held' = [held EXCEPT ![c] = NoSession], permits' = permits + 1
  PROVE  PermitAccounting' /\ permits' \in 0 .. PoolMaxSize
<1>1. Holders' = Holders \ {c}
  BY DEF Holders, TypeOK
<1>2. c \in Holders
  BY DEF Holders
<1>3. Cardinality(Holders') = Cardinality(Holders) - 1
  BY <1>1, <1>2, HoldersFinite, FS_RemoveElement
<1>4. Cardinality(Holders') \in Nat
  BY <1>1, HoldersFinite, FS_Subset, FS_CardinalityType
<1>. QED
  BY <1>3, <1>4, HoldersFinite, PoolAssumption DEF PermitAccounting, TypeOK

\* Nothing else moves a permit.
LEMMA KeepPermit ==
  ASSUME PermitAccounting, Holders' = Holders, permits' = permits
  PROVE  PermitAccounting'
  BY DEF PermitAccounting

\* Parking a session together with its permit, or taking one with or without
\* a permit, leaves every parked session its permit.
LEMMA ParkOne ==
  ASSUME NEW s, ParkedWithPermits, permits \in Nat, idle' = idle \cup {s},
         permits' = permits + 1
  PROVE  ParkedWithPermits'
<1>1. IsFiniteSet(idle) /\ Cardinality(idle) \in Nat
  BY FS_CardinalityType DEF ParkedWithPermits
<1>2. /\ IsFiniteSet(idle \cup {s})
      /\ Cardinality(idle \cup {s})
           = IF s \in idle THEN Cardinality(idle) ELSE Cardinality(idle) + 1
  BY <1>1, FS_AddElement
<1>3. Cardinality(idle \cup {s}) <= Cardinality(idle) + 1
  BY <1>1, <1>2
<1>. QED
  BY <1>1, <1>2, <1>3 DEF ParkedWithPermits

LEMMA UnparkOne ==
  ASSUME NEW s \in idle, ParkedWithPermits, permits \in Nat, idle' = idle \ {s},
         permits' \in {permits, permits - 1}
  PROVE  ParkedWithPermits'
<1>1. IsFiniteSet(idle') /\ Cardinality(idle') = Cardinality(idle) - 1
  BY FS_RemoveElement DEF ParkedWithPermits
<1>. QED
  BY <1>1, FS_CardinalityType DEF ParkedWithPermits

\* The end of a task returns one session and one permit.
LEMMA FinishPool ==
  ASSUME NEW c \in Calls, NEW r, IInv, worker[c] \in Unfinished, Finish(c, r)
  PROVE  PermitAccounting' /\ permits' \in 0 .. PoolMaxSize /\ ParkedWithPermits'
<1>1. held[c] # NoSession /\ permits \in Nat
  BY DEF IInv, Holding, TypeOK
<1>. QED
  BY <1>1, GivePermit, ParkOne DEF IInv, Finish

\* One turn of get() that takes a permit, or keeps the one it has.
LEMMA TakeSlotPool ==
  ASSUME NEW c \in Calls, NEW left, TypeOK, PermitAccounting, ParkedWithPermits,
         TakeSlot(c, left),
         \/ held[c] = NoSession /\ permits > 0 /\ permits' = permits - 1
         \/ held[c] # NoSession /\ permits' = permits
  PROVE  PermitAccounting' /\ permits' \in 0 .. PoolMaxSize /\ ParkedWithPermits'
<1>1. permits \in Nat /\ permits' \in 0 .. PoolMaxSize
  BY PoolAssumption DEF TypeOK
<1>2. PICK s \in Sessions : held' = [held EXCEPT ![c] = s]
  BY DEF TakeSlot, TypeOK
<1>3. PermitAccounting'
  <2>1. CASE held[c] = NoSession
    BY <1>2, <2>1, TakePermit
  <2>2. CASE held[c] # NoSession
    <3>1. Holders' = Holders
      BY <1>2, <2>2, SessionAssumption DEF Holders, TypeOK
    <3>. QED
      BY <2>2, <3>1, KeepPermit
  <2>. QED
    BY <2>1, <2>2
<1>4. ParkedWithPermits'
  <2>1. CASE idle = {} /\ idle' = idle
    BY <1>1, <2>1, FS_EmptySet DEF ParkedWithPermits
  <2>2. CASE \E t \in idle : idle' = idle \ {t}
    BY <1>1, <2>2, UnparkOne
  <2>. QED
    BY <2>1, <2>2 DEF TakeSlot
<1>. QED
  BY <1>1, <1>3, <1>4

\* A call that begins owns nothing yet.
LEMMA BeginInv ==
  ASSUME NEW c \in Calls, IInv, Begin(c)
  PROVE  IInv'
<1>. USE SessionAssumption DEF IInv, TypeOK, Stages, Holding, Acquiring, Entries,
          Results, Unfinished, NotRun, callVars, poolVars, dbVars,
          Begin
<1>1. TypeOK' /\ PermitAccounting' /\ ParkedWithPermits'
  BY KeepPermit DEF ParkedWithPermits, Holders
<1>2. Stages' /\ Holding'
  OBVIOUS
<1>3. SessionOwnership'
  BY DEF SessionOwnership, SessionStages, PooledSessions, HeldSessions, Holders
<1>4. SessionStages'
  BY DEF SessionOwnership, SessionStages, PooledSessions, HeldSessions, Holders, WorkStages
<1>5. WorkStages' /\ OpenWorkIsFailedOrCurrent'
  BY DEF SessionOwnership, SessionStages, PooledSessions, HeldSessions, Holders,
         WorkStages, OpenWorkIsFailedOrCurrent, EffectiveOp
<1>. QED
  BY <1>1, <1>2, <1>3, <1>4, <1>5

\* A permit comes with a parked session or a fresh connect, each unowned.
LEMMA AcquirePermitInv ==
  ASSUME NEW c \in Calls, IInv, AcquirePermit(c)
  PROVE  IInv'
<1>. USE SessionAssumption DEF IInv, TypeOK, Stages, Holding, Acquiring, Entries,
          Results, Unfinished, NotRun, callVars, poolVars, dbVars,
          AcquirePermit, TakeSlot
<1>1. TypeOK' /\ PermitAccounting' /\ ParkedWithPermits'
  <2>1. PermitAccounting' /\ permits' \in 0 .. PoolMaxSize /\ ParkedWithPermits'
    BY TakeSlotPool
  <2>. QED
    BY <2>1
<1>2. Stages' /\ Holding'
  OBVIOUS
<1>3. SessionOwnership'
  BY DEF SessionOwnership, SessionStages, PooledSessions, HeldSessions, Holders
<1>4. SessionStages'
  BY DEF SessionOwnership, SessionStages, PooledSessions, HeldSessions, Holders, WorkStages
<1>5. WorkStages' /\ OpenWorkIsFailedOrCurrent'
  BY DEF SessionOwnership, SessionStages, PooledSessions, HeldSessions, Holders,
         WorkStages, OpenWorkIsFailedOrCurrent, EffectiveOp
<1>. QED
  BY <1>1, <1>2, <1>3, <1>4, <1>5

\* A live session passes from get() to the task.
LEMMA PingOkInv ==
  ASSUME NEW c \in Calls, IInv, PingOk(c)
  PROVE  IInv'
<1>. USE SessionAssumption DEF IInv, TypeOK, Stages, Holding, Acquiring, Entries,
          Results, Unfinished, NotRun, callVars, poolVars, dbVars,
          PingOk, Spawn
<1>1. TypeOK' /\ PermitAccounting' /\ ParkedWithPermits'
  BY KeepPermit DEF ParkedWithPermits, Holders
<1>2. Stages' /\ Holding'
  OBVIOUS
<1>3. SessionOwnership'
  BY DEF SessionOwnership, SessionStages, PooledSessions, HeldSessions, Holders
<1>4. SessionStages'
  BY DEF SessionOwnership, SessionStages, PooledSessions, HeldSessions, Holders, WorkStages
<1>5. WorkStages' /\ OpenWorkIsFailedOrCurrent'
  BY DEF SessionOwnership, SessionStages, PooledSessions, HeldSessions, Holders,
         WorkStages, OpenWorkIsFailedOrCurrent, EffectiveOp
<1>. QED
  BY <1>1, <1>2, <1>3, <1>4, <1>5

\* The evicted session loses its open work; the next slot is taken for it.
LEMMA PingFailsInv ==
  ASSUME NEW c \in Calls, IInv, PingFails(c)
  PROVE  IInv'
<1>. USE SessionAssumption DEF IInv, TypeOK, Stages, Holding, Acquiring, Entries,
          Results, Unfinished, NotRun, callVars, poolVars, dbVars,
          PingFails, TakeSlot
<1>1. TypeOK' /\ PermitAccounting' /\ ParkedWithPermits'
  <2>1. PermitAccounting' /\ permits' \in 0 .. PoolMaxSize /\ ParkedWithPermits'
    BY TakeSlotPool
  <2>. QED
    BY <2>1
<1>2. Stages' /\ Holding'
  OBVIOUS
<1>3. SessionOwnership'
  BY DEF SessionOwnership, SessionStages, PooledSessions, HeldSessions, Holders
<1>4. SessionStages'
  BY DEF SessionOwnership, SessionStages, PooledSessions, HeldSessions, Holders, WorkStages
<1>5. WorkStages' /\ OpenWorkIsFailedOrCurrent'
  BY DEF SessionOwnership, SessionStages, PooledSessions, HeldSessions, Holders,
         WorkStages, OpenWorkIsFailedOrCurrent, EffectiveOp
<1>. QED
  BY <1>1, <1>2, <1>3, <1>4, <1>5

\* A new session starts with no open work.
LEMMA ConnectOkInv ==
  ASSUME NEW c \in Calls, IInv, ConnectOk(c)
  PROVE  IInv'
<1>. USE SessionAssumption DEF IInv, TypeOK, Stages, Holding, Acquiring, Entries,
          Results, Unfinished, NotRun, callVars, poolVars, dbVars,
          ConnectOk, Spawn
<1>1. TypeOK' /\ PermitAccounting' /\ ParkedWithPermits'
  BY KeepPermit DEF ParkedWithPermits, Holders
<1>2. Stages' /\ Holding'
  OBVIOUS
<1>3. SessionOwnership'
  BY DEF SessionOwnership, SessionStages, PooledSessions, HeldSessions, Holders
<1>4. SessionStages'
  BY DEF SessionOwnership, SessionStages, PooledSessions, HeldSessions, Holders, WorkStages
<1>5. WorkStages' /\ OpenWorkIsFailedOrCurrent'
  BY DEF SessionOwnership, SessionStages, PooledSessions, HeldSessions, Holders,
         WorkStages, OpenWorkIsFailedOrCurrent, EffectiveOp
<1>. QED
  BY <1>1, <1>2, <1>3, <1>4, <1>5

\* A failed connect leaves neither session nor permit behind.
LEMMA ConnectFailsInv ==
  ASSUME NEW c \in Calls, IInv, ConnectFails(c)
  PROVE  IInv'
<1>. USE SessionAssumption DEF IInv, TypeOK, Stages, Holding, Acquiring, Entries,
          Results, Unfinished, NotRun, callVars, poolVars, dbVars,
          ConnectFails, Answered
<1>1. TypeOK' /\ PermitAccounting' /\ ParkedWithPermits'
  <2>1. PermitAccounting' /\ permits' \in 0 .. PoolMaxSize
    BY GivePermit
  <2>2. ParkedWithPermits'
    BY FS_CardinalityType DEF ParkedWithPermits
  <2>. QED
    BY <2>1, <2>2
<1>2. Stages' /\ Holding'
  OBVIOUS
<1>3. SessionOwnership'
  BY DEF SessionOwnership, SessionStages, PooledSessions, HeldSessions, Holders
<1>4. SessionStages'
  BY DEF SessionOwnership, SessionStages, PooledSessions, HeldSessions, Holders, WorkStages
<1>5. WorkStages' /\ OpenWorkIsFailedOrCurrent'
  BY DEF SessionOwnership, SessionStages, PooledSessions, HeldSessions, Holders,
         WorkStages, OpenWorkIsFailedOrCurrent, EffectiveOp
<1>. QED
  BY <1>1, <1>2, <1>3, <1>4, <1>5

\* An abandoned connect is owned by nobody and has no work on it.
LEMMA AcquireTimeoutInv ==
  ASSUME NEW c \in Calls, IInv, AcquireTimeout(c)
  PROVE  IInv'
<1>. USE SessionAssumption DEF IInv, TypeOK, Stages, Holding, Acquiring, Entries,
          Results, Unfinished, NotRun, callVars, poolVars, dbVars,
          AcquireTimeout, Answered
<1>1. TypeOK' /\ PermitAccounting' /\ ParkedWithPermits'
  <2>1. PermitAccounting' /\ permits' \in 0 .. PoolMaxSize
    BY GivePermit, KeepPermit DEF Holders
  <2>2. ParkedWithPermits'
    BY FS_CardinalityType DEF ParkedWithPermits
  <2>. QED
    BY <2>1, <2>2
<1>2. Stages' /\ Holding'
  OBVIOUS
<1>3. SessionOwnership'
  BY DEF SessionOwnership, SessionStages, PooledSessions, HeldSessions, Holders
<1>4. SessionStages'
  BY DEF SessionOwnership, SessionStages, PooledSessions, HeldSessions, Holders, WorkStages
<1>5. WorkStages' /\ OpenWorkIsFailedOrCurrent'
  BY DEF SessionOwnership, SessionStages, PooledSessions, HeldSessions, Holders,
         WorkStages, OpenWorkIsFailedOrCurrent, EffectiveOp
<1>. QED
  BY <1>1, <1>2, <1>3, <1>4, <1>5

\* A query ends without touching any open work.
LEMMA WorkerQueriesInv ==
  ASSUME NEW c \in Calls, IInv, WorkerQueries(c)
  PROVE  IInv'
<1>. USE SessionAssumption DEF IInv, TypeOK, Stages, Holding, Acquiring, Entries,
          Results, Unfinished, NotRun, callVars, poolVars, dbVars,
          WorkerQueries, Finish
<1>1. TypeOK' /\ PermitAccounting' /\ ParkedWithPermits'
  <2>1. worker[c] \in Unfinished
    OBVIOUS
  <2>. HIDE DEF Finish, IInv
  <2>2. PermitAccounting' /\ permits' \in 0 .. PoolMaxSize /\ ParkedWithPermits'
    BY <2>1, FinishPool
  <2>. QED
    BY <2>2 DEF Finish, IInv
<1>2. Stages' /\ Holding'
  OBVIOUS
<1>3. SessionOwnership'
  BY DEF SessionOwnership, SessionStages, PooledSessions, HeldSessions, Holders
<1>4. SessionStages'
  BY DEF SessionOwnership, SessionStages, PooledSessions, HeldSessions, Holders, WorkStages
<1>5. WorkStages' /\ OpenWorkIsFailedOrCurrent'
  BY DEF SessionOwnership, SessionStages, PooledSessions, HeldSessions, Holders,
         WorkStages, OpenWorkIsFailedOrCurrent, EffectiveOp
<1>. QED
  BY <1>1, <1>2, <1>3, <1>4, <1>5

\* A failed statement ends its task without effect.
LEMMA WorkerFailsInv ==
  ASSUME NEW c \in Calls, IInv, WorkerFails(c)
  PROVE  IInv'
<1>. USE SessionAssumption DEF IInv, TypeOK, Stages, Holding, Acquiring, Entries,
          Results, Unfinished, NotRun, callVars, poolVars, dbVars,
          WorkerFails, Finish
<1>1. TypeOK' /\ PermitAccounting' /\ ParkedWithPermits'
  <2>1. worker[c] \in Unfinished
    OBVIOUS
  <2>. HIDE DEF Finish, IInv
  <2>2. PermitAccounting' /\ permits' \in 0 .. PoolMaxSize /\ ParkedWithPermits'
    BY <2>1, FinishPool
  <2>. QED
    BY <2>2 DEF Finish, IInv
<1>2. Stages' /\ Holding'
  OBVIOUS
<1>3. SessionOwnership'
  BY DEF SessionOwnership, SessionStages, PooledSessions, HeldSessions, Holders
<1>4. SessionStages'
  BY DEF SessionOwnership, SessionStages, PooledSessions, HeldSessions, Holders, WorkStages
<1>5. WorkStages' /\ OpenWorkIsFailedOrCurrent'
  BY DEF SessionOwnership, SessionStages, PooledSessions, HeldSessions, Holders,
         WorkStages, OpenWorkIsFailedOrCurrent, EffectiveOp
<1>. QED
  BY <1>1, <1>2, <1>3, <1>4, <1>5

\* The statement joins the open work of its own session only.
LEMMA WorkerExecutesInv ==
  ASSUME NEW c \in Calls, IInv, WorkerExecutes(c)
  PROVE  IInv'
<1>. USE SessionAssumption DEF IInv, TypeOK, Stages, Holding, Acquiring, Entries,
          Results, Unfinished, NotRun, callVars, poolVars, dbVars,
          WorkerExecutes
<1>1. TypeOK' /\ PermitAccounting' /\ ParkedWithPermits'
  BY KeepPermit DEF ParkedWithPermits, Holders
<1>2. Stages' /\ Holding'
  OBVIOUS
<1>3. SessionOwnership'
  BY DEF SessionOwnership, SessionStages, PooledSessions, HeldSessions, Holders
<1>4. SessionStages'
  BY DEF SessionOwnership, SessionStages, PooledSessions, HeldSessions, Holders, WorkStages
<1>5. WorkStages' /\ OpenWorkIsFailedOrCurrent'
  BY DEF SessionOwnership, SessionStages, PooledSessions, HeldSessions, Holders,
         WorkStages, OpenWorkIsFailedOrCurrent, EffectiveOp
<1>. QED
  BY <1>1, <1>2, <1>3, <1>4, <1>5

\* A commit ends the task and empties the session's open work.
LEMMA WorkerCommitsInv ==
  ASSUME NEW c \in Calls, IInv, WorkerCommits(c)
  PROVE  IInv'
<1>. USE SessionAssumption DEF IInv, TypeOK, Stages, Holding, Acquiring, Entries,
          Results, Unfinished, NotRun, callVars, poolVars, dbVars,
          WorkerCommits, Commit, Finish
<1>1. TypeOK' /\ PermitAccounting' /\ ParkedWithPermits'
  <2>1. worker[c] \in Unfinished
    OBVIOUS
  <2>. HIDE DEF Finish, IInv
  <2>2. PermitAccounting' /\ permits' \in 0 .. PoolMaxSize /\ ParkedWithPermits'
    BY <2>1, FinishPool
  <2>. QED
    BY <2>2 DEF Finish, IInv
<1>2. Stages' /\ Holding'
  OBVIOUS
<1>3. SessionOwnership'
  BY DEF SessionOwnership, SessionStages, PooledSessions, HeldSessions, Holders
<1>4. SessionStages'
  BY DEF SessionOwnership, SessionStages, PooledSessions, HeldSessions, Holders, WorkStages
<1>5. WorkStages' /\ OpenWorkIsFailedOrCurrent'
  BY DEF SessionOwnership, SessionStages, PooledSessions, HeldSessions, Holders,
         WorkStages, OpenWorkIsFailedOrCurrent, EffectiveOp
<1>. QED
  BY <1>1, <1>2, <1>3, <1>4, <1>5

\* Whatever became of the commit, the work is that of ended tasks.
LEMMA WorkerCommitFailsInv ==
  ASSUME NEW c \in Calls, IInv, WorkerCommitFails(c)
  PROVE  IInv'
<1>. USE SessionAssumption DEF IInv, TypeOK, Stages, Holding, Acquiring, Entries,
          Results, Unfinished, NotRun, callVars, poolVars, dbVars,
          WorkerCommitFails, Commit, Finish
<1>1. TypeOK' /\ PermitAccounting' /\ ParkedWithPermits'
  <2>1. worker[c] \in Unfinished
    OBVIOUS
  <2>. HIDE DEF Finish, IInv
  <2>2. PermitAccounting' /\ permits' \in 0 .. PoolMaxSize /\ ParkedWithPermits'
    BY <2>1, FinishPool
  <2>. QED
    BY <2>2 DEF Finish, IInv
<1>2. Stages' /\ Holding'
  OBVIOUS
<1>3. SessionOwnership'
  BY DEF SessionOwnership, SessionStages, PooledSessions, HeldSessions, Holders
<1>4. SessionStages'
  BY DEF SessionOwnership, SessionStages, PooledSessions, HeldSessions, Holders, WorkStages
<1>5. WorkStages' /\ OpenWorkIsFailedOrCurrent'
  BY DEF SessionOwnership, SessionStages, PooledSessions, HeldSessions, Holders,
         WorkStages, OpenWorkIsFailedOrCurrent, EffectiveOp
<1>. QED
  BY <1>1, <1>2, <1>3, <1>4, <1>5

\* A panic ends the task, perhaps leaving its work open.
LEMMA WorkerPanicsInv ==
  ASSUME NEW c \in Calls, IInv, WorkerPanics(c)
  PROVE  IInv'
<1>. USE SessionAssumption DEF IInv, TypeOK, Stages, Holding, Acquiring, Entries,
          Results, Unfinished, NotRun, callVars, poolVars, dbVars,
          WorkerPanics, Finish
<1>1. TypeOK' /\ PermitAccounting' /\ ParkedWithPermits'
  <2>1. worker[c] \in Unfinished
    OBVIOUS
  <2>. HIDE DEF Finish, IInv
  <2>2. PermitAccounting' /\ permits' \in 0 .. PoolMaxSize /\ ParkedWithPermits'
    BY <2>1, FinishPool
  <2>. QED
    BY <2>2 DEF Finish, IInv
<1>2. Stages' /\ Holding'
  OBVIOUS
<1>3. SessionOwnership'
  BY DEF SessionOwnership, SessionStages, PooledSessions, HeldSessions, Holders
<1>4. SessionStages'
  BY DEF SessionOwnership, SessionStages, PooledSessions, HeldSessions, Holders, WorkStages
<1>5. WorkStages' /\ OpenWorkIsFailedOrCurrent'
  BY DEF SessionOwnership, SessionStages, PooledSessions, HeldSessions, Holders,
         WorkStages, OpenWorkIsFailedOrCurrent, EffectiveOp
<1>. QED
  BY <1>1, <1>2, <1>3, <1>4, <1>5

\* The caller is told what its ended task returned.
LEMMA DeliverInv ==
  ASSUME NEW c \in Calls, IInv, Deliver(c)
  PROVE  IInv'
<1>. USE SessionAssumption DEF IInv, TypeOK, Stages, Holding, Acquiring, Entries,
          Results, Unfinished, NotRun, callVars, poolVars, dbVars,
          Deliver, Answered
<1>1. TypeOK' /\ PermitAccounting' /\ ParkedWithPermits'
  BY KeepPermit DEF ParkedWithPermits, Holders
<1>2. Stages' /\ Holding'
  OBVIOUS
<1>3. SessionOwnership'
  BY DEF SessionOwnership, SessionStages, PooledSessions, HeldSessions, Holders
<1>4. SessionStages'
  BY DEF SessionOwnership, SessionStages, PooledSessions, HeldSessions, Holders, WorkStages
<1>5. WorkStages' /\ OpenWorkIsFailedOrCurrent'
  BY DEF SessionOwnership, SessionStages, PooledSessions, HeldSessions, Holders,
         WorkStages, OpenWorkIsFailedOrCurrent, EffectiveOp
<1>. QED
  BY <1>1, <1>2, <1>3, <1>4, <1>5

\* The caller leaves; its task keeps the session.
LEMMA CallTimeoutInv ==
  ASSUME NEW c \in Calls, IInv, CallTimeout(c)
  PROVE  IInv'
<1>. USE SessionAssumption DEF IInv, TypeOK, Stages, Holding, Acquiring, Entries,
          Results, Unfinished, NotRun, callVars, poolVars, dbVars,
          CallTimeout, Answered
<1>1. TypeOK' /\ PermitAccounting' /\ ParkedWithPermits'
  BY KeepPermit DEF ParkedWithPermits, Holders
<1>2. Stages' /\ Holding'
  OBVIOUS
<1>3. SessionOwnership'
  BY DEF SessionOwnership, SessionStages, PooledSessions, HeldSessions, Holders
<1>4. SessionStages'
  BY DEF SessionOwnership, SessionStages, PooledSessions, HeldSessions, Holders, WorkStages
<1>5. WorkStages' /\ OpenWorkIsFailedOrCurrent'
  BY DEF SessionOwnership, SessionStages, PooledSessions, HeldSessions, Holders,
         WorkStages, OpenWorkIsFailedOrCurrent, EffectiveOp
<1>. QED
  BY <1>1, <1>2, <1>3, <1>4, <1>5

\* The steps of the database and of abandoned connects touch no call.
LEMMA SessionStepInv ==
  ASSUME NEW s \in Sessions, IInv, SessionStep(s)
  PROVE  IInv'
<1>. USE SessionAssumption DEF IInv, TypeOK, Stages, Holding, Acquiring, Entries,
          Results, Unfinished, NotRun, callVars, poolVars, dbVars,
          SessionStep, OrphanConnects, OrphanEnds, SessionDies
<1>1. TypeOK' /\ PermitAccounting' /\ ParkedWithPermits'
  BY KeepPermit DEF ParkedWithPermits, Holders
<1>2. Stages' /\ Holding'
  OBVIOUS
<1>3. SessionOwnership'
  BY DEF SessionOwnership, SessionStages, PooledSessions, HeldSessions, Holders
<1>4. SessionStages'
  BY DEF SessionOwnership, SessionStages, PooledSessions, HeldSessions, Holders, WorkStages
<1>5. WorkStages' /\ OpenWorkIsFailedOrCurrent'
  BY DEF SessionOwnership, SessionStages, PooledSessions, HeldSessions, Holders,
         WorkStages, OpenWorkIsFailedOrCurrent, EffectiveOp
<1>. QED
  BY <1>1, <1>2, <1>3, <1>4, <1>5

\* A step that changes nothing.
LEMMA StutterInv ==
  ASSUME IInv, UNCHANGED vars
  PROVE  IInv'
BY DEF vars, callVars, poolVars, dbVars, IInv, TypeOK, Stages, Holding,
       PermitAccounting, ParkedWithPermits, SessionOwnership, SessionStages,
       WorkStages, OpenWorkIsFailedOrCurrent, Holders, HeldSessions, PooledSessions

-----------------------------------------------------------------------------
\* The binding starts with all permits free and no session.
LEMMA InitInv == Init => IInv
<1>. SUFFICES ASSUME Init PROVE IInv
  OBVIOUS
<1>. USE SessionAssumption, PoolAssumption DEF Init
<1>1. Holders = {} /\ HeldSessions = {}
  BY DEF Holders, HeldSessions
<1>2. TypeOK /\ Stages /\ Holding
  BY DEF TypeOK, Stages, Holding, Acquiring, Entries, Results, Unfinished, NotRun
<1>3. PermitAccounting /\ ParkedWithPermits
  BY <1>1, FS_EmptySet DEF PermitAccounting, ParkedWithPermits
<1>4. SessionOwnership /\ SessionStages
  BY <1>1 DEF SessionOwnership, SessionStages, PooledSessions, Unfinished
<1>5. WorkStages /\ OpenWorkIsFailedOrCurrent
  BY DEF WorkStages, OpenWorkIsFailedOrCurrent, Results
<1>. QED
  BY <1>2, <1>3, <1>4, <1>5 DEF IInv

\* Every action preserves the invariant.
LEMMA NextInv == IInv /\ [Next]_vars => IInv'
<1>. SUFFICES ASSUME IInv, [Next]_vars PROVE IInv'
  OBVIOUS
<1>1. ASSUME NEW c \in Calls, WorkerStep(c) PROVE IInv'
  BY <1>1, WorkerQueriesInv, WorkerFailsInv, WorkerExecutesInv, WorkerCommitsInv,
     WorkerCommitFailsInv, WorkerPanicsInv DEF WorkerStep
<1>2. ASSUME NEW c \in Calls, CallStep(c) PROVE IInv'
  BY <1>1, <1>2, BeginInv, AcquirePermitInv, PingOkInv, PingFailsInv, ConnectOkInv,
     ConnectFailsInv, AcquireTimeoutInv, DeliverInv, CallTimeoutInv DEF CallStep
<1>3. ASSUME NEW s \in Sessions, SessionStep(s) PROVE IInv'
  BY <1>3, SessionStepInv
<1>4. CASE Quiet \/ UNCHANGED vars
  BY <1>4, StutterInv DEF Quiet
<1>. QED
  BY <1>2, <1>3, <1>4 DEF Next

\* IInv is an invariant of run_pooled, the pool and the database together.
THEOREM InvariantHolds == Spec => []IInv
<1>1. Init => IInv
  BY InitInv
<1>2. IInv /\ [Next]_vars => IInv'
  BY NextInv
<1>. QED
  BY <1>1, <1>2, PTL DEF Spec

-----------------------------------------------------------------------------
(* What the invariant says to the reader of the code. *)

\* No permit is lost or minted, and every session has exactly one owner.
THEOREM ResourcesAccounted == Spec => [](TypeOK /\ PermitAccounting /\ SessionOwnership)
<1>1. IInv => TypeOK /\ PermitAccounting /\ SessionOwnership
  BY DEF IInv
<1>. QED
  BY <1>1, InvariantHolds, PTL

\* The pool and the calls it serves never have more than pool_max_size sessions:
\* those the calls hold are at most as many as the calls, and a parked one
\* leaves its permit free.
THEOREM PoolIsBounded == Spec => []PoolBound
<1>1. ASSUME IInv PROVE PoolBound
  <2>. DEFINE h == [c \in Holders |-> held[c]]
  <2>1. h \in Surjection(Holders, HeldSessions)
    BY DEF Surjection, HeldSessions
  <2>2. IsFiniteSet(HeldSessions) /\ Cardinality(HeldSessions) <= Cardinality(Holders)
    BY <2>1, HoldersFinite, FS_Surjection
  <2>3. IsFiniteSet(idle) /\ Cardinality(idle) <= permits
    BY <1>1 DEF IInv, ParkedWithPermits
  <2>4. Cardinality(PooledSessions)
          = Cardinality(idle) + Cardinality(HeldSessions)
              - Cardinality(idle \cap HeldSessions)
    BY <2>2, <2>3, FS_Union DEF PooledSessions
  <2>5. idle \cap HeldSessions = {} /\ permits + Cardinality(Holders) = PoolMaxSize
    BY <1>1 DEF IInv, SessionOwnership, PermitAccounting
  <2>6. Cardinality(idle) \in Nat /\ Cardinality(HeldSessions) \in Nat
    BY <2>2, <2>3, FS_CardinalityType
  <2>7. Cardinality(idle \cap HeldSessions) = 0
    BY <2>5, FS_EmptySet
  <2>8. permits \in Nat
    BY <1>1 DEF IInv, TypeOK
  <2>. QED
    BY <2>2, <2>3, <2>4, <2>5, <2>6, <2>7, <2>8, HoldersFinite, PoolAssumption DEF PoolBound
<1>. QED
  BY <1>1, InvariantHolds, PTL

\* Success means committed: an ok answer repeats the result of a task that
\* ended with its commit, and committed work is no longer open anywhere.
THEOREM SuccessMeansDurable == Spec => []SuccessIsDurable
<1>1. IInv => SuccessIsDurable
  BY DEF IInv, SuccessIsDurable, Stages, Results, WorkStages, OpenWork
<1>. QED
  BY <1>1, InvariantHolds, PTL

\* A failed or timed out get() means no task, now or later, and so no effect.
THEOREM NotRunMeansNoEffect == Spec => []NotRunHasNoEffect
<1>1. IInv => NotRunHasNoEffect
  BY DEF IInv, NotRunHasNoEffect, Stages, Results, WorkStages,
         OpenWorkIsFailedOrCurrent, OpenWork
<1>. QED
  BY <1>1, InvariantHolds, PTL

\* Only the execute entry point of a plain op: execute binding writes.
THEOREM ReadsDoNotWrite == Spec => []ReadsNeverWrite
<1>1. IInv => ReadsNeverWrite
  BY DEF IInv, ReadsNeverWrite, WorkStages, EffectiveOp, OpenWork
<1>. QED
  BY <1>1, InvariantHolds, PTL

\* Uncommitted work is that of the running task or of a failed call.
THEOREM OpenWorkExplained == Spec => []OpenWorkIsFailedOrCurrent
<1>1. IInv => OpenWorkIsFailedOrCurrent
  BY DEF IInv
<1>. QED
  BY <1>1, InvariantHolds, PTL
==============================================================================
