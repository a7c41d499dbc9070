----------------------------- MODULE PooledCalls -----------------------------
(***************************************************************************)
(* Concurrent calls over the connection pool of one Oracle binding.        *)
(*                                                                         *)
(* A call is one invocation of run_pooled (src/src/lib.rs): it draws a     *)
(* session from the deadpool pool under a first timer, moves it into a     *)
(* blocking worker that runs run_statement_blocking (src/src/oracle.rs),   *)
(* and waits for that worker under a second timer.  When the second timer  *)
(* fires the caller is answered but the worker goes on with the session.   *)
(*                                                                         *)
(* The database is what the code relies on: a session may die, a session   *)
(* carries the statements of its open transaction, commit makes them       *)
(* durable, and closing or losing a session rolls them back.               *)
(***************************************************************************)
EXTENDS Integers, FiniteSets

CONSTANTS
  Calls,          \* calls of run_pooled, each made once
  Sessions,       \* names for ODPI-C sessions, reused once a session is gone
  NoSession,
  PoolMaxSize,    \* the binding's pool_max_size
  BindingOp,      \* the binding's op: "query" or "execute"
  IsCatalog,      \* the binding's operation is list_tables or list_columns
  HasReadQuery    \* a resource binding with a read_query

ASSUME CallsAssumption   == IsFiniteSet(Calls)
ASSUME SessionAssumption == NoSession \notin Sessions
ASSUME PoolAssumption    == PoolMaxSize \in Nat \ {0}
ASSUME BindingAssumption == /\ BindingOp \in {"query", "execute"}
                            /\ IsCatalog \in BOOLEAN
                            /\ HasReadQuery \in BOOLEAN

VARIABLES
  pc,        \* where each caller stands
  entry,     \* the handler each call came through
  held,      \* the session each call's get() or worker owns; owning one is
             \* what keeps a permit of the pool's semaphore
  worker,    \* the blocking task of each call, and its result once it ended
  answer,    \* what each caller was told
  permits,   \* free permits of the pool's semaphore
  idle,      \* sessions parked in the pool
  orphans,   \* connects whose get() timed out and dropped them
  sess,      \* each session as the client library sees it
  txn,       \* calls whose statement sits in a session's open transaction
  durable    \* calls whose statement is committed

callVars == <<pc, entry, held, worker, answer>>
poolVars == <<permits, idle, orphans>>
dbVars   == <<sess, txn, durable>>
vars     == <<callVars, poolVars, dbVars>>

Entries    == {"execute", "list_resources", "complete_template_variable"}
Results    == {"ok", "statement_failed", "task_failed"}
Unfinished == {"spawned", "applied"}
NotRun     == {"acquire_failed", "acquire_timed_out"}

\* Mutant: a read entry point runs with the op the binding declares.
EffectiveOpDeclared(e) == BindingOp

\* The op a call hands to run_pooled: catalog calls, read_query reads, lists
\* and completions are always queries, whatever op the binding declares.
EffectiveOp(e) ==
  IF e = "execute" /\ ~IsCatalog /\ ~HasReadQuery THEN BindingOp ELSE "query"

\* Mutant: the pool is built one larger than pool_max_size.
InitOneLarger ==
  /\ pc      = [c \in Calls |-> "new"]
  /\ entry   = [c \in Calls |-> "none"]
  /\ held    = [c \in Calls |-> NoSession]
  /\ worker  = [c \in Calls |-> "none"]
  /\ answer  = [c \in Calls |-> "none"]
  /\ permits = PoolMaxSize + 1
  /\ idle    = {}
  /\ orphans = {}
  /\ sess    = [s \in Sessions |-> "none"]
  /\ txn     = [s \in Sessions |-> {}]
  /\ durable = {}

Init ==
  /\ pc      = [c \in Calls |-> "new"]
  /\ entry   = [c \in Calls |-> "none"]
  /\ held    = [c \in Calls |-> NoSession]
  /\ worker  = [c \in Calls |-> "none"]
  /\ answer  = [c \in Calls |-> "none"]
  /\ permits = PoolMaxSize
  /\ idle    = {}
  /\ orphans = {}
  /\ sess    = [s \in Sessions |-> "none"]
  /\ txn     = [s \in Sessions |-> {}]
  /\ durable = {}

Answered(c, a) ==
  /\ pc'     = [pc EXCEPT ![c] = "answered"]
  /\ answer' = [answer EXCEPT ![c] = a]

-----------------------------------------------------------------------------
(* pool.get(), under the first timer. *)

Begin(c) ==
  /\ pc[c] = "new"
  /\ \E e \in Entries : entry' = [entry EXCEPT ![c] = e]
  /\ pc' = [pc EXCEPT ![c] = "waiting"]
  /\ UNCHANGED <<held, worker, answer, poolVars, dbVars>>

\* One turn of deadpool's loop: the next parked session goes to recycle(),
\* an empty pool goes to create().  left is sess after any eviction.
TakeSlot(c, left) ==
  \/ \E s \in idle :
       /\ idle' = idle \ {s}
       /\ held' = [held EXCEPT ![c] = s]
       /\ pc'   = [pc EXCEPT ![c] = "recycling"]
       /\ sess' = left
  \/ /\ idle = {}
     /\ \E s \in Sessions :
          /\ sess[s] = "none"
          /\ held' = [held EXCEPT ![c] = s]
          /\ pc'   = [pc EXCEPT ![c] = "creating"]
          /\ sess' = [left EXCEPT ![s] = "connecting"]
     /\ UNCHANGED idle

AcquirePermit(c) ==
  /\ pc[c] = "waiting"
  /\ permits > 0
  /\ permits' = permits - 1
  /\ TakeSlot(c, sess)
  /\ UNCHANGED <<entry, worker, answer, orphans, txn, durable>>

\* A session is handed over: run_pooled moves it into the blocking task.
Spawn(c) ==
  /\ pc'     = [pc EXCEPT ![c] = "running"]
  /\ worker' = [worker EXCEPT ![c] = "spawned"]

PingOk(c) ==
  /\ pc[c] = "recycling"
  /\ sess[held[c]] = "open"
  /\ Spawn(c)
  /\ UNCHANGED <<entry, held, answer, poolVars, dbVars>>

\* A failed ping evicts the session, which rolls its work back, and get()
\* takes the next slot under the same permit.
PingFails(c) ==
  /\ pc[c] = "recycling"
  /\ txn' = [txn EXCEPT ![held[c]] = {}]
  /\ TakeSlot(c, [sess EXCEPT ![held[c]] = "none"])
  /\ UNCHANGED <<entry, worker, answer, permits, orphans, durable>>

ConnectOk(c) ==
  /\ pc[c] = "creating"
  /\ sess' = [sess EXCEPT ![held[c]] = "open"]
  /\ Spawn(c)
  /\ UNCHANGED <<entry, held, answer, poolVars, txn, durable>>

\* Mutant: the permit is lost with the failed connect.
ConnectFailsKeepsPermit(c) ==
  /\ pc[c] = "creating"
  /\ sess' = [sess EXCEPT ![held[c]] = "none"]
  /\ held' = [held EXCEPT ![c] = NoSession]
  /\ Answered(c, "acquire_failed")
  /\ UNCHANGED <<entry, worker, permits, idle, orphans, txn, durable>>

ConnectFails(c) ==
  /\ pc[c] = "creating"
  /\ sess' = [sess EXCEPT ![held[c]] = "none"]
  /\ held' = [held EXCEPT ![c] = NoSession]
  /\ permits' = permits + 1
  /\ Answered(c, "acquire_failed")
  /\ UNCHANGED <<entry, worker, idle, orphans, txn, durable>>

\* The timer cannot fire during a ping, which runs inline and never yields.
\* Dropping a get() that is connecting frees its permit and leaves the
\* connect running on its blocking thread.
AcquireTimeout(c) ==
  /\ \/ /\ pc[c] = "waiting"
        /\ UNCHANGED <<held, permits, orphans>>
     \/ /\ pc[c] = "creating"
        /\ orphans' = orphans \cup {held[c]}
        /\ held'    = [held EXCEPT ![c] = NoSession]
        /\ permits' = permits + 1
  /\ Answered(c, "acquire_timed_out")
  /\ UNCHANGED <<entry, worker, idle, dbVars>>

\* An abandoned connect still logs in; nobody awaits it, so the session is
\* closed as soon as the task drops its output.
OrphanConnects(s) ==
  /\ s \in orphans
  /\ sess[s] = "connecting"
  /\ sess' = [sess EXCEPT ![s] = "open"]
  /\ UNCHANGED <<callVars, poolVars, txn, durable>>

OrphanEnds(s) ==
  /\ s \in orphans
  /\ sess'    = [sess EXCEPT ![s] = "none"]
  /\ orphans' = orphans \ {s}
  /\ UNCHANGED <<callVars, permits, idle, txn, durable>>

-----------------------------------------------------------------------------
(* The blocking task: run_statement_blocking, then the pooled object drops. *)

\* The task ends with result r and its session goes back to the pool.
Finish(c, r) ==
  /\ worker'  = [worker EXCEPT ![c] = r]
  /\ held'    = [held EXCEPT ![c] = NoSession]
  /\ idle'    = idle \cup {held[c]}
  /\ permits' = permits + 1
  /\ UNCHANGED <<pc, entry, answer, orphans, sess>>

Commit(s) ==
  /\ durable' = durable \cup txn[s]
  /\ txn'     = [txn EXCEPT ![s] = {}]

\* op query: the rows are read, nothing is committed or rolled back.
WorkerQueries(c) ==
  /\ worker[c] = "spawned"
  /\ EffectiveOp(entry[c]) = "query"
  /\ sess[held[c]] = "open"
  /\ Finish(c, "ok")
  /\ UNCHANGED <<txn, durable>>

\* set_call_timeout, query, execute or a row read fails: the statement has no
\* effect.
WorkerFails(c) ==
  /\ worker[c] = "spawned"
  /\ Finish(c, "statement_failed")
  /\ UNCHANGED <<txn, durable>>

\* op execute: the statement joins the session's transaction.
WorkerExecutes(c) ==
  /\ worker[c] = "spawned"
  /\ EffectiveOp(entry[c]) = "execute"
  /\ sess[held[c]] = "open"
  /\ txn'    = [txn EXCEPT ![held[c]] = @ \cup {c}]
  /\ worker' = [worker EXCEPT ![c] = "applied"]
  /\ UNCHANGED <<pc, entry, held, answer, poolVars, sess, durable>>

\* Mutant: the explicit commit is missing.
WorkerForgetsCommit(c) ==
  /\ worker[c] = "applied"
  /\ sess[held[c]] = "open"
  /\ Finish(c, "ok")
  /\ UNCHANGED <<txn, durable>>

WorkerCommits(c) ==
  /\ worker[c] = "applied"
  /\ sess[held[c]] = "open"
  /\ Commit(held[c])
  /\ Finish(c, "ok")

\* row_count or commit returns an error.  Neither arm rolls back: after the
\* error the work is still open, or the server rolled it back, or the server
\* committed it and the reply was lost.
WorkerCommitFails(c) ==
  /\ worker[c] = "applied"
  /\ \/ UNCHANGED <<txn, durable>>
     \/ txn' = [txn EXCEPT ![held[c]] = {}] /\ UNCHANGED durable
     \/ Commit(held[c])
  /\ Finish(c, "statement_failed")

\* Mutant: a panicking task takes its session with it.
WorkerPanicsLeaks(c) ==
  /\ worker[c] \in Unfinished
  /\ worker' = [worker EXCEPT ![c] = "task_failed"]
  /\ UNCHANGED <<pc, entry, held, answer, poolVars, dbVars>>

\* A panic unwinds through the closure; the session still returns to the pool.
WorkerPanics(c) ==
  /\ worker[c] \in Unfinished
  /\ Finish(c, "task_failed")
  /\ UNCHANGED <<txn, durable>>

-----------------------------------------------------------------------------
(* The caller, under the second timer. *)

Deliver(c) ==
  /\ pc[c] = "running"
  /\ worker[c] \in Results
  /\ Answered(c, worker[c])
  /\ UNCHANGED <<entry, held, worker, poolVars, dbVars>>

\* Mutant: the timeout gives the session back while the worker still uses it.
CallTimeoutReturnsSession(c) ==
  /\ pc[c] = "running"
  /\ worker[c] \in Unfinished
  /\ idle'    = idle \cup {held[c]}
  /\ permits' = permits + 1
  /\ Answered(c, "call_timed_out")
  /\ UNCHANGED <<entry, held, worker, orphans, dbVars>>

\* Mutant: the late call is reported the way a failed get() is.
CallTimeoutAsAcquire(c) ==
  /\ pc[c] = "running"
  /\ worker[c] \in Unfinished
  /\ Answered(c, "acquire_timed_out")
  /\ UNCHANGED <<entry, held, worker, poolVars, dbVars>>

\* Mutant: the caller awaits the task without a timer.
CallTimeoutMissing(c) ==
  /\ pc[c] = "running"
  /\ worker[c] \in Results
  /\ Answered(c, "call_timed_out")
  /\ UNCHANGED <<entry, held, worker, poolVars, dbVars>>

\* The elapsed timer polls the task once more, so a finished task wins.
CallTimeout(c) ==
  /\ pc[c] = "running"
  /\ worker[c] \in Unfinished
  /\ Answered(c, "call_timed_out")
  /\ UNCHANGED <<entry, held, worker, poolVars, dbVars>>

\* The database or the network drops a session; its open work is rolled back.
SessionDies(s) ==
  /\ sess[s] = "open"
  /\ s \notin orphans
  /\ sess' = [sess EXCEPT ![s] = "dead"]
  /\ txn'  = [txn EXCEPT ![s] = {}]
  /\ UNCHANGED <<callVars, poolVars, durable>>

\* Every call is answered, every task and abandoned connect has ended.
Quiet ==
  /\ \A c \in Calls : pc[c] = "answered" /\ held[c] = NoSession
  /\ orphans = {}
  /\ UNCHANGED vars

-----------------------------------------------------------------------------
WorkerStep(c) ==
  \/ WorkerQueries(c) \/ WorkerFails(c) \/ WorkerExecutes(c)
  \/ WorkerCommits(c) \/ WorkerCommitFails(c) \/ WorkerPanics(c)

CallStep(c) ==
  \/ Begin(c) \/ AcquirePermit(c) \/ PingOk(c) \/ PingFails(c)
  \/ ConnectOk(c) \/ ConnectFails(c) \/ AcquireTimeout(c)
  \/ WorkerStep(c) \/ Deliver(c) \/ CallTimeout(c)

SessionStep(s) == OrphanConnects(s) \/ OrphanEnds(s) \/ SessionDies(s)

Next ==
  \/ \E c \in Calls : CallStep(c)
  \/ \E s \in Sessions : SessionStep(s)
  \/ Quiet

Spec == Init /\ [][Next]_vars

\* The runtime fires both timers, resumes a caller whose task has ended, and a
\* recycle ping returns: the session still carries the call timeout of the
\* statement that used it last.  Nothing is asked of connects or statements.
CallerFairness ==
  \A c \in Calls :
    /\ WF_vars(Begin(c))
    /\ WF_vars(PingOk(c) \/ PingFails(c))
    /\ WF_vars(AcquireTimeout(c))
    /\ WF_vars(Deliver(c))
    /\ WF_vars(CallTimeout(c))

\* set_call_timeout bounds every round trip of a statement.
WorkerFairness == \A c \in Calls : WF_vars(WorkerStep(c))

CallerSpec == Spec /\ CallerFairness
FairSpec   == CallerSpec /\ WorkerFairness


-----------------------------------------------------------------------------
Holders        == {c \in Calls : held[c] # NoSession}
HeldSessions   == {held[c] : c \in Holders}
OpenWork       == UNION {txn[s] : s \in Sessions}
PooledSessions == idle \cup HeldSessions

TypeOK ==
  /\ pc \in [Calls -> {"new", "waiting", "recycling", "creating", "running",
                       "answered"}]
  /\ entry  \in [Calls -> Entries \cup {"none"}]
  /\ held   \in [Calls -> Sessions \cup {NoSession}]
  /\ worker \in [Calls -> {"none"} \cup Unfinished \cup Results]
  /\ answer \in [Calls -> {"none", "call_timed_out"} \cup Results \cup NotRun]
  /\ permits \in 0 .. PoolMaxSize
  /\ idle \subseteq Sessions
  /\ orphans \subseteq Sessions
  /\ sess \in [Sessions -> {"none", "connecting", "open", "dead"}]
  /\ txn \in [Sessions -> SUBSET Calls]
  /\ durable \subseteq Calls

\* No permit of the pool's semaphore is lost or minted: whatever fails, times
\* out or panics in run_pooled, a permit is either free or with a session that
\* a call (or its still running task) owns.
PermitAccounting == permits + Cardinality(Holders) = PoolMaxSize

\* Every session that exists has one owner: the pool, one call, or nobody but
\* the connect task that run_pooled's first timer abandoned.  In particular a
\* caller whose second timer fired has not given away the session its task is
\* still using, and no session is leaked.
SessionOwnership ==
  /\ \A c, d \in Holders : held[c] = held[d] => c = d
  /\ idle \cap HeldSessions = {}
  /\ orphans \cap PooledSessions = {}
  /\ \A s \in Sessions : sess[s] # "none" <=> s \in PooledSessions \cup orphans

\* The pool and the calls it serves never have more than pool_max_size
\* sessions between them (types.rs, pool_max_size): a session is parked only
\* with the permit that lets the next call take it.
PoolBound == Cardinality(PooledSessions) <= PoolMaxSize

\* A call of an op: execute binding that is told it succeeded has its
\* statement committed, however late its task ran and whatever happened to the
\* session afterwards.
SuccessIsDurable ==
  \A c \in Calls :
    answer[c] = "ok" /\ EffectiveOp(entry[c]) = "execute"
      => c \in durable \ OpenWork

\* A call told that pool.get() failed or timed out never has an effect, then or
\* later: only these two answers make a retry safe.
NotRunHasNoEffect ==
  \A c \in Calls :
    answer[c] \in NotRun => worker[c] = "none" /\ c \notin durable \cup OpenWork

\* Listing resources, completing a template variable, a catalog call and a
\* read_query read leave nothing in a transaction, even on a binding that
\* declares op: execute.
ReadsNeverWrite ==
  \A c \in durable \cup OpenWork :
    entry[c] = "execute" /\ ~IsCatalog /\ ~HasReadQuery

\* Uncommitted work never belongs to a call that succeeded: it is the work of
\* the session's present task, or of a call whose task ended in an error.
OpenWorkIsFailedOrCurrent ==
  \A s \in Sessions : \A c \in txn[s] :
    \/ worker[c] = "applied" /\ held[c] = s
    \/ worker[c] \in {"statement_failed", "task_failed"}

-----------------------------------------------------------------------------
(* The inductive invariant: how the program counters, the tasks, the         *)
(* sessions and the transactions constrain each other between any two steps. *)

Acquiring == {"new", "waiting", "recycling", "creating"}

\* The stages of a caller, of its task and of its answer agree.
Stages ==
  \A c \in Calls :
    /\ pc[c] = "new" <=> entry[c] = "none"
    /\ pc[c] \in Acquiring => worker[c] = "none"
    /\ pc[c] = "running" => worker[c] # "none"
    /\ pc[c] = "answered" <=> answer[c] # "none"
    /\ answer[c] \in NotRun => worker[c] = "none"
    /\ answer[c] = "call_timed_out" => worker[c] # "none"
    /\ answer[c] \in Results => worker[c] = answer[c]

\* A session is owned exactly while get() handles it or a task uses it.
Holding ==
  \A c \in Calls :
    held[c] # NoSession <=>
      pc[c] \in {"recycling", "creating"} \/ worker[c] \in Unfinished

\* What an owner's session may be: only one being created, or abandoned while
\* being created, is not logged in yet, and abandoned sessions are unused.
SessionStages ==
  /\ \A c \in Calls :
       /\ pc[c] = "creating" => sess[held[c]] = "connecting"
       /\ pc[c] = "recycling" \/ worker[c] \in Unfinished
            => sess[held[c]] \in {"open", "dead"}
  /\ \A s \in idle : sess[s] \in {"open", "dead"}
  /\ \A s \in orphans : sess[s] \in {"connecting", "open"} /\ txn[s] = {}

\* Each free permit leaves room for one parked session.
ParkedWithPermits ==
  /\ IsFiniteSet(idle)
  /\ Cardinality(idle) <= permits

\* Open work sits on one live session and is not durable; all work is that of
\* mutating calls whose task got that far.
WorkStages ==
  /\ \A s \in Sessions : txn[s] # {} => sess[s] = "open"
  /\ \A s, t \in Sessions : s # t => txn[s] \cap txn[t] = {}
  /\ \A s \in Sessions : durable \cap txn[s] = {}
  /\ \A s \in Sessions : \A c \in txn[s] : EffectiveOp(entry[c]) = "execute"
  /\ \A c \in durable : EffectiveOp(entry[c]) = "execute" /\ worker[c] \in Results
  /\ \A c \in Calls :
       /\ worker[c] = "applied" => EffectiveOp(entry[c]) = "execute"
       /\ worker[c] = "applied" /\ sess[held[c]] = "open" => c \in txn[held[c]]
       /\ worker[c] = "ok" /\ EffectiveOp(entry[c]) = "execute" => c \in durable

\* All that is known between two steps of run_pooled, the pool and the
\* database; the safety properties above follow from it.
IInv ==
  /\ TypeOK
  /\ Stages
  /\ Holding
  /\ PermitAccounting
  /\ ParkedWithPermits
  /\ SessionOwnership
  /\ SessionStages
  /\ WorkStages
  /\ OpenWorkIsFailedOrCurrent

-----------------------------------------------------------------------------
\* Both timers together answer every call, also when the database never
\* answers a connect or a statement.
EveryCallAnswered == \A c \in Calls : <>(pc[c] = "answered")

\* If round trips end, the permit and the session of every call come back to
\* the pool, also those of a caller that was answered long before.
EverySlotReturns ==
  WorkerFairness => \A c \in Calls : held[c] # NoSession ~> held[c] = NoSession

-----------------------------------------------------------------------------
(* Two statements of the documentation that the code does not keep. *)

\* types.rs, pool_max_size: "this caps how many concurrent ODPI-C sessions the
\* binding may hold".  Logged-in sessions of abandoned connects count as well.
SessionCap == Cardinality({s \in Sessions : sess[s] = "open"}) <= PoolMaxSize

\* README: "op: execute runs the mutation / PL-SQL, commits, and returns the
\* rows-affected count".  A commit makes one call's statement durable, the one
\* whose task issues it.
CommitsOwnStatement ==
  [][\A c \in durable' \ durable : worker[c] = "applied" /\ worker'[c] # "applied"]_vars
==============================================================================
