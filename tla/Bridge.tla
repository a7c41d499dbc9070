------------------------------- MODULE Bridge -------------------------------
(***************************************************************************)
(* The cdylib bridge (src/src/cdylib.rs): host threads that block on the   *)
(* plugin's async methods, the runtime whose blocking threads their        *)
(* connects, statements and audit events share, and the end of both when   *)
(* the host drops the plugin.                                              *)
(*                                                                         *)
(* A job is what one call hands to spawn_blocking.  Jobs start in the      *)
(* order they were submitted, on at most MaxThreads threads (tokio's       *)
(* default is 512); nothing stops one that has been abandoned.  Permits    *)
(* and the fate of a statement are in PooledCalls: here the pool is large  *)
(* enough for every call.                                                  *)
(***************************************************************************)
EXTENDS Integers, Sequences, FiniteSets

CONSTANTS Calls, MaxThreads

ASSUME ThreadsAssumption == IsFiniteSet(Calls) /\ MaxThreads \in Nat \ {0}

VARIABLES
  pc,       \* where each call stands
  failed,   \* calls of execute() that failed, hence owe an audit event
  attempted, \* calls whose audit event the host's sink was given
  queue,    \* jobs that wait for a thread
  running,  \* jobs on a thread
  parked,   \* sessions in the pool
  open,     \* sessions the database has
  phase     \* the plugin is open, dropping its runtime, or gone

calls == <<pc, failed, attempted>>
jobs  == <<queue, running>>
vars  == <<calls, jobs, parked, open, phase>>

Job(c, kind) == [call |-> c, kind |-> kind]
Jobs == [call : Calls, kind : {"connect", "statement", "audit"}]

Init ==
  /\ pc = [c \in Calls |-> "idle"]
  /\ failed = {} /\ attempted = {}
  /\ queue = <<>> /\ running = {}
  /\ parked = 0 /\ open = 0
  /\ phase = "open"

-----------------------------------------------------------------------------
(* Calls *)

MoveTo(c, place) == pc' = [pc EXCEPT ![c] = place]

Submit(c, kind) == queue' = Append(queue, Job(c, kind))

\* pool.get(): parked sessions that turn out to be dead are dropped, one that
\* answers the ping is taken, and without one it connects.
Begin(c) ==
  /\ phase = "open" /\ pc[c] = "idle"
  /\ \E dead \in 0 .. parked :
       /\ open' = open - dead
       /\ \/ /\ dead < parked
             /\ parked' = parked - dead - 1
             /\ MoveTo(c, "statement") /\ Submit(c, "statement")
          \/ /\ dead = parked
             /\ parked' = 0
             /\ MoveTo(c, "connect") /\ Submit(c, "connect")
  /\ UNCHANGED <<failed, attempted, running, phase>>

\* Mutant: nobody waits for the audit event.
FailUnawaited(c) ==
  \/ failed' = failed \cup {c} /\ Submit(c, "audit") /\ MoveTo(c, "returned")
  \/ MoveTo(c, "returned") /\ UNCHANGED <<failed, queue>>

\* A call of execute() awaits its audit event; listings and completions return
\* the error at once.
Fail(c) ==
  \/ failed' = failed \cup {c} /\ Submit(c, "audit") /\ MoveTo(c, "audit")
  \/ MoveTo(c, "returned") /\ UNCHANGED <<failed, queue>>

\* A payload or params that execute() refuses: no session is taken.
Refuse(c) ==
  /\ phase = "open" /\ pc[c] = "idle"
  /\ Fail(c)
  /\ UNCHANGED <<attempted, running, parked, open, phase>>

\* Mutant: only the statement has a timer.
TimeoutOfStatementOnly(c) ==
  /\ pc[c] = "statement"
  /\ Fail(c)
  /\ UNCHANGED <<attempted, running, parked, open, phase>>

\* Either timer of run_pooled.  The job stays where it is.
Timeout(c) ==
  /\ pc[c] \in {"connect", "statement"}
  /\ Fail(c)
  /\ UNCHANGED <<attempted, running, parked, open, phase>>

-----------------------------------------------------------------------------
(* Jobs *)

\* Mutant: no limit on the threads.
StartJobUncapped ==
  /\ queue # <<>>
  /\ running' = running \cup {Head(queue)}
  /\ queue' = Tail(queue)
  /\ UNCHANGED <<calls, parked, open, phase>>

StartJob ==
  /\ queue # <<>> /\ Cardinality(running) < MaxThreads
  /\ running' = running \cup {Head(queue)}
  /\ queue' = Tail(queue)
  /\ UNCHANGED <<calls, parked, open, phase>>

\* A connect nobody waits for any more drops the session it made.
ConnectOk(c) ==
  /\ Job(c, "connect") \in running
  /\ running' = running \ {Job(c, "connect")}
  /\ IF pc[c] = "connect"
     THEN MoveTo(c, "statement") /\ Submit(c, "statement") /\ open' = open + 1
     ELSE UNCHANGED <<pc, queue, open>>
  /\ UNCHANGED <<failed, attempted, parked, phase>>

ConnectFails(c) ==
  /\ Job(c, "connect") \in running
  /\ running' = running \ {Job(c, "connect")}
  /\ IF pc[c] = "connect" THEN Fail(c) ELSE UNCHANGED <<pc, failed, queue>>
  /\ UNCHANGED <<attempted, parked, open, phase>>

\* Mutant: the session waits for a pool to take it back.
ReleaseIntoOpenPool ==
  /\ phase = "open"
  /\ parked' = parked + 1 /\ UNCHANGED open

\* Mutant: a task keeps the pool of its session alive.
ReleaseAlways == parked' = parked + 1 /\ UNCHANGED open

\* Dropping the pooled object: a session whose pool is gone is closed.
Release ==
  IF phase = "open" THEN parked' = parked + 1 /\ UNCHANGED open
  ELSE open' = open - 1 /\ UNCHANGED parked

StatementEnds(c) ==
  /\ Job(c, "statement") \in running
  /\ running' = running \ {Job(c, "statement")}
  /\ Release
  /\ IF pc[c] = "statement"
     THEN \/ MoveTo(c, "returned") /\ UNCHANGED <<failed, queue>>
          \/ Fail(c)
     ELSE UNCHANGED <<pc, failed, queue>>
  /\ UNCHANGED <<attempted, phase>>

\* The host's sink took the event, refused it or panicked: execute() passes over
\* both errors, and the call returns as it would have.
AuditEnds(c) ==
  /\ Job(c, "audit") \in running
  /\ running' = running \ {Job(c, "audit")}
  /\ attempted' = attempted \cup {c}
  /\ MoveTo(c, "returned")
  /\ UNCHANGED <<failed, queue, parked, open, phase>>

-----------------------------------------------------------------------------
(* The end of the plugin *)

\* The host drops the plugin when no call is in flight.  Its fields go in their
\* order: inner with the pools and their parked sessions, then host, then rt.
Unload ==
  /\ phase = "open"
  /\ \A c \in Calls : pc[c] \in {"idle", "returned"}
  /\ phase' = "dropping"
  /\ open' = open - parked /\ parked' = 0
  /\ UNCHANGED <<calls, jobs>>

\* Dropping a runtime discards jobs that wait for a thread, unless a thread that
\* gets free takes them first (StartJob); a statement's session goes with it.
DiscardJob ==
  /\ phase = "dropping" /\ queue # <<>>
  /\ open' = open - (IF Head(queue).kind = "statement" THEN 1 ELSE 0)
  /\ queue' = Tail(queue)
  /\ UNCHANGED <<calls, running, parked, phase>>

\* It waits for those that have one.
RuntimeDropped ==
  /\ phase = "dropping"
  /\ queue = <<>> /\ running = {}
  /\ phase' = "gone"
  /\ UNCHANGED <<calls, jobs, parked, open>>

Gone == phase = "gone" /\ UNCHANGED vars

Next ==
  \/ \E c \in Calls :
       \/ Begin(c) \/ Refuse(c) \/ Timeout(c)
       \/ ConnectOk(c) \/ ConnectFails(c) \/ StatementEnds(c) \/ AuditEnds(c)
  \/ StartJob \/ Unload \/ DiscardJob \/ RuntimeDropped \/ Gone

\* Timers fire, threads take jobs, set_call_timeout ends statements and the
\* host's audit sink answers.  Nothing is assumed of connects.
Fairness ==
  /\ \A c \in Calls :
       WF_vars(Timeout(c)) /\ WF_vars(StatementEnds(c)) /\ WF_vars(AuditEnds(c))
  /\ WF_vars(StartJob) /\ WF_vars(RuntimeDropped)

Spec == Init /\ [][Next]_vars /\ Fairness

-----------------------------------------------------------------------------
TypeOK ==
  /\ pc \in [Calls -> {"idle", "connect", "statement", "audit", "returned"}]
  /\ failed \subseteq Calls /\ attempted \subseteq failed
  /\ queue \in Seq(Jobs) /\ running \subseteq Jobs
  /\ Cardinality(running) <= MaxThreads
  /\ parked \in Nat /\ open \in Nat
  /\ phase \in {"open", "dropping", "gone"}

\* Jobs that wait for a thread, and with them those that have one.
Queued  == {queue[i] : i \in DOMAIN queue}
Pending == Queued \cup running

\* Calls whose session is with their statement.
Carrying == {c \in Calls : Job(c, "statement") \in Pending}

\* When the host unloads the plugin, also right after a reply, the audit event of
\* every failure has reached the host's sink (which may refuse it): execute() awaits
\* its audit task, so none is among the jobs that a dropped runtime discards.
NoAuditDiscarded ==
  phase # "open" =>
    attempted = failed /\ \A j \in Pending : j.kind # "audit"

\* Every session the database has is parked or with a statement, and once the
\* plugin is gone there is none, nor a thread in its code: neither an abandoned
\* statement nor an abandoned connect outlives it.
NothingOutlivesUnload ==
  /\ open = parked + Cardinality(Carrying)
  /\ phase = "gone" => open = 0 /\ running = {} /\ queue = <<>>

-----------------------------------------------------------------------------
(* The inductive invariant behind NoAuditDiscarded and NothingOutlivesUnload *)

\* No job is handed in twice.
JobsOnce ==
  /\ \A i, k \in DOMAIN queue : queue[i] = queue[k] => i = k
  /\ Queued \cap running = {}
  /\ IsFiniteSet(running)

\* A call that waits has its job among the jobs, an audit event is always
\* awaited, and only a call that failed owes one.
JobStages ==
  \A c \in Calls :
    /\ pc[c] \in {"connect", "statement"} => Job(c, pc[c]) \in Pending
    /\ pc[c] = "audit" <=> Job(c, "audit") \in Pending
    /\ Job(c, "connect") \in Pending => pc[c] # "idle"
    /\ Job(c, "statement") \in Pending => pc[c] \notin {"idle", "connect"}
    /\ c \in failed => pc[c] \in {"audit", "returned"}
    /\ pc[c] = "audit" => c \in failed

\* A call that reports a failure has given its event to the sink.
AuditAwaited == \A c \in failed : pc[c] = "returned" => c \in attempted

\* A plugin that is dropped has no calls and no pools.
Dropped ==
  phase # "open" => parked = 0 /\ \A c \in Calls : pc[c] \in {"idle", "returned"}

\* All that is known of the bridge between two steps.
IInv ==
  TypeOK /\ JobsOnce /\ JobStages /\ Dropped /\ AuditAwaited /\ NothingOutlivesUnload

-----------------------------------------------------------------------------
\* Every call returns to its host thread, unless connects that hang keep every
\* thread: then not even a call that timed out returns, since its audit event
\* needs one.
EveryCallReturns ==
  LET Connecting == {j \in running : j.kind = "connect"}
  IN  []<>(Cardinality(Connecting) < MaxThreads) =>
        \A c \in Calls :
          pc[c] \in {"connect", "statement", "audit"} ~> pc[c] = "returned"

\* Unloading ends if connects do.
UnloadEnds ==
  (\A c \in Calls : []<>(Job(c, "connect") \notin running)) =>
    (phase = "dropping" ~> phase = "gone")
=============================================================================
