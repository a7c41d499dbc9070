------------------------------- MODULE Registry -------------------------------
(***************************************************************************)
(* The profile registry of the plugin (src/src/lib.rs): register_profile   *)
(* replaces the profile of a binding, and with it the pool, while calls    *)
(* that looked the old one up are still running on it.                     *)
(*                                                                         *)
(* A profile is its spec and its pool.  The map owns one reference to the  *)
(* pool and each call's clone of the profile another; a pool without a     *)
(* reference is dropped with the sessions parked in it.  The session in a  *)
(* task's hands only knows its pool weakly: it is closed when it comes     *)
(* back too late.                                                          *)
(***************************************************************************)
EXTENDS Integers, FiniteSets

CONSTANTS
  Calls,
  Backends,       \* binding names
  Operations,     \* the operations bindings may declare
  Surfaces,
  Pools,          \* numbers for pools, reused once a pool is gone
  PoolMaxSize

ASSUME RegistryAssumption ==
  /\ IsFiniteSet(Calls) /\ Pools \in SUBSET Nat /\ "none" \notin Backends
  /\ Operations \subseteq {"query", "list_tables", "list_columns"}
  /\ Surfaces \subseteq {"tool", "resource", "prompt"}
  /\ PoolMaxSize \in Nat \ {0}

VARIABLES
  profiles,   \* binding name -> profile
  registrar,  \* the registration under way in the gateway
  call,       \* call -> where its async function stands
  parked,     \* pool -> sessions parked in it
  late        \* pool -> sessions of tasks whose callers are gone

vars == <<profiles, registrar, call, parked, late>>

---------------------------------------------------------------------------
(* Specs and what register_profile makes of them *)

\* listing stands for list_query and for variable_completions, which are
\* optional, validated and used alike; sane for the checks of single fields:
\* dsn, username, password, timeout_ms, size_limit, pool_max_size, uri, a
\* cred:// in read_query, the params, and the table of list_columns.  The
\* catalog operations run neither statement: their query is not even looked at,
\* and is blank here, but a read_query is checked.
Specs ==
  {s \in [operation : Operations, query : {"blank", "set"}, surface : Surfaces,
          readQuery : {"none", "blank", "reads", "writes"},
          listing : {"none", "set", "unsafe"}, sane : BOOLEAN] :
     s.operation # "query" => s.query = "blank"}

\* There is a statement to run: query, or the read_query of a template.
HasStatement(s) ==
  s.operation = "query" /\ s.query = "blank" => s.readQuery \notin {"none", "blank"}

\* Mutant: read_query is not tied to the resource surface.
ReadQueryAllowedAnywhere(s) == s.readQuery # "none" => s.readQuery = "reads"

ReadQueryAllowed(s) ==
  s.readQuery # "none" => s.readQuery = "reads" /\ s.surface = "resource"

\* Not blank, a page size within its limits, a safe cursor column; a
\* completion binds :1.
ListingAllowed(s) == s.listing # "unsafe"

Accepted(s) == s.sane /\ HasStatement(s) /\ ReadQueryAllowed(s) /\ ListingAllowed(s)

AcceptedSpecs == {s \in Specs : Accepted(s)}

NoProfile == [pool |-> -1]
Profiles  == [spec : AcceptedSpecs, pool : Pools]

\* The statement an entry point runs with a profile.
Statement(entry, s) ==
  CASE entry = "listing" -> s.listing
    [] entry = "execute" /\ s.operation # "query" -> "catalog"
    [] entry = "execute" /\ s.operation = "query" /\ s.surface = "resource"
                         /\ s.readQuery # "none" -> s.readQuery
    [] OTHER -> s.query

---------------------------------------------------------------------------
(* Pools *)

\* What a call can have chosen, if registration let everything pass.
Statements == {"none", "blank", "set", "unsafe", "reads", "writes", "catalog"}

NoCall  == [stage |-> "idle", entry |-> "none", backend |-> "none",
            profile |-> NoProfile, statement |-> "none"]

Waiting == {"acquiring", "executing"}

\* The tasks of calls that still wait for them.
TasksOn(p) == {c \in Calls : call[c].stage = "executing" /\ call[c].profile.pool = p}

Tasks(p) == Cardinality(TasksOn(p))

Sessions(p) == parked[p] + Tasks(p) + late[p]

References(p, profs, calls) ==
  \/ \E b \in Backends : profs[b].pool = p
  \/ \E c \in Calls : calls[c].profile.pool = p

Alive(p) == References(p, profiles, call)

\* Dropping the last reference to a pool closes what is parked in it.
DropPools(profs, calls) ==
  [p \in Pools |-> IF References(p, profs, calls) THEN parked[p] ELSE 0]

\* A name for a pool to build.
Unused(p) == ~Alive(p) /\ Sessions(p) = 0

---------------------------------------------------------------------------
(* register_profile *)

Idle == [stage |-> "idle", backend |-> "none", profile |-> NoProfile]

\* A spec is parsed and validated, its pool built, and the write lock asked
\* for.  A refused spec leaves no trace.
StartRegister(b) ==
  /\ registrar.stage = "idle"
  /\ \E s \in AcceptedSpecs, p \in Pools :
       /\ Unused(p) /\ \A q \in Pools : q < p => ~Unused(q)
       /\ registrar' = [stage |-> "queued", backend |-> b,
                        profile |-> [spec |-> s, pool |-> p]]
  /\ UNCHANGED <<profiles, call, parked, late>>

\* Mutant: a binding that is registered again keeps the pool it has.
InsertKeepsPool(b) ==
  /\ registrar.stage = "queued" /\ registrar.backend = b
  /\ \A c \in Calls : call[c].stage # "reading"
  /\ profiles' = [profiles EXCEPT ![b] =
       [registrar.profile EXCEPT !.pool = IF profiles[b] = NoProfile THEN @ ELSE profiles[b].pool]]
  /\ registrar' = Idle
  /\ UNCHANGED <<call, parked, late>>

\* The write lock is granted once no reader is left, and the profile is
\* replaced.
Insert(b) ==
  /\ registrar.stage = "queued" /\ registrar.backend = b
  /\ \A c \in Calls : call[c].stage # "reading"
  /\ LET profs == [profiles EXCEPT ![b] = registrar.profile]
     IN /\ profiles' = profs
        /\ parked' = DropPools(profs, call)
  /\ registrar' = Idle
  /\ UNCHANGED <<call, late>>

---------------------------------------------------------------------------
(* execute, list_resources and complete_template_variable *)

\* Mutant: the lock prefers readers.
EnterPastWriter(c, b) ==
  /\ call[c].stage = "idle"
  /\ \E e \in {"execute", "listing"} :
       call' = [call EXCEPT ![c] = [NoCall EXCEPT !.stage = "reading", !.entry = e,
                                                  !.backend = b]]
  /\ UNCHANGED <<profiles, registrar, parked, late>>

\* A reader gets the lock unless a writer holds it or queues for it.
Enter(c, b) ==
  /\ call[c].stage = "idle"
  /\ registrar.stage # "queued"
  /\ \E e \in {"execute", "listing"} :
       call' = [call EXCEPT ![c] = [NoCall EXCEPT !.stage = "reading", !.entry = e,
                                                  !.backend = b]]
  /\ UNCHANGED <<profiles, registrar, parked, late>>

\* The profile is cloned and the lock released.  A call of an unknown
\* binding is answered, and so is a listing or completion the binding does
\* not have.  Otherwise the statement is chosen.
Clone(c) ==
  LET profile == profiles[call[c].backend]
      answers == \/ profile = NoProfile
                 \/ call[c].entry = "listing" /\ profile.spec.listing = "none"
  IN /\ call[c].stage = "reading"
     /\ call' = [call EXCEPT ![c] =
          IF answers THEN NoCall
          ELSE [NoCall EXCEPT !.stage = "acquiring", !.profile = profile,
                              !.statement = Statement(call[c].entry, profile.spec)]]
     /\ UNCHANGED <<profiles, registrar, parked, late>>

\* Mutant: the pool is built without its max_size.
StartTaskUncapped(c) ==
  LET p == call[c].profile.pool
  IN /\ call[c].stage = "acquiring"
     /\ parked' = [parked EXCEPT ![p] = IF @ > 0 THEN @ - 1 ELSE 0]
     /\ call' = [call EXCEPT ![c].stage = "executing"]
     /\ UNCHANGED <<profiles, registrar, late>>

\* pool.get() hands out a parked session or connects, and the task starts.
StartTask(c) ==
  LET p == call[c].profile.pool
  IN /\ call[c].stage = "acquiring"
     /\ Tasks(p) + late[p] < PoolMaxSize
     /\ parked' = [parked EXCEPT ![p] = IF @ > 0 THEN @ - 1 ELSE 0]
     /\ call' = [call EXCEPT ![c].stage = "executing"]
     /\ UNCHANGED <<profiles, registrar, late>>

\* The task ends and parks its session, or loses it; the caller's clone keeps
\* the pool alive.
EndTask(c) ==
  LET p == call[c].profile.pool
  IN /\ call[c].stage = "executing"
     /\ \E back \in 0 .. 1 : parked' = [parked EXCEPT ![p] = @ + back]
     /\ call' = [call EXCEPT ![c].stage = "ended", ![c].statement = "none"]
     /\ UNCHANGED <<profiles, registrar, late>>

\* get() fails or a timer fires.  A running task goes on without its caller.
TimeOut(c) ==
  LET p == call[c].profile.pool
  IN /\ call[c].stage \in Waiting
     /\ late' = IF call[c].stage = "executing" THEN [late EXCEPT ![p] = @ + 1] ELSE late
     /\ call' = [call EXCEPT ![c].stage = "ended", ![c].statement = "none"]
     /\ UNCHANGED <<profiles, registrar, parked>>

\* Mutant: the clone is kept beyond the answer.
AnswerKeepsProfile(c) ==
  /\ call[c].stage = "ended"
  /\ call' = [call EXCEPT ![c] = [NoCall EXCEPT !.profile = call[c].profile]]
  /\ UNCHANGED <<profiles, registrar, parked, late>>

\* The call answers and drops its clone of the profile.
Answer(c) ==
  LET calls == [call EXCEPT ![c] = NoCall]
  IN /\ call[c].stage = "ended"
     /\ call' = calls
     /\ parked' = DropPools(profiles, calls)
     /\ UNCHANGED <<profiles, registrar, late>>

\* Mutant: the task holds the pool and parks its session in any case.
EndLateTaskParks(p) ==
  /\ late[p] > 0
  /\ late' = [late EXCEPT ![p] = @ - 1]
  /\ parked' = [parked EXCEPT ![p] = @ + 1]
  /\ UNCHANGED <<profiles, registrar, call>>

\* A late task ends: its session is parked if the pool is still there.
EndLateTask(p) ==
  /\ late[p] > 0
  /\ late' = [late EXCEPT ![p] = @ - 1]
  /\ \E back \in 0 .. 1 : parked' = [parked EXCEPT ![p] = IF Alive(p) THEN @ + back ELSE 0]
  /\ UNCHANGED <<profiles, registrar, call>>

---------------------------------------------------------------------------

Init ==
  /\ profiles = [b \in Backends |-> NoProfile]
  /\ registrar = Idle
  /\ call = [c \in Calls |-> NoCall]
  /\ parked = [p \in Pools |-> 0]
  /\ late = [p \in Pools |-> 0]

RegistrarStep == \E b \in Backends : StartRegister(b) \/ Insert(b)
CallStep(c)   == Clone(c) \/ StartTask(c) \/ EndTask(c) \/ TimeOut(c) \/ Answer(c)

Next ==
  \/ RegistrarStep
  \/ \E c \in Calls : CallStep(c) \/ \E b \in Backends : Enter(c, b)
  \/ \E p \in Pools : EndLateTask(p)

\* Calls are answered by their timers, late tasks end by their call timeout, and
\* the lock is given to the writer that waits for it when no reader is left;
\* nothing makes a caller call or the gateway register.
Fairness ==
  /\ \A c \in Calls : WF_vars(CallStep(c))
  /\ \A b \in Backends : WF_vars(Insert(b))
  /\ \A p \in Pools : WF_vars(EndLateTask(p))

Spec == Init /\ [][Next]_vars /\ Fairness

---------------------------------------------------------------------------
(* Properties *)

CallRecords ==
  [stage : {"idle", "reading", "ended"} \cup Waiting,
   entry : {"none", "execute", "listing"}, backend : Backends \cup {"none"},
   profile : Profiles \cup {NoProfile}, statement : Statements]

Registrations ==
  [stage : {"idle", "queued"}, backend : Backends \cup {"none"},
   profile : Profiles \cup {NoProfile}]

\* Types, and no pool above its size.
TypeOK ==
  /\ profiles \in [Backends -> Profiles \cup {NoProfile}]
  /\ registrar \in Registrations
  /\ call \in [Calls -> CallRecords]
  /\ parked \in [Pools -> 0 .. PoolMaxSize]
  /\ late \in [Pools -> 0 .. PoolMaxSize]
  /\ \A p \in Pools : Sessions(p) <= PoolMaxSize

\* What registration accepts and what execute chooses fit together: whatever
\* reaches the pool is a statement somebody wrote, and a read_query only
\* reads (the checks of register_profile against the choice in execute).
StatementExists ==
  \A c \in Calls :
    call[c].stage \in Waiting =>
      call[c].statement \notin {"blank", "none", "unsafe", "writes"}

\* What the map and the calls hold.
HeldProfiles == {profiles[b] : b \in Backends} \cup {call[c].profile : c \in Calls}

\* Registering a binding again takes effect as a whole: sessions opened for
\* one spec, with its dsn and user, never serve a call or profile of another.
PoolServesOneSpec ==
  \A x, y \in HeldProfiles \ {NoProfile} : x.pool = y.pool => x = y

\* A replaced pool lives only as long as calls that looked it up: once they
\* are answered no session stays parked where nobody can reach it.
NoSessionStranded ==
  \A p \in Pools :
    parked[p] > 0 =>
      \/ \E b \in Backends : profiles[b].pool = p
      \/ \E c \in Calls : call[c].stage # "idle" /\ call[c].profile.pool = p

\* A call knows its binding until it has looked it up, and has a profile from
\* then until it answers.
CallStages ==
  \A c \in Calls :
    /\ call[c].stage = "reading" => call[c].backend \in Backends /\ call[c].entry # "none"
    /\ call[c].stage \in {"idle", "reading"} <=> call[c].profile = NoProfile

\* A profile in the queue for the lock is complete and its pool is nobody
\* else's.
RegistrarStages ==
  /\ registrar.stage = "idle" <=> registrar.backend = "none"
  /\ registrar.stage = "queued" =>
       /\ registrar.profile \in Profiles
       /\ Unused(registrar.profile.pool)

\* A pool nobody refers to has nothing parked in it.
ParkedInLivePools == \A p \in Pools : parked[p] > 0 => Alive(p)

\* All that is known of the registry between two steps.
IInv ==
  /\ TypeOK /\ CallStages /\ RegistrarStages /\ ParkedInLivePools
  /\ StatementExists /\ PoolServesOneSpec

\* A pool that was replaced loses its last session, also those of calls that
\* timed out, so repeated registrations do not add up sessions.
ReplacedPoolCloses ==
  \A p \in Pools :
    (\A b \in Backends : profiles[b].pool # p) /\ Sessions(p) > 0 ~> Sessions(p) = 0

\* A registration takes effect although calls never cease to look the registry up,
\* before it and while it waits (register_profile waits for the write lock; execute
\* holds the read lock for the clone only).
RegistrationNotStarved ==
  \A b \in Backends : registrar.backend = b ~> registrar.backend = "none"
===============================================================================
