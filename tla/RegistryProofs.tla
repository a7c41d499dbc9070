---------------------------- MODULE RegistryProofs ----------------------------
(***************************************************************************)
(* The inductive invariant IInv of Registry holds for any calls, bindings  *)
(* and pools, and with it the safety properties of registration under      *)
(* running calls.                                                          *)
(***************************************************************************)
EXTENDS Registry, FiniteSetTheorems, TLAPS

USE RegistryAssumption

\* A profile has a pool and a spec that registration accepted; NoProfile has
\* neither.
LEMMA ProfileType ==
  /\ \A x \in Profiles : x.pool \in Pools /\ x.spec \in AcceptedSpecs /\ x # NoProfile
  /\ NoProfile.pool \notin Pools
  BY DEF Profiles, NoProfile

\* A call that has nothing to do.
LEMMA NoCallType ==
  /\ NoCall \in CallRecords /\ NoCall.stage = "idle" /\ NoCall.profile = NoProfile
  /\ NoCall.statement = "none"
  BY DEF NoCall, CallRecords, Statements

\* The fields of an accepted spec.
LEMMA AcceptedType ==
  ASSUME NEW s \in AcceptedSpecs
  PROVE  /\ s.operation \in Operations /\ s.surface \in Surfaces
         /\ s.query \in {"blank", "set"}
         /\ s.readQuery \in {"none", "blank", "reads", "writes"}
         /\ s.listing \in {"none", "set", "unsafe"}
         /\ Accepted(s)
  BY DEF AcceptedSpecs, Specs

\* What execute and the listing choose from an accepted spec is a statement
\* somebody wrote: the checks of register_profile cover the choices.
LEMMA StatementOfAccepted ==
  ASSUME NEW s \in AcceptedSpecs, NEW e \in {"execute", "listing"},
         e = "listing" => s.listing # "none"
  PROVE  Statement(e, s) \in {"set", "reads", "catalog"}
<1>1. CASE e = "listing"
  BY <1>1, AcceptedType DEF Statement, Accepted, ListingAllowed
<1>2. CASE e = "execute" /\ s.operation # "query"
  BY <1>2, AcceptedType DEF Statement
<1>3. CASE e = "execute" /\ s.operation = "query"
  BY <1>3, AcceptedType DEF Statement, Accepted, HasStatement, ReadQueryAllowed
<1>. QED
  BY <1>1, <1>2, <1>3

\* The tasks on a pool are finitely many.
LEMMA TasksFinite ==
  \A p : IsFiniteSet(TasksOn(p)) /\ Tasks(p) \in Nat
<1>. SUFFICES ASSUME NEW p PROVE IsFiniteSet(TasksOn(p)) /\ Tasks(p) \in Nat
  OBVIOUS
<1>1. TasksOn(p) \subseteq Calls
  BY DEF TasksOn
<1>. QED
  BY <1>1, FS_Subset, FS_CardinalityType DEF Tasks

\* A step that starts no task and ends none keeps the count on every pool.
LEMMA TasksKept ==
  ASSUME \A p \in Pools : TasksOn(p)' = TasksOn(p)
  PROVE  \A p \in Pools : Tasks(p)' = Tasks(p)
  BY DEF Tasks

\* A call that starts its task adds one to the pool of its profile.
LEMMA TaskStarts ==
  ASSUME NEW c \in Calls, TypeOK, call[c].stage # "executing",
         call' = [call EXCEPT ![c].stage = "executing"]
  PROVE  \A p \in Pools :
           Tasks(p)' = IF p = call[c].profile.pool THEN Tasks(p) + 1 ELSE Tasks(p)
<1>. SUFFICES ASSUME NEW p \in Pools
              PROVE  Tasks(p)' = IF p = call[c].profile.pool THEN Tasks(p) + 1 ELSE Tasks(p)
  OBVIOUS
<1>1. CASE p = call[c].profile.pool
  <2>1. TasksOn(p)' = TasksOn(p) \cup {c} /\ c \notin TasksOn(p)
    BY <1>1 DEF TasksOn, TypeOK, CallRecords, Registrations
  <2>. QED
    BY <1>1, <2>1, TasksFinite, FS_AddElement DEF Tasks
<1>2. CASE p # call[c].profile.pool
  <2>1. TasksOn(p)' = TasksOn(p)
    BY <1>2 DEF TasksOn, TypeOK, CallRecords, Registrations
  <2>. QED
    BY <1>2, <2>1 DEF Tasks
<1>. QED
  BY <1>1, <1>2

\* A call that leaves its task takes one off.
LEMMA TaskLeft ==
  ASSUME NEW c \in Calls, TypeOK, call[c].stage = "executing",
         call' = [call EXCEPT ![c].stage = "ended", ![c].statement = "none"]
  PROVE  \A p \in Pools :
           Tasks(p)' = IF p = call[c].profile.pool THEN Tasks(p) - 1 ELSE Tasks(p)
<1>. SUFFICES ASSUME NEW p \in Pools
              PROVE  Tasks(p)' = IF p = call[c].profile.pool THEN Tasks(p) - 1 ELSE Tasks(p)
  OBVIOUS
<1>1. CASE p = call[c].profile.pool
  <2>1. TasksOn(p)' = TasksOn(p) \ {c} /\ c \in TasksOn(p)
    BY <1>1 DEF TasksOn, TypeOK, CallRecords, Registrations
  <2>2. Cardinality(TasksOn(p) \ {c}) = Cardinality(TasksOn(p)) - 1
    BY <2>1, TasksFinite, FS_RemoveElement
  <2>. QED
    BY <1>1, <2>1, <2>2 DEF Tasks
<1>2. CASE p # call[c].profile.pool
  <2>1. TasksOn(p)' = TasksOn(p)
    BY <1>2 DEF TasksOn, TypeOK, CallRecords, Registrations
  <2>. QED
    BY <1>2, <2>1 DEF Tasks
<1>. QED
  BY <1>1, <1>2

\* Nothing that only counts, or moves a call without dropping its profile, makes
\* a pool unreachable.
LEMMA StillAlive ==
  ASSUME NEW c \in Calls, TypeOK, profiles' = profiles,
         \A d \in Calls \ {c} : call'[d] = call[d],
         call[c].profile = NoProfile \/ call'[c].profile = call[c].profile
  PROVE  \A p \in Pools : Alive(p) => Alive(p)'
  BY ProfileType DEF Alive, References, TypeOK, CallRecords, Registrations

\* Pools that lost their last reference lose what is parked in them.
LEMMA PoolsDropped ==
  ASSUME TypeOK, late' = late, \A p \in Pools : Tasks(p)' = Tasks(p),
         parked' = [p \in Pools |-> IF Alive(p)' THEN parked[p] ELSE 0]
  PROVE  /\ parked' \in [Pools -> 0 .. PoolMaxSize]
         /\ ParkedInLivePools'
         /\ \A p \in Pools : Sessions(p)' \in 0 .. Sessions(p) /\ Sessions(p)' <= PoolMaxSize
<1>1. \A p \in Pools : parked[p] \in 0 .. PoolMaxSize /\ late[p] \in 0 .. PoolMaxSize
  BY DEF TypeOK, CallRecords, Registrations
<1>2. \A p \in Pools : /\ parked'[p] \in 0 .. PoolMaxSize /\ parked'[p] <= parked[p]
                       /\ parked'[p] > 0 => Alive(p)'
  BY <1>1
<1>3. parked' \in [Pools -> 0 .. PoolMaxSize]
  BY <1>1
<1>4. \A p \in Pools : Sessions(p)' \in 0 .. Sessions(p) /\ Sessions(p)' <= PoolMaxSize
  <2>. SUFFICES ASSUME NEW p \in Pools
                PROVE  Sessions(p)' \in 0 .. Sessions(p) /\ Sessions(p)' <= PoolMaxSize
    OBVIOUS
  <2>1. Sessions(p) \in Nat /\ Sessions(p) <= PoolMaxSize
    BY <1>1, TasksFinite DEF Sessions, TypeOK, CallRecords, Registrations
  <2>2. Sessions(p)' = parked'[p] + Tasks(p) + late[p]
    BY DEF Sessions
  <2>. QED
    BY <1>1, <1>2, <2>1, <2>2, TasksFinite DEF Sessions
<1>. QED
  BY <1>2, <1>3, <1>4 DEF ParkedInLivePools

LEMMA InitInv == Init => IInv
<1>. SUFFICES ASSUME Init PROVE IInv
  OBVIOUS
<1>1. \A p \in Pools : TasksOn(p) = {} /\ Tasks(p) = 0
  BY FS_EmptySet DEF Init, TasksOn, Tasks, NoCall
<1>2. TypeOK
  <2>1. \A p \in Pools : Sessions(p) <= PoolMaxSize
    BY <1>1 DEF Init, Sessions
  <2>. QED
    BY <2>1 DEF Init, TypeOK, CallRecords, Registrations, Idle, NoCall, Waiting, Statements
<1>3. CallStages
  BY DEF Init, CallStages, NoCall
<1>4. RegistrarStages /\ ParkedInLivePools
  BY DEF Init, RegistrarStages, ParkedInLivePools, Idle
<1>5. StatementExists
  BY DEF Init, StatementExists, NoCall, Waiting
<1>6. PoolServesOneSpec
  BY DEF Init, PoolServesOneSpec, HeldProfiles, NoCall
<1>. QED
  BY <1>2, <1>3, <1>4, <1>5, <1>6 DEF IInv

\* A registration that asks for the lock has a pool that nobody has.
LEMMA StartRegisterInv ==
  ASSUME NEW b \in Backends, IInv, StartRegister(b)
  PROVE  IInv'
<1>. USE DEF IInv, StartRegister
<1>1. PICK s \in AcceptedSpecs, p \in Pools :
        /\ Unused(p)
        /\ registrar' = [stage |-> "queued", backend |-> b,
                         profile |-> [spec |-> s, pool |-> p]]
  OBVIOUS
<1>2. [spec |-> s, pool |-> p] \in Profiles
  BY DEF Profiles
<1>3. \A q : TasksOn(q)' = TasksOn(q) /\ Sessions(q)' = Sessions(q) /\ Alive(q)' = Alive(q)
  BY DEF TasksOn, Tasks, Sessions, Alive
<1>4. TypeOK'
  BY <1>1, <1>2, <1>3 DEF TypeOK, CallRecords, Registrations
<1>5. CallStages' /\ StatementExists' /\ PoolServesOneSpec' /\ ParkedInLivePools'
  BY <1>3 DEF CallStages, StatementExists, PoolServesOneSpec, HeldProfiles, ParkedInLivePools
<1>6. RegistrarStages'
  BY <1>1, <1>2, <1>3 DEF RegistrarStages, Unused, TypeOK, CallRecords, Registrations
<1>. QED
  BY <1>4, <1>5, <1>6

\* The new profile replaces the old one in the map, and what only the old one
\* kept alive is closed.
LEMMA InsertInv ==
  ASSUME NEW b \in Backends, IInv, Insert(b)
  PROVE  IInv'
<1>. USE DEF IInv, Insert
<1>1. /\ registrar.profile \in Profiles
      /\ profiles' = [profiles EXCEPT ![b] = registrar.profile]
      /\ registrar'.stage = "idle" /\ registrar'.backend = "none"
  BY DEF Idle, RegistrarStages, TypeOK, CallRecords, Registrations
<1>2. profiles' \in [Backends -> Profiles \cup {NoProfile}]
  BY <1>1 DEF TypeOK, CallRecords, Registrations
<1>3. \A p \in Pools : Tasks(p)' = Tasks(p)
  BY DEF TasksOn, Tasks
<1>4. /\ parked' \in [Pools -> 0 .. PoolMaxSize]
      /\ ParkedInLivePools'
      /\ \A p \in Pools : Sessions(p)' <= PoolMaxSize
  BY <1>3, PoolsDropped DEF DropPools, Alive
<1>5. TypeOK'
  <2>1. registrar' \in Registrations
    BY DEF Idle, Registrations
  <2>. QED
    BY <1>2, <1>4, <2>1 DEF TypeOK, CallRecords, Registrations
<1>6. CallStages' /\ StatementExists'
  BY DEF CallStages, StatementExists
<1>7. RegistrarStages'
  BY <1>1 DEF RegistrarStages
<1>8. PoolServesOneSpec'
  <2>1. \A x \in HeldProfiles : x.pool # registrar.profile.pool
    BY DEF HeldProfiles, RegistrarStages, Unused, Alive, References
  <2>2. HeldProfiles' \subseteq HeldProfiles \cup {registrar.profile}
    BY <1>1 DEF HeldProfiles, TypeOK, CallRecords, Registrations
  <2>. QED
    BY <2>1, <2>2 DEF PoolServesOneSpec
<1>. QED
  BY <1>4, <1>5, <1>6, <1>7, <1>8

\* A call asks for the read lock, or is granted it and clones the profile;
\* before and after it has no task.
LEMMA EnterInv ==
  ASSUME NEW c \in Calls, NEW b \in Backends, IInv, Enter(c, b)
  PROVE  IInv'
<1>. USE DEF IInv, Enter
<1>1. PICK e \in {"execute", "listing"} :
        call' = [call EXCEPT ![c] = [NoCall EXCEPT !.stage = "reading", !.entry = e,
                                                   !.backend = b]]
  OBVIOUS
<1>2. /\ call[c].stage = "idle" /\ call[c].profile = NoProfile
      /\ call'[c].stage = "reading" /\ call'[c].profile = NoProfile
      /\ call'[c].backend = b /\ call'[c].entry = e
      /\ \A d \in Calls \ {c} : call'[d] = call[d]
  BY <1>1 DEF CallStages, TypeOK, CallRecords, Registrations, NoCall
<1>3. \A p \in Pools : TasksOn(p)' = TasksOn(p) /\ Sessions(p)' = Sessions(p)
  <2>1. \A p \in Pools : TasksOn(p)' = TasksOn(p)
    BY <1>2 DEF TasksOn
  <2>. QED
    BY <2>1 DEF Tasks, Sessions
<1>4. \A p \in Pools : Alive(p)' = Alive(p)
  <2>1. \A d \in Calls : call'[d].profile = call[d].profile
    BY <1>2
  <2>. QED
    BY <2>1 DEF Alive, References
<1>5. TypeOK'
  <2>1. call'[c] \in CallRecords
    BY <1>1 DEF TypeOK, CallRecords, NoCall, Statements
  <2>2. call' \in [Calls -> CallRecords]
    BY <1>1, <2>1 DEF TypeOK
  <2>. QED
    BY <1>3, <2>2 DEF TypeOK
<1>6. CallStages' /\ StatementExists'
  BY <1>2 DEF CallStages, StatementExists, Waiting
<1>7. RegistrarStages'
  BY DEF RegistrarStages
<1>8. ParkedInLivePools'
  BY <1>4 DEF ParkedInLivePools
<1>9. PoolServesOneSpec'
  <2>1. HeldProfiles' \subseteq HeldProfiles \cup {NoProfile}
    BY <1>2 DEF HeldProfiles
  <2>. QED
    BY <2>1 DEF PoolServesOneSpec
<1>. QED
  BY <1>5, <1>6, <1>7, <1>8, <1>9

LEMMA CloneInv ==
  ASSUME NEW c \in Calls, IInv, Clone(c)
  PROVE  IInv'
<1>. DEFINE profile == profiles[call[c].backend]
<1>. USE DEF IInv, Clone
<1>1. /\ call[c].stage = "reading" /\ call[c].profile = NoProfile
      /\ call[c].backend \in Backends /\ call[c].entry \in {"execute", "listing"}
      /\ profile \in Profiles \cup {NoProfile}
  BY DEF CallStages, TypeOK, CallRecords, Registrations
<1>2. \/ call' = [call EXCEPT ![c] = NoCall]
      \/ /\ profile \in Profiles
         /\ call[c].entry = "listing" => profile.spec.listing # "none"
         /\ call' = [call EXCEPT ![c] =
                [NoCall EXCEPT !.stage = "acquiring", !.profile = profile,
                               !.statement = Statement(call[c].entry, profile.spec)]]
  BY <1>1
<1>3. /\ \A d \in Calls \ {c} : call'[d] = call[d]
      /\ \/ call'[c] = NoCall
         \/ /\ profile \in Profiles
            /\ call'[c] = [stage |-> "acquiring", entry |-> "none", backend |-> "none",
                          profile |-> profile,
                          statement |-> Statement(call[c].entry, profile.spec)]
            /\ Statement(call[c].entry, profile.spec) \in {"set", "reads", "catalog"}
  BY <1>1, <1>2, ProfileType, StatementOfAccepted DEF TypeOK, CallRecords, Registrations, NoCall
<1>4. \A p \in Pools : TasksOn(p)' = TasksOn(p) /\ Sessions(p)' = Sessions(p)
  <2>1. \A p \in Pools : TasksOn(p)' = TasksOn(p)
    BY <1>1, <1>3 DEF TasksOn, NoCall
  <2>. QED
    BY <2>1 DEF Tasks, Sessions
<1>5. TypeOK'
  BY <1>2, <1>3, <1>4 DEF TypeOK, CallRecords, Registrations, NoCall, Statements, Waiting
<1>6. CallStages' /\ StatementExists'
  <2>1. CASE call'[c] = NoCall
    <3>1. call'[c].stage = "idle" /\ call'[c].profile = NoProfile
      BY <2>1, NoCallType
    <3>2. CallStages'
      BY <1>3, <3>1 DEF CallStages
    <3>3. StatementExists'
      BY <1>3, <3>1 DEF StatementExists, Waiting
    <3>. QED
      BY <3>2, <3>3
  <2>2. CASE profile \in Profiles /\ call'[c].stage = "acquiring" /\ call'[c].profile = profile
             /\ call'[c].statement \in {"set", "reads", "catalog"}
    <3>1. CallStages'
      BY <1>3, <2>2, ProfileType DEF CallStages
    <3>2. StatementExists'
      BY <1>3, <2>2 DEF StatementExists
    <3>. QED
      BY <3>1, <3>2
  <2>. QED
    BY <1>3, <2>1, <2>2
<1>7. \A p \in Pools : Alive(p)' = Alive(p)
  BY <1>1, <1>3, ProfileType DEF Alive, References, NoCall, TypeOK, CallRecords, Registrations
<1>8. RegistrarStages'
  BY <1>4, <1>7, ProfileType DEF RegistrarStages, Unused
<1>9. ParkedInLivePools'
  BY <1>7 DEF ParkedInLivePools
<1>10. PoolServesOneSpec'
  <2>1. HeldProfiles' \subseteq HeldProfiles \cup {NoProfile}
    BY <1>1, <1>3 DEF HeldProfiles, NoCall
  <2>. QED
    BY <2>1 DEF PoolServesOneSpec
<1>. QED
  BY <1>5, <1>6, <1>8, <1>9, <1>10

\* A task starts on a pool that has room for its session.
LEMMA StartTaskInv ==
  ASSUME NEW c \in Calls, IInv, StartTask(c)
  PROVE  IInv'
<1>. DEFINE p == call[c].profile.pool
<1>. USE DEF IInv, StartTask
<1>1. /\ call[c].stage = "acquiring" /\ call[c].profile \in Profiles /\ p \in Pools
      /\ Tasks(p) + late[p] < PoolMaxSize
      /\ parked' = [parked EXCEPT ![p] = IF @ > 0 THEN @ - 1 ELSE 0]
  BY ProfileType DEF CallStages, TypeOK, CallRecords
<1>2. /\ call' \in [Calls -> CallRecords]
      /\ call'[c] = [call[c] EXCEPT !.stage = "executing"]
      /\ call'[c].stage = "executing" /\ call'[c].profile = call[c].profile
      /\ call'[c].statement = call[c].statement
      /\ \A d \in Calls \ {c} : call'[d] = call[d]
  BY <1>1 DEF TypeOK, CallRecords, Waiting
<1>3. \A q \in Pools : Tasks(q)' = IF q = p THEN Tasks(q) + 1 ELSE Tasks(q)
  BY <1>1, TaskStarts
<1>4. \A q \in Pools : parked[q] \in 0 .. PoolMaxSize /\ late[q] \in 0 .. PoolMaxSize
  BY DEF TypeOK
<1>5. /\ parked' \in [Pools -> 0 .. PoolMaxSize]
      /\ \A q \in Pools : parked'[q] <= parked[q] /\ (q # p => parked'[q] = parked[q])
      /\ parked'[p] = IF parked[p] > 0 THEN parked[p] - 1 ELSE 0
  BY <1>1, <1>4 DEF TypeOK
<1>6. TypeOK'
  <2>1. ASSUME NEW q \in Pools PROVE Sessions(q)' <= PoolMaxSize
    <3>1. Sessions(q)' = parked'[q] + Tasks(q)' + late[q]
      BY DEF Sessions
    <3>2. parked[q] + Tasks(q) + late[q] <= PoolMaxSize
      BY DEF Sessions, TypeOK
    <3>. QED
      BY <1>1, <1>3, <1>4, <1>5, <3>1, <3>2, TasksFinite
  <2>. QED
    BY <1>2, <1>5, <2>1 DEF TypeOK
<1>7. CallStages'
  BY <1>1, <1>2 DEF CallStages
<1>8. StatementExists'
  BY <1>1, <1>2 DEF StatementExists, Waiting
<1>9. \A q \in Pools : Alive(q)' = Alive(q)
  <2>1. \A d \in Calls : call'[d].profile = call[d].profile
    BY <1>2
  <2>. QED
    BY <2>1 DEF Alive, References
<1>10. RegistrarStages'
  <2>1. Alive(p)
    BY DEF Alive, References
  <2>2. ASSUME NEW q \in Pools, Unused(q) PROVE Unused(q)'
    <3>1. q # p
      BY <2>1, <2>2 DEF Unused
    <3>. QED
      BY <1>3, <1>5, <1>9, <2>2, <3>1 DEF Unused, Sessions
  <2>. QED
    BY <2>2, ProfileType DEF RegistrarStages
<1>11. ParkedInLivePools'
  BY <1>4, <1>5, <1>9 DEF ParkedInLivePools
<1>12. PoolServesOneSpec'
  <2>1. HeldProfiles' = HeldProfiles
    BY <1>2 DEF HeldProfiles
  <2>. QED
    BY <2>1 DEF PoolServesOneSpec
<1>. QED
  BY <1>6, <1>7, <1>8, <1>10, <1>11, <1>12

\* A call is over; whatever becomes of its session, the pool keeps to its size.
LEMMA EndedInv ==
  ASSUME NEW c \in Calls, NEW p \in Pools, IInv, call[c].stage \in Waiting,
         p = call[c].profile.pool,
         UNCHANGED <<profiles, registrar>>,
         call' = [call EXCEPT ![c].stage = "ended", ![c].statement = "none"],
         parked' \in [Pools -> 0 .. PoolMaxSize], late' \in [Pools -> 0 .. PoolMaxSize],
         \A q \in Pools \ {p} : parked'[q] = parked[q] /\ late'[q] = late[q],
         Sessions(p)' <= PoolMaxSize
  PROVE  IInv'
<1>. USE DEF IInv
<1>1. /\ call' \in [Calls -> CallRecords]
      /\ call'[c].stage = "ended" /\ call'[c].profile = call[c].profile
      /\ \A d \in Calls \ {c} : call'[d] = call[d]
  <2>1. /\ call'[c] = [call[c] EXCEPT !.stage = "ended", !.statement = "none"]
        /\ call[c] \in CallRecords
        /\ \A d \in Calls \ {c} : call'[d] = call[d]
    BY DEF TypeOK
  <2>2. PICK r \in CallRecords : r = [call[c] EXCEPT !.stage = "ended"]
    BY <2>1 DEF CallRecords
  <2>3. PICK t \in CallRecords : t = [r EXCEPT !.statement = "none"]
    BY DEF CallRecords, Statements
  <2>4. t.stage = "ended" /\ t.profile = call[c].profile
    BY <2>1, <2>2, <2>3 DEF CallRecords
  <2>5. call'[c] = t
    BY <2>1, <2>2, <2>3
  <2>. QED
    BY <2>1, <2>4, <2>5 DEF TypeOK
<1>2. \A q \in Pools \ {p} : TasksOn(q)' = TasksOn(q)
  BY <1>1 DEF TasksOn
<1>3. \A q \in Pools \ {p} : Sessions(q)' = Sessions(q)
  BY <1>2 DEF Tasks, Sessions
<1>4. \A q \in Pools : Alive(q)' = Alive(q)
  <2>1. \A d \in Calls : call'[d].profile = call[d].profile
    BY <1>1
  <2>. QED
    BY <2>1 DEF Alive, References
<1>5. Alive(p)
  BY DEF Alive, References
<1>6. TypeOK'
  BY <1>1, <1>3 DEF TypeOK
<1>7. CallStages'
  BY <1>1 DEF CallStages, Waiting
<1>8. StatementExists'
  BY <1>1 DEF StatementExists, Waiting
<1>9. RegistrarStages'
  <2>1. ASSUME NEW q \in Pools, Unused(q) PROVE Unused(q)'
    BY <1>3, <1>4, <1>5, <2>1 DEF Unused
  <2>. QED
    BY <2>1, ProfileType DEF RegistrarStages
<1>10. ParkedInLivePools'
  BY <1>4, <1>5 DEF ParkedInLivePools
<1>11. PoolServesOneSpec'
  <2>1. HeldProfiles' = HeldProfiles
    BY <1>1 DEF HeldProfiles
  <2>. QED
    BY <2>1 DEF PoolServesOneSpec
<1>. QED
  BY <1>6, <1>7, <1>8, <1>9, <1>10, <1>11

\* A waiting call has a profile, hence a pool.
LEMMA WaitingPool ==
  ASSUME NEW c \in Calls, IInv, call[c].stage \in Waiting
  PROVE  call[c].profile.pool \in Pools
  BY ProfileType DEF IInv, CallStages, TypeOK, CallRecords, Waiting

LEMMA EndTaskInv ==
  ASSUME NEW c \in Calls, IInv, EndTask(c)
  PROVE  IInv'
<1>. USE DEF IInv, EndTask
<1>1. PICK p \in Pools : p = call[c].profile.pool
  BY WaitingPool DEF Waiting
<1>2. PICK back \in 0 .. 1 : parked' = [parked EXCEPT ![p] = @ + back]
  BY <1>1
<1>3. Tasks(p)' = Tasks(p) - 1
  BY <1>1, TaskLeft
<1>4. Tasks(p)' \in Nat /\ Tasks(p) \in Nat
  <2>1. TasksOn(p)' \subseteq Calls
    BY DEF TasksOn
  <2>. QED
    BY <2>1, FS_Subset, FS_CardinalityType, TasksFinite DEF Tasks
<1>5. parked[p] + Tasks(p) + late[p] <= PoolMaxSize
  BY <1>1 DEF TypeOK, Sessions
<1>6. parked[p] + back \in 0 .. PoolMaxSize /\ parked[p] \in Nat /\ late[p] \in Nat
  BY <1>1, <1>3, <1>4, <1>5 DEF TypeOK
<1>7. parked' \in [Pools -> 0 .. PoolMaxSize] /\ parked'[p] = parked[p] + back
  BY <1>1, <1>2, <1>6 DEF TypeOK
<1>8. Sessions(p)' <= PoolMaxSize
  BY <1>3, <1>4, <1>5, <1>6, <1>7 DEF Sessions
<1>9. late' \in [Pools -> 0 .. PoolMaxSize]
  BY DEF TypeOK
<1>10. \A q \in Pools \ {p} : parked'[q] = parked[q] /\ late'[q] = late[q]
  BY <1>2 DEF TypeOK
<1>. QED
  BY <1>1, <1>7, <1>8, <1>9, <1>10, EndedInv DEF Waiting

LEMMA TimeOutInv ==
  ASSUME NEW c \in Calls, IInv, TimeOut(c)
  PROVE  IInv'
<1>. USE DEF IInv, TimeOut
<1>1. PICK p \in Pools : p = call[c].profile.pool
  BY WaitingPool
<1>2. \A q \in Pools : parked[q] \in 0 .. PoolMaxSize /\ late[q] \in 0 .. PoolMaxSize
  BY DEF TypeOK
<1>3. parked[p] + Tasks(p) + late[p] <= PoolMaxSize
  BY <1>1 DEF TypeOK, Sessions
<1>4. Tasks(p)' \in Nat /\ Tasks(p) \in Nat
  <2>1. TasksOn(p)' \subseteq Calls
    BY DEF TasksOn
  <2>. QED
    BY <2>1, FS_Subset, FS_CardinalityType, TasksFinite DEF Tasks
<1>5. parked' \in [Pools -> 0 .. PoolMaxSize]
  BY DEF TypeOK
<1>6. CASE call[c].stage = "executing"
  <2>1. Tasks(p)' = Tasks(p) - 1
    BY <1>1, <1>6, TaskLeft
  <2>2. late' = [late EXCEPT ![p] = @ + 1] /\ late[p] + 1 \in 0 .. PoolMaxSize
    BY <1>1, <1>2, <1>3, <1>4, <1>6, <2>1
  <2>3. late' \in [Pools -> 0 .. PoolMaxSize] /\ late'[p] = late[p] + 1
    BY <1>1, <2>2 DEF TypeOK
  <2>4. Sessions(p)' <= PoolMaxSize
    BY <1>1, <1>2, <1>3, <1>4, <2>1, <2>3 DEF Sessions
  <2>5. \A q \in Pools \ {p} : parked'[q] = parked[q] /\ late'[q] = late[q]
    BY <2>2 DEF TypeOK
  <2>. QED
    BY <1>1, <1>5, <2>3, <2>4, <2>5, EndedInv
<1>7. CASE call[c].stage # "executing"
  <2>1. TasksOn(p)' = TasksOn(p)
    BY <1>7 DEF TasksOn, TypeOK, CallRecords
  <2>2. late' = late /\ late' \in [Pools -> 0 .. PoolMaxSize]
    BY <1>7 DEF TypeOK
  <2>3. Sessions(p)' <= PoolMaxSize
    BY <1>3, <2>1, <2>2 DEF Sessions, Tasks
  <2>. QED
    BY <1>1, <1>5, <2>2, <2>3, EndedInv
<1>. QED
  BY <1>6, <1>7

\* The call answers; a pool only it kept alive is closed.
LEMMA AnswerInv ==
  ASSUME NEW c \in Calls, IInv, Answer(c)
  PROVE  IInv'
<1>. USE DEF IInv, Answer
<1>1. /\ call' \in [Calls -> CallRecords]
      /\ call'[c].stage = "idle" /\ call'[c].profile = NoProfile
      /\ \A d \in Calls \ {c} : call'[d] = call[d]
  BY NoCallType DEF TypeOK
<1>2. \A p \in Pools : TasksOn(p)' = TasksOn(p)
  BY <1>1 DEF TasksOn
<1>3. \A p \in Pools : Tasks(p)' = Tasks(p)
  BY <1>2 DEF Tasks
<1>4. /\ parked' \in [Pools -> 0 .. PoolMaxSize]
      /\ ParkedInLivePools'
      /\ \A p \in Pools : Sessions(p)' \in 0 .. Sessions(p) /\ Sessions(p)' <= PoolMaxSize
  BY <1>3, PoolsDropped DEF DropPools, Alive
<1>5. TypeOK'
  BY <1>1, <1>4 DEF TypeOK
<1>6. CallStages'
  BY <1>1 DEF CallStages
<1>7. StatementExists'
  BY <1>1 DEF StatementExists, Waiting
<1>8. RegistrarStages'
  <2>1. ASSUME NEW p \in Pools, Unused(p) PROVE Unused(p)'
    <3>1. ~Alive(p)'
      BY <1>1, <2>1, ProfileType DEF Unused, Alive, References
    <3>2. Sessions(p)' = 0
      BY <1>4, <2>1 DEF Unused
    <3>. QED
      BY <3>1, <3>2 DEF Unused
  <2>. QED
    BY <2>1, ProfileType DEF RegistrarStages
<1>9. PoolServesOneSpec'
  <2>1. HeldProfiles' \subseteq HeldProfiles \cup {NoProfile}
    BY <1>1 DEF HeldProfiles
  <2>. QED
    BY <2>1 DEF PoolServesOneSpec
<1>. QED
  BY <1>4, <1>5, <1>6, <1>7, <1>8, <1>9

\* A task without a caller ends; its session is parked only in a pool that is
\* still there.
LEMMA EndLateTaskInv ==
  ASSUME NEW p \in Pools, IInv, EndLateTask(p)
  PROVE  IInv'
<1>. USE DEF IInv, EndLateTask
<1>1. PICK back \in 0 .. 1 : parked' = [parked EXCEPT ![p] = IF Alive(p) THEN @ + back ELSE 0]
  OBVIOUS
<1>2. \A q \in Pools : parked[q] \in 0 .. PoolMaxSize /\ late[q] \in 0 .. PoolMaxSize
  BY DEF TypeOK
<1>3. \A q \in Pools : TasksOn(q)' = TasksOn(q) /\ Tasks(q)' = Tasks(q) /\ Alive(q)' = Alive(q)
  BY DEF TasksOn, Tasks, Alive
<1>4. /\ late'[p] = late[p] - 1 /\ late'[p] \in 0 .. PoolMaxSize
      /\ parked'[p] \in 0 .. parked[p] + back
      /\ \A q \in Pools \ {p} : parked'[q] = parked[q] /\ late'[q] = late[q]
  BY <1>1, <1>2 DEF TypeOK
<1>5. parked[p] + Tasks(p) + late[p] <= PoolMaxSize
  BY DEF TypeOK, Sessions
<1>6. Sessions(p)' = parked'[p] + Tasks(p) + late'[p] /\ Sessions(p)' <= PoolMaxSize
  BY <1>2, <1>3, <1>4, <1>5, TasksFinite DEF Sessions
<1>7. \A q \in Pools \ {p} : Sessions(q)' = Sessions(q)
  BY <1>3, <1>4 DEF Sessions
<1>8. TypeOK'
  <2>1. parked'[p] \in 0 .. PoolMaxSize
    BY <1>2, <1>4, <1>5, TasksFinite
  <2>2. parked' \in [Pools -> 0 .. PoolMaxSize] /\ late' \in [Pools -> 0 .. PoolMaxSize]
    BY <1>1, <1>4, <2>1 DEF TypeOK
  <2>. QED
    BY <1>6, <1>7, <2>2 DEF TypeOK
<1>9. CallStages' /\ StatementExists' /\ PoolServesOneSpec'
  BY DEF CallStages, StatementExists, PoolServesOneSpec, HeldProfiles
<1>10. RegistrarStages'
  <2>1. ASSUME NEW q \in Pools, Unused(q) PROVE Unused(q)'
    <3>1. q # p
      BY <1>2, <2>1, TasksFinite DEF Unused, Sessions
    <3>. QED
      BY <1>3, <1>7, <2>1, <3>1 DEF Unused
  <2>. QED
    BY <2>1, ProfileType DEF RegistrarStages
<1>11. ParkedInLivePools'
  BY <1>1, <1>2, <1>3, <1>4 DEF ParkedInLivePools
<1>. QED
  BY <1>8, <1>9, <1>10, <1>11

LEMMA NextInv == IInv /\ [Next]_vars => IInv'
<1>. SUFFICES ASSUME IInv, [Next]_vars PROVE IInv'
  OBVIOUS
<1>1. CASE UNCHANGED vars
  BY <1>1 DEF vars, IInv, TypeOK, CallStages, RegistrarStages, ParkedInLivePools,
              StatementExists, PoolServesOneSpec, HeldProfiles,
              Unused, Alive, Sessions, Tasks, TasksOn
<1>2. CASE RegistrarStep
  BY <1>2, StartRegisterInv, InsertInv DEF RegistrarStep
<1>3. CASE \E c \in Calls : CallStep(c) \/ \E b \in Backends : Enter(c, b)
  BY <1>3, EnterInv, CloneInv, StartTaskInv, EndTaskInv, TimeOutInv, AnswerInv DEF CallStep
<1>4. CASE \E p \in Pools : EndLateTask(p)
  BY <1>4, EndLateTaskInv
<1>. QED
  BY <1>1, <1>2, <1>3, <1>4 DEF Next

\* The inductive invariant holds in every state of the registry.
THEOREM RegistryInvariant == Spec => []IInv
<1>. QED
  BY InitInv, NextInv, PTL DEF Spec

\* Whatever is registered and called, what reaches a pool is a statement that
\* somebody wrote.
THEOREM RegistryStatementExists == Spec => []StatementExists
<1>1. IInv => StatementExists
  BY DEF IInv
<1>. QED
  BY <1>1, RegistryInvariant, PTL

\* However often bindings are registered again, a pool serves one spec.
THEOREM RegistryPoolServesOneSpec == Spec => []PoolServesOneSpec
<1>1. IInv => PoolServesOneSpec
  BY DEF IInv
<1>. QED
  BY <1>1, RegistryInvariant, PTL

\* No session stays parked in a pool that neither the map nor a call reaches.
THEOREM RegistryNoSessionStranded == Spec => []NoSessionStranded
<1>1. IInv => NoSessionStranded
  BY ProfileType DEF IInv, NoSessionStranded, ParkedInLivePools, Alive, References, CallStages
<1>. QED
  BY <1>1, RegistryInvariant, PTL
===============================================================================
