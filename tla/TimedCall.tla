------------------------------ MODULE TimedCall ------------------------------
(***************************************************************************)
(* How long one call of run_pooled (src/src/lib.rs) takes, and how long    *)
(* its task keeps the session, in units of a fraction of timeout_ms.       *)
(*                                                                         *)
(* One timer runs over pool.get() and a second, just as long, over the     *)
(* blocking task.  recycle() pings inline, so the first timer is not       *)
(* looked at while pings run; each round trip of a ping or a statement is  *)
(* bounded by the session's own call timeout.  The task owns the session   *)
(* from when it is submitted, but first waits for a blocking thread.       *)
(***************************************************************************)
EXTENDS Integers

CONSTANTS
  Timeout,      \* timeout_ms: both timers and the ODPI-C call timeout
  PoolMaxSize,
  MaxTrips,     \* bound on the round trips of one statement
  MaxParks      \* bound on sessions other calls park while this get() runs

ASSUME TimeAssumption == /\ Timeout \in Nat \ {0}
                         /\ PoolMaxSize \in Nat \ {0}
                         /\ MaxTrips \in Nat \ {0}
                         /\ MaxParks \in Nat

VARIABLES
  phase,     \* where the caller stands
  timer,     \* what is left of the timer that runs now
  elapsed,   \* time since the call began, until it is answered
  ping,      \* time spent in the current ping
  pinged,    \* time spent in pings altogether
  parked,    \* sessions get() finds in the pool
  parks,     \* sessions parked by other calls meanwhile
  task,      \* none, queued for a thread, active or ended
  trips,     \* round trips the statement has begun
  trip,      \* time spent in the current round trip
  tasked     \* time the task has kept its session since it got its thread

getVars  == <<ping, pinged, parked, parks>>
taskVars == <<task, trips, trip, tasked>>
vars     == <<phase, timer, elapsed, getVars, taskVars>>

Interruptible == {"waiting", "connecting", "running"}

Init ==
  /\ phase = "waiting"
  /\ timer = Timeout
  /\ elapsed = 0
  /\ ping = 0 /\ pinged = 0
  /\ parked \in 0 .. PoolMaxSize /\ parks = 0
  /\ task = "none" /\ trips = 0 /\ trip = 0 /\ tasked = 0

\* Mutant: set_call_timeout is missing, so no round trip is bounded.
DueWithoutCallTimeout == phase \in Interruptible /\ timer = 0

\* Mutant: the caller awaits its task without a timer.
DueWithoutSecondTimer ==
  \/ phase \in Interruptible \ {"running"} /\ timer = 0
  \/ phase = "pinging" /\ ping = Timeout
  \/ task = "active" /\ trip = Timeout

\* A deadline that has come: its timer, ping or round trip ends before any more
\* time passes.
Due ==
  \/ phase \in Interruptible /\ timer = 0
  \/ phase = "pinging" /\ ping = Timeout
  \/ task = "active" /\ trip = Timeout

Tick ==
  /\ ~Due
  /\ phase # "answered" \/ task = "active"
  /\ IF phase = "answered" THEN UNCHANGED <<timer, elapsed>>
     ELSE /\ timer'   = IF timer > 0 THEN timer - 1 ELSE 0
          /\ elapsed' = elapsed + 1
  /\ IF phase = "pinging" THEN ping' = ping + 1 /\ pinged' = pinged + 1
     ELSE UNCHANGED <<ping, pinged>>
  /\ IF task = "active" THEN trip' = trip + 1 /\ tasked' = tasked + 1
     ELSE UNCHANGED <<trip, tasked>>
  /\ UNCHANGED <<phase, parked, parks, task, trips>>

\* deadpool's loop goes to the next parked session, or connects.
NextSlot ==
  \/ parked > 0 /\ phase' = "pinging"    /\ parked' = parked - 1
  \/ parked = 0 /\ phase' = "connecting" /\ parked' = parked

PermitComes ==
  /\ phase = "waiting"
  /\ NextSlot
  /\ ping' = 0
  /\ UNCHANGED <<timer, elapsed, pinged, parks, taskVars>>

PingFails ==
  /\ phase = "pinging"
  /\ NextSlot
  /\ ping' = 0
  /\ UNCHANGED <<timer, elapsed, pinged, parks, taskVars>>

\* The second timer starts afresh when the blocking task is submitted.
Spawn ==
  /\ phase' = "running"
  /\ timer' = Timeout
  /\ task'  = "queued"
  /\ UNCHANGED <<elapsed, getVars, trips, trip, tasked>>

PingOk == phase = "pinging" /\ Spawn

ConnectOk == phase = "connecting" /\ Spawn

Answer ==
  /\ phase' = "answered"
  /\ UNCHANGED <<timer, elapsed, getVars, taskVars>>

ConnectFails == phase = "connecting" /\ Answer

GetTimesOut == phase \in {"waiting", "connecting"} /\ timer = 0 /\ Answer

\* A blocking thread takes the task, perhaps long after the call was answered: which
\* jobs are before it is in Bridge.
Start ==
  /\ task = "queued"
  /\ task'  = "active"
  /\ trips' = 1
  /\ UNCHANGED <<phase, timer, elapsed, getVars, trip, tasked>>

\* A round trip of the statement returns and the task makes the next one.
TripReturns ==
  /\ task = "active"
  /\ trips < MaxTrips
  /\ trips' = trips + 1
  /\ trip'  = 0
  /\ UNCHANGED <<phase, timer, elapsed, getVars, task, tasked>>

\* The last round trip returns, or one fails on the call timeout.
TaskEnds ==
  /\ task = "active"
  /\ task' = "ended"
  /\ UNCHANGED <<phase, timer, elapsed, getVars, trips, trip, tasked>>

Deliver == phase = "running" /\ task = "ended" /\ Answer

CallTimesOut == phase = "running" /\ timer = 0 /\ task # "ended" /\ Answer

\* Another call of the binding returns its session to the pool.
OtherParks ==
  /\ phase \in {"waiting", "pinging"}
  /\ parks < MaxParks
  /\ parked < PoolMaxSize
  /\ parked' = parked + 1
  /\ parks'  = parks + 1
  /\ UNCHANGED <<phase, timer, elapsed, ping, pinged, taskVars>>

\* The call is answered and its task is over.
Over ==
  /\ phase = "answered" /\ task \in {"none", "ended"}
  /\ UNCHANGED vars

Next ==
  \/ Tick \/ PermitComes \/ PingFails \/ PingOk \/ ConnectOk \/ ConnectFails
  \/ GetTimesOut \/ Start \/ TripReturns \/ TaskEnds \/ Deliver \/ CallTimesOut
  \/ OtherParks \/ Over

Spec == Init /\ [][Next]_vars

-----------------------------------------------------------------------------
TypeOK ==
  /\ phase \in Interruptible \cup {"pinging", "answered"}
  /\ timer \in 0 .. Timeout
  /\ elapsed \in Nat
  /\ ping \in 0 .. Timeout
  /\ pinged \in Nat
  /\ parked \in 0 .. PoolMaxSize
  /\ parks \in 0 .. MaxParks
  /\ task \in {"none", "queued", "active", "ended"}
  /\ trips \in 0 .. MaxTrips
  /\ trip \in 0 .. Timeout
  /\ tasked \in Nat

\* A call is answered within the two timers of run_pooled plus the time its
\* get() spends in recycle pings, which no timer can interrupt.
AnsweredWithin == elapsed <= 2 * Timeout + pinged

\* The session of a call, even of one answered long ago, is back in the pool
\* after at most one call timeout per round trip of its statement, counted from
\* when its task got a thread; how long it waits for one, nothing bounds.
SessionBackWithin == tasked <= MaxTrips * Timeout

\* Why both bounds hold: time not spent pinging is time taken off a timer, and
\* each round trip begun accounts for at most one call timeout.
TimeInv ==
  /\ phase \in {"waiting", "pinging", "connecting"}
       => task = "none" /\ elapsed + timer <= Timeout + pinged
  /\ phase = "running" => task # "none" /\ elapsed + timer <= 2 * Timeout + pinged
  /\ phase = "answered" => elapsed <= 2 * Timeout + pinged
  /\ task \in {"none", "queued"} => trips = 0 /\ trip = 0 /\ tasked = 0
  /\ task \in {"active", "ended"} => trips >= 1 /\ tasked <= (trips - 1) * Timeout + trip
==============================================================================
