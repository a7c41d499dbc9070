----------------------------- MODULE OracleWatch -----------------------------
(***************************************************************************)
(* One oracle_poll watcher (src/src/watch.rs): a thread that polls the     *)
(* tracking query over a pool of one session and compares what it reads    *)
(* with its cursor.  A tick that times out leaves its connect or its       *)
(* statement running behind it.                                            *)
(*                                                                         *)
(* The polling loop is the SDK's spawn_polling_watch: it runs one tick at  *)
(* a time, keeps the last value as its cursor, signals when the cursor     *)
(* advances after the first, and looks at its stop flag between ticks.     *)
(***************************************************************************)
EXTENDS Integers

CONSTANTS
  MaxHigh,     \* bound on how often the watched scalar advances
  MaxFaults    \* bound on failed or timed-out connects, pings and statements

ASSUME WatchAssumption == MaxHigh \in Nat \ {0} /\ MaxFaults \in Nat

VARIABLES
  firstKey,   \* the first key of the row's JSON object is the first column
  high,       \* the watched scalar's high-water mark
  empty,      \* the tracking query returns no row, or NULL
  tick,       \* what the polling thread does
  floor,      \* what the query returned when the tick began
  statement,  \* the present tick's blocking task
  reading,    \* what that task's statement read; 0 is nothing
  late,       \* blocking tasks that outlived their tick
  orphans,    \* connects that outlived their tick
  permit,     \* free permits of the pool
  parked,     \* sessions in the pool
  cursor,     \* last value the loop has seen; 0 is none yet
  cancelled,
  faults

tableVars == <<firstKey, high, empty>>
tickVars  == <<tick, floor, statement, reading, cursor>>
poolVars  == <<late, orphans, permit, parked>>
vars      == <<tableVars, tickVars, poolVars, cancelled, faults>>

Init ==
  /\ firstKey \in BOOLEAN
  /\ high = 1 /\ empty \in BOOLEAN
  /\ tick = "idle" /\ floor = 0
  /\ statement = "none" /\ reading = 0
  /\ late = 0 /\ orphans = 0
  /\ permit = 1 /\ parked = 0
  /\ cursor = 0
  /\ cancelled = FALSE /\ faults = 0

Unfinished == {"running", "read"}

Fault == faults < MaxFaults /\ faults' = faults + 1

\* What cursor_from_outcome reads: the first value of the row's JSON object.  Of a
\* row with several columns that may be another than the first, which is taken
\* not to change.
Scalar ==
  CASE empty               -> 0
    [] ~empty /\ firstKey  -> high
    [] ~empty /\ ~firstKey -> 1

-----------------------------------------------------------------------------
(* The polling thread. *)

StartTick ==
  /\ tick = "idle" /\ ~cancelled
  /\ tick' = "acquiring"
  /\ floor' = Scalar
  /\ UNCHANGED <<tableVars, statement, reading, cursor, poolVars, cancelled, faults>>

\* pool.get() has the permit: a parked session is pinged, else one is opened.
Acquire ==
  /\ tick = "acquiring" /\ permit > 0
  /\ permit' = permit - 1
  /\ \/ parked > 0 /\ tick' = "pinging" /\ parked' = parked - 1
     \/ parked = 0 /\ tick' = "connecting" /\ UNCHANGED parked
  /\ UNCHANGED <<tableVars, floor, statement, reading, cursor, late, orphans,
                 cancelled, faults>>

\* A late statement keeps the permit for longer than this tick waits.
AcquireTimesOut ==
  /\ tick = "acquiring" /\ permit = 0
  /\ tick' = "idle"
  /\ UNCHANGED <<tableVars, floor, statement, reading, cursor, poolVars,
                 cancelled, faults>>

Run ==
  /\ tick' = "running"
  /\ statement' = "running"

PingOk ==
  /\ tick = "pinging"
  /\ Run
  /\ UNCHANGED <<tableVars, floor, reading, cursor, poolVars, cancelled, faults>>

\* The session is evicted and the pool, now empty, opens another.
PingFails ==
  /\ tick = "pinging"
  /\ Fault
  /\ tick' = "connecting"
  /\ UNCHANGED <<tableVars, floor, statement, reading, cursor, poolVars, cancelled>>

ConnectOk ==
  /\ tick = "connecting"
  /\ Run
  /\ UNCHANGED <<tableVars, floor, reading, cursor, poolVars, cancelled, faults>>

ConnectFails ==
  /\ tick = "connecting"
  /\ Fault
  /\ tick' = "idle"
  /\ permit' = permit + 1
  /\ UNCHANGED <<tableVars, floor, statement, reading, cursor, late, orphans,
                 parked, cancelled>>

\* The timer drops the get(); its connect goes on.
ConnectTimesOut ==
  /\ tick = "connecting"
  /\ Fault
  /\ tick' = "idle"
  /\ permit' = permit + 1
  /\ orphans' = orphans + 1
  /\ UNCHANGED <<tableVars, floor, statement, reading, cursor, late, parked, cancelled>>

\* Mutant: the session is back in the pool as soon as the tick gives up.
CallTimesOutFreesSession ==
  /\ tick = "running" /\ statement \in Unfinished
  /\ Fault
  /\ tick' = "idle"
  /\ statement' = "none"
  /\ late' = late + 1
  /\ permit' = permit + 1 /\ parked' = parked + 1
  /\ UNCHANGED <<tableVars, floor, reading, cursor, orphans, cancelled>>

\* The tick gives up; its statement goes on and keeps session and permit.
CallTimesOut ==
  /\ tick = "running" /\ statement \in Unfinished
  /\ Fault
  /\ tick' = "idle"
  /\ statement' = "none"
  /\ late' = late + 1
  /\ UNCHANGED <<tableVars, floor, reading, cursor, orphans, permit, parked, cancelled>>

\* cursor_from_outcome: no row and NULL leave the cursor as it is.
Deliver ==
  /\ tick = "running" /\ statement \in {"ended", "failed"}
  /\ tick' = "idle"
  /\ statement' = "none"
  /\ cursor' = IF statement = "ended" /\ reading # 0 THEN reading ELSE cursor
  /\ UNCHANGED <<tableVars, floor, reading, poolVars, cancelled, faults>>

-----------------------------------------------------------------------------
(* Blocking tasks; the end of one returns its session to the pool, or closes *)
(* it when the pool is gone. *)

SessionBack ==
  /\ permit' = permit + 1
  /\ parked' = IF tick = "closing" THEN parked ELSE parked + 1

\* The query sees the table as it is when it starts.
StatementReads ==
  /\ statement = "running"
  /\ statement' = "read"
  /\ reading' = Scalar
  /\ UNCHANGED <<tableVars, tick, floor, cursor, poolVars, cancelled, faults>>

StatementEnds ==
  /\ statement = "read"
  /\ statement' = "ended"
  /\ SessionBack
  /\ UNCHANGED <<tableVars, tick, floor, reading, cursor, late, orphans,
                 cancelled, faults>>

StatementFails ==
  /\ statement \in Unfinished
  /\ Fault
  /\ statement' = "failed"
  /\ SessionBack
  /\ UNCHANGED <<tableVars, tick, floor, reading, cursor, late, orphans, cancelled>>

\* Mutant: the statement runs without a call timeout and hangs.
LateNeverEnds == late > MaxFaults /\ UNCHANGED vars

\* Mutant: the task of an abandoned tick ends without returning its session.
LateKeepsSession ==
  /\ late > 0
  /\ late' = late - 1
  /\ UNCHANGED <<tableVars, tickVars, orphans, permit, parked, cancelled, faults>>

\* Mutant: what a late statement read is recorded when it comes.
LateIsRecorded ==
  /\ late > 0
  /\ late' = late - 1
  /\ cursor' \in 1 .. high
  /\ SessionBack
  /\ UNCHANGED <<tableVars, tick, floor, statement, reading, orphans, cancelled, faults>>

\* Nobody waits for its outcome.
LateEnds ==
  /\ late > 0
  /\ late' = late - 1
  /\ SessionBack
  /\ UNCHANGED <<tableVars, tickVars, orphans, cancelled, faults>>

\* It never joins the pool: the session is closed, if there is one.
OrphanEnds ==
  /\ orphans > 0
  /\ orphans' = orphans - 1
  /\ UNCHANGED <<tableVars, tickVars, late, permit, parked, cancelled, faults>>

-----------------------------------------------------------------------------
Cancel ==
  /\ ~cancelled
  /\ cancelled' = TRUE
  /\ UNCHANGED <<tableVars, tickVars, poolVars, faults>>

\* The thread drops the closure, and with it pool and runtime; dropping the
\* runtime waits for every blocking task it started.
Stop ==
  /\ tick = "idle" /\ cancelled
  /\ tick' = "closing"
  /\ parked' = 0
  /\ UNCHANGED <<tableVars, floor, statement, reading, cursor, late, orphans,
                 permit, cancelled, faults>>

Closed ==
  /\ tick = "closing" /\ late = 0 /\ orphans = 0
  /\ tick' = "stopped"
  /\ UNCHANGED <<tableVars, floor, statement, reading, cursor, poolVars,
                 cancelled, faults>>

Stopped == tick = "stopped" /\ UNCHANGED vars

Advance ==
  /\ high < MaxHigh
  /\ high' = high + 1
  /\ empty' = FALSE
  /\ UNCHANGED <<firstKey, tickVars, poolVars, cancelled, faults>>

Vanish ==
  /\ ~empty
  /\ empty' = TRUE
  /\ UNCHANGED <<firstKey, high, tickVars, poolVars, cancelled, faults>>

Next ==
  \/ StartTick \/ Acquire \/ AcquireTimesOut \/ PingOk \/ PingFails
  \/ ConnectOk \/ ConnectFails \/ ConnectTimesOut \/ CallTimesOut \/ Deliver
  \/ StatementReads \/ StatementEnds \/ StatementFails \/ LateEnds \/ OrphanEnds
  \/ Cancel \/ Stop \/ Closed \/ Stopped \/ Advance \/ Vanish

\* The loop ticks on; a connect or a statement ends or is timed out, a ping
\* and a late statement end at the call timeout at the latest.
Fairness ==
  /\ WF_vars(StartTick) /\ WF_vars(Acquire) /\ WF_vars(AcquireTimesOut)
  /\ WF_vars(PingOk \/ PingFails)
  /\ WF_vars(ConnectOk \/ ConnectFails \/ ConnectTimesOut)
  /\ WF_vars(StatementReads \/ StatementEnds \/ StatementFails \/ CallTimesOut)
  /\ WF_vars(Deliver) /\ WF_vars(LateEnds)
  /\ WF_vars(Stop) /\ WF_vars(Closed)

Spec == Init /\ [][Next]_vars /\ Fairness

-----------------------------------------------------------------------------
TypeOK ==
  /\ firstKey \in BOOLEAN /\ high \in 1 .. MaxHigh /\ empty \in BOOLEAN
  /\ tick \in {"idle", "acquiring", "pinging", "connecting", "running",
               "closing", "stopped"}
  /\ floor \in 0 .. MaxHigh /\ reading \in 0 .. MaxHigh /\ cursor \in 0 .. MaxHigh
  /\ statement \in {"none", "ended", "failed"} \cup Unfinished
  /\ late \in 0 .. MaxFaults /\ orphans \in 0 .. MaxFaults
  /\ permit \in 0 .. 1 /\ parked \in 0 .. 1
  /\ cancelled \in BOOLEAN /\ faults \in 0 .. MaxFaults

\* However often ticks time out, the watcher never has two of its statements
\* running in the database: the pool of one makes the next tick wait.
OneStatement == (IF statement \in Unfinished THEN 1 ELSE 0) + late <= 1

-----------------------------------------------------------------------------
(* The inductive invariant behind OneStatement and EventsAreNews *)

Holding == tick \in {"pinging", "connecting"} \/ statement \in Unfinished

\* The pool's permit is free, with the present tick, or with a late statement.
OnePermit == permit + (IF Holding THEN 1 ELSE 0) + late = 1

\* A statement belongs to a running tick, and a session is parked only with the
\* permit that lets the next tick take it.
Stages ==
  /\ statement # "none" <=> tick = "running"
  /\ parked <= permit
  /\ late + orphans <= faults
  /\ tick = "stopped" => late = 0 /\ orphans = 0

\* What the watcher compares: a value that never falls.
Watched == IF firstKey THEN high ELSE 1

\* What the tick and the cursor know of that value is in the order in which they
\* learned it.
InOrder ==
  /\ floor <= Watched /\ reading <= Watched /\ cursor <= Watched
  /\ statement \in {"read", "ended"} =>
       reading = 0 \/ (floor <= reading /\ cursor <= reading)

\* All that is known of a watcher between two steps.
IInv == TypeOK /\ OnePermit /\ Stages /\ InOrder

-----------------------------------------------------------------------------
\* The cursor moves, hence a subscriber is notified, only for news: a value
\* beyond the last one, read in the tick that reports it and not before.
EventsAreNews == [][cursor' # cursor => cursor' > cursor /\ cursor' >= floor]_cursor

\* Once the faults are over the watcher sees the last advance, however many
\* statements and connects it abandoned on the way, if the value it compares is
\* that of the first column.
CatchesUp == firstKey => <>[](cancelled \/ empty \/ cursor = high)

\* A cancelled watcher ends and takes its sessions along, if the connects it
\* abandoned end: no timer of this code bounds those.
EndsWhenCancelled == WF_vars(OrphanEnds) => (cancelled ~> tick = "stopped")
==============================================================================
