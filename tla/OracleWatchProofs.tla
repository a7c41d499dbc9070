-------------------------- MODULE OracleWatchProofs --------------------------
(***************************************************************************)
(* The inductive invariant IInv of OracleWatch holds for any number of     *)
(* advances and faults, and with it OneStatement; every step of the        *)
(* watcher reports nothing but news (EventsAreNews).                       *)
(***************************************************************************)
EXTENDS OracleWatch, TLAPS

USE WatchAssumption

\* What the query returns is nothing or the value the watcher compares.
LEMMA ScalarSeen == TypeOK => Scalar = 0 \/ Scalar = Watched
  BY DEF TypeOK, Scalar, Watched

\* That value is between 1 and the bound.
LEMMA WatchedType == TypeOK => Watched \in 1 .. MaxHigh /\ Watched <= high
  BY DEF TypeOK, Watched

LEMMA ScalarType == TypeOK => Scalar \in 0 .. MaxHigh /\ Scalar <= Watched
  BY ScalarSeen, WatchedType

\* As long as neither the table nor the row's key order changes, the value stays.
LEMMA WatchedStays == UNCHANGED tableVars => Watched' = Watched
  BY DEF tableVars, Watched

LEMMA InitInv == Init => IInv
<1>. SUFFICES ASSUME Init PROVE IInv
  OBVIOUS
<1>1. TypeOK
  <2>1. firstKey \in BOOLEAN /\ empty \in BOOLEAN /\ cancelled \in BOOLEAN
    BY Zenon DEF Init
  <2>2. high \in 1 .. MaxHigh /\ faults \in 0 .. MaxFaults
    BY DEF Init
  <2>3. /\ tick = "idle" /\ statement = "none"
        /\ floor \in 0 .. MaxHigh /\ reading \in 0 .. MaxHigh /\ cursor \in 0 .. MaxHigh
        /\ late \in 0 .. MaxFaults /\ orphans \in 0 .. MaxFaults
        /\ permit \in 0 .. 1 /\ parked \in 0 .. 1
    BY DEF Init
  <2>. QED
    BY <2>1, <2>2, <2>3 DEF TypeOK
<1>2. OnePermit
  BY DEF Init, OnePermit, Holding, Unfinished
<1>3. Stages
  BY DEF Init, Stages
<1>4. InOrder
  BY <1>1, WatchedType DEF Init, InOrder
<1>. QED
  BY <1>1, <1>2, <1>3, <1>4 DEF IInv

\* A tick begins, gets or misses the permit, and opens or pings its session.
LEMMA TickInv ==
  ASSUME IInv, StartTick \/ Acquire \/ AcquireTimesOut \/ PingOk \/ PingFails
                 \/ ConnectOk \/ ConnectFails \/ ConnectTimesOut
  PROVE  IInv'
<1>. USE DEF IInv, tableVars, tickVars, poolVars, Fault, Run, StartTick, Acquire,
             AcquireTimesOut, PingOk, PingFails, ConnectOk, ConnectFails, ConnectTimesOut
<1>1. TypeOK'
  BY ScalarType DEF TypeOK, Unfinished, OnePermit, Holding, Stages
<1>2. OnePermit'
  BY DEF TypeOK, Unfinished, OnePermit, Holding, Stages
<1>3. Stages'
  BY DEF TypeOK, Stages, Unfinished, OnePermit, Holding
<1>4. InOrder'
  BY WatchedStays, WatchedType, ScalarType DEF TypeOK, InOrder, Stages, Unfinished
<1>. QED
  BY <1>1, <1>2, <1>3, <1>4

\* A tick ends, with its statement's outcome or without it.
LEMMA EndOfTickInv ==
  ASSUME IInv, CallTimesOut \/ Deliver
  PROVE  IInv'
<1>. USE DEF IInv, tableVars, tickVars, poolVars, Fault, CallTimesOut, Deliver
<1>1. TypeOK'
  BY DEF TypeOK, Unfinished, OnePermit, Holding, Stages
<1>2. OnePermit'
  BY DEF TypeOK, Unfinished, OnePermit, Holding, Stages
<1>3. Stages'
  BY DEF TypeOK, Stages, Unfinished, OnePermit, Holding
<1>4. InOrder'
  BY WatchedStays, WatchedType DEF TypeOK, InOrder, Stages, Unfinished
<1>. QED
  BY <1>1, <1>2, <1>3, <1>4

\* The present tick's statement reads, ends or fails; what it reads is no older
\* than the tick.
LEMMA StatementInv ==
  ASSUME IInv, StatementReads \/ StatementEnds \/ StatementFails
  PROVE  IInv'
<1>. USE DEF IInv, tableVars, tickVars, poolVars, Fault, SessionBack,
             StatementReads, StatementEnds, StatementFails
<1>1. TypeOK'
  BY ScalarType DEF TypeOK, Unfinished, OnePermit, Holding, Stages
<1>2. OnePermit'
  BY DEF TypeOK, Unfinished, OnePermit, Holding, Stages
<1>3. Stages'
  BY DEF TypeOK, Stages, Unfinished, OnePermit, Holding
<1>4. InOrder'
  BY WatchedStays, WatchedType, ScalarSeen, ScalarType
     DEF TypeOK, InOrder, Stages, Unfinished
<1>. QED
  BY <1>1, <1>2, <1>3, <1>4

\* What an earlier tick left behind comes to its end.
LEMMA LateInv ==
  ASSUME IInv, LateEnds \/ OrphanEnds
  PROVE  IInv'
<1>. USE DEF IInv, tableVars, tickVars, poolVars, SessionBack, LateEnds, OrphanEnds
<1>1. TypeOK'
  BY DEF TypeOK, Unfinished, OnePermit, Holding, Stages
<1>2. OnePermit'
  BY DEF TypeOK, Unfinished, OnePermit, Holding, Stages
<1>3. Stages'
  BY DEF TypeOK, Stages, Unfinished, OnePermit, Holding
<1>4. InOrder'
  BY WatchedStays, WatchedType DEF TypeOK, InOrder
<1>. QED
  BY <1>1, <1>2, <1>3, <1>4

\* The watcher is cancelled, closes its pool and ends.
LEMMA CloseInv ==
  ASSUME IInv, Cancel \/ Stop \/ Closed
  PROVE  IInv'
<1>. USE DEF IInv, tableVars, tickVars, poolVars, Cancel, Stop, Closed
<1>1. TypeOK'
  <2>1. UNCHANGED <<tableVars, floor, statement, reading, cursor, late, orphans, permit, faults>>
    OBVIOUS
  <2>2. cancelled' \in BOOLEAN
    BY Zenon DEF TypeOK
  <2>3. /\ tick' \in {"idle", "acquiring", "pinging", "connecting", "running",
                       "closing", "stopped"}
        /\ parked' \in 0 .. 1
    BY DEF TypeOK
  <2>. QED
    BY <2>1, <2>2, <2>3 DEF TypeOK, Unfinished
<1>2. OnePermit'
  BY DEF TypeOK, Unfinished, OnePermit, Holding, Stages
<1>3. Stages'
  BY DEF TypeOK, Stages
<1>4. InOrder'
  BY WatchedStays, WatchedType DEF TypeOK, InOrder
<1>. QED
  BY <1>1, <1>2, <1>3, <1>4

\* The table changes; the value the watcher compares does not fall.
LEMMA TableInv ==
  ASSUME IInv, Advance \/ Vanish
  PROVE  IInv'
<1>. USE DEF IInv, tickVars, poolVars, Advance, Vanish
<1>1. TypeOK'
  <2>1. UNCHANGED <<firstKey, tickVars, poolVars, cancelled, faults>>
    OBVIOUS
  <2>2. empty' \in BOOLEAN
    BY Zenon
  <2>3. high' \in 1 .. MaxHigh
    BY DEF TypeOK
  <2>. QED
    BY <2>1, <2>2, <2>3 DEF TypeOK, Unfinished
<1>2. OnePermit' /\ Stages'
  BY DEF Unfinished, OnePermit, Holding, Stages
<1>3. Watched \in Int /\ Watched' \in Int /\ Watched <= Watched'
  BY DEF TypeOK, Watched
<1>4. InOrder'
  BY <1>3 DEF TypeOK, InOrder
<1>. QED
  BY <1>1, <1>2, <1>4

LEMMA NextInv == IInv /\ [Next]_vars => IInv'
<1>. SUFFICES ASSUME IInv, [Next]_vars PROVE IInv'
  OBVIOUS
<1>1. CASE UNCHANGED vars
  BY <1>1 DEF vars, tableVars, tickVars, poolVars, IInv, TypeOK, OnePermit, Stages,
              InOrder, Holding, Unfinished, Watched
<1>2. CASE Next
  BY <1>1, <1>2, TickInv, EndOfTickInv, StatementInv, LateInv, CloseInv, TableInv
     DEF Next, Stopped
<1>. QED
  BY <1>1, <1>2

\* The inductive invariant holds in every state of a watcher.
THEOREM WatchInvariant == Spec => []IInv
<1>. QED
  BY InitInv, NextInv, PTL DEF Spec

\* However often ticks time out, at most one statement of the watcher runs in
\* the database.
THEOREM WatchOneStatement == Spec => []OneStatement
<1>1. IInv => OneStatement
  BY DEF IInv, TypeOK, OnePermit, Holding, OneStatement
<1>. QED
  BY <1>1, WatchInvariant, PTL

\* A step that moves the cursor delivers what the present tick read.
LEMMA CursorStep ==
  ASSUME IInv, [Next]_vars, cursor' # cursor
  PROVE  cursor' > cursor /\ cursor' >= floor
<1>1. Deliver
  BY DEF Next, vars, tickVars, StartTick, Acquire, AcquireTimesOut, PingOk, PingFails,
         ConnectOk, ConnectFails, ConnectTimesOut, CallTimesOut, StatementReads,
         StatementEnds, StatementFails, LateEnds, OrphanEnds, Cancel, Stop, Closed,
         Stopped, Advance, Vanish
<1>. QED
  BY <1>1 DEF IInv, TypeOK, InOrder, Deliver

\* The cursor moves only for news: a value beyond the last one, read in the tick
\* that reports it, whatever earlier ticks left running.
THEOREM WatchEventsAreNews == Spec => EventsAreNews
<1>1. IInv /\ [Next]_vars
        => [cursor' # cursor => cursor' > cursor /\ cursor' >= floor]_cursor
  BY CursorStep
<1>. QED
  BY <1>1, WatchInvariant, PTL DEF Spec, EventsAreNews
=============================================================================
