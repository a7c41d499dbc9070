--------------------------- MODULE TimedCallProofs ---------------------------
(***************************************************************************)
(* The two time bounds of TimedCall, for any timeout, any pool size and    *)
(* any number of round trips and sessions parked by others.                *)
(***************************************************************************)
EXTENDS TimedCall, TLAPS

\* Bounds on time: the caller's and the session's.
TInv == TypeOK /\ TimeInv

LEMMA Monotone ==
  ASSUME NEW a \in Nat, NEW b \in Nat, NEW t \in Nat, a <= b
  PROVE  a * t <= b * t
<1>1. PICK d \in Nat : b = a + d
  <2>1. b - a \in Nat /\ b = a + (b - a)
    OBVIOUS
  <2>. QED
    BY <2>1
<1>2. b * t = a * t + d * t /\ d * t \in Nat
  BY <1>1
<1>. QED
  BY <1>2

LEMMA InitTime == Init => TInv
BY TimeAssumption DEF Init, TInv, TypeOK, TimeInv, Interruptible

LEMMA TickTime ==
  ASSUME TInv, Tick
  PROVE  TInv'
<1>. USE TimeAssumption DEF TInv, TypeOK, Tick, Due, Interruptible
<1>1. TypeOK'
  OBVIOUS
<1>2. (trips - 1) * Timeout \in Int
  OBVIOUS
<1>3. TimeInv'
  BY <1>2 DEF TimeInv
<1>. QED
  BY <1>1, <1>3

LEMMA GetTime ==
  ASSUME TInv, PermitComes \/ PingFails \/ OtherParks
  PROVE  TInv'
BY TimeAssumption DEF TInv, TypeOK, TimeInv, Interruptible, PermitComes, PingFails,
   OtherParks, NextSlot, taskVars

LEMMA SpawnTime ==
  ASSUME TInv, PingOk \/ ConnectOk
  PROVE  TInv'
<1>. USE TimeAssumption DEF TInv, TypeOK, Interruptible, PingOk, ConnectOk, Spawn, getVars
<1>1. TypeOK'
  OBVIOUS
<1>2. trips' = 0 /\ tasked' = 0 /\ trip' = 0 /\ task' = "queued" /\ phase' = "running"
  BY DEF TimeInv
<1>3. elapsed' + timer' <= 2 * Timeout + pinged'
  BY DEF TimeInv
<1>4. TimeInv'
  BY <1>2, <1>3 DEF TimeInv
<1>. QED
  BY <1>1, <1>4

LEMMA StartTime ==
  ASSUME TInv, Start
  PROVE  TInv'
<1>. USE TimeAssumption DEF TInv, TypeOK, Interruptible, Start, getVars
<1>1. TypeOK'
  OBVIOUS
<1>2. (trips' - 1) * Timeout = 0 /\ trips' = 1
  <2>1. trips' = 1 /\ trips' - 1 = 0
    OBVIOUS
  <2>. QED
    BY <2>1
<1>3. tasked' = 0 /\ trip' = 0 /\ task' = "active"
  BY DEF TimeInv
<1>4. TimeInv'
  BY <1>2, <1>3 DEF TimeInv
<1>. QED
  BY <1>1, <1>4

LEMMA AnswerTime ==
  ASSUME TInv, ConnectFails \/ GetTimesOut \/ Deliver \/ CallTimesOut
  PROVE  TInv'
BY TimeAssumption DEF TInv, TypeOK, TimeInv, Interruptible, ConnectFails, GetTimesOut,
   Deliver, CallTimesOut, Answer, getVars, taskVars

LEMMA TripTime ==
  ASSUME TInv, TripReturns
  PROVE  TInv'
<1>. USE TimeAssumption DEF TInv, TypeOK, TripReturns, getVars
<1>1. TypeOK'
  OBVIOUS
<1>2. (trips' - 1) * Timeout = (trips - 1) * Timeout + Timeout
  OBVIOUS
<1>3. TimeInv'
  BY <1>2 DEF TimeInv
<1>. QED
  BY <1>1, <1>3

LEMMA EndTime ==
  ASSUME TInv, TaskEnds
  PROVE  TInv'
BY TimeAssumption DEF TInv, TypeOK, TimeInv, Interruptible, TaskEnds, getVars

LEMMA NextTime == TInv /\ [Next]_vars => TInv'
<1>. SUFFICES ASSUME TInv, [Next]_vars PROVE TInv'
  OBVIOUS
<1>1. CASE Over \/ UNCHANGED vars
  BY <1>1 DEF Over, vars, getVars, taskVars, TInv, TypeOK, TimeInv
<1>. QED
  BY <1>1, TickTime, GetTime, SpawnTime, StartTime, AnswerTime, TripTime, EndTime
     DEF Next

LEMMA TimeInvariant == Spec => []TInv
<1>1. Init => TInv
  BY InitTime
<1>2. TInv /\ [Next]_vars => TInv'
  BY NextTime
<1>. QED
  BY <1>1, <1>2, PTL DEF Spec

\* A call is answered within two timeouts plus its uninterruptible pings.
THEOREM AnswerBound == Spec => []AnsweredWithin
<1>1. TInv => AnsweredWithin
  BY TimeAssumption DEF TInv, TypeOK, TimeInv, AnsweredWithin, Interruptible
<1>. QED
  BY <1>1, TimeInvariant, PTL

\* The session is back after at most one call timeout per round trip, from when its
\* task got a thread.
THEOREM SessionBound == Spec => []SessionBackWithin
<1>1. ASSUME TInv PROVE SessionBackWithin
  <2>1. CASE task \in {"none", "queued"}
    BY <1>1, <2>1, TimeAssumption DEF TInv, TimeInv, SessionBackWithin
  <2>2. CASE task \in {"active", "ended"}
    <3>1. trips \in Nat /\ trips <= MaxTrips /\ trip <= Timeout /\ trip \in Nat
      BY <1>1, TimeAssumption DEF TInv, TypeOK
    <3>2. trips * Timeout <= MaxTrips * Timeout
      BY <3>1, Monotone, TimeAssumption
    <3>3. (trips - 1) * Timeout + Timeout = trips * Timeout
      BY <3>1, TimeAssumption
    <3>4. tasked <= (trips - 1) * Timeout + trip /\ tasked \in Nat
      BY <1>1, <2>2 DEF TInv, TypeOK, TimeInv
    <3>5. /\ trips * Timeout \in Nat /\ MaxTrips * Timeout \in Nat
          /\ (trips - 1) * Timeout \in Int
      BY <3>1, TimeAssumption
    <3>. QED
      BY <3>1, <3>2, <3>3, <3>4, <3>5, TimeAssumption DEF SessionBackWithin
  <2>. QED
    BY <1>1, <2>1, <2>2 DEF TInv, TypeOK
<1>. QED
  BY <1>1, TimeInvariant, PTL
==============================================================================
