----------------------------- MODULE BridgeProofs -----------------------------
(***************************************************************************)
(* The inductive invariant IInv of Bridge holds for any number of calls    *)
(* and threads, and with it NoAuditDiscarded and NothingOutlivesUnload: no *)
(* audit event and no session is lost to the end of the plugin.            *)
(***************************************************************************)
EXTENDS Bridge, FiniteSetTheorems, SequenceTheorems, TLAPS

USE ThreadsAssumption

Kinds == {"connect", "statement", "audit"}

\* A job is known by its call and its kind.
LEMMA JobIdentity ==
  \A c, d \in Calls, k, l \in Kinds :
    /\ Job(c, k) \in Jobs /\ Job(c, k).kind = k /\ Job(c, k).call = c
    /\ Job(c, k) = Job(d, l) <=> c = d /\ k = l
  BY DEF Job, Jobs, Kinds

\* Every job is somebody's of some kind.
LEMMA JobForm ==
  \A j \in Jobs : j.call \in Calls /\ j.kind \in Kinds /\ j = Job(j.call, j.kind)
  BY DEF Job, Jobs, Kinds

\* Threads that get free stay within the limit.
LEMMA ThreadsFreed ==
  ASSUME TypeOK, JobsOnce, running' \subseteq running
  PROVE  IsFiniteSet(running') /\ Cardinality(running') <= MaxThreads
<1>1. /\ IsFiniteSet(running') /\ Cardinality(running') <= Cardinality(running)
      /\ Cardinality(running') \in Nat /\ Cardinality(running) \in Nat
  BY FS_Subset, FS_CardinalityType DEF JobsOnce
<1>. QED
  BY <1>1 DEF TypeOK

\* A job that was not handed in before joins the queue.
LEMMA Submitted ==
  ASSUME NEW j \in Jobs, TypeOK, JobsOnce, j \notin Pending,
         queue' = Append(queue, j), running' \subseteq running
  PROVE  /\ queue' \in Seq(Jobs) /\ Queued' = Queued \cup {j} /\ JobsOnce'
<1>1. queue \in Seq(Jobs) /\ Len(queue) \in Nat /\ DOMAIN queue = 1 .. Len(queue)
  BY LenProperties DEF TypeOK
<1>2. /\ queue' \in Seq(Jobs) /\ Len(queue') = Len(queue) + 1
      /\ DOMAIN queue' = 1 .. Len(queue) + 1
      /\ queue'[Len(queue) + 1] = j
      /\ \A i \in 1 .. Len(queue) : queue'[i] = queue[i]
  BY <1>1
<1>3. Queued' = Queued \cup {j}
  <2>1. Queued' \subseteq Queued \cup {j}
    BY <1>1, <1>2 DEF Queued
  <2>2. Queued \subseteq Queued'
    BY <1>1, <1>2 DEF Queued
  <2>3. j \in Queued'
    BY <1>1, <1>2 DEF Queued
  <2>. QED
    BY <2>1, <2>2, <2>3
<1>4. \A i, k \in DOMAIN queue' : queue'[i] = queue'[k] => i = k
  BY <1>1, <1>2 DEF Pending, Queued, JobsOnce
<1>5. Queued' \cap running' = {}
  BY <1>3 DEF Pending, JobsOnce
<1>. QED
  BY <1>2, <1>3, <1>4, <1>5, ThreadsFreed DEF JobsOnce

\* The first job leaves the queue.
LEMMA Taken ==
  ASSUME TypeOK, JobsOnce, queue # <<>>, queue' = Tail(queue)
  PROVE  /\ queue' \in Seq(Jobs) /\ Head(queue) \in Jobs /\ Head(queue) \in Queued
         /\ Queued' = Queued \ {Head(queue)}
         /\ \A i, k \in DOMAIN queue' : queue'[i] = queue'[k] => i = k
<1>1. /\ queue \in Seq(Jobs) /\ Len(queue) \in Nat \ {0} /\ DOMAIN queue = 1 .. Len(queue)
      /\ Head(queue) = queue[1] /\ queue[1] \in Jobs
  BY LenProperties, EmptySeq, HeadTailProperties DEF TypeOK
<1>2. /\ queue' \in Seq(Jobs) /\ DOMAIN queue' = 1 .. Len(queue) - 1
      /\ \A i \in 1 .. Len(queue) - 1 : queue'[i] = queue[i + 1]
  BY <1>1
<1>3. Queued' \subseteq Queued \ {Head(queue)}
  <2>. SUFFICES ASSUME NEW i \in 1 .. Len(queue) - 1
                PROVE  queue[i + 1] \in Queued /\ queue[i + 1] # Head(queue)
    BY <1>1, <1>2 DEF Queued
  <2>1. i + 1 \in DOMAIN queue /\ i + 1 # 1 /\ 1 \in DOMAIN queue
    BY <1>1
  <2>. QED
    BY <1>1, <2>1 DEF Queued, JobsOnce
<1>4. Queued \ {Head(queue)} \subseteq Queued'
  <2>. SUFFICES ASSUME NEW i \in 2 .. Len(queue) PROVE queue[i] \in Queued'
    BY <1>1 DEF Queued
  <2>1. i - 1 \in DOMAIN queue' /\ queue'[i - 1] = queue[i]
    BY <1>1, <1>2
  <2>. QED
    BY <2>1 DEF Queued
<1>5. \A i, k \in DOMAIN queue' : queue'[i] = queue'[k] => i = k
  <2>. SUFFICES ASSUME NEW i \in 1 .. Len(queue) - 1, NEW k \in 1 .. Len(queue) - 1,
                       queue[i + 1] = queue[k + 1]
                PROVE  i = k
    BY <1>2
  <2>1. i + 1 \in DOMAIN queue /\ k + 1 \in DOMAIN queue
    BY <1>1
  <2>2. i + 1 = k + 1
    BY <2>1 DEF JobsOnce
  <2>. QED
    BY <1>1, <2>2
<1>6. Head(queue) \in Queued /\ Head(queue) \in Jobs
  BY <1>1 DEF Queued
<1>. QED
  BY <1>2, <1>3, <1>4, <1>5, <1>6

\* The calls with a session are finitely many.
LEMMA CarryingFinite == IsFiniteSet(Carrying) /\ Cardinality(Carrying) \in Nat
<1>1. Carrying \subseteq Calls
  BY DEF Carrying
<1>. QED
  BY <1>1, FS_Subset, FS_CardinalityType

\* A statement job comes with a session, and its session goes with it.
LEMMA CarryOne ==
  ASSUME NEW c \in Calls, c \notin Carrying, Carrying' = Carrying \cup {c}
  PROVE  Cardinality(Carrying') = Cardinality(Carrying) + 1
  BY CarryingFinite, FS_AddElement

LEMMA CarryOneLess ==
  ASSUME NEW c \in Calls, c \in Carrying, Carrying' = Carrying \ {c}
  PROVE  Cardinality(Carrying') = Cardinality(Carrying) - 1 /\ Cardinality(Carrying) > 0
<1>1. Cardinality(Carrying') = Cardinality(Carrying) - 1
  BY CarryingFinite, FS_RemoveElement
<1>2. Cardinality(Carrying') \in Nat
  BY CarryingFinite, FS_Subset, FS_CardinalityType
<1>. QED
  BY <1>1, <1>2, CarryingFinite

LEMMA InitInv == Init => IInv
<1>. SUFFICES ASSUME Init PROVE IInv
  OBVIOUS
<1>1. Queued = {} /\ Pending = {} /\ Carrying = {}
  BY DEF Init, Queued, Pending, Carrying
<1>2. TypeOK
  BY EmptySeq, FS_EmptySet DEF Init, TypeOK
<1>3. JobsOnce
  BY <1>1, FS_EmptySet DEF Init, JobsOnce
<1>4. JobStages /\ Dropped /\ AuditAwaited
  BY <1>1 DEF Init, JobStages, Dropped, AuditAwaited
<1>5. NothingOutlivesUnload
  BY <1>1, FS_EmptySet DEF Init, NothingOutlivesUnload
<1>. QED
  BY <1>2, <1>3, <1>4, <1>5 DEF IInv

\* A call takes or opens a session: it hands in the job for it.
LEMMA BeginInv ==
  ASSUME NEW c \in Calls, IInv, Begin(c)
  PROVE  IInv'
<1>. USE DEF IInv
<1>1. PICK dead \in 0 .. parked, kind \in {"connect", "statement"} :
        /\ pc' = [pc EXCEPT ![c] = kind] /\ queue' = Append(queue, Job(c, kind))
        /\ open' = open - dead
        /\ \/ kind = "statement" /\ dead < parked /\ parked' = parked - dead - 1
           \/ kind = "connect" /\ dead = parked /\ parked' = 0
  BY DEF Begin, MoveTo, Submit
<1>2. /\ phase = "open" /\ pc[c] = "idle"
      /\ UNCHANGED <<failed, attempted, running, phase>>
  BY DEF Begin
<1>3. \A k \in Kinds : Job(c, k) \notin Pending
  BY <1>2 DEF JobStages, Kinds
<1>4. queue' \in Seq(Jobs) /\ JobsOnce' /\ Pending' = Pending \cup {Job(c, kind)}
  <2>1. Job(c, kind) \in Jobs /\ kind \in Kinds
    BY JobIdentity DEF Kinds
  <2>2. queue' \in Seq(Jobs) /\ JobsOnce' /\ Queued' = Queued \cup {Job(c, kind)}
    BY <1>1, <1>2, <1>3, <2>1, Submitted
  <2>. QED
    BY <1>2, <2>2 DEF Pending
<1>5. /\ pc' \in [Calls -> {"idle", "connect", "statement", "audit", "returned"}]
      /\ pc'[c] = kind /\ \A d \in Calls \ {c} : pc'[d] = pc[d]
  BY <1>1 DEF TypeOK
<1>6. Cardinality(Carrying') = Cardinality(Carrying) + (IF kind = "statement" THEN 1 ELSE 0)
  <2>1. CASE kind = "statement"
    <3>1. Carrying' = Carrying \cup {c} /\ c \notin Carrying
      BY <1>3, <1>4, <2>1, JobIdentity DEF Carrying, Kinds
    <3>. QED
      BY <2>1, <3>1, CarryOne
  <2>2. CASE kind = "connect"
    <3>1. Carrying' = Carrying
      BY <1>4, <2>2, JobIdentity DEF Carrying, Kinds
    <3>. QED
      BY <2>2, <3>1, CarryingFinite
  <2>. QED
    BY <2>1, <2>2
<1>7. open' = parked' + Cardinality(Carrying') /\ parked' \in Nat /\ open' \in Nat
  <2>1. open = parked + Cardinality(Carrying) /\ parked \in Nat /\ Cardinality(Carrying) \in Nat
    BY CarryingFinite DEF TypeOK, NothingOutlivesUnload
  <2>2. CASE kind = "statement"
    BY <1>1, <1>6, <2>1, <2>2
  <2>3. CASE kind = "connect"
    BY <1>1, <1>6, <2>1, <2>3
  <2>. QED
    BY <2>2, <2>3
<1>8. TypeOK'
  BY <1>2, <1>4, <1>5, <1>7 DEF TypeOK
<1>9. JobStages'
  <2>. SUFFICES ASSUME NEW d \in Calls
                PROVE  /\ pc'[d] \in {"connect", "statement"} => Job(d, pc'[d]) \in Pending'
                       /\ pc'[d] = "audit" <=> Job(d, "audit") \in Pending'
                       /\ Job(d, "connect") \in Pending' => pc'[d] # "idle"
                       /\ Job(d, "statement") \in Pending' => pc'[d] \notin {"idle", "connect"}
                       /\ d \in failed' => pc'[d] \in {"audit", "returned"}
                       /\ pc'[d] = "audit" => d \in failed'
    BY DEF JobStages
  <2>1. CASE d = c
    BY <1>2, <1>3, <1>4, <1>5, <2>1, JobIdentity DEF JobStages, Kinds
  <2>2. CASE d # c
    BY <1>2, <1>4, <1>5, <2>2, JobIdentity DEF JobStages, Kinds
  <2>. QED
    BY <2>1, <2>2
<1>10. Dropped' /\ NothingOutlivesUnload'
  BY <1>2, <1>7 DEF Dropped, NothingOutlivesUnload
<1>11. AuditAwaited'
  BY <1>2, <1>5 DEF AuditAwaited, TypeOK
<1>. QED
  BY <1>4, <1>8, <1>9, <1>10, <1>11

\* A call that waits fails, and perhaps the job it waited for ends with it: its
\* audit event takes the place of that job, or it returns without one.
LEMMA FailKeeps ==
  ASSUME NEW c \in Calls, IInv, Fail(c), pc[c] \in {"idle", "connect", "statement"},
         UNCHANGED <<attempted, phase>>,
         NEW ended \in SUBSET {Job(c, "connect"), Job(c, "statement")},
         ended \subseteq running, running' = running \ ended,
         pc[c] \in {"connect", "statement"} \/ ended = {}
  PROVE  /\ pc' \in [Calls -> {"idle", "connect", "statement", "audit", "returned"}]
         /\ failed' \subseteq Calls /\ attempted' \subseteq failed'
         /\ queue' \in Seq(Jobs) /\ running' \subseteq Jobs
         /\ Cardinality(running') <= MaxThreads
         /\ JobsOnce' /\ JobStages' /\ AuditAwaited'
         /\ Carrying' = IF Job(c, "statement") \in ended THEN Carrying \ {c} ELSE Carrying
<1>. USE DEF IInv
<1>1. /\ Job(c, "audit") \notin Pending /\ c \notin failed
  BY DEF JobStages
<1>2. PICK kind \in {"audit", "returned"} :
        /\ pc' = [pc EXCEPT ![c] = kind]
        /\ kind = "audit" => failed' = failed \cup {c} /\ queue' = Append(queue, Job(c, "audit"))
        /\ kind = "returned" => failed' = failed /\ queue' = queue
  BY DEF Fail, MoveTo, Submit
<1>3. /\ pc' \in [Calls -> {"idle", "connect", "statement", "audit", "returned"}]
      /\ pc'[c] = kind /\ \A d \in Calls \ {c} : pc'[d] = pc[d]
  BY <1>2 DEF TypeOK
<1>4. ended \cap Queued = {}
  BY DEF JobsOnce
<1>5. /\ queue' \in Seq(Jobs) /\ JobsOnce'
      /\ Pending' = IF kind = "audit" THEN (Pending \ ended) \cup {Job(c, "audit")}
                    ELSE Pending \ ended
  <2>1. CASE kind = "audit"
    <3>1. /\ queue' \in Seq(Jobs) /\ JobsOnce' /\ Queued' = Queued \cup {Job(c, "audit")}
      BY <1>1, <1>2, <2>1, JobIdentity, Submitted DEF Kinds
    <3>. QED
      BY <1>4, <2>1, <3>1 DEF Pending
  <2>2. CASE kind = "returned"
    <3>1. queue' = queue /\ Queued' = Queued
      BY <1>2, <2>2 DEF Queued
    <3>2. JobsOnce'
      BY <3>1, ThreadsFreed DEF JobsOnce
    <3>. QED
      BY <1>4, <2>2, <3>1, <3>2 DEF Pending, TypeOK
  <2>. QED
    BY <2>1, <2>2
<1>6. \A d \in Calls, k \in Kinds : d # c => (Job(d, k) \in Pending' <=> Job(d, k) \in Pending)
  BY <1>5, JobIdentity DEF Kinds
<1>7. \A k \in Kinds : Job(c, k) \in Pending' <=>
        \/ k = "audit" /\ kind = "audit"
        \/ k # "audit" /\ Job(c, k) \in Pending \ ended
  BY <1>1, <1>5, JobIdentity DEF Kinds
<1>8. JobStages'
  <2>. SUFFICES ASSUME NEW d \in Calls
                PROVE  /\ pc'[d] \in {"connect", "statement"} => Job(d, pc'[d]) \in Pending'
                       /\ pc'[d] = "audit" <=> Job(d, "audit") \in Pending'
                       /\ Job(d, "connect") \in Pending' => pc'[d] # "idle"
                       /\ Job(d, "statement") \in Pending' => pc'[d] \notin {"idle", "connect"}
                       /\ d \in failed' => pc'[d] \in {"audit", "returned"}
                       /\ pc'[d] = "audit" => d \in failed'
    BY DEF JobStages
  <2>1. CASE d = c
    BY <1>2, <1>3, <1>7, <2>1 DEF Kinds
  <2>2. CASE d # c
    BY <1>2, <1>3, <1>6, <2>2 DEF JobStages, Kinds
  <2>. QED
    BY <2>1, <2>2
<1>9. failed' \subseteq Calls /\ attempted' \subseteq failed' /\ AuditAwaited'
  BY <1>1, <1>2, <1>3 DEF TypeOK, AuditAwaited
<1>10. running' \subseteq Jobs /\ Cardinality(running') <= MaxThreads
  BY ThreadsFreed DEF TypeOK
<1>11. Carrying' = IF Job(c, "statement") \in ended THEN Carrying \ {c} ELSE Carrying
  <2>1. \A d \in Calls \ {c} : d \in Carrying' <=> d \in Carrying
    BY <1>6 DEF Carrying, Kinds
  <2>2. c \in Carrying' <=> c \in Carrying /\ Job(c, "statement") \notin ended
    BY <1>7 DEF Carrying, Kinds
  <2>3. Carrying \subseteq Calls /\ Carrying' \subseteq Calls
    BY DEF Carrying
  <2>. QED
    BY <2>1, <2>2, <2>3
<1>. QED
  BY <1>3, <1>5, <1>8, <1>9, <1>10, <1>11

\* Refused at once, or given up by a timer: no job is touched.
LEMMA GiveUpInv ==
  ASSUME NEW c \in Calls, IInv, Refuse(c) \/ Timeout(c)
  PROVE  IInv'
<1>1. /\ pc[c] \in {"idle", "connect", "statement"} /\ Fail(c)
      /\ phase = "open" /\ UNCHANGED <<attempted, running, parked, open, phase>>
  BY DEF Refuse, Timeout, IInv, Dropped
<1>2. /\ {} \in SUBSET {Job(c, "connect"), Job(c, "statement")}
      /\ {} \subseteq running /\ running' = running \ {}
  BY <1>1
<1>3. /\ pc' \in [Calls -> {"idle", "connect", "statement", "audit", "returned"}]
      /\ failed' \subseteq Calls /\ attempted' \subseteq failed'
      /\ queue' \in Seq(Jobs) /\ running' \subseteq Jobs
      /\ Cardinality(running') <= MaxThreads
      /\ JobsOnce' /\ JobStages' /\ AuditAwaited'
      /\ Carrying' = Carrying
  BY <1>1, <1>2, FailKeeps
<1>4. TypeOK'
  BY <1>1, <1>3 DEF IInv, TypeOK
<1>5. Dropped' /\ NothingOutlivesUnload'
  BY <1>1, <1>3 DEF IInv, Dropped, NothingOutlivesUnload
<1>. QED
  BY <1>3, <1>4, <1>5 DEF IInv

\* A thread takes the first job of the queue.
LEMMA StartJobInv ==
  ASSUME IInv, StartJob
  PROVE  IInv'
<1>. USE DEF IInv, StartJob, calls
<1>1. /\ queue' \in Seq(Jobs) /\ Head(queue) \in Jobs /\ Head(queue) \in Queued
      /\ Queued' = Queued \ {Head(queue)}
      /\ \A i, k \in DOMAIN queue' : queue'[i] = queue'[k] => i = k
  BY Taken
<1>2. /\ IsFiniteSet(running') /\ Cardinality(running') = Cardinality(running) + 1
      /\ Cardinality(running) \in Nat
  BY <1>1, FS_AddElement, FS_CardinalityType DEF JobsOnce
<1>3. JobsOnce'
  BY <1>1, <1>2 DEF JobsOnce
<1>4. Pending' = Pending
  BY <1>1 DEF Pending
<1>5. TypeOK'
  BY <1>1, <1>2 DEF TypeOK
<1>6. JobStages' /\ AuditAwaited' /\ Dropped'
  BY <1>4 DEF JobStages, AuditAwaited, Dropped
<1>7. phase # "gone"
  BY DEF NothingOutlivesUnload
<1>8. NothingOutlivesUnload'
  BY <1>4, <1>7 DEF NothingOutlivesUnload, Carrying
<1>. QED
  BY <1>3, <1>5, <1>6, <1>8

\* A job on a thread ends: nothing else happens to the jobs.
LEMMA JobEnds ==
  ASSUME NEW j \in running, IInv, running' = running \ {j}, queue' = queue
  PROVE  /\ running' \subseteq Jobs /\ Cardinality(running') <= MaxThreads
         /\ JobsOnce' /\ Pending' = Pending \ {j}
<1>1. Queued' = Queued
  BY DEF Queued
<1>2. JobsOnce'
  BY <1>1, ThreadsFreed DEF IInv, JobsOnce
<1>3. Pending' = Pending \ {j}
  BY <1>1 DEF IInv, JobsOnce, Pending
<1>. QED
  BY <1>2, <1>3, ThreadsFreed DEF IInv, TypeOK

\* A connect that a call still waits for becomes its statement's session; any
\* other leaves nothing.
LEMMA ConnectOkInv ==
  ASSUME NEW c \in Calls, IInv, ConnectOk(c)
  PROVE  IInv'
<1>. USE DEF IInv
<1>. DEFINE j == Job(c, "connect")
            s == Job(c, "statement")
<1>1. /\ j \in running /\ running' = running \ {j} /\ j \in Pending
      /\ UNCHANGED <<failed, attempted, parked, phase>>
  BY DEF ConnectOk, Pending
<1>2. phase # "gone"
  BY <1>1 DEF NothingOutlivesUnload
<1>3. CASE pc[c] = "connect"
  <2>1. /\ pc' = [pc EXCEPT ![c] = "statement"] /\ queue' = Append(queue, s)
        /\ open' = open + 1 /\ phase = "open"
    BY <1>3 DEF ConnectOk, MoveTo, Submit, Dropped
  <2>2. s \in Jobs /\ s \notin Pending
    BY <1>3, JobIdentity DEF JobStages, Kinds
  <2>3. queue' \in Seq(Jobs) /\ JobsOnce' /\ Queued' = Queued \cup {s}
    BY <1>1, <2>1, <2>2, Submitted
  <2>4. Pending' = (Pending \ {j}) \cup {s}
    BY <1>1, <2>3, JobIdentity DEF Pending, JobsOnce, Kinds
  <2>5. /\ pc' \in [Calls -> {"idle", "connect", "statement", "audit", "returned"}]
        /\ pc'[c] = "statement" /\ \A d \in Calls \ {c} : pc'[d] = pc[d]
    BY <2>1 DEF TypeOK
  <2>6. Carrying' = Carrying \cup {c} /\ c \notin Carrying
    BY <2>2, <2>4, JobIdentity DEF Carrying, Kinds
  <2>7. open' = parked' + Cardinality(Carrying') /\ open' \in Nat
    <3>1. open = parked + Cardinality(Carrying) /\ parked \in Nat /\ Cardinality(Carrying) \in Nat
      BY CarryingFinite DEF TypeOK, NothingOutlivesUnload
    <3>2. Cardinality(Carrying') = Cardinality(Carrying) + 1
      BY <2>6, CarryOne
    <3>. QED
      BY <1>1, <2>1, <3>1, <3>2
  <2>8. TypeOK'
    BY <1>1, <2>3, <2>5, <2>7, ThreadsFreed DEF TypeOK
  <2>9. JobStages'
    <3>. SUFFICES ASSUME NEW d \in Calls
                  PROVE  /\ pc'[d] \in {"connect", "statement"} => Job(d, pc'[d]) \in Pending'
                         /\ pc'[d] = "audit" <=> Job(d, "audit") \in Pending'
                         /\ Job(d, "connect") \in Pending' => pc'[d] # "idle"
                         /\ Job(d, "statement") \in Pending' => pc'[d] \notin {"idle", "connect"}
                         /\ d \in failed' => pc'[d] \in {"audit", "returned"}
                         /\ pc'[d] = "audit" => d \in failed'
      BY DEF JobStages
    <3>1. CASE d = c
      BY <1>1, <1>3, <2>4, <2>5, <3>1, JobIdentity DEF JobStages, Kinds
    <3>2. CASE d # c
      BY <1>1, <2>4, <2>5, <3>2, JobIdentity DEF JobStages, Kinds
    <3>. QED
      BY <3>1, <3>2
  <2>10. AuditAwaited'
    BY <1>1, <2>5 DEF AuditAwaited, TypeOK
  <2>11. Dropped' /\ NothingOutlivesUnload'
    BY <1>1, <2>1, <2>7 DEF Dropped, NothingOutlivesUnload
  <2>. QED
    BY <2>3, <2>8, <2>9, <2>10, <2>11
<1>4. CASE pc[c] # "connect"
  <2>1. UNCHANGED <<pc, queue, open>>
    BY <1>4 DEF ConnectOk
  <2>2. /\ running' \subseteq Jobs /\ Cardinality(running') <= MaxThreads
        /\ JobsOnce' /\ Pending' = Pending \ {j}
    BY <1>1, <2>1, JobEnds
  <2>3. TypeOK'
    BY <1>1, <2>1, <2>2 DEF TypeOK
  <2>4. JobStages'
    BY <1>1, <1>4, <2>1, <2>2, JobIdentity DEF JobStages, Kinds
  <2>5. AuditAwaited' /\ Dropped'
    BY <1>1, <2>1 DEF AuditAwaited, Dropped
  <2>6. Carrying' = Carrying
    BY <2>2, JobIdentity DEF Carrying, Kinds
  <2>7. NothingOutlivesUnload'
    BY <1>1, <1>2, <2>1, <2>6 DEF NothingOutlivesUnload
  <2>. QED
    BY <2>2, <2>3, <2>4, <2>5, <2>7
<1>. QED
  BY <1>3, <1>4

\* A connect that fails takes the call that waits for it along.
LEMMA ConnectFailsInv ==
  ASSUME NEW c \in Calls, IInv, ConnectFails(c)
  PROVE  IInv'
<1>. USE DEF IInv
<1>. DEFINE j == Job(c, "connect")
<1>1. /\ j \in running /\ running' = running \ {j} /\ j \in Pending
      /\ UNCHANGED <<attempted, parked, open, phase>>
  BY DEF ConnectFails, Pending
<1>2. phase # "gone"
  BY <1>1 DEF NothingOutlivesUnload
<1>3. CASE pc[c] = "connect"
  <2>1. Fail(c) /\ phase = "open"
    BY <1>3 DEF ConnectFails, Dropped
  <2>2. {j} \in SUBSET {Job(c, "connect"), Job(c, "statement")} /\ {j} \subseteq running
    BY <1>1
  <2>3. Job(c, "statement") \notin {j}
    BY JobIdentity DEF Kinds
  <2>4. /\ pc' \in [Calls -> {"idle", "connect", "statement", "audit", "returned"}]
        /\ failed' \subseteq Calls /\ attempted' \subseteq failed'
        /\ queue' \in Seq(Jobs) /\ running' \subseteq Jobs
        /\ Cardinality(running') <= MaxThreads
        /\ JobsOnce' /\ JobStages' /\ AuditAwaited'
        /\ Carrying' = Carrying
    BY <1>1, <1>3, <2>1, <2>2, <2>3, FailKeeps
  <2>5. TypeOK'
    BY <1>1, <2>4 DEF TypeOK
  <2>6. Dropped' /\ NothingOutlivesUnload'
    BY <1>1, <2>1, <2>4 DEF Dropped, NothingOutlivesUnload
  <2>. QED
    BY <2>4, <2>5, <2>6
<1>4. CASE pc[c] # "connect"
  <2>1. UNCHANGED <<pc, failed, queue>>
    BY <1>4 DEF ConnectFails
  <2>2. /\ running' \subseteq Jobs /\ Cardinality(running') <= MaxThreads
        /\ JobsOnce' /\ Pending' = Pending \ {j}
    BY <1>1, <2>1, JobEnds
  <2>3. TypeOK'
    BY <1>1, <2>1, <2>2 DEF TypeOK
  <2>4. JobStages'
    BY <1>1, <1>4, <2>1, <2>2, JobIdentity DEF JobStages, Kinds
  <2>5. AuditAwaited' /\ Dropped'
    BY <1>1, <2>1 DEF AuditAwaited, Dropped
  <2>6. Carrying' = Carrying
    BY <2>2, JobIdentity DEF Carrying, Kinds
  <2>7. NothingOutlivesUnload'
    BY <1>1, <1>2, <2>1, <2>6 DEF NothingOutlivesUnload
  <2>. QED
    BY <2>2, <2>3, <2>4, <2>5, <2>7
<1>. QED
  BY <1>3, <1>4

\* A statement that ends parks its session, or closes it when the pool is gone.
LEMMA ReleaseCounts ==
  ASSUME NEW c \in Calls, IInv, Release, c \in Carrying, Carrying' = Carrying \ {c}
  PROVE  /\ open' = parked' + Cardinality(Carrying') /\ open' \in Nat /\ parked' \in Nat
         /\ phase # "open" => parked' = parked
<1>1. open = parked + Cardinality(Carrying) /\ parked \in Nat /\ Cardinality(Carrying) \in Nat
  BY CarryingFinite DEF IInv, TypeOK, NothingOutlivesUnload
<1>2. Cardinality(Carrying') = Cardinality(Carrying) - 1 /\ Cardinality(Carrying) > 0
  BY CarryOneLess
<1>3. CASE phase = "open"
  BY <1>1, <1>2, <1>3 DEF Release
<1>4. CASE phase # "open"
  BY <1>1, <1>2, <1>4 DEF Release
<1>. QED
  BY <1>3, <1>4

LEMMA StatementEndsInv ==
  ASSUME NEW c \in Calls, IInv, StatementEnds(c)
  PROVE  IInv'
<1>. USE DEF IInv
<1>. DEFINE j == Job(c, "statement")
<1>1. /\ j \in running /\ running' = running \ {j} /\ j \in Pending /\ Release
      /\ UNCHANGED <<attempted, phase>>
  BY DEF StatementEnds, Pending
<1>2. phase # "gone" /\ c \in Carrying
  BY <1>1 DEF NothingOutlivesUnload, Carrying
<1>3. CASE pc[c] = "statement" /\ Fail(c)
  <2>1. phase = "open"
    BY <1>3 DEF Dropped
  <2>2. {j} \in SUBSET {Job(c, "connect"), Job(c, "statement")} /\ {j} \subseteq running
    BY <1>1
  <2>3. /\ pc' \in [Calls -> {"idle", "connect", "statement", "audit", "returned"}]
        /\ failed' \subseteq Calls /\ attempted' \subseteq failed'
        /\ queue' \in Seq(Jobs) /\ running' \subseteq Jobs
        /\ Cardinality(running') <= MaxThreads
        /\ JobsOnce' /\ JobStages' /\ AuditAwaited'
        /\ Carrying' = Carrying \ {c}
    BY <1>1, <1>3, <2>2, FailKeeps
  <2>4. open' = parked' + Cardinality(Carrying') /\ open' \in Nat /\ parked' \in Nat
    BY <1>1, <1>2, <2>3, ReleaseCounts
  <2>5. TypeOK'
    BY <1>1, <2>3, <2>4 DEF TypeOK
  <2>6. Dropped' /\ NothingOutlivesUnload'
    BY <1>1, <2>1, <2>4 DEF Dropped, NothingOutlivesUnload
  <2>. QED
    BY <2>3, <2>5, <2>6
<1>4. CASE /\ UNCHANGED <<failed, queue>>
           /\ \/ pc[c] = "statement" /\ pc' = [pc EXCEPT ![c] = "returned"]
              \/ pc[c] # "statement" /\ pc' = pc
  <2>1. /\ running' \subseteq Jobs /\ Cardinality(running') <= MaxThreads
        /\ JobsOnce' /\ Pending' = Pending \ {j}
    BY <1>1, <1>4, JobEnds
  <2>2. /\ pc' \in [Calls -> {"idle", "connect", "statement", "audit", "returned"}]
        /\ pc'[c] = IF pc[c] = "statement" THEN "returned" ELSE pc[c]
        /\ \A d \in Calls \ {c} : pc'[d] = pc[d]
    BY <1>4 DEF TypeOK
  <2>3. Carrying' = Carrying \ {c}
    BY <2>1, JobIdentity DEF Carrying, Kinds
  <2>4. /\ open' = parked' + Cardinality(Carrying') /\ open' \in Nat /\ parked' \in Nat
        /\ phase # "open" => parked' = parked
    BY <1>1, <1>2, <2>3, ReleaseCounts
  <2>5. TypeOK'
    BY <1>1, <1>4, <2>1, <2>2, <2>4 DEF TypeOK
  <2>6. JobStages'
    <3>. SUFFICES ASSUME NEW d \in Calls
                  PROVE  /\ pc'[d] \in {"connect", "statement"} => Job(d, pc'[d]) \in Pending'
                         /\ pc'[d] = "audit" <=> Job(d, "audit") \in Pending'
                         /\ Job(d, "connect") \in Pending' => pc'[d] # "idle"
                         /\ Job(d, "statement") \in Pending' => pc'[d] \notin {"idle", "connect"}
                         /\ d \in failed' => pc'[d] \in {"audit", "returned"}
                         /\ pc'[d] = "audit" => d \in failed'
      BY DEF JobStages
    <3>1. CASE d = c
      BY <1>4, <2>1, <2>2, <3>1, JobIdentity DEF JobStages, Kinds
    <3>2. CASE d # c
      BY <1>4, <2>1, <2>2, <3>2, JobIdentity DEF JobStages, Kinds
    <3>. QED
      BY <3>1, <3>2
  <2>7. AuditAwaited'
    BY <1>1, <1>4, <2>2 DEF AuditAwaited, TypeOK, JobStages
  <2>8. Dropped' /\ NothingOutlivesUnload'
    BY <1>1, <1>2, <1>4, <2>2, <2>4 DEF Dropped, NothingOutlivesUnload
  <2>. QED
    BY <2>1, <2>5, <2>6, <2>7, <2>8
<1>. QED
  BY <1>3, <1>4 DEF StatementEnds, MoveTo

\* The audit event is written, and the call that awaited it returns.
LEMMA AuditEndsInv ==
  ASSUME NEW c \in Calls, IInv, AuditEnds(c)
  PROVE  IInv'
<1>. USE DEF IInv
<1>. DEFINE j == Job(c, "audit")
<1>1. /\ j \in running /\ running' = running \ {j} /\ j \in Pending
      /\ attempted' = attempted \cup {c} /\ pc' = [pc EXCEPT ![c] = "returned"]
      /\ UNCHANGED <<failed, queue, parked, open, phase>>
  BY DEF AuditEnds, Pending, MoveTo
<1>2. phase = "open"
  BY <1>1 DEF Dropped, JobStages
<1>3. /\ running' \subseteq Jobs /\ Cardinality(running') <= MaxThreads
      /\ JobsOnce' /\ Pending' = Pending \ {j}
  BY <1>1, JobEnds
<1>4. /\ pc' \in [Calls -> {"idle", "connect", "statement", "audit", "returned"}]
      /\ pc'[c] = "returned" /\ \A d \in Calls \ {c} : pc'[d] = pc[d]
  BY <1>1 DEF TypeOK
<1>5. TypeOK'
  BY <1>1, <1>3, <1>4 DEF TypeOK, JobStages
<1>6. JobStages'
  BY <1>1, <1>3, <1>4, JobIdentity DEF JobStages, Kinds
<1>7. AuditAwaited'
  BY <1>1, <1>4 DEF AuditAwaited, TypeOK
<1>8. Carrying' = Carrying
  BY <1>3, JobIdentity DEF Carrying, Kinds
<1>9. Dropped' /\ NothingOutlivesUnload'
  BY <1>1, <1>2, <1>8 DEF Dropped, NothingOutlivesUnload
<1>. QED
  BY <1>3, <1>5, <1>6, <1>7, <1>9

\* The pools go, with the sessions parked in them.
LEMMA UnloadInv ==
  ASSUME IInv, Unload
  PROVE  IInv'
<1>. USE DEF IInv, Unload, calls, jobs
<1>1. Queued' = Queued /\ Pending' = Pending /\ Carrying' = Carrying
  BY DEF Queued, Pending, Carrying
<1>2. open = parked + Cardinality(Carrying) /\ parked \in Nat /\ Cardinality(Carrying) \in Nat
  BY CarryingFinite DEF TypeOK, NothingOutlivesUnload
<1>3. TypeOK'
  BY <1>2 DEF TypeOK
<1>4. JobsOnce' /\ JobStages' /\ AuditAwaited'
  BY <1>1 DEF JobsOnce, JobStages, AuditAwaited
<1>5. Dropped'
  BY DEF Dropped
<1>6. NothingOutlivesUnload'
  BY <1>1, <1>2 DEF NothingOutlivesUnload
<1>. QED
  BY <1>3, <1>4, <1>5, <1>6

\* A discarded job is nobody's audit event; if it is a statement, its session
\* is closed.
LEMMA DiscardJobInv ==
  ASSUME IInv, DiscardJob
  PROVE  IInv'
<1>. USE DEF IInv, DiscardJob, calls
<1>. DEFINE j == Head(queue)
<1>1. /\ queue' \in Seq(Jobs) /\ Head(queue) \in Jobs /\ Head(queue) \in Queued
      /\ Queued' = Queued \ {Head(queue)}
      /\ \A i, k \in DOMAIN queue' : queue'[i] = queue'[k] => i = k
  BY Taken
<1>2. Pending' = Pending \ {j} /\ JobsOnce'
  BY <1>1 DEF Pending, JobsOnce
<1>3. PICK c \in Calls, kind \in Kinds : j = Job(c, kind) /\ j.kind = kind
  BY <1>1, JobForm
<1>4. j \in Pending /\ kind # "audit"
  BY <1>1, <1>3 DEF Pending, JobStages, Dropped
<1>5. JobStages'
  BY <1>2, <1>3, <1>4, JobIdentity DEF JobStages, Kinds, Dropped
<1>6. open' = parked' + Cardinality(Carrying') /\ open' \in Nat
  <2>1. open = parked + Cardinality(Carrying) /\ parked \in Nat /\ Cardinality(Carrying) \in Nat
    BY CarryingFinite DEF TypeOK, NothingOutlivesUnload
  <2>2. CASE kind = "statement"
    <3>1. Carrying' = Carrying \ {c} /\ c \in Carrying
      BY <1>2, <1>3, <1>4, <2>2, JobIdentity DEF Carrying, Kinds
    <3>2. Cardinality(Carrying') = Cardinality(Carrying) - 1 /\ Cardinality(Carrying) > 0
      BY <3>1, CarryOneLess
    <3>. QED
      BY <1>3, <2>1, <2>2, <3>2
  <2>3. CASE kind # "statement"
    <3>1. Carrying' = Carrying
      BY <1>2, <1>3, <2>3, JobIdentity DEF Carrying, Kinds
    <3>. QED
      BY <1>3, <2>1, <2>3, <3>1
  <2>. QED
    BY <2>2, <2>3
<1>7. TypeOK' /\ Dropped' /\ AuditAwaited'
  BY <1>1, <1>6 DEF TypeOK, Dropped, AuditAwaited
<1>8. NothingOutlivesUnload'
  BY <1>6 DEF NothingOutlivesUnload
<1>. QED
  BY <1>2, <1>5, <1>7, <1>8

\* The runtime is gone once no job is left.
LEMMA RuntimeDroppedInv ==
  ASSUME IInv, RuntimeDropped
  PROVE  IInv'
<1>. USE DEF IInv, RuntimeDropped, calls, jobs
<1>1. Queued' = Queued /\ Pending' = Pending /\ Carrying' = Carrying
  BY DEF Queued, Pending, Carrying
<1>2. Carrying = {}
  BY DEF Carrying, Pending, Queued
<1>3. TypeOK' /\ Dropped' /\ AuditAwaited'
  BY DEF TypeOK, Dropped, AuditAwaited
<1>4. JobsOnce' /\ JobStages'
  BY <1>1 DEF JobsOnce, JobStages
<1>5. NothingOutlivesUnload'
  BY <1>1, <1>2, FS_EmptySet DEF NothingOutlivesUnload, Dropped, TypeOK
<1>. QED
  BY <1>3, <1>4, <1>5

LEMMA NextInv == IInv /\ [Next]_vars => IInv'
<1>. SUFFICES ASSUME IInv, [Next]_vars PROVE IInv'
  OBVIOUS
<1>1. CASE UNCHANGED vars
  BY <1>1 DEF vars, calls, jobs, IInv, TypeOK, JobsOnce, JobStages, Dropped, AuditAwaited,
              NothingOutlivesUnload, Queued, Pending, Carrying
<1>2. CASE Next
  BY <1>1, <1>2, BeginInv, GiveUpInv, ConnectOkInv, ConnectFailsInv, StatementEndsInv,
     AuditEndsInv, StartJobInv, UnloadInv, DiscardJobInv, RuntimeDroppedInv
     DEF Next, Gone
<1>. QED
  BY <1>1, <1>2

\* The inductive invariant holds in every state of the bridge.
THEOREM BridgeInvariant == Spec => []IInv
<1>. QED
  BY InitInv, NextInv, PTL DEF Spec

\* When the host unloads the plugin the audit event of every failure has reached the
\* host's sink, and none of the jobs that a dropped runtime discards is one.
THEOREM BridgeNoAuditDiscarded == Spec => []NoAuditDiscarded
<1>1. IInv => NoAuditDiscarded
  <2>. SUFFICES ASSUME IInv, phase # "open"
                PROVE  attempted = failed /\ \A j \in Pending : j.kind # "audit"
    BY DEF NoAuditDiscarded
  <2>1. \A c \in Calls : pc[c] \in {"idle", "returned"}
    BY DEF IInv, Dropped
  <2>2. attempted = failed
    BY <2>1 DEF IInv, TypeOK, JobStages, AuditAwaited
  <2>3. \A j \in Pending : j \in Jobs
    BY DEF IInv, TypeOK, Pending, Queued
  <2>4. ASSUME NEW j \in Pending, j.kind = "audit"
        PROVE  FALSE
    <3>1. j.call \in Calls /\ j = Job(j.call, "audit")
      BY <2>3, <2>4 DEF Jobs, Job
    <3>. QED
      BY <2>1, <2>4, <3>1 DEF IInv, JobStages
  <2>. QED
    BY <2>2, <2>4
<1>. QED
  BY <1>1, BridgeInvariant, PTL

\* Sessions are parked or with a statement, and none outlives the plugin.
THEOREM BridgeNothingOutlivesUnload == Spec => []NothingOutlivesUnload
<1>1. IInv => NothingOutlivesUnload
  BY DEF IInv
<1>. QED
  BY <1>1, BridgeInvariant, PTL
===============================================================================
