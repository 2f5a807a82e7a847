------------------------- MODULE WebhookInboxProofs -------------------------
(***************************************************************************)
(* Proofs about WebhookInbox for any number of events, pods, retries and   *)
(* faults.  The inductive invariant IInv says where the row of an event    *)
(* can be while a worker holds it, how the number of claims follows the    *)
(* retry count, and that a row which is gone cannot be stored again.       *)
(***************************************************************************)
EXTENDS WebhookInbox, TLAPS

Statuses == {"none", "pending", "processing", "failed", "completed", "abandoned"}
Open == {"pending", "failed"}
Positions == {"idle", "queued", "claiming", "listed", "listedStale", "abandoning",
              "processing", "succeeded", "failing", "completionFailed"}
RowType == [status : Statuses, retryCount : Nat, wait : Int, stale : Int,
            token : Nat, id : Nat]
WorkType == [pc : Positions, token : Nat, pod : Pods \cup {NoPod}]

Types ==
  /\ rows \in [Events -> RowType]
  /\ nextId \in Nat
  /\ age \in [Events -> Nat]
  /\ work \in [Workers -> WorkType]
  /\ cronPod \in Pods \cup {NoPod}
  /\ claims \in [Events -> Nat]
  /\ successes \in [Events -> Nat]

\* How the claims of an event follow its retry count.
Budget ==
  \A e \in Events :
    /\ claims[e] <= MaxRetries
    /\ rows[e].status \in Open => claims[e] = rows[e].retryCount /\ claims[e] < MaxRetries
    /\ rows[e].status = "processing" => claims[e] = rows[e].retryCount + 1
    /\ rows[e].status = "none" => claims[e] = 0 \/ age[e] >= Retention

\* A row that a worker holds cannot be claimed.
Leases ==
  \A w \in Workers : work[w].pc \in Holding =>
    rows[Event(w)].status \notin Open /\ claims[Event(w)] > 0

\* After a success nobody runs the event and nobody can claim it.
Successes ==
  \A e \in Events :
    \/ successes[e] = 0
    \/ /\ successes[e] = 1
       /\ claims[e] > 0
       /\ rows[e].status \notin Open
       /\ \A w \in Workers : Event(w) = e => work[w].pc \notin {"processing", "failing"}

IInv == Types /\ Budget /\ Leases /\ OneWorker /\ Successes

\* The workers that hold a row after a step held it before, and none of them
\* has begun to run its handler or to fail.
NobodyNew ==
  /\ work' \in [Workers -> WorkType]
  /\ \A v \in Workers :
       /\ work'[v].pc \in Holding => work[v].pc \in Holding
       /\ work'[v].pc \in {"processing", "failing"} => work'[v].pc = work[v].pc

LEMMA WorkerFacts ==
  ASSUME NEW w \in Workers
  PROVE  Event(w) \in Events /\ Kind(w) \in {"inline", "cron"}
BY DEF Workers, Event, Kind

\* Writing one column of a row.
LEMMA RowWrites ==
  ASSUME NEW r \in RowType
  PROVE  /\ \A x \in Statuses : LET q == [r EXCEPT !.status = x]
              IN  q \in RowType /\ q.status = x /\ q.retryCount = r.retryCount
         /\ \A x \in Nat : LET q == [r EXCEPT !.retryCount = x]
              IN  q \in RowType /\ q.status = r.status /\ q.retryCount = x
         /\ \A x \in Int : LET q == [r EXCEPT !.wait = x]
              IN  q \in RowType /\ q.status = r.status /\ q.retryCount = r.retryCount
         /\ \A x \in Int : LET q == [r EXCEPT !.stale = x]
              IN  q \in RowType /\ q.status = r.status /\ q.retryCount = r.retryCount
         /\ \A x \in Nat : LET q == [r EXCEPT !.token = x]
              IN  q \in RowType /\ q.status = r.status /\ q.retryCount = r.retryCount
         /\ \A x \in Nat : LET q == [r EXCEPT !.id = x]
              IN  q \in RowType /\ q.status = r.status /\ q.retryCount = r.retryCount
BY DEF RowType

LEMMA FinishFacts ==
  ASSUME Types, NEW w \in Workers, Finish(w)
  PROVE  NobodyNew /\ work'[w].pc \notin Holding
<1>1. Idle \in WorkType /\ Idle.pc = "idle"
  BY DEF Idle, WorkType, Positions
<1>2. CASE work' = [work EXCEPT ![w] = Idle]
  BY <1>1, <1>2, SMTT(30) DEF Types, NobodyNew, Holding
<1>3. CASE Kind(w) = "inline" /\ Release(Event(w), work[w].pod)
  <2>1. w = <<"inline", Event(w)>>
    BY <1>3 DEF Workers, Kind, Event
  <2> DEFINE h == <<"inline", Head(queue[work[w].pod])>>
  <2> HIDE DEF h
  <2>2. CASE work' = [work EXCEPT ![w] = Idle]
    BY <1>2, <2>2
  <2>3. CASE work' = [work EXCEPT ![w] = Idle, ![h].pc = "claiming"]
    <3> DEFINE m == [work EXCEPT ![w] = Idle]
    <3>1. m \in [Workers -> WorkType] /\ \A v \in Workers : v # w => m[v] = work[v]
      BY <1>1 DEF Types
    <3>2. m[w].pc = "idle"
      BY <1>1 DEF Types
    <3>3. work' = [m EXCEPT ![h].pc = "claiming"]
      BY <2>3
    <3> HIDE DEF m
    <3>4. work' \in [Workers -> WorkType]
      BY <3>1, <3>3, ZenonT(30) DEF WorkType, Positions
    <3>5. \A v \in Workers : work'[v].pc = m[v].pc \/ work'[v].pc = "claiming"
      BY <3>1, <3>3 DEF WorkType
    <3> QED BY <3>1, <3>2, <3>4, <3>5 DEF NobodyNew, Holding
  <2> QED BY <1>3, <2>1, <2>2, <2>3 DEF Release, h
<1> QED BY <1>2, <1>3 DEF Finish

-----------------------------------------------------------------------------
(* Kinds of steps.                                                         *)

\* A step that starts no worker and changes no row, age, claim or success.
LEMMA QuietStep ==
  ASSUME IInv, NobodyNew, UNCHANGED <<rows, age, claims, successes>>,
         nextId' \in Nat, cronPod' \in Pods \cup {NoPod}
  PROVE  IInv'
<1>1. Types'
  BY DEF IInv, Types, NobodyNew
<1>2. Budget'
  BY DEF IInv, Budget
<1>3. Leases'
  BY DEF IInv, Leases, NobodyNew
<1>4. OneWorker'
  BY DEF IInv, OneWorker, NobodyNew
<1>5. Successes'
  BY DEF IInv, Successes, NobodyNew, Holding
<1> QED BY <1>1, <1>2, <1>3, <1>4, <1>5 DEF IInv

\* A step that settles a processing row for good.
LEMMA SettlingStep ==
  ASSUME IInv, NobodyNew, NEW e \in Events, NEW r \in RowType,
         rows[e].status = "processing", rows' = [rows EXCEPT ![e] = r],
         r.status \in Terminal,
         UNCHANGED <<nextId, age, cronPod, claims, successes>>
  PROVE  IInv'
<1>0. /\ rows' \in [Events -> RowType]
      /\ \A f \in Events : f # e => rows'[f] = rows[f]
      /\ rows'[e].status \in {"completed", "abandoned"}
  BY DEF IInv, Types, Terminal
<1>1. Types'
  BY <1>0 DEF IInv, Types, NobodyNew
<1>2. Budget'
  BY <1>0 DEF IInv, Budget, Open
<1>3. Leases'
  BY <1>0, WorkerFacts DEF IInv, Leases, NobodyNew, Open
<1>4. OneWorker'
  BY DEF IInv, OneWorker, NobodyNew
<1>5. Successes'
  BY <1>0 DEF IInv, Successes, NobodyNew, Holding, Open
<1> QED BY <1>1, <1>2, <1>3, <1>4, <1>5 DEF IInv

\* A step in which the worker that holds a row reports a failure and ends.
LEMMA FailingStep ==
  ASSUME IInv, NobodyNew, NEW w \in Workers, NEW r \in RowType,
         work[w].pc = "failing", work'[w].pc \notin Holding,
         rows[Event(w)].status = "processing",
         rows' = [rows EXCEPT ![Event(w)] = r],
         r.status = "failed", r.retryCount = rows[Event(w)].retryCount + 1,
         r.retryCount < MaxRetries,
         UNCHANGED <<nextId, age, cronPod, claims, successes>>
  PROVE  IInv'
<1> DEFINE e == Event(w)
<1>e. e \in Events
  BY WorkerFacts
<1>0. /\ rows' \in [Events -> RowType]
      /\ \A f \in Events : f # e => rows'[f] = rows[f]
      /\ rows'[e] = r
  BY <1>e DEF IInv, Types
<1>h. \A v \in Workers : Event(v) = e => work'[v].pc \notin Holding
  BY DEF IInv, OneWorker, NobodyNew, Holding
<1>s. successes[e] = 0
  BY <1>e DEF IInv, Successes
<1> HIDE DEF e
<1>1. Types'
  BY <1>0 DEF IInv, Types, NobodyNew
<1>2. Budget'
  <2>1. claims[e] = rows[e].retryCount + 1
    BY <1>e DEF IInv, Budget, e
  <2> QED BY <1>0, <1>e, <2>1 DEF IInv, Budget, Open, e
<1>3. Leases'
  BY <1>0, <1>h, WorkerFacts DEF IInv, Leases, NobodyNew
<1>4. OneWorker'
  BY DEF IInv, OneWorker, NobodyNew
<1>5. Successes'
  BY <1>0, <1>s DEF IInv, Successes, NobodyNew, Holding
<1> QED BY <1>1, <1>2, <1>3, <1>4, <1>5 DEF IInv

\* A step that stores an event: it was never claimed before.
LEMMA InsertStep ==
  ASSUME IInv, InboxAssumption, NobodyNew, NEW e \in Events, Delivers(e), Insert(e),
         UNCHANGED <<cronPod, claims, successes>>
  PROVE  IInv'
<1> DEFINE r == [NoRow EXCEPT !.status = "pending", !.id = nextId]
<1>r. r \in RowType /\ r.status = "pending" /\ r.retryCount = 0
  <2> DEFINE q == [NoRow EXCEPT !.status = "pending"]
  <2>1. NoRow \in RowType /\ NoRow.retryCount = 0
    BY DEF NoRow, RowType, Statuses
  <2>2. q \in RowType /\ q.status = "pending" /\ q.retryCount = 0
    BY <2>1, RowWrites, ZenonT(30) DEF Statuses
  <2>3. r = [q EXCEPT !.id = nextId]
    OBVIOUS
  <2> HIDE DEF q, r
  <2> QED BY <2>2, <2>3, RowWrites DEF IInv, Types
<1>0. /\ rows' = [rows EXCEPT ![e] = r]
      /\ age' = [age EXCEPT ![e] = 0]
      /\ nextId' = nextId + 1
      /\ rows[e].status = "none"
  BY DEF Insert
<1> HIDE DEF r
<1>1. /\ rows' \in [Events -> RowType]
      /\ \A f \in Events : f # e => rows'[f] = rows[f] /\ age'[f] = age[f]
      /\ rows'[e] = r
  BY <1>0, <1>r DEF IInv, Types
<1>2. claims[e] = 0
  BY <1>0 DEF IInv, Types, Budget, Delivers, InboxAssumption
<1>3. Types'
  BY <1>0, <1>1 DEF IInv, Types, NobodyNew
<1>4. Budget'
  BY <1>1, <1>2, <1>r, InboxAssumption DEF IInv, Budget, Open, InboxAssumption
<1>5. Leases'
  BY <1>1, <1>2, WorkerFacts DEF IInv, Leases, NobodyNew
<1>6. OneWorker'
  BY DEF IInv, OneWorker, NobodyNew
<1>7. Successes'
  BY <1>1, <1>2 DEF IInv, Successes, NobodyNew, Holding
<1> QED BY <1>3, <1>4, <1>5, <1>6, <1>7 DEF IInv

\* A step that claims a row, for a worker that goes on or for none.
LEMMA ClaimStep ==
  ASSUME IInv, NEW e \in Events, Claimable(e), TakeRow(e),
         work' \in [Workers -> WorkType],
         NEW w, w \in Workers => Event(w) = e /\ work'[w].pc = "processing",
         \A v \in Workers : v # w =>
           /\ work'[v].pc \in Holding => work[v].pc \in Holding
           /\ work'[v].pc \in {"processing", "failing"} => work'[v].pc = work[v].pc,
         UNCHANGED <<nextId, age, cronPod, successes>>
  PROVE  IInv'
<1> DEFINE r == [[rows[e] EXCEPT !.status = "processing", !.token = claims[e] + 1]
                   EXCEPT !.stale = 0]
<1>0. rows' = [rows EXCEPT ![e] = r] /\ claims' = [claims EXCEPT ![e] = @ + 1]
  BY DEF TakeRow, Update
<1>r. r \in RowType /\ r.status = "processing" /\ r.retryCount = rows[e].retryCount
  <2> DEFINE a == [rows[e] EXCEPT !.status = "processing"]
             b == [a EXCEPT !.token = claims[e] + 1]
  <2>1. r = [b EXCEPT !.stale = 0]
    OBVIOUS
  <2>2. a \in RowType /\ a.status = "processing" /\ a.retryCount = rows[e].retryCount
    BY RowWrites, ZenonT(30) DEF IInv, Types, Statuses
  <2>n. claims[e] + 1 \in Nat
    BY DEF IInv, Types
  <2> HIDE DEF a, r
  <2>3. b \in RowType /\ b.status = a.status /\ b.retryCount = a.retryCount
    BY <2>2, <2>n, RowWrites
  <2> HIDE DEF b
  <2>4. LET q == [b EXCEPT !.stale = 0]
        IN  q \in RowType /\ q.status = b.status /\ q.retryCount = b.retryCount
    BY <2>3, RowWrites
  <2> QED BY <2>1, <2>2, <2>3, <2>4
<1> HIDE DEF r
<1>1. /\ rows' \in [Events -> RowType]
      /\ claims' \in [Events -> Nat]
      /\ \A f \in Events : f # e => rows'[f] = rows[f] /\ claims'[f] = claims[f]
      /\ rows'[e] = r
      /\ claims'[e] = claims[e] + 1
      /\ claims[e] \in Nat
  BY <1>0, <1>r DEF IInv, Types
<1>2. rows[e].status \in Open
  BY DEF Claimable, Open
<1>3. \A v \in Workers : Event(v) = e => work[v].pc \notin Holding
  BY <1>2 DEF IInv, Leases
<1>4. successes[e] = 0
  BY <1>2 DEF IInv, Successes
<1>5. Types'
  BY <1>1 DEF IInv, Types
<1>6. Budget'
  <2>1. claims[e] = rows[e].retryCount /\ claims[e] < MaxRetries
    BY <1>2 DEF IInv, Budget
  <2> QED BY <1>1, <1>r, <2>1, InboxAssumption DEF IInv, Budget, Open, InboxAssumption
<1>7. Leases'
  BY <1>1, <1>r, WorkerFacts DEF IInv, Leases, Open
<1>8. OneWorker'
  BY <1>3 DEF IInv, OneWorker
<1>9. Successes'
  <2> SUFFICES ASSUME NEW f \in Events, f # e
               PROVE  \/ successes[f] = 0
                      \/ /\ successes[f] = 1
                         /\ claims[f] > 0
                         /\ rows[f].status \notin Open
                         /\ \A v \in Workers :
                              Event(v) = f => work'[v].pc \notin {"processing", "failing"}
    BY <1>1, <1>4 DEF Successes
  <2> QED BY DEF IInv, Successes, Holding
<1> QED BY <1>5, <1>6, <1>7, <1>8, <1>9 DEF IInv
-----------------------------------------------------------------------------
(* The invariant.                                                          *)

LEMMA InitIInv == Init => IInv
<1> SUFFICES ASSUME Init PROVE IInv
  OBVIOUS
<1>1. NoRow \in RowType /\ NoRow.status = "none" /\ Idle \in WorkType /\ Idle.pc = "idle"
  BY DEF NoRow, Idle, RowType, WorkType, Statuses, Positions
<1>2. Types
  BY <1>1 DEF Init, Types
<1>3. Budget
  BY <1>1, InboxAssumption DEF Init, Budget, Open, InboxAssumption
<1>4. Leases /\ OneWorker /\ Successes
  BY <1>1 DEF Init, Leases, OneWorker, Successes, Holding
<1> QED BY <1>2, <1>3, <1>4 DEF IInv

\* A guarded write of a terminal status by a worker that ends or goes on.
LEMMA OwnedSettles ==
  ASSUME IInv, NobodyNew, NEW w \in Workers, NEW s \in Terminal,
         OwnedUpdate(w, [rows[Event(w)] EXCEPT !.status = s, !.wait = 0]),
         UNCHANGED <<nextId, age, cronPod, claims, successes>>
  PROVE  IInv'
<1> DEFINE e == Event(w)
           a == [rows[e] EXCEPT !.status = s]
           b == [a EXCEPT !.wait = 0]
           r == [b EXCEPT !.stale = 0]
<1>e. e \in Events
  BY WorkerFacts
<1>1. CASE UNCHANGED rows
  BY <1>1, QuietStep DEF IInv, Types
<1>2. CASE Owned(w) /\ rows' = [rows EXCEPT ![e] = r]
  <2>1. rows[e].status = "processing"
    BY <1>2 DEF Owned
  <2>2. a \in RowType /\ a.status = s
    <3>1. rows[e] \in RowType /\ s \in Statuses
      BY <1>e DEF IInv, Types, Statuses, Terminal
    <3> QED BY <3>1, RowWrites
  <2> HIDE DEF a
  <2>3. b \in RowType /\ b.status = s
    BY <2>2, RowWrites
  <2> HIDE DEF b
  <2>4. r \in RowType /\ r.status = s
    BY <2>3, RowWrites
  <2> HIDE DEF r, e
  <2> QED BY <1>2, <1>e, <2>1, <2>4, SettlingStep, ZenonT(30)
<1> QED BY <1>1, <1>2 DEF OwnedUpdate, Update

LEMMA MarkFailedIInv ==
  ASSUME IInv, NEW w \in Workers, MarkFailed(w)
  PROVE  IInv'
<1> DEFINE e == Event(w)
           n == rows[e].retryCount + 1
<1>e. e \in Events
  BY WorkerFacts
<1>n. n \in Nat
  BY <1>e, SMTT(30) DEF IInv, Types, RowType
<1>f. NobodyNew /\ work'[w].pc \notin Holding
  BY FinishFacts, ZenonT(30) DEF MarkFailed, IInv
<1>u. UNCHANGED <<nextId, age, cronPod, claims, successes>> /\ work[w].pc = "failing"
  BY ZenonT(30) DEF MarkFailed, At
<1>1. CASE UNCHANGED rows
  BY <1>1, <1>f, <1>u, QuietStep DEF IInv, Types
<1>2. ASSUME NEW s \in {"failed", "abandoned"}, NEW d \in Int, Owned(w),
             s = "failed" => n < MaxRetries,
             Update(e, [rows[e] EXCEPT !.status = s, !.retryCount = n, !.wait = d])
      PROVE  IInv'
  <2> DEFINE a == [rows[e] EXCEPT !.status = s]
             b == [a EXCEPT !.retryCount = n]
             c == [b EXCEPT !.wait = d]
             r == [c EXCEPT !.stale = 0]
  <2>1. rows[e].status = "processing"
    BY <1>2 DEF Owned
  <2>2. rows' = [rows EXCEPT ![e] = r]
    BY <1>2 DEF Update
  <2>3. a \in RowType /\ a.status = s
    <3>1. rows[e] \in RowType /\ s \in Statuses
      BY <1>e, <1>2 DEF IInv, Types, Statuses
    <3> QED BY <3>1, RowWrites
  <2> HIDE DEF a, n
  <2>4. b \in RowType /\ b.status = s /\ b.retryCount = n
    BY <1>n, <2>3, RowWrites
  <2> HIDE DEF b
  <2>5. c \in RowType /\ c.status = s /\ c.retryCount = n
    BY <1>2, <2>4, RowWrites
  <2> HIDE DEF c
  <2>6. r \in RowType /\ r.status = s /\ r.retryCount = n
    BY <2>5, RowWrites
  <2> HIDE DEF r
  <2>7. CASE s = "abandoned"
    BY <1>e, <1>f, <1>u, <2>1, <2>2, <2>6, <2>7, SettlingStep, ZenonT(30) DEF Terminal
  <2>8. CASE s = "failed"
    BY <1>f, <1>u, <1>2, <2>1, <2>2, <2>6, <2>8, FailingStep, ZenonT(30) DEF n
  <2> QED BY <1>2, <2>7, <2>8
<1>3. CASE Exhausted(n) /\ OwnedUpdate(w, [rows[e] EXCEPT !.status = "abandoned",
                                               !.retryCount = n, !.wait = 0])
  <2>1. CASE Owned(w) /\ Update(e, [rows[e] EXCEPT !.status = "abandoned",
                                                   !.retryCount = n, !.wait = 0])
    <3> HIDE DEF e, n
    <3>1. PICK d \in Int : d = 0
      OBVIOUS
    <3>2. PICK s \in {"failed", "abandoned"} : s = "abandoned"
      OBVIOUS
    <3>3. Update(e, [rows[e] EXCEPT !.status = s, !.retryCount = n, !.wait = d])
      BY <2>1, <3>1, <3>2
    <3>4. s # "failed"
      BY <3>2, SMTT(30)
    <3> QED BY <1>2, <2>1, <3>3, <3>4, ZenonT(30)
  <2> QED BY <1>1, <1>3, <2>1 DEF OwnedUpdate
<1>4. ASSUME NEW d \in Delays(n), ~Exhausted(n),
             OwnedUpdate(w, [rows[e] EXCEPT !.status = "failed",
                                           !.retryCount = n, !.wait = d])
      PROVE  IInv'
  <2>1. d \in Int
    BY <1>4 DEF Delays
  <2>2. n < MaxRetries
    BY <1>4, <1>n, InboxAssumption DEF Exhausted, InboxAssumption
  <2> QED BY <1>1, <1>2, <1>4, <2>1, <2>2, ZenonT(30) DEF OwnedUpdate
<1> QED BY <1>3, <1>4, ZenonT(30) DEF MarkFailed

LEMMA IngestIInv ==
  ASSUME IInv, NEW e \in Events, NEW p \in Pods, Ingest(e, p)
  PROVE  IInv'
<1> DEFINE i == <<"inline", e>>
<1>1. ASSUME NEW pc \in {"claiming", "queued"},
             work' = [work EXCEPT ![i] = [pc |-> pc, token |-> 0, pod |-> p]]
      PROVE  NobodyNew
  <2> DEFINE k == [pc |-> pc, token |-> 0, pod |-> p]
  <2>1. k \in WorkType /\ k.pc \notin Holding
    BY <1>1 DEF WorkType, Positions, Holding
  <2>2. work' = [work EXCEPT ![i] = k] /\ work \in [Workers -> WorkType]
    BY <1>1 DEF IInv, Types
  <2> HIDE DEF k, i
  <2> QED BY <2>1, <2>2, ZenonT(30) DEF NobodyNew, Holding
<1>2. NobodyNew
  BY <1>1 DEF Ingest, Acquire
<1> QED BY <1>2, InsertStep, InboxAssumption DEF Ingest

LEMMA ClaimIInv ==
  ASSUME IInv, NEW w \in Workers, Claim(w) \/ ClaimThrows(w)
  PROVE  IInv'
<1> DEFINE e == Event(w)
<1>e. e \in Events
  BY WorkerFacts
<1>u. UNCHANGED <<nextId, age, cronPod, successes>>
  BY DEF Claim, ClaimThrows
<1>1. CASE Finish(w) /\ UNCHANGED <<rows, claims>>
  BY <1>u, <1>1, FinishFacts, QuietStep DEF IInv, Types
<1>2. CASE Finish(w) /\ Claimable(e) /\ TakeRow(e)
  <2>1. NobodyNew
    BY <1>2, FinishFacts DEF IInv
  <2>2. PICK x : x \notin Workers
    BY NoSetContainsEverything
  <2> QED BY <1>e, <1>u, <1>2, <2>1, <2>2, ClaimStep DEF NobodyNew
<1>3. CASE /\ Claimable(e) /\ TakeRow(e)
           /\ work' = [work EXCEPT ![w].pc = "processing", ![w].token = claims[e] + 1]
  <2> DEFINE m == [work EXCEPT ![w].pc = "processing"]
             c == claims[e] + 1
  <2>1. /\ m \in [Workers -> WorkType]
        /\ m[w].pc = "processing"
        /\ \A v \in Workers : v # w => m[v] = work[v]
    BY DEF IInv, Types, WorkType, Positions
  <2>2. work' = [m EXCEPT ![w].token = c] /\ c \in Nat
    BY <1>e, <1>3 DEF IInv, Types
  <2> HIDE DEF m, c
  <2>3. /\ work' \in [Workers -> WorkType]
        /\ work'[w].pc = "processing"
        /\ \A v \in Workers : v # w => work'[v] = work[v]
    BY <2>1, <2>2 DEF WorkType
  <2> QED BY <1>e, <1>u, <1>3, <2>3, ClaimStep
<1> QED BY <1>1, <1>2, <1>3 DEF Claim, ClaimThrows

LEMMA HandlerEndsIInv ==
  ASSUME IInv, NEW w \in Workers, HandlerEnds(w)
  PROVE  IInv'
<1> DEFINE e == Event(w)
<1>e. e \in Events
  BY WorkerFacts
<1>p. work[w].pc = "processing"
  BY DEF HandlerEnds, At
<1>1. /\ work' \in [Workers -> WorkType]
      /\ work'[w].pc \in {"succeeded", "failing"}
      /\ \A v \in Workers : v # w => work'[v] = work[v]
  BY SMTT(30) DEF HandlerEnds, IInv, Types, WorkType, Positions
<1>2. successes[e] = 0
  BY <1>e, <1>p DEF IInv, Successes
<1>3. /\ UNCHANGED <<rows, nextId, age, cronPod, claims>>
      /\ successes' \in [Events -> Nat]
      /\ \A f \in Events : f # e => successes'[f] = successes[f]
      /\ \/ successes'[e] = 0
         \/ successes'[e] = 1 /\ work'[w].pc = "succeeded"
  <2>0. UNCHANGED <<rows, nextId, age, cronPod, claims>> /\ successes \in [Events -> Nat]
    BY DEF HandlerEnds, IInv, Types
  <2>1. CASE /\ work' = [work EXCEPT ![w].pc = "succeeded"]
             /\ successes' = [successes EXCEPT ![e] = @ + 1]
    <3>1. work'[w].pc = "succeeded"
      BY <2>1 DEF IInv, Types, WorkType
    <3>2. successes'[e] = 1
      BY <1>e, <1>2, <2>1 DEF IInv, Types
    <3> QED BY <1>e, <2>0, <2>1, <3>1, <3>2
  <2>2. CASE UNCHANGED successes
    BY <1>2, <2>0, <2>2
  <2> QED BY <2>1, <2>2 DEF HandlerEnds
<1>4. \A v \in Workers : Event(v) = e /\ v # w => work'[v].pc \notin Holding
  BY <1>p, <1>1 DEF IInv, OneWorker, Holding
<1>5. rows[e].status \notin Open /\ claims[e] > 0
  BY <1>p DEF IInv, Leases, Holding
<1> HIDE DEF e
<1>6. Types'
  BY <1>1, <1>3 DEF IInv, Types
<1>7. Budget'
  BY <1>3 DEF IInv, Budget
<1>8. Leases'
  BY <1>1, <1>3, <1>5 DEF IInv, Leases, e
<1>9. OneWorker'
  BY <1>1, <1>4 DEF IInv, OneWorker, e
<1>10. Successes'
  BY <1>1, <1>3, <1>4, <1>5 DEF IInv, Successes, Holding, e
<1> QED BY <1>6, <1>7, <1>8, <1>9, <1>10 DEF IInv

LEMMA CompletionIInv ==
  ASSUME IInv, NEW w \in Workers,
         \/ MarkCompleted(w) \/ MarkProcessingAbandoned(w)
         \/ AbandonStale(w) \/ LastWriteThrows(w)
  PROVE  IInv'
<1>1. NobodyNew
  BY FinishFacts, SMTT(30) DEF IInv, MarkCompleted, MarkProcessingAbandoned, AbandonStale,
                     LastWriteThrows
<1>2. CASE MarkCompleted(w)
  BY <1>1, <1>2, OwnedSettles, ZenonT(30) DEF MarkCompleted, Terminal
<1>3. CASE MarkProcessingAbandoned(w)
  BY <1>1, <1>3, OwnedSettles, ZenonT(30) DEF MarkProcessingAbandoned, Terminal
<1>4. CASE AbandonStale(w)
  BY <1>1, <1>4, OwnedSettles, ZenonT(30) DEF AbandonStale, Terminal
<1>5. CASE LastWriteThrows(w)
  BY <1>1, <1>5, QuietStep DEF LastWriteThrows, IInv, Types
<1> QED BY <1>2, <1>3, <1>4, <1>5

LEMMA MarkCompletedThrowsIInv ==
  ASSUME IInv, NEW w \in Workers, MarkCompletedThrows(w)
  PROVE  IInv'
<1>1. NobodyNew
  <2>1. /\ work' \in [Workers -> WorkType]
        /\ work'[w].pc = "completionFailed"
        /\ work[w].pc = "succeeded"
        /\ \A v \in Workers : v # w => work'[v] = work[v]
    BY SMTT(30) DEF MarkCompletedThrows, At, IInv, Types, WorkType, Positions
  <2> QED BY <2>1 DEF NobodyNew, Holding
<1>2. CASE UNCHANGED rows
  BY <1>1, <1>2, QuietStep DEF MarkCompletedThrows, IInv, Types
<1>3. CASE OwnedUpdate(w, [rows[Event(w)] EXCEPT !.status = "completed", !.wait = 0])
  BY <1>1, <1>3, OwnedSettles, ZenonT(30) DEF MarkCompletedThrows, Terminal
<1> QED BY <1>2, <1>3 DEF MarkCompletedThrows

LEMMA CronIInv ==
  ASSUME IInv, NEW p \in Pods, HandleRetry(p) \/ Crash(p) \/ StartBatch \/ EndRetry
  PROVE  IInv'
<1>1. UNCHANGED <<rows, age, claims, successes>> /\ nextId' \in Nat
  BY DEF HandleRetry, Crash, StartBatch, EndRetry, IInv, Types
<1>2. cronPod' \in Pods \cup {NoPod}
  BY DEF HandleRetry, Crash, StartBatch, EndRetry, IInv, Types
<1>3. NobodyNew
  <2>1. CASE HandleRetry(p)
    <3> DEFINE k(v) == [pc |-> IF rows[Event(v)].status = "processing"
                               THEN "listedStale" ELSE "listed",
                        token |-> rows[Event(v)].token, pod |-> p]
    <3>1. \A v \in Workers : k(v) \in WorkType /\ k(v).pc \notin Holding
      BY WorkerFacts DEF IInv, Types, RowType, WorkType, Positions, Holding
    <3>2. \A v \in Workers : work'[v] \in {k(v), work[v]}
      BY <2>1 DEF HandleRetry
    <3>3. work' = [v \in Workers |-> work'[v]]
      BY <2>1 DEF HandleRetry
    <3> HIDE DEF k
    <3> QED BY <3>1, <3>2, <3>3 DEF NobodyNew, IInv, Types, Holding
  <2>2. CASE Crash(p)
    <3>1. Idle \in WorkType /\ Idle.pc \notin Holding
      BY DEF Idle, WorkType, Positions, Holding
    <3> QED BY <2>2, <3>1 DEF Crash, NobodyNew, IInv, Types, Holding
  <2>3. CASE StartBatch
    <3>1. \A v \in Workers : \/ work'[v] = work[v]
                             \/ /\ work'[v] \in WorkType
                                /\ work'[v].pc \in {"claiming", "abandoning"}
      BY <2>3 DEF StartBatch, IInv, Types, WorkType, Positions
    <3>2. work' = [v \in Workers |-> work'[v]]
      BY <2>3 DEF StartBatch
    <3> QED BY <3>1, <3>2 DEF NobodyNew, IInv, Types, Holding
  <2>4. CASE EndRetry
    BY <2>4 DEF EndRetry, NobodyNew, IInv, Types
  <2> QED BY <2>1, <2>2, <2>3, <2>4
<1> QED BY <1>1, <1>2, <1>3, QuietStep

LEMMA DeleteTerminalIInv ==
  ASSUME IInv, DeleteTerminal
  PROVE  IInv'
<1>1. UNCHANGED <<nextId, age, work, cronPod, claims, successes>>
  BY DEF DeleteTerminal
<1>2. \A e \in Events :
        \/ rows'[e] = rows[e]
        \/ /\ rows'[e] \in RowType
           /\ rows'[e].status = "none"
           /\ age[e] >= Retention
  <2>1. NoRow \in RowType /\ NoRow.status = "none"
    BY DEF NoRow, RowType, Statuses
  <2>2. \A e \in Events : LET q == [NoRow EXCEPT !.id = rows[e].id]
                          IN  q \in RowType /\ q.status = "none"
    <3>1. \A e \in Events : rows[e].id \in Nat
      BY DEF IInv, Types, RowType
    <3> QED BY <2>1, <3>1, RowWrites
  <2> QED BY <2>2 DEF DeleteTerminal, Expired
<1>3. rows' \in [Events -> RowType]
  <2>1. rows' = [e \in Events |-> rows'[e]]
    BY DEF DeleteTerminal
  <2> QED BY <1>2, <2>1 DEF IInv, Types
<1>4. Types' /\ Budget'
  BY <1>1, <1>2, <1>3, SMTT(30) DEF IInv, Types, Budget, Open
<1>5. Leases'
  BY <1>1, <1>2, WorkerFacts DEF IInv, Leases, Open
<1>6. OneWorker'
  BY <1>1 DEF IInv, OneWorker
<1>7. Successes'
  BY <1>1, <1>2 DEF IInv, Successes, Open
<1> QED BY <1>4, <1>5, <1>6, <1>7 DEF IInv

LEMMA TickIInv ==
  ASSUME IInv, Tick
  PROVE  IInv'
<1>1. UNCHANGED <<nextId, work, cronPod, claims, successes>>
  BY ZenonT(30) DEF Tick
<1>2. \A e \in Events : /\ rows'[e] \in RowType
                        /\ rows'[e].status = rows[e].status
                        /\ rows'[e].retryCount = rows[e].retryCount
  <2> SUFFICES ASSUME NEW e \in Events
               PROVE  /\ rows'[e] \in RowType
                      /\ rows'[e].status = rows[e].status
                      /\ rows'[e].retryCount = rows[e].retryCount
    OBVIOUS
  <2> DEFINE x == IF rows[e].wait > 0 THEN rows[e].wait - 1 ELSE 0
             y == IF rows[e].status = "processing"
                  THEN Lesser(rows[e].stale + 1, ProcessingStuck) ELSE 0
             a == [rows[e] EXCEPT !.wait = x]
  <2>1. rows[e] \in RowType
    BY DEF IInv, Types
  <2>2. x \in Int /\ y \in Int
    BY <2>1, InboxAssumption, SMTT(30) DEF RowType, Lesser, InboxAssumption
  <2>3. rows'[e] = [a EXCEPT !.stale = y]
    BY ZenonT(30) DEF Tick
  <2> HIDE DEF x, y
  <2>4. a \in RowType /\ a.status = rows[e].status /\ a.retryCount = rows[e].retryCount
    BY <2>1, <2>2, RowWrites
  <2> HIDE DEF a
  <2> QED BY <2>2, <2>3, <2>4, RowWrites
<1>3. rows' \in [Events -> RowType]
  <2>1. rows' = [e \in Events |-> rows'[e]]
    BY ZenonT(30) DEF Tick
  <2> QED BY <1>2, <2>1, SMTT(30)
<1>4. /\ age' \in [Events -> Nat]
      /\ \A e \in Events : age[e] >= Retention => age'[e] >= Retention
  <2>1. age \in [Events -> Nat] /\ Retention \in Nat
    BY InboxAssumption, SMTT(30) DEF IInv, Types, InboxAssumption
  <2>2. age' = [e \in Events |-> IF rows[e].status = "none" THEN age[e]
                                 ELSE Lesser(age[e] + 1, Retention)]
    BY ZenonT(30) DEF Tick
  <2> QED BY <2>1, <2>2 DEF Lesser
<1>5. Types'
  BY <1>1, <1>3, <1>4 DEF IInv, Types
<1>6. Budget'
  BY <1>1, <1>2, <1>4 DEF IInv, Budget
<1>7. Leases'
  BY <1>1, <1>2, WorkerFacts DEF IInv, Leases
<1>8. OneWorker'
  BY <1>1 DEF IInv, OneWorker
<1>9. Successes'
  BY <1>1, <1>2 DEF IInv, Successes
<1> QED BY <1>5, <1>6, <1>7, <1>8, <1>9, SMTT(30) DEF IInv

LEMMA NextIInv == IInv /\ [Next]_vars => IInv'
<1> SUFFICES ASSUME IInv, [Next]_vars PROVE IInv'
  OBVIOUS
<1>1. CASE UNCHANGED vars
  <2>1. NobodyNew
    BY <1>1 DEF vars, NobodyNew, IInv, Types
  <2> QED BY <1>1, <2>1, QuietStep DEF vars, IInv, Types
<1>2. CASE \E e \in Events, p \in Pods : Ingest(e, p)
  BY <1>2, IngestIInv
<1>3. ASSUME NEW e \in Events, IngestDuplicate(e) PROVE IInv'
  <2>1. NobodyNew
    BY <1>3 DEF IngestDuplicate, NobodyNew, IInv, Types
  <2> QED BY <1>3, <2>1, QuietStep DEF IngestDuplicate, IInv, Types
<1>4. ASSUME NEW e \in Events, IngestUnacknowledged(e) PROVE IInv'
  <2>1. NobodyNew
    BY <1>4 DEF IngestUnacknowledged, NobodyNew, IInv, Types
  <2> QED BY <1>4, <2>1, InsertStep, InboxAssumption DEF IngestUnacknowledged
<1>5. ASSUME NEW w \in Workers,
             WorkerStep(w) \/ ClaimThrows(w) \/ MarkCompletedThrows(w) \/ LastWriteThrows(w)
      PROVE  IInv'
  BY <1>5, ClaimIInv, HandlerEndsIInv, MarkFailedIInv, CompletionIInv,
     MarkCompletedThrowsIInv DEF WorkerStep
<1>6. CASE \E p \in Pods : HandleRetry(p) \/ Crash(p)
  BY <1>6, CronIInv
<1>7. CASE StartBatch \/ EndRetry
  <2>1. CASE Pods = {}
    <3>1. NobodyNew
      <4>1. CASE EndRetry
        BY <4>1 DEF EndRetry, NobodyNew, IInv, Types
      <4>2. CASE StartBatch
        <5>1. \A v \in Workers : \/ work'[v] = work[v]
                                 \/ /\ work'[v] \in WorkType
                                    /\ work'[v].pc \in {"claiming", "abandoning"}
          BY <4>2 DEF StartBatch, IInv, Types, WorkType, Positions
        <5>2. work' = [v \in Workers |-> work'[v]]
          BY <4>2 DEF StartBatch
        <5> QED BY <5>1, <5>2 DEF NobodyNew, IInv, Types, Holding
      <4> QED BY <1>7, <4>1, <4>2
    <3> QED BY <1>7, <3>1, QuietStep DEF StartBatch, EndRetry, IInv, Types
  <2> QED BY <1>7, <2>1, CronIInv
<1>8. CASE DeleteTerminal \/ Tick
  BY <1>8, DeleteTerminalIInv, TickIInv
<1> QED BY <1>1, <1>2, <1>3, <1>4, <1>5, <1>6, <1>7, <1>8 DEF Next
-----------------------------------------------------------------------------
(* Theorems.                                                               *)

LEMMA AlwaysIInv == Spec => []IInv
BY InitIInv, NextIInv, PTL DEF Spec

\* No event is ever processed by two workers at once, whatever the number of
\* pods, crashes and failed database calls (claim and its lease token).
THEOREM OneWorkerTheorem == Spec => []OneWorker
<1>1. IInv => OneWorker
  BY DEF IInv
<1> QED BY <1>1, AlwaysIInv, PTL

\* The handler of an event succeeds at most once, provided the platform stops
\* redelivering before the retention of the inbox ends.
THEOREM SucceedsOnceTheorem == Spec => []SucceedsOnce
<1>1. IInv => SucceedsOnce
  BY DEF IInv, Types, Successes, SucceedsOnce
<1> QED BY <1>1, AlwaysIInv, PTL

\* An event is claimed at most WEBHOOK_INBOUND_MAX_RETRIES times.
THEOREM AttemptsTheorem == Spec => []AttemptsBounded
<1>1. IInv => AttemptsBounded
  BY DEF IInv, Budget, AttemptsBounded
<1> QED BY <1>1, AlwaysIInv, PTL

\* What a step may do to the status of the row of e.
StatusStep(e) ==
  /\ rows[e].status \in Terminal => rows'[e].status \in {rows[e].status, "none"}
  /\ rows'[e].status = "none" => rows[e].status \in Terminal \cup {"none"}

\* Only the row of one event that is not terminal is written, and it stays stored.
LEMMA OneRowStep ==
  ASSUME Types, NEW e \in Events, NEW r \in RowType, rows' = [rows EXCEPT ![e] = r],
         rows[e].status \notin Terminal, r.status # "none"
  PROVE  \A f \in Events : StatusStep(f)
BY DEF Types, StatusStep, Terminal

LEMMA QuietStatus ==
  ASSUME UNCHANGED rows
  PROVE  \A f \in Events : StatusStep(f)
BY DEF StatusStep, Terminal

LEMMA UpdateStep ==
  ASSUME Types, NEW e \in Events, NEW r \in RowType, Update(e, r),
         rows[e].status \notin Terminal, r.status # "none"
  PROVE  \A f \in Events : StatusStep(f)
<1> DEFINE q == [r EXCEPT !.stale = 0]
<1>1. q \in RowType /\ q.status = r.status
  BY RowWrites
<1>2. rows' = [rows EXCEPT ![e] = q]
  BY DEF Update
<1> HIDE DEF q
<1> QED BY <1>1, <1>2, OneRowStep, ZenonT(30)

LEMMA WorkerStatus ==
  ASSUME Types, NEW w \in Workers,
         WorkerStep(w) \/ ClaimThrows(w) \/ MarkCompletedThrows(w) \/ LastWriteThrows(w)
  PROVE  \A f \in Events : StatusStep(f)
<1> DEFINE e == Event(w)
<1>e. e \in Events /\ rows[e] \in RowType
  BY WorkerFacts DEF Types
<1>1. CASE UNCHANGED rows
  BY <1>1, QuietStatus
<1>2. CASE Claimable(e) /\ TakeRow(e)
  <2> DEFINE a == [rows[e] EXCEPT !.status = "processing"]
             b == [a EXCEPT !.token = claims[e] + 1]
  <2>1. claims[e] + 1 \in Nat
    BY <1>e DEF Types
  <2>2. a \in RowType /\ a.status = "processing"
    BY <1>e, RowWrites, ZenonT(30) DEF Statuses
  <2>3. Update(e, b) /\ rows[e].status \notin Terminal
    BY <1>2 DEF TakeRow, Claimable, Terminal
  <2> HIDE DEF a
  <2>4. b \in RowType /\ b.status = "processing"
    BY <2>1, <2>2, RowWrites
  <2> HIDE DEF b, e
  <2> QED BY <1>e, <2>3, <2>4, UpdateStep
<1>3. ASSUME NEW s \in Statuses \ {"none"}, NEW n \in Nat, NEW d \in Int, Owned(w),
             \/ Update(e, [rows[e] EXCEPT !.status = s, !.retryCount = n, !.wait = d])
             \/ Update(e, [rows[e] EXCEPT !.status = s, !.wait = d])
      PROVE  \A f \in Events : StatusStep(f)
  <2> DEFINE a == [rows[e] EXCEPT !.status = s]
             b == [a EXCEPT !.retryCount = n]
             c == [b EXCEPT !.wait = d]
             x == [a EXCEPT !.wait = d]
  <2>1. a \in RowType /\ a.status = s
    BY <1>e, <1>3, RowWrites
  <2>2. (Update(e, c) \/ Update(e, x)) /\ rows[e].status \notin Terminal
    BY <1>3 DEF Owned, Terminal
  <2> HIDE DEF a
  <2>3. b \in RowType /\ b.status = s /\ x \in RowType /\ x.status = s
    BY <1>3, <2>1, RowWrites
  <2> HIDE DEF b
  <2>4. c \in RowType /\ c.status = s
    BY <1>3, <2>3, RowWrites
  <2> HIDE DEF c, x, e
  <2> QED BY <1>e, <1>3, <2>2, <2>3, <2>4, UpdateStep
<1>4. ASSUME NEW s \in Terminal,
             OwnedUpdate(w, [rows[e] EXCEPT !.status = s, !.wait = 0])
      PROVE  \A f \in Events : StatusStep(f)
  <2>1. PICK d \in Int : d = 0
    OBVIOUS
  <2>2. PICK n \in Nat : n = 0
    OBVIOUS
  <2>3. s \in Statuses \ {"none"}
    BY <1>4 DEF Statuses, Terminal
  <2>4. CASE Owned(w) /\ Update(e, [rows[e] EXCEPT !.status = s, !.wait = d])
    BY <1>3, <2>2, <2>3, <2>4, ZenonT(30)
  <2> QED BY <1>1, <1>4, <2>1, <2>4 DEF OwnedUpdate
<1>5. CASE MarkFailed(w)
  <2> DEFINE n == rows[e].retryCount + 1
  <2>n. n \in Nat
    BY <1>e, SMTT(30) DEF RowType
  <2>1. ASSUME NEW s \in {"failed", "abandoned"}, NEW d \in Int,
               OwnedUpdate(w, [rows[e] EXCEPT !.status = s, !.retryCount = n, !.wait = d])
        PROVE  \A f \in Events : StatusStep(f)
    <3>1. s \in Statuses \ {"none"}
      BY <2>1 DEF Statuses
    <3> HIDE DEF n
    <3> QED BY <1>1, <1>3, <2>n, <2>1, <3>1, ZenonT(30) DEF OwnedUpdate
  <2>2. PICK z \in Int : z = 0
    BY SMTT(30)
  <2>3. \/ OwnedUpdate(w, [rows[e] EXCEPT !.status = "abandoned", !.retryCount = n, !.wait = z])
        \/ \E d \in Int : OwnedUpdate(w, [rows[e] EXCEPT !.status = "failed",
                                                         !.retryCount = n, !.wait = d])
    <3>1. Delays(n) \subseteq Int
      BY SMTT(30) DEF Delays
    <3>2. CASE OwnedUpdate(w, [rows[e] EXCEPT !.status = "abandoned",
                                             !.retryCount = n, !.wait = 0])
      BY <2>2, <3>2, ZenonT(30)
    <3>3. CASE \E d \in Delays(n) : OwnedUpdate(w, [rows[e] EXCEPT !.status = "failed",
                                                           !.retryCount = n, !.wait = d])
      BY <3>1, <3>3, ZenonT(30)
    <3> QED BY <1>5, <3>2, <3>3, ZenonT(30) DEF MarkFailed
  <2> HIDE DEF n
  <2>4. PICK s \in {"failed", "abandoned"} :
          \E d \in Int : OwnedUpdate(w, [rows[e] EXCEPT !.status = s,
                                                        !.retryCount = n, !.wait = d])
    BY <2>2, <2>3, ZenonT(30)
  <2> QED BY <2>1, <2>4, ZenonT(30)
<1>6. CASE MarkCompleted(w) \/ MarkCompletedThrows(w)
  BY <1>1, <1>4, <1>6 DEF MarkCompleted, MarkCompletedThrows, Terminal
<1>7. CASE MarkProcessingAbandoned(w) \/ AbandonStale(w)
  BY <1>4, <1>7 DEF MarkProcessingAbandoned, AbandonStale, Terminal
<1>8. CASE Claim(w) \/ ClaimThrows(w)
  BY <1>1, <1>2, <1>8 DEF Claim, ClaimThrows
<1>9. CASE HandlerEnds(w) \/ LastWriteThrows(w)
  BY <1>1, <1>9 DEF HandlerEnds, LastWriteThrows
<1> QED BY <1>5, <1>6, <1>7, <1>8, <1>9 DEF WorkerStep

LEMMA NextStatus ==
  ASSUME Types, [Next]_vars
  PROVE  \A f \in Events : StatusStep(f)
<1>1. CASE UNCHANGED rows
  BY <1>1, QuietStatus
<1>2. ASSUME NEW e \in Events, Insert(e) PROVE \A f \in Events : StatusStep(f)
  BY <1>2 DEF Insert, Types, NoRow, StatusStep, Terminal, RowType
<1>3. CASE DeleteTerminal
  BY <1>3 DEF DeleteTerminal, Expired, StatusStep, Terminal, NoRow
<1>4. CASE Tick
  <2>1. \A f \in Events : rows'[f].status = rows[f].status
    BY <1>4, ZenonT(30) DEF Tick, Types, RowType
  <2> QED BY <2>1, SMTT(30) DEF StatusStep, Terminal
<1>5. ASSUME NEW w \in Workers,
             WorkerStep(w) \/ ClaimThrows(w) \/ MarkCompletedThrows(w) \/ LastWriteThrows(w)
      PROVE  \A f \in Events : StatusStep(f)
  BY <1>5, WorkerStatus
<1>6. CASE UNCHANGED vars
  BY <1>1, <1>6 DEF vars
<1>7. CASE \E e \in Events, p \in Pods : Ingest(e, p)
  BY <1>2, <1>7 DEF Ingest
<1>8. CASE \E e \in Events : IngestDuplicate(e) \/ IngestUnacknowledged(e)
  BY <1>1, <1>2, <1>8 DEF IngestDuplicate, IngestUnacknowledged
<1>9. CASE (\E p \in Pods : HandleRetry(p) \/ Crash(p)) \/ StartBatch \/ EndRetry
  BY <1>1, <1>9 DEF HandleRetry, Crash, StartBatch, EndRetry
<1> QED BY <1>3, <1>4, <1>5, <1>6, <1>7, <1>8, <1>9 DEF Next

\* A completed or abandoned row is never written again, only deleted, and no
\* other row is deleted: workers that lost their lease have no effect.
THEOREM TerminalTheorem == Spec => TerminalIsFinal
<1>1. Types /\ [Next]_vars => [\A e \in Events :
        /\ rows[e].status \in Terminal => rows'[e].status \in {rows[e].status, "none"}
        /\ rows'[e].status = "none" => rows[e].status \in Terminal \cup {"none"}]_vars
  BY NextStatus DEF StatusStep
<1>2. IInv => Types
  BY DEF IInv
<1> QED BY <1>1, <1>2, AlwaysIInv, PTL DEF Spec, TerminalIsFinal
=============================================================================
