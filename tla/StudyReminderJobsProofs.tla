---------------------- MODULE StudyReminderJobsProofs ----------------------
(***************************************************************************)
(* Proofs about the study reminder outbox, for any number of sessions,     *)
(* dispatch workers, syncs, claims, faults and outside changes.            *)
(***************************************************************************)
EXTENDS StudyReminderJobs, TLAPS

\* The types the proofs need; TypeOK also bounds the numbers.
Job == [status : Statuses, at : Nat, user : Users \cup {NoUser}, gen : Nat,
        retry : Nat, wait : Nat, token : Nat, lease : Nat,
        outcome : Outcomes \cup {"none"}]

Slot == [pc : {"idle", "listed", "claimed", "written", "fencing", "sending",
               "sent", "failing", "cancelling"},
         job : Sessions, asOf : Nat, claimed : Job,
         outcome : Outcomes \cup {"none"}]

Reading == [pc : {"idle", "purged", "resolving", "fetching", "upserting",
                  "cancelling"},
            user : Users \cup {NoUser}, gen : Nat, end : Nat, planned : [Sessions -> Nat]]

Mapping == [state : {"active", "temporarily-unknown", "confirmed-revoked",
                     "locally-unlinked", "deleted"},
            gen : Nat, user : Users, tomb : Nat]

Types ==
  /\ calendar \in [Sessions -> Nat]
  /\ link \in Mapping
  /\ jobs \in [Sessions -> Job]
  /\ worker \in [Workers -> Slot]
  /\ sync \in [Syncs -> Reading]
  /\ now \in Nat
  /\ claims \in Nat
  /\ told \in [Sessions -> Nat]

\* A row has a token just while it is in processing, and no two rows share
\* one.
RowTokens ==
  /\ \A s \in Sessions :
       /\ jobs[s].status = "processing" <=> jobs[s].token # 0
       /\ jobs[s].token <= claims
       /\ jobs[s].status = "none" => jobs[s].gen = 0
  /\ \A s, t \in Sessions :
       jobs[s].token # 0 /\ jobs[s].token = jobs[t].token => s = t

\* A worker past its claim has a token, and no two workers share one; the
\* row that still has it is the one the worker claimed.
WorkerTokens ==
  /\ \A w \in Workers :
       /\ Token(w) <= claims
       /\ worker[w].pc \in {"idle", "listed"} <=> Token(w) = 0
  /\ \A w, v \in Workers : Token(w) # 0 /\ Token(w) = Token(v) => w = v
  /\ \A w \in Workers, s \in Sessions :
       Token(w) # 0 /\ jobs[s].token = Token(w) =>
         /\ worker[w].job = s
         /\ jobs[s].gen = worker[w].claimed.gen
         /\ jobs[s].user = worker[w].claimed.user

OneSender == \A w, v \in Workers : At(w, "sending") /\ At(v, "sending") => w = v

\* A row whose reminder may have arrived is not dispatched again ...
Closed(s) ==
  jobs[s].status \in {"pending", "failed"} => jobs[s].outcome \in {"sent", "ambiguous"}

ToldIsClosed == \A s \in Sessions : told[s] # 0 => told[s] = 1 /\ Closed(s)

\* ... and the worker that holds it knows.
HolderKnows ==
  \A w \in Workers :
    Token(w) # 0 /\ Row(w).token = Token(w) /\ told[worker[w].job] # 0 =>
      \/ At(w, "sent")
      \/ At(w, "failing") /\ worker[w].outcome \in {"sent", "ambiguous"}

\* The inductive invariant.
IInv ==
  /\ Types
  /\ RowTokens
  /\ WorkerTokens
  /\ OneSender
  /\ SendIsOwned
  /\ ToldIsClosed
  /\ HolderKnows

LEMMA IdleWorkerType ==
  /\ IdleWorker \in Slot
  /\ IdleWorker.pc = "idle" /\ IdleWorker.claimed = NoJob /\ NoJob.token = 0
  /\ NoJob \in Job /\ NoJob.status = "none" /\ NoJob.gen = 0
  <1>1. (CHOOSE s \in Sessions : TRUE) \in Sessions
    BY ReminderAssumption
  <1>2. NoJob \in Job /\ NoJob.token = 0 /\ NoJob.status = "none" /\ NoJob.gen = 0
    BY DEF NoJob, Job, Statuses, Outcomes
  <1>. HIDE DEF NoJob, Job
  <1>. QED BY <1>1, <1>2 DEF IdleWorker, Slot

LEMMA IdleSyncType == IdleSync \in Reading
  <1>1. [s \in Sessions |-> 0] \in [Sessions -> Nat]
    OBVIOUS
  <1>. QED BY <1>1 DEF IdleSync, Reading

LEMMA InitIInv == Init => IInv
  <1>. SUFFICES ASSUME Init PROVE IInv
    OBVIOUS
  <1>1. Types
    <2>1. calendar \in [Sessions -> Nat]
      <3>1. Times \cup {0} \subseteq Nat
        BY ReminderAssumption
      <3>2. calendar \in [Sessions -> Times \cup {0}]
        BY DEF Init
      <3>. QED BY <3>1, <3>2
    <2>2. worker \in [Workers -> Slot] /\ jobs \in [Sessions -> Job]
      BY IdleWorkerType DEF Init
    <2>3. sync \in [Syncs -> Reading]
      BY IdleSyncType DEF Init
    <2>4. link \in Mapping
      BY ReminderAssumption DEF Init, Mapping
    <2>. QED BY <2>1, <2>2, <2>3, <2>4 DEF Init, Types
  <1>2. RowTokens
    BY IdleWorkerType DEF Init, RowTokens, NoJob
  <1>3. WorkerTokens /\ OneSender /\ SendIsOwned /\ HolderKnows
    BY IdleWorkerType DEF Init, WorkerTokens, OneSender, SendIsOwned, HolderKnows, Token, At
  <1>4. ToldIsClosed
    BY DEF Init, ToldIsClosed
  <1>. QED BY <1>1, <1>2, <1>3, <1>4 DEF IInv

\* The action part of GenerationGrows and SentStaysSent.
RowAdvances(s) ==
  /\ jobs'[s].status # "none" => jobs'[s].gen >= jobs[s].gen
  /\ jobs[s].status = "sent" =>
       \/ jobs'[s].status \in {"sent", "none"}
       \/ jobs'[s].status = "pending" /\ jobs'[s].at # jobs[s].at

Advances == \A s \in Sessions : RowAdvances(s)

LEMMA RowsStay ==
  ASSUME jobs \in [Sessions -> Job], jobs' = jobs
  PROVE  Advances
  <1>1. \A s \in Sessions : jobs[s].gen \in Nat
    BY DEF Job
  <1>2. \A s \in Sessions : jobs[s].gen >= jobs[s].gen
    BY <1>1
  <1>. QED BY <1>2, ZenonT(30) DEF Advances, RowAdvances

\* What a step may do to a row without asking its worker: leave its owner
\* and its outcome alone, or take it out of processing.
RowKept(s) ==
  /\ jobs'[s].token = jobs[s].token
  /\ jobs'[s].status = jobs[s].status
  /\ jobs'[s].user = jobs[s].user
  /\ jobs'[s].gen = jobs[s].gen
  /\ jobs'[s].outcome = jobs[s].outcome

RowClosed(s) ==
  /\ RowAdvances(s)
  /\ jobs'[s].token = 0
  /\ jobs'[s].status # "processing"
  /\ jobs'[s].status = "none" => jobs'[s].gen = 0
  /\ told'[s] # 0 => Closed(s)'

\* What a worker may do without asking anyone: give up its job, or go on
\* with it short of the provider call.
Parked(w) ==
  /\ worker'[w].pc \in {"idle", "listed"}
  /\ worker'[w].claimed.token = 0

Moved(w) ==
  /\ worker[w].pc \notin {"idle", "listed"}
  /\ worker'[w].pc \notin {"idle", "listed", "sending"}
  /\ worker'[w].job = worker[w].job
  /\ worker'[w].claimed = worker[w].claimed
  /\ \/ worker[w].pc \in {"claimed", "written", "fencing", "cancelling"}
     \/ worker'[w].pc = "failing" /\ worker'[w].outcome = "ambiguous"

\* The steps of syncs, of the mapping's writers and of the bulk updates,
\* and the last write of a worker.
LEMMA RowsStep ==
  ASSUME IInv, Types',
         claims' = claims,
         \A s \in Sessions : told'[s] = 0 \/ told'[s] = told[s],
         \A s \in Sessions : RowKept(s) \/ RowClosed(s),
         \A s \in Sessions : RowLocked(s) => RowKept(s),
         \A w \in Workers : worker'[w] = worker[w] \/ Parked(w) \/ Moved(w),
         link' = link \/ ~SendInProgress
  PROVE  IInv' /\ Advances
  <1>1. RowTokens'
    <2>1. ASSUME NEW s \in Sessions
          PROVE  /\ jobs'[s].status = "processing" <=> jobs'[s].token # 0
                 /\ jobs'[s].token <= claims'
                 /\ jobs'[s].status = "none" => jobs'[s].gen = 0
      <3>1. CASE RowKept(s)
        BY <3>1 DEF IInv, RowTokens, RowKept
      <3>2. CASE RowClosed(s)
        BY <3>2 DEF IInv, Types, RowClosed
      <3>. QED BY <3>1, <3>2
    <2>2. \A s, t \in Sessions :
            jobs'[s].token # 0 /\ jobs'[s].token = jobs'[t].token => s = t
      BY DEF IInv, RowTokens, RowKept, RowClosed
    <2>. QED BY <2>1, <2>2 DEF RowTokens
  <1>2. WorkerTokens'
    <2>1. \A w \in Workers : \/ worker'[w].claimed.token = worker[w].claimed.token
                              \/ worker'[w].claimed.token = 0
      BY DEF Parked, Moved
    <2>2. ASSUME NEW w \in Workers
          PROVE  /\ Token(w)' <= claims'
                 /\ worker'[w].pc \in {"idle", "listed"} <=> Token(w)' = 0
      BY DEF IInv, Types, WorkerTokens, Token, Parked, Moved
    <2>3. \A w, v \in Workers : Token(w)' # 0 /\ Token(w)' = Token(v)' => w = v
      BY <2>1 DEF IInv, WorkerTokens, Token
    <2>4. ASSUME NEW w \in Workers, NEW s \in Sessions,
                 Token(w)' # 0, jobs'[s].token = Token(w)'
          PROVE  /\ worker'[w].job = s
                 /\ jobs'[s].gen = worker'[w].claimed.gen
                 /\ jobs'[s].user = worker'[w].claimed.user
      <3>1. worker'[w].claimed = worker[w].claimed /\ worker'[w].job = worker[w].job
        BY <2>4 DEF Parked, Moved, Token
      <3>2. RowKept(s)
        BY <2>4 DEF RowClosed
      <3>. QED BY <2>4, <3>1, <3>2 DEF IInv, WorkerTokens, Token, RowKept
    <2>. QED BY <2>2, <2>3, <2>4 DEF WorkerTokens
  <1>3. OneSender'
    BY ZenonT(30) DEF IInv, OneSender, At, Parked, Moved
  <1>4. SendIsOwned'
    <2>. SUFFICES ASSUME NEW w \in Workers, At(w, "sending")'
         PROVE  /\ link'.state = "active"
                /\ link'.gen = worker'[w].claimed.gen
                /\ link'.user = worker'[w].claimed.user
                /\ Row(w)'.status = "processing"
                /\ Row(w)'.token = Token(w)'
                /\ Row(w)'.gen = link'.gen /\ Row(w)'.user = link'.user
      BY DEF SendIsOwned
    <2>1. worker'[w] = worker[w] /\ At(w, "sending")
      BY DEF At, Parked, Moved
    <2>2. link' = link
      BY <2>1 DEF SendInProgress
    <2>3. worker[w].job \in Sessions /\ RowKept(worker[w].job)
      BY <2>1 DEF RowLocked, IInv, Types, Slot
    <2>4. /\ Row(w)'.status = Row(w).status /\ Row(w)'.token = Row(w).token
          /\ Row(w)'.gen = Row(w).gen /\ Row(w)'.user = Row(w).user
          /\ Token(w)' = Token(w)
      BY <2>1, <2>3, ZenonT(30) DEF RowKept, Row, Token
    <2>. QED BY <2>1, <2>2, <2>4, ZenonT(30) DEF IInv, SendIsOwned
  <1>5. ToldIsClosed'
    BY DEF IInv, ToldIsClosed, RowKept, RowClosed, Closed
  <1>6. HolderKnows'
    <2>. SUFFICES ASSUME NEW w \in Workers, Token(w)' # 0,
                         Row(w)'.token = Token(w)', told'[worker'[w].job] # 0
         PROVE  \/ At(w, "sent")'
                \/ At(w, "failing")' /\ worker'[w].outcome \in {"sent", "ambiguous"}
      BY DEF HolderKnows
    <2>1. worker[w].job \in Sessions /\ ~Parked(w)
      BY DEF IInv, Types, Slot, Parked, Token
    <2>2. worker'[w].job = worker[w].job /\ worker'[w].claimed = worker[w].claimed
      BY <2>1 DEF Moved
    <2>3. RowKept(worker[w].job) /\ told[worker[w].job] # 0
      BY <2>1, <2>2, ZenonT(30) DEF RowClosed, Row, Token
    <2>4. \/ At(w, "sent")
          \/ At(w, "failing") /\ worker[w].outcome \in {"sent", "ambiguous"}
      BY <2>2, <2>3 DEF IInv, HolderKnows, RowKept, Row, Token
    <2>. QED BY <2>1, <2>4 DEF At, Moved
  <1>7. Advances
    BY DEF IInv, Types, Job, Advances, RowAdvances, RowKept, RowClosed
  <1>. QED BY <1>1, <1>2, <1>3, <1>4, <1>5, <1>6, <1>7 DEF IInv

-----------------------------------------------------------------------------
(* The rows the operations write. *)

LEMMA CancelledRow ==
  ASSUME NEW row \in Job
  PROVE  /\ Cancelled(row) \in Job /\ Cancelled(row).token = 0
         /\ Cancelled(row).status = "cancelled" /\ Cancelled(row).gen = row.gen
  BY ZenonT(30) DEF Cancelled, Job, Statuses, Outcomes

LEMMA SuspendedRow ==
  ASSUME NEW row \in Job
  PROVE  /\ Suspended(row) \in Job /\ Suspended(row).token = 0
         /\ Suspended(row).status = "cancelled" /\ Suspended(row).gen = row.gen
  BY ZenonT(30) DEF Suspended, Job, Statuses, Outcomes

LEMMA ResetRowRow ==
  ASSUME NEW row \in Job
  PROVE  /\ ResetRow(row) \in Job /\ ResetRow(row).token = 0
         /\ ResetRow(row).status = "failed" /\ ResetRow(row).gen = row.gen
         /\ ResetRow(row).outcome = "ambiguous"
  BY ZenonT(30) DEF ResetRow, Released, Job, Statuses, Outcomes

LEMMA SentRow ==
  ASSUME NEW row \in Job, NEW r,
         r = [Released(row) EXCEPT !.status = "sent", !.outcome = "sent"]
  PROVE  r \in Job /\ r.token = 0 /\ r.status = "sent" /\ r.gen = row.gen
  BY ZenonT(30) DEF Released, Job, Statuses, Outcomes

LEMMA FailedRowRow ==
  ASSUME Types, NEW w \in Workers, NEW terminal \in BOOLEAN, NEW r,
         r = FailedRow(w, terminal)
  PROVE  /\ r \in Job /\ r.token = 0 /\ r.status = "failed"
         /\ r.gen = Row(w).gen /\ r.outcome = worker[w].outcome
  <1>1. Row(w) \in Job /\ worker[w].outcome \in Outcomes \cup {"none"}
    BY DEF Types, Row, Slot
  <1>2. RetryCount(w, terminal) \in Nat
    BY ReminderAssumption DEF Types, Slot, Job, RetryCount, Larger
  <1>3. Backoff \in Nat
    BY ReminderAssumption
  <1>. QED BY <1>1, <1>2, <1>3, ZenonT(30) DEF FailedRow, Released, Job, Statuses

LEMMA ClaimedRow ==
  ASSUME NEW row \in Job, claims \in Nat
  PROVE  /\ Claimed(row) \in Job /\ Claimed(row).token = claims + 1
         /\ Claimed(row).status = "processing" /\ Claimed(row).gen = row.gen
         /\ Claimed(row).user = row.user
  <1>1. Lease \in Nat /\ claims + 1 \in Nat
    BY ReminderAssumption
  <1>. QED BY <1>1, ZenonT(30) DEF Claimed, Job, Statuses, Outcomes

LEMMA FreshRow ==
  ASSUME NEW at \in Nat, NEW owner, owner.gen \in Nat,
         owner.user \in Users \cup {NoUser}
  PROVE  /\ Fresh(at, owner) \in Job /\ Fresh(at, owner).token = 0
         /\ Fresh(at, owner).status = "pending" /\ Fresh(at, owner).gen = owner.gen
         /\ Fresh(at, owner).at = at
  BY ZenonT(30) DEF Fresh, NoJob, Job, Statuses, Outcomes

LEMMA InPlaceIsNewer ==
  ASSUME NEW row \in Job, NEW owner, owner.gen \in Nat, UpdatesInPlace(row, owner)
  PROVE  owner.gen >= row.gen /\ row.status \in {"pending", "failed"}
  BY DEF UpdatesInPlace, OlderGeneration, Job

LEMMA InPlaceRow ==
  ASSUME NEW row \in Job, NEW owner, owner.gen \in Nat,
         owner.user \in Users \cup {NoUser}, owner.gen >= row.gen,
         row.status \in {"pending", "failed"}
  PROVE  /\ InPlace(row, owner) \in Job /\ InPlace(row, owner).token = row.token
         /\ InPlace(row, owner).status \in {"pending", "failed"}
         /\ InPlace(row, owner).gen >= row.gen
         /\ InPlace(row, owner).outcome = row.outcome
  <1>1. CASE Terminal(row)
    <2>. DEFINE status == IF row.outcome = "not_sent" THEN "failed" ELSE row.status
                r == [row EXCEPT !.user = owner.user, !.status = status]
    <2>1. status \in {"pending", "failed"}
      OBVIOUS
    <2>2. InPlace(row, owner) = r
      BY <1>1, ZenonT(30) DEF InPlace
    <2>. HIDE DEF status
    <2>3. /\ r \in Job /\ r.token = row.token /\ r.status = status
          /\ r.gen = row.gen /\ r.outcome = row.outcome
      BY <2>1, ZenonT(30) DEF Job, Statuses
    <2>4. r.gen >= row.gen
      BY <2>3 DEF Job
    <2>. HIDE DEF r
    <2>. QED BY <2>1, <2>2, <2>3, <2>4
  <1>2. CASE ~Terminal(row)
    <2>1. CASE row.status = "failed"
      BY <1>2, <2>1, ZenonT(30) DEF InPlace, Job, Statuses
    <2>2. CASE row.status # "failed"
      BY <1>2, <2>2, ZenonT(30) DEF InPlace, Job, Statuses
    <2>. QED BY <2>1, <2>2
  <1>. QED BY <1>1, <1>2

-----------------------------------------------------------------------------
(* Dispatch *)

LEMMA DispatchDueIInv ==
  ASSUME IInv, NEW w \in Workers, DispatchDue(w)
  PROVE  IInv' /\ Advances
  <1>1. \A s \in Sessions : jobs'[s] = IF Stuck(s) THEN ResetRow(jobs[s]) ELSE jobs[s]
    BY ZenonT(30) DEF DispatchDue, AfterReset
  <1>2. jobs' \in [Sessions -> Job]
    BY ResetRowRow, ZenonT(30) DEF DispatchDue, AfterReset, IInv, Types
  <1>3. /\ \A v \in Workers : worker'[v] = worker[v] \/ Parked(v)
        /\ worker' \in [Workers -> Slot]
    <2>1. CASE UNCHANGED worker
      BY <2>1 DEF IInv, Types
    <2>2. ASSUME NEW s \in Sessions,
                 worker' = [worker EXCEPT ![w].pc = "listed", ![w].job = s,
                                          ![w].asOf = now]
          PROVE  <1>3!1 /\ <1>3!2
      <3>. DEFINE r == [worker[w] EXCEPT !.pc = "listed", !.job = s, !.asOf = now]
      <3>1. worker' = [worker EXCEPT ![w] = r]
        BY <2>2, ZenonT(30) DEF IInv, Types
      <3>2. worker[w].claimed.token = 0 /\ worker[w] \in Slot /\ now \in Nat
        BY ZenonT(30) DEF DispatchDue, At, IInv, WorkerTokens, Token, Types
      <3>3. r \in Slot /\ r.pc = "listed" /\ r.claimed = worker[w].claimed
        BY <3>2, ZenonT(30) DEF Slot
      <3>. HIDE DEF r
      <3>. QED BY <3>1, <3>2, <3>3 DEF Parked, IInv, Types
    <2>. QED BY <2>1, <2>2, ZenonT(30) DEF DispatchDue
  <1>5. Types'
    BY <1>2, <1>3, ZenonT(30) DEF DispatchDue, IInv, Types, outside
  <1>6. ASSUME NEW s \in Sessions PROVE RowKept(s) \/ (RowClosed(s) /\ ~RowLocked(s))
    <2>1. CASE Stuck(s)
      <3>1. jobs'[s] = ResetRow(jobs[s]) /\ jobs[s] \in Job
        BY <1>1, <2>1, SMTT(30) DEF IInv, Types
      <3>2. ~RowLocked(s)
        BY <2>1, ZenonT(30) DEF DispatchDue
      <3>3. jobs[s].status = "processing"
        BY <2>1 DEF Stuck
      <3>. QED BY <3>1, <3>2, <3>3, ResetRowRow DEF RowClosed, RowAdvances, Closed, Job
    <2>2. CASE ~Stuck(s)
      BY <1>1, <2>2 DEF RowKept
    <2>. QED BY <2>1, <2>2
  <1>. QED BY <1>3, <1>5, <1>6, RowsStep, ZenonT(30) DEF DispatchDue, outside

\* A step of one worker that writes nothing.
LEMMA MoveStep ==
  ASSUME IInv, NEW w \in Workers, NEW r \in Slot,
         worker' = [worker EXCEPT ![w] = r], Parked(w) \/ Moved(w),
         UNCHANGED <<calendar, link, jobs, sync, now, claims, told>>
  PROVE  IInv' /\ Advances
  <1>1. Types'
    BY DEF IInv, Types
  <1>2. \A s \in Sessions : RowKept(s)
    BY DEF RowKept
  <1>3. \A v \in Workers : worker'[v] = worker[v] \/ Parked(v) \/ Moved(v)
    BY DEF IInv, Types
  <1>. QED BY <1>1, <1>2, <1>3, RowsStep

LEMMA GotoStep ==
  ASSUME IInv, NEW w \in Workers, NEW next \in {"written", "fencing", "cancelling"},
         worker[w].pc \in {"claimed", "written", "fencing", "cancelling"},
         Goto(w, next) \/ Fails(w),
         UNCHANGED <<calendar, link, jobs, sync, now, claims, told>>
  PROVE  IInv' /\ Advances
  <1>1. CASE Goto(w, next)
    <2>. DEFINE r == [worker[w] EXCEPT !.pc = next]
    <2>1. worker' = [worker EXCEPT ![w] = r]
      BY <1>1 DEF Goto, IInv, Types
    <2>2. r \in Slot /\ Moved(w)
      BY <2>1 DEF IInv, Types, Slot, Moved
    <2>. HIDE DEF r
    <2>. QED BY <2>1, <2>2, MoveStep, ZenonT(30)
  <1>2. CASE Fails(w)
    <2>. DEFINE r == [worker[w] EXCEPT !.pc = "failing", !.outcome = "not_sent"]
    <2>1. worker' = [worker EXCEPT ![w] = r]
      BY <1>2, ZenonT(30) DEF Fails, IInv, Types
    <2>2. r \in Slot /\ Moved(w)
      BY <2>1, ZenonT(30) DEF IInv, Types, Slot, Outcomes, Moved
    <2>. HIDE DEF r
    <2>. QED BY <2>1, <2>2, MoveStep, ZenonT(30)
  <1>. QED BY <1>1, <1>2

LEMMA IdleStep ==
  ASSUME IInv, NEW w \in Workers, worker' = [worker EXCEPT ![w] = IdleWorker],
         UNCHANGED <<calendar, link, jobs, sync, now, claims, told>>
  PROVE  IInv' /\ Advances
  <1>1. Parked(w)
    BY IdleWorkerType DEF Parked, IInv, Types
  <1>. QED BY <1>1, IdleWorkerType, MoveStep, ZenonT(30)

\* A worker keeps its job and its token, or has none.
TokenStays(v) ==
  \/ Token(v)' = 0 /\ worker'[v].pc \in {"idle", "listed"}
  \/ /\ Token(v)' = Token(v) /\ worker'[v].job = worker[v].job
     /\ worker'[v].claimed = worker[v].claimed
     /\ worker'[v].pc \in {"idle", "listed"} <=> worker[v].pc \in {"idle", "listed"}

LEMMA TokensStay ==
  ASSUME WorkerTokens, claims \in Nat, jobs' = jobs, claims' = claims,
         \A v \in Workers : TokenStays(v)
  PROVE  WorkerTokens'
  <1>1. 0 <= claims
    OBVIOUS
  <1>2. ASSUME NEW v \in Workers
        PROVE  /\ Token(v)' <= claims'
               /\ worker'[v].pc \in {"idle", "listed"} <=> Token(v)' = 0
    BY <1>1, ZenonT(30) DEF WorkerTokens, TokenStays
  <1>3. ASSUME NEW v \in Workers, Token(v)' # 0
        PROVE  /\ Token(v)' = Token(v) /\ worker'[v].job = worker[v].job
               /\ worker'[v].claimed = worker[v].claimed
    BY <1>3, ZenonT(30) DEF TokenStays
  <1>4. ASSUME NEW v \in Workers, NEW u \in Workers, Token(v)' # 0, Token(v)' = Token(u)'
        PROVE  v = u
    <2>1. Token(v) # 0 /\ Token(v) = Token(u)
      BY <1>3, <1>4, ZenonT(30)
    <2>. QED BY <2>1, ZenonT(30) DEF WorkerTokens
  <1>5. ASSUME NEW v \in Workers, NEW s \in Sessions,
               Token(v)' # 0, jobs'[s].token = Token(v)'
        PROVE  /\ worker'[v].job = s
               /\ jobs'[s].gen = worker'[v].claimed.gen
               /\ jobs'[s].user = worker'[v].claimed.user
    <2>1. Token(v) # 0 /\ jobs[s].token = Token(v)
      BY <1>3, <1>5, ZenonT(30)
    <2>2. /\ worker[v].job = s /\ jobs[s].gen = worker[v].claimed.gen
          /\ jobs[s].user = worker[v].claimed.user
      BY <2>1, ZenonT(30) DEF WorkerTokens
    <2>. QED BY <1>3, <1>5, <2>2, ZenonT(30)
  <1>. QED BY <1>2, <1>4, <1>5, ZenonT(30) DEF WorkerTokens

LEMMA ClaimJobIInv ==
  ASSUME IInv, NEW w \in Workers, ClaimJob(w)
  PROVE  IInv' /\ Advances
  <1>1. CASE ~Dispatchable(Row(w))
    BY <1>1, IdleStep DEF ClaimJob, outside
  <1>2. CASE Dispatchable(Row(w))
    <2>. DEFINE j == worker[w].job
                c == Claimed(jobs[j])
                r == [worker[w] EXCEPT !.pc = "claimed", !.claimed = c]
    <2>1. /\ jobs' = [jobs EXCEPT ![j] = c]
          /\ worker' = [worker EXCEPT ![w] = r]
          /\ claims' = claims + 1
          /\ UNCHANGED <<calendar, link, sync, now, told>>
      BY <1>2, ZenonT(30) DEF ClaimJob, Row, IInv, Types, outside
    <2>2. j \in Sessions /\ jobs[j] \in Job /\ worker[w] \in Slot /\ claims \in Nat
      BY DEF IInv, Types, Slot
    <2>3. /\ c \in Job /\ c.status = "processing" /\ c.token = claims + 1
          /\ c.gen = jobs[j].gen /\ c.user = jobs[j].user
      BY <2>2, ClaimedRow
    <2>4. r \in Slot /\ r.pc = "claimed" /\ r.claimed = c /\ r.job = j
      BY <2>2, <2>3, ZenonT(30) DEF Slot
    <2>5. /\ jobs[j].status \in {"pending", "failed"}
          /\ jobs[j].outcome \in {"none", "not_sent"}
      BY <1>2 DEF Dispatchable, Row
    <2>. HIDE DEF r, c, j
    <2>6. Types'
      BY <2>1, <2>2, <2>3, <2>4 DEF IInv, Types
    <2>7. RowTokens'
      BY <2>1, <2>2, <2>3 DEF IInv, RowTokens, Types, Job
    <2>8. WorkerTokens'
      <3>1. /\ Token(w)' = claims + 1
            /\ \A v \in Workers \ {w} : worker'[v] = worker[v]
            /\ worker'[w].pc = "claimed" /\ worker'[w].job = j
            /\ worker'[w].claimed = c
        BY <2>1, <2>3, <2>4 DEF Token, IInv, Types
      <3>2. \A v \in Workers : Token(v) <= claims /\ Token(v) \in Nat
        BY DEF IInv, WorkerTokens, Types, Token, Slot, Job
      <3>3. \A s \in Sessions : jobs[s].token <= claims /\ jobs[s].token \in Nat
        BY ZenonT(30) DEF IInv, RowTokens, Types, Job
      <3>4. jobs'[j] = c /\ \A s \in Sessions \ {j} : jobs'[s] = jobs[s]
        BY <2>1, <2>2, ZenonT(30) DEF IInv, Types
      <3>5. ASSUME NEW v \in Workers
            PROVE  /\ Token(v)' <= claims'
                   /\ worker'[v].pc \in {"idle", "listed"} <=> Token(v)' = 0
        BY <2>1, <2>2, <3>1, <3>2 DEF IInv, WorkerTokens, Token
      <3>6. \A v, u \in Workers : Token(v)' # 0 /\ Token(v)' = Token(u)' => v = u
        BY <2>2, <3>1, <3>2 DEF IInv, WorkerTokens, Token
      <3>7. ASSUME NEW v \in Workers, NEW s \in Sessions,
                   Token(v)' # 0, jobs'[s].token = Token(v)'
            PROVE  /\ worker'[v].job = s
                   /\ jobs'[s].gen = worker'[v].claimed.gen
                   /\ jobs'[s].user = worker'[v].claimed.user
        <4>1. CASE v = w
          <5>1. s = j
            BY <2>2, <3>1, <3>3, <3>4, <3>7, <4>1
          <5>. QED BY <2>2, <2>3, <3>1, <3>4, <4>1, <5>1, ZenonT(30)
        <4>2. CASE v # w
          BY <2>2, <2>3, <3>1, <3>2, <3>4, <3>7, <4>2 DEF IInv, WorkerTokens, Token
        <4>. QED BY <4>1, <4>2
      <3>. QED BY <3>5, <3>6, <3>7, ZenonT(30) DEF WorkerTokens
    <2>9. OneSender'
      BY <2>1, <2>4, ZenonT(30) DEF IInv, Types, OneSender, At
    <2>10. SendIsOwned'
      <3>. SUFFICES ASSUME NEW v \in Workers, At(v, "sending")'
                    PROVE  /\ worker'[v] = worker[v] /\ At(v, "sending")
                           /\ Row(v)' = Row(v) /\ Token(v)' = Token(v)
        BY <2>1, ZenonT(30) DEF IInv, SendIsOwned
      <3>1. v # w /\ worker'[v] = worker[v] /\ At(v, "sending")
        BY <2>1, <2>4 DEF IInv, Types, At
      <3>2. jobs[worker[v].job].status = "processing"
        BY <3>1, ZenonT(30) DEF IInv, SendIsOwned, Row
      <3>3. worker[v].job # j
        BY <2>5, <3>2, ZenonT(30)
      <3>4. jobs'[worker[v].job] = jobs[worker[v].job]
        BY <2>1, <3>1, <3>3 DEF IInv, Types, Slot
      <3>. QED BY <3>1, <3>4, ZenonT(30) DEF Row, Token
    <2>11. ToldIsClosed' /\ told[j] = 0
      BY <2>1, <2>2, <2>3, <2>5 DEF IInv, Types, ToldIsClosed, Closed
    <2>12. HolderKnows'
      <3>1. ASSUME NEW v \in Workers, Token(v)' # 0,
                   Row(v)'.token = Token(v)', told'[worker'[v].job] # 0
            PROVE  \/ At(v, "sent")'
                   \/ At(v, "failing")' /\ worker'[v].outcome \in {"sent", "ambiguous"}
        <4>1. v # w
          BY <2>1, <2>4, <2>11, <3>1 DEF IInv, Types
        <4>2. worker'[v] = worker[v] /\ worker[v].job # j /\ worker[v].job \in Sessions
          BY <2>1, <2>11, <3>1, <4>1 DEF IInv, Types, Slot
        <4>3. Row(v)' = Row(v)
          BY <2>1, <4>2 DEF Row, IInv, Types
        <4>. QED BY <2>1, <3>1, <4>2, <4>3 DEF IInv, HolderKnows, Token, At
      <3>. QED BY <3>1, ZenonT(30) DEF HolderKnows
    <2>13. Advances
      <3>1. ASSUME NEW s \in Sessions
            PROVE  /\ jobs'[s].gen = jobs[s].gen /\ jobs[s].gen \in Nat
                   /\ jobs'[s] = jobs[s] \/ jobs[s].status # "sent"
        BY <2>1, <2>2, <2>3, <2>5 DEF IInv, Types, Job
      <3>. QED BY <3>1 DEF Advances, RowAdvances
    <2>. QED BY <2>6, <2>7, <2>8, <2>9, <2>10, <2>11, <2>12, <2>13 DEF IInv
  <1>. QED BY <1>1, <1>2

LEMMA CheckIInv ==
  ASSUME IInv, NEW w \in Workers, CheckBeforeText(w) \/ CheckBeforeSend(w)
  PROVE  IInv' /\ Advances
  <1>1. \E next \in {"written", "fencing", "cancelling"} : Goto(w, next) \/ Fails(w)
    BY ZenonT(30) DEF CheckBeforeText, CheckBeforeSend, CheckMapping, IInv, Types,
                   Mapping
  <1>. QED BY <1>1, GotoStep DEF CheckBeforeText, CheckBeforeSend, At, outside

LEMMA FenceIInv ==
  ASSUME IInv, NEW w \in Workers, Fence(w)
  PROVE  IInv' /\ Advances
  <1>1. CASE Goto(w, "cancelling") \/ Fails(w)
    BY <1>1, GotoStep DEF Fence, At, outside
  <1>2. CASE worker' = [worker EXCEPT ![w] = IdleWorker]
    BY <1>2, IdleStep, ZenonT(30) DEF Fence, outside
  <1>3. CASE /\ link.state = "active" /\ SameOwner(w) /\ Owned(w)
             /\ Goto(w, "sending")
    <2>. DEFINE r == [worker[w] EXCEPT !.pc = "sending"]
    <2>1. /\ worker' = [worker EXCEPT ![w] = r]
          /\ UNCHANGED <<calendar, link, jobs, sync, now, claims, told>>
      BY <1>3 DEF Goto, Fence, IInv, Types, outside
    <2>2. worker[w] \in Slot /\ worker[w].pc = "fencing"
      BY DEF IInv, Types, Fence, At
    <2>3. /\ r \in Slot /\ r.pc = "sending" /\ r.job = worker[w].job
          /\ r.claimed = worker[w].claimed
      BY <2>2, ZenonT(30) DEF Slot
    <2>. HIDE DEF r
    <2>4. Types' /\ RowTokens'
      BY <2>1, <2>3, ZenonT(30) DEF IInv, Types, RowTokens
    <2>5. WorkerTokens'
      <3>1. worker'[w] = r /\ \A v \in Workers \ {w} : worker'[v] = worker[v]
        BY <2>1, ZenonT(30) DEF IInv, Types
      <3>2. \A v \in Workers : TokenStays(v)
        BY <2>2, <2>3, <3>1, ZenonT(30) DEF TokenStays, Token
      <3>. QED BY <2>1, <3>2, TokensStay, ZenonT(30) DEF IInv, Types
    <2>6. OneSender'
      BY <2>1, ZenonT(30) DEF Fence, SendInProgress, OneSender, At, IInv, Types
    <2>7. SendIsOwned'
      <3>1. /\ Token(w) # 0 /\ Row(w).gen = worker[w].claimed.gen
            /\ Row(w).user = worker[w].claimed.user
        BY <1>3, <2>2 DEF Owned, IInv, WorkerTokens, Row, Token, Slot
      <3>2. /\ link.state = "active" /\ Row(w).status = "processing"
            /\ Row(w).token = Token(w)
        BY <1>3, ZenonT(30) DEF Owned
      <3>3. link.gen = worker[w].claimed.gen /\ link.user = worker[w].claimed.user
        BY <1>3, ZenonT(30) DEF SameOwner
      <3>4. /\ worker'[w].claimed = worker[w].claimed /\ Row(w)' = Row(w)
            /\ Token(w)' = Token(w)
        BY <2>1, <2>3 DEF Row, Token, IInv, Types
      <3>5. \A v \in Workers \ {w} : worker'[v] = worker[v]
        BY <2>1 DEF IInv, Types
      <3>. SUFFICES ASSUME NEW v \in Workers, At(v, "sending")'
                    PROVE  /\ link'.state = "active"
                           /\ link'.gen = worker'[v].claimed.gen
                           /\ link'.user = worker'[v].claimed.user
                           /\ Row(v)'.status = "processing" /\ Row(v)'.token = Token(v)'
                           /\ Row(v)'.gen = link'.gen /\ Row(v)'.user = link'.user
        BY DEF SendIsOwned
      <3>6. CASE v = w
        BY <2>1, <3>1, <3>2, <3>3, <3>4, <3>6, ZenonT(30)
      <3>7. CASE v # w
        <4>1. worker'[v] = worker[v] /\ link' = link /\ jobs' = jobs
          BY <2>1, <3>5, <3>7, ZenonT(30)
        <4>2. At(v, "sending") /\ Row(v)' = Row(v) /\ Token(v)' = Token(v)
          BY <4>1, ZenonT(30) DEF At, Row, Token
        <4>. QED BY <4>1, <4>2, ZenonT(30) DEF IInv, SendIsOwned
      <3>. QED BY <3>6, <3>7, ZenonT(30)
    <2>8. ToldIsClosed'
      BY <2>1, ZenonT(30) DEF IInv, ToldIsClosed, Closed
    <2>9. HolderKnows'
      <3>1. told[worker[w].job] = 0
        BY <1>3, <2>2 DEF Owned, IInv, HolderKnows, WorkerTokens, At
      <3>. QED BY <2>1, <2>3, <3>1, ZenonT(30) DEF IInv, Types, HolderKnows, Row, Token, At
    <2>10. Advances
      <3>1. jobs' = jobs /\ jobs \in [Sessions -> Job]
        BY <2>1, ZenonT(30) DEF IInv, Types
      <3>. QED BY <3>1, RowsStay, ZenonT(30)
    <2>. QED BY <2>4, <2>5, <2>6, <2>7, <2>8, <2>9, <2>10 DEF IInv
  <1>. QED BY <1>1, <1>2, <1>3 DEF Fence, IInv, Types, Mapping

LEMMA LockTimesOutIInv ==
  ASSUME IInv, NEW w \in Workers, LockTimesOut(w)
  PROVE  IInv' /\ Advances
  BY GotoStep DEF LockTimesOut, At, outside

LEMMA StepThrowsIInv ==
  ASSUME IInv, NEW w \in Workers, StepThrows(w)
  PROVE  IInv' /\ Advances
  BY GotoStep, ZenonT(30) DEF StepThrows, outside

\* The end of a provider call: the message has reached the learner or not,
\* and the worker knows or is gone.
Delivers(w, reached) ==
  told' = IF reached THEN [told EXCEPT ![worker[w].job] = @ + 1] ELSE told

LEMMA DeliveryStep ==
  ASSUME IInv, NEW w \in Workers, NEW r \in Slot, NEW reached \in BOOLEAN,
         At(w, "sending"), worker' = [worker EXCEPT ![w] = r],
         Delivers(w, reached),
         \/ r.pc = "idle" /\ r.claimed.token = 0
         \/ /\ r.job = worker[w].job /\ r.claimed = worker[w].claimed
            /\ r.pc \in {"sent", "failing"}
            /\ reached => r.pc = "sent" \/ r.outcome \in {"sent", "ambiguous"},
         UNCHANGED <<calendar, link, jobs, sync, now, claims>>
  PROVE  IInv' /\ Advances
  <1>. DEFINE j == worker[w].job
  <1>1. j \in Sessions /\ worker[w] \in Slot /\ worker[w].pc = "sending"
    BY DEF IInv, Types, Slot, At
  <1>2. told[j] = 0
    <2>1. Token(w) # 0 /\ Row(w).token = Token(w)
      <3>1. Row(w).token = Token(w)
        BY ZenonT(30) DEF IInv, SendIsOwned
      <3>2. worker[w].pc \notin {"idle", "listed"}
        BY <1>1, ZenonT(30)
      <3>3. Token(w) # 0
        BY <3>2, ZenonT(30) DEF IInv, WorkerTokens
      <3>. QED BY <3>1, <3>3
    <2>. QED BY <1>1, <2>1, ZenonT(30) DEF IInv, HolderKnows, At
  <1>3. Row(w).status = "processing"
    BY ZenonT(30) DEF IInv, SendIsOwned
  <1>4. /\ told' \in [Sessions -> Nat]
        /\ told'[j] \in {0, 1} /\ (told'[j] = 1 => reached)
        /\ \A s \in Sessions \ {j} : told'[s] = told[s]
    <2>1. told \in [Sessions -> Nat]
      BY ZenonT(30) DEF IInv, Types
    <2>2. (told' = [told EXCEPT ![j] = @ + 1] /\ reached) \/ told' = told
      BY ZenonT(30) DEF Delivers
    <2>. HIDE DEF j
    <2>. QED BY <1>1, <1>2, <2>1, <2>2
  <1>5. Types' /\ RowTokens'
    BY <1>4, ZenonT(30) DEF IInv, Types, RowTokens
  <1>6. WorkerTokens'
    <2>1. ASSUME NEW v \in Workers
          PROVE  \/ worker'[v] = worker[v]
                 \/ worker'[v].pc \in {"idle", "listed"} /\ Token(v)' = 0
                 \/ /\ worker'[v].pc \notin {"idle", "listed"}
                    /\ worker[v].pc \notin {"idle", "listed"}
                    /\ worker'[v].job = worker[v].job
                    /\ worker'[v].claimed = worker[v].claimed
      <3>1. CASE v # w
        BY <3>1, ZenonT(30) DEF IInv, Types
      <3>2. CASE v = w
        <4>1. worker'[v] = r
          BY <3>2, ZenonT(30) DEF IInv, Types
        <4>. QED BY <1>1, <3>2, <4>1, ZenonT(30) DEF Token
      <3>. QED BY <3>1, <3>2
    <2>2. jobs' = jobs /\ claims' = claims /\ claims \in Nat
      BY ZenonT(30) DEF IInv, Types
    <2>3. \A v \in Workers : TokenStays(v)
      BY <2>1, ZenonT(30) DEF TokenStays, Token
    <2>. QED BY <2>2, <2>3, TokensStay, ZenonT(30) DEF IInv
  <1>7. OneSender' /\ SendIsOwned'
    BY <1>1, ZenonT(30) DEF IInv, Types, OneSender, SendIsOwned, At, Row, Token
  <1>8. ToldIsClosed'
    BY <1>1, <1>3, <1>4, ZenonT(30) DEF IInv, ToldIsClosed, Closed, Row
  <1>9. HolderKnows'
    <2>1. ASSUME NEW v \in Workers, Token(v)' # 0,
                 Row(v)'.token = Token(v)', told'[worker'[v].job] # 0
          PROVE  \/ At(v, "sent")'
                 \/ At(v, "failing")' /\ worker'[v].outcome \in {"sent", "ambiguous"}
      <3>1. CASE v = w
        BY <1>1, <1>4, <2>1, <3>1, ZenonT(30) DEF IInv, Types, Token, At
      <3>2. CASE v # w
        <4>1. worker'[v] = worker[v] /\ worker[v].job \in Sessions
          BY <3>2, SMTT(30) DEF IInv, Types, Slot
        <4>2. worker[v].job # j
          <5>1. Token(v) # 0 /\ jobs[worker[v].job].token = Token(v)
            BY <2>1, <4>1, ZenonT(30) DEF Row, Token
          <5>2. jobs[j].token = Token(w)
            BY ZenonT(30) DEF IInv, SendIsOwned, Row
          <5>3. Token(v) # 0 /\ Token(v) = Token(w) => v = w
            BY ZenonT(30) DEF IInv, WorkerTokens
          <5>. QED BY <3>2, <5>1, <5>2, <5>3, ZenonT(30)
        <4>3. /\ Token(v)' = Token(v) /\ Row(v)' = Row(v)
              /\ told'[worker'[v].job] = told[worker[v].job]
          BY <1>4, <4>1, <4>2, ZenonT(30) DEF Row, Token
        <4>4. \/ At(v, "sent")
              \/ At(v, "failing") /\ worker[v].outcome \in {"sent", "ambiguous"}
          BY <2>1, <4>3, ZenonT(30) DEF IInv, HolderKnows
        <4>. QED BY <4>1, <4>4, ZenonT(30) DEF At
      <3>. QED BY <3>1, <3>2, ZenonT(30)
    <2>. QED BY <2>1, ZenonT(30) DEF HolderKnows
  <1>10. Advances
    BY RowsStay, ZenonT(30) DEF IInv, Types
  <1>. QED BY <1>5, <1>6, <1>7, <1>8, <1>9, <1>10, ZenonT(30) DEF IInv

LEMMA SendIInv ==
  ASSUME IInv, NEW w \in Workers, Send(w) \/ SendUncommitted(w)
  PROVE  IInv' /\ Advances
  <1>1. PICK answer \in ProviderAnswers, next \in {"sent", "failing"} :
          /\ Delivers(w, answer[2])
          /\ worker' = [worker EXCEPT ![w].pc = next, ![w].outcome = answer[1]]
    BY DEF Send, SendUncommitted, Reaches, Delivers
  <1>2. /\ answer[1] \in Outcomes /\ answer[2] \in BOOLEAN
        /\ answer[2] => answer[1] \in {"sent", "ambiguous"}
    <2>1. CASE answer = <<"sent", TRUE>>
      BY <2>1 DEF Outcomes
    <2>2. CASE answer = <<"not_sent", FALSE>>
      BY <2>2 DEF Outcomes
    <2>3. CASE answer = <<"rate_limited", FALSE>>
      BY <2>3 DEF Outcomes
    <2>4. CASE answer = <<"ambiguous", TRUE>>
      BY <2>4 DEF Outcomes
    <2>5. CASE answer = <<"ambiguous", FALSE>>
      BY <2>5 DEF Outcomes
    <2>. QED BY <2>1, <2>2, <2>3, <2>4, <2>5, ZenonT(30) DEF ProviderAnswers
  <1>. DEFINE r == [worker[w] EXCEPT !.pc = next, !.outcome = answer[1]]
  <1>3. worker' = [worker EXCEPT ![w] = r]
    BY <1>1, ZenonT(30) DEF IInv, Types
  <1>4. worker[w] \in Slot
    BY DEF IInv, Types
  <1>5. /\ r \in Slot /\ r.pc = next /\ r.outcome = answer[1]
        /\ r.job = worker[w].job /\ r.claimed = worker[w].claimed
    BY <1>2, <1>4, ZenonT(30) DEF Slot
  <1>6. /\ At(w, "sending")
        /\ UNCHANGED <<calendar, link, jobs, sync, now, claims>>
    BY ZenonT(30) DEF Send, SendUncommitted, outside
  <1>. HIDE DEF r
  <1>7. /\ r.pc \in {"sent", "failing"}
        /\ answer[2] => r.outcome \in {"sent", "ambiguous"}
    BY <1>2, <1>5
  <1>8. Delivers(w, answer[2])
    BY <1>1, ZenonT(30)
  <1>. DEFINE reached == answer[2]
  <1>9. reached \in BOOLEAN /\ Delivers(w, reached)
        /\ (reached => r.outcome \in {"sent", "ambiguous"})
    BY <1>2, <1>7, <1>8, ZenonT(30)
  <1>10. r \in Slot /\ r.job = worker[w].job /\ r.claimed = worker[w].claimed
    BY <1>5
  <1>. HIDE DEF reached
  <1>. QED BY ONLY IInv, w \in Workers, <1>3, <1>6, <1>7, <1>9, <1>10, DeliveryStep, ZenonT(30)

LEMMA AbandonIInv ==
  ASSUME IInv, NEW w \in Workers, Abandon(w)
  PROVE  IInv' /\ Advances
  <1>1. CASE At(w, "sending")
    <2>1. \E reached \in BOOLEAN : Delivers(w, reached)
      BY <1>1 DEF Abandon, Reaches, Delivers
    <2>. QED BY <1>1, <2>1, DeliveryStep, IdleWorkerType, ZenonT(30) DEF Abandon, outside
  <1>2. CASE ~At(w, "sending")
    BY <1>2, IdleStep, ZenonT(30) DEF Abandon, Reaches, outside
  <1>. QED BY <1>1, <1>2

LEMMA ZeroIsNat == 0 \in Nat
  OBVIOUS

LEMMA SameIsNoLess == \A m, n : m \in Nat /\ m = n => m >= n
  OBVIOUS

LEMMA SlotJob == \A slot \in Slot : slot.job \in Sessions
  BY DEF Slot

LEMMA JobGen == \A row \in Job : row.gen \in Nat
  BY ZenonT(30) DEF Job

\* The last write of a worker, which closes its row if it still owns it.
LEMMA OwnedStep ==
  ASSUME IInv, NEW w \in Workers, NEW row \in Job, NEW r \in Slot,
         ~At(w, "sending"), worker[w].pc \notin {"idle", "listed"},
         OwnedUpdate(w, row),
         row.token = 0, row.status \in {"sent", "failed", "cancelled"},
         row.gen = Row(w).gen,
         Owned(w) /\ told[worker[w].job] # 0 /\ row.status = "failed" =>
           row.outcome \in {"sent", "ambiguous"},
         worker' = [worker EXCEPT ![w] = r], Parked(w) \/ Moved(w),
         UNCHANGED <<calendar, link, sync, now, claims, told>>
  PROVE  IInv' /\ Advances
  <1>. DEFINE j == worker[w].job
  <1>1. j \in Sessions /\ jobs[j] \in Job /\ Token(w) # 0
    <2>1. worker[w] \in Slot
      BY ZenonT(30) DEF IInv, Types
    <2>2. j \in Sessions
      BY <2>1, SlotJob, ZenonT(30)
    <2>3. jobs[j] \in Job
      BY <2>2, ZenonT(30) DEF IInv, Types
    <2>4. Token(w) # 0
      BY ZenonT(30) DEF IInv, WorkerTokens
    <2>. QED BY <2>2, <2>3, <2>4
  <1>2. jobs' \in [Sessions -> Job]
    BY ZenonT(30) DEF OwnedUpdate, IInv, Types
  <1>3. Types'
    <2>1. worker' \in [Workers -> Slot]
      BY ZenonT(30) DEF IInv, Types
    <2>2. UNCHANGED <<calendar, link, sync, now, claims, told>>
      OBVIOUS
    <2>. QED BY <1>2, <2>1, <2>2, ZenonT(30) DEF IInv, Types
  <1>4. ASSUME NEW s \in Sessions PROVE RowKept(s) \/ (RowClosed(s) /\ ~RowLocked(s))
    <2>1. CASE s # j \/ ~Owned(w)
      <3>1. jobs'[s] = jobs[s]
        BY <2>1, ZenonT(30) DEF OwnedUpdate, IInv, Types
      <3>. QED BY <3>1, ZenonT(30) DEF RowKept
    <2>2. CASE s = j /\ Owned(w)
      <3>1. jobs'[s] = row
        BY <1>1, <2>2, ZenonT(30) DEF OwnedUpdate, IInv, Types
      <3>2. ~RowLocked(s)
        <4>1. SUFFICES ASSUME NEW v \in Workers, At(v, "sending"), worker[v].job = s
                       PROVE  FALSE
          BY <4>1, ZenonT(30) DEF RowLocked
        <4>2. Row(v).token = Token(v)
          BY <4>1, ZenonT(30) DEF IInv, SendIsOwned
        <4>3. Row(w).token = Token(w)
          BY <2>2, ZenonT(30) DEF Owned
        <4>4. Row(v) = Row(w)
          BY <2>2, <4>1, ZenonT(30) DEF Row
        <4>5. Token(w) = Token(v)
          BY <4>2, <4>3, <4>4, ZenonT(30)
        <4>6. w = v
          BY <1>1, <4>5, ZenonT(30) DEF IInv, WorkerTokens
        <4>. QED BY <4>1, <4>6, ZenonT(30)
      <3>3. jobs[s].status = "processing" /\ row.gen = jobs[s].gen
        BY <2>2, ZenonT(30) DEF Owned, Row
      <3>4. RowAdvances(s)
        <4>1. row.gen \in Nat
          BY JobGen, ZenonT(30)
        <4>2. row.gen >= jobs[s].gen
          BY <3>3, <4>1, SameIsNoLess, ZenonT(30)
        <4>3. jobs[s].status # "sent"
          BY <3>3, ZenonT(30)
        <4>. QED BY <3>1, <4>2, <4>3, ZenonT(30) DEF RowAdvances
      <3>5. told'[s] # 0 => Closed(s)'
        <4>1. told'[s] = told[j]
          BY <2>2, ZenonT(30)
        <4>2. told[j] # 0 /\ row.status = "failed" => row.outcome \in {"sent", "ambiguous"}
          BY <2>2, ZenonT(30)
        <4>3. row.status \in {"pending", "failed"} => row.status = "failed"
          BY ZenonT(30)
        <4>. QED BY <3>1, <4>1, <4>2, <4>3, ZenonT(30) DEF Closed
      <3>. QED BY <3>1, <3>2, <3>4, <3>5, ZenonT(30) DEF RowClosed
    <2>. QED BY <2>1, <2>2, ZenonT(30)
  <1>5. \A v \in Workers : worker'[v] = worker[v] \/ Parked(v) \/ Moved(v)
    BY DEF IInv, Types
  <1>. QED BY <1>3, <1>4, <1>5, RowsStep, ZenonT(30)

LEMMA MarkSentIInv ==
  ASSUME IInv, NEW w \in Workers, MarkSent(w) \/ MarkSentThrows(w)
  PROVE  IInv' /\ Advances
  <1>. DEFINE row == [Released(Row(w)) EXCEPT !.status = "sent", !.outcome = "sent"]
              r == [worker[w] EXCEPT !.pc = "failing", !.outcome = "ambiguous"]
  <1>1. Row(w) \in Job /\ worker[w] \in Slot /\ worker[w].pc = "sent"
    BY SMTT(30) DEF IInv, Types, Slot, Row, MarkSent, MarkSentThrows, At
  <1>2. row \in Job /\ row.token = 0 /\ row.status = "sent" /\ row.gen = Row(w).gen
    BY <1>1, SentRow, ZenonT(30)
  <1>3. r \in Slot /\ r.pc = "failing" /\ r.outcome = "ambiguous"
        /\ r.job = worker[w].job /\ r.claimed = worker[w].claimed
    BY <1>1, ZenonT(30) DEF Slot, Outcomes
  <1>4. UNCHANGED <<calendar, link, sync, now, claims, told>>
    BY DEF MarkSent, MarkSentThrows, outside
  <1>5. MarkSent(w) => OwnedUpdate(w, row) /\ worker' = [worker EXCEPT ![w] = IdleWorker]
    BY DEF MarkSent
  <1>6. MarkSentThrows(w) => /\ OwnedUpdate(w, row) \/ UNCHANGED jobs
                             /\ worker' = [worker EXCEPT ![w] = r]
    BY ZenonT(30) DEF MarkSentThrows, IInv, Types
  <1>. HIDE DEF row, r
  <1>7. CASE MarkSent(w)
    <2>1. Parked(w)
      BY <1>5, <1>7, IdleWorkerType DEF Parked, IInv, Types
    <2>. QED BY <1>1, <1>2, <1>4, <1>5, <1>7, <2>1, IdleWorkerType, OwnedStep, ZenonT(30) DEF At
  <1>8. CASE MarkSentThrows(w)
    <2>1. Moved(w)
      BY <1>1, <1>3, <1>6, <1>8, SMTT(30) DEF Moved, IInv, Types
    <2>2. CASE OwnedUpdate(w, row)
      BY <1>1, <1>2, <1>3, <1>4, <1>6, <1>8, <2>1, <2>2, OwnedStep, ZenonT(30) DEF At
    <2>3. CASE UNCHANGED jobs
      BY <1>3, <1>4, <1>6, <1>8, <2>1, <2>3, MoveStep, ZenonT(30)
    <2>. QED BY <1>6, <1>8, <2>2, <2>3, ZenonT(30)
  <1>. QED BY <1>7, <1>8

LEMMA MarkFailedIInv ==
  ASSUME IInv, NEW w \in Workers, MarkFailed(w)
  PROVE  IInv' /\ Advances
  <1>1. PICK terminal \in BOOLEAN : OwnedUpdate(w, FailedRow(w, terminal))
    BY ZenonT(30) DEF MarkFailed
  <1>. DEFINE row == FailedRow(w, terminal)
  <1>2. /\ row \in Job /\ row.token = 0 /\ row.status = "failed"
        /\ row.gen = Row(w).gen /\ row.outcome = worker[w].outcome
    BY FailedRowRow DEF IInv
  <1>3. OwnedUpdate(w, row)
    BY <1>1, ZenonT(30)
  <1>. HIDE DEF row
  <1>4. worker[w].pc = "failing" /\ Token(w) # 0
    BY DEF MarkFailed, At, IInv, WorkerTokens
  <1>5. Owned(w) /\ told[worker[w].job] # 0 => row.outcome \in {"sent", "ambiguous"}
    BY <1>2, <1>4, ZenonT(30) DEF Owned, IInv, HolderKnows, At
  <1>6. /\ worker' = [worker EXCEPT ![w] = IdleWorker]
        /\ UNCHANGED <<calendar, link, sync, now, claims, told>>
    BY ZenonT(30) DEF MarkFailed, outside
  <1>7. Parked(w)
    BY <1>6, IdleWorkerType, SMTT(30) DEF Parked, IInv, Types
  <1>. QED BY <1>2, <1>3, <1>4, <1>5, <1>6, <1>7, IdleWorkerType, OwnedStep, ZenonT(30) DEF At

LEMMA MarkCancelledIInv ==
  ASSUME IInv, NEW w \in Workers, MarkCancelled(w)
  PROVE  IInv' /\ Advances
  <1>. DEFINE row == Cancelled(Row(w))
  <1>1. Row(w) \in Job /\ worker[w].pc = "cancelling"
    BY DEF IInv, Types, Slot, Row, MarkCancelled, At
  <1>2. /\ row \in Job /\ row.token = 0 /\ row.status = "cancelled"
        /\ row.gen = Row(w).gen /\ OwnedUpdate(w, row)
    BY <1>1, CancelledRow DEF MarkCancelled
  <1>. HIDE DEF row
  <1>3. /\ worker' = [worker EXCEPT ![w] = IdleWorker]
        /\ UNCHANGED <<calendar, link, sync, now, claims, told>>
    BY ZenonT(30) DEF MarkCancelled, outside
  <1>4. Parked(w)
    BY <1>3, IdleWorkerType, ZenonT(30) DEF Parked, IInv, Types
  <1>. QED BY <1>1, <1>2, <1>3, <1>4, IdleWorkerType, OwnedStep, ZenonT(30) DEF At

-----------------------------------------------------------------------------
(* Syncs, the mapping's writers and the bulk updates *)

LEMMA LockedIsProcessing ==
  ASSUME IInv, NEW s \in Sessions, RowLocked(s)
  PROVE  jobs[s].status = "processing"
  BY ZenonT(30) DEF IInv, SendIsOwned, RowLocked, Row

\* A row is cancelled, one that was not sent, or deleted.
Withdrawn(s) ==
  \/ jobs[s].status # "sent" /\ jobs'[s] \in {Cancelled(jobs[s]), Suspended(jobs[s])}
  \/ jobs'[s] = NoJob

LEMMA UnlistParks ==
  ASSUME worker \in [Workers -> Slot], NEW S, Unlist(S)
  PROVE  /\ worker' \in [Workers -> Slot]
         /\ \A w \in Workers : worker'[w] = worker[w] \/ Parked(w)
  <1>. HIDE DEF IdleWorker
  <1>. QED BY IdleWorkerType, SMTT(30) DEF Unlist, Parked

LEMMA BulkStep ==
  ASSUME IInv, calendar' \in [Sessions -> Nat], now' \in Nat,
         link' = link \/ ~SendInProgress, link' \in Mapping,
         sync' \in [Syncs -> Reading],
         UNCHANGED <<claims, told>>,
         jobs' \in [Sessions -> Job],
         \A s \in Sessions : jobs'[s] = jobs[s] \/ Withdrawn(s),
         \A s \in Sessions : RowLocked(s) => jobs'[s] = jobs[s],
         worker' = worker \/ \E S : Unlist(S)
  PROVE  IInv' /\ Advances
  <1>1. /\ worker' \in [Workers -> Slot]
        /\ \A w \in Workers : worker'[w] = worker[w] \/ Parked(w)
    <2>1. CASE worker' = worker
      BY <2>1, ZenonT(30) DEF IInv, Types
    <2>2. ASSUME NEW S, Unlist(S) PROVE <1>1!1 /\ <1>1!2
      BY <2>2, UnlistParks, ZenonT(30) DEF IInv, Types
    <2>. QED BY <2>1, <2>2, ZenonT(30)
  <1>2. Types'
    BY <1>1, ZenonT(30) DEF IInv, Types
  <1>3. ASSUME NEW s \in Sessions PROVE RowKept(s) \/ RowClosed(s)
    <2>1. CASE jobs'[s] = jobs[s]
      BY <2>1, ZenonT(30) DEF RowKept
    <2>2. CASE jobs'[s] = NoJob
      BY <2>2, IdleWorkerType, ZenonT(30) DEF RowClosed, RowAdvances, Closed
    <2>3. CASE /\ jobs[s].status # "sent"
               /\ jobs'[s] \in {Cancelled(jobs[s]), Suspended(jobs[s])}
      <3>1. /\ jobs[s] \in Job /\ jobs'[s].token = 0 /\ jobs'[s].status = "cancelled"
            /\ jobs'[s].gen = jobs[s].gen /\ jobs[s].gen \in Nat
        BY <2>3, CancelledRow, SuspendedRow DEF IInv, Types, Job
      <3>. QED BY <2>3, <3>1, SMTT(30) DEF RowClosed, RowAdvances, Closed
    <2>. QED BY <2>1, <2>2, <2>3 DEF Withdrawn
  <1>4. \A s \in Sessions : RowLocked(s) => RowKept(s)
    BY DEF RowKept
  <1>. QED BY <1>1, <1>2, <1>3, <1>4, RowsStep, ZenonT(30)

\* The three bulk operators.
LEMMA CancelJobsRows ==
  ASSUME IInv, NEW S, CancelJobs(S), \A s \in Sessions : s \in S => jobs[s].status # "sent"
  PROVE  /\ jobs' \in [Sessions -> Job]
         /\ \A s \in Sessions : jobs'[s] = jobs[s] \/ (s \in S /\ Withdrawn(s))
  BY CancelledRow DEF CancelJobs, Withdrawn, IInv, Types

LEMMA SuspendJobsRows ==
  ASSUME IInv, NEW S, SuspendJobs(S), \A s \in Sessions : s \in S => jobs[s].status # "sent"
  PROVE  /\ jobs' \in [Sessions -> Job]
         /\ \A s \in Sessions : jobs'[s] = jobs[s] \/ (s \in S /\ Withdrawn(s))
  BY SuspendedRow, ZenonT(30) DEF SuspendJobs, Withdrawn, IInv, Types

LEMMA DeleteJobsRows ==
  ASSUME IInv, NEW S, DeleteJobs(S)
  PROVE  /\ jobs' \in [Sessions -> Job]
         /\ \A s \in Sessions : jobs'[s] = jobs[s] \/ (s \in S /\ Withdrawn(s))
  <1>. HIDE DEF NoJob
  <1>. QED BY IdleWorkerType DEF DeleteJobs, Withdrawn, IInv, Types

LEMMA GoOnType ==
  ASSUME IInv, NEW y \in Syncs, NEW pc \in {"purged", "fetching", "cancelling"},
         sync' = [sync EXCEPT ![y].pc = pc]
  PROVE  sync' \in [Syncs -> Reading]
  <1>. DEFINE r == [sync[y] EXCEPT !.pc = pc]
  <1>1. r \in Reading
    BY ZenonT(30) DEF IInv, Types, Reading
  <1>2. sync' = [sync EXCEPT ![y] = r]
    BY ZenonT(30) DEF IInv, Types
  <1>. HIDE DEF r
  <1>. QED BY <1>1, <1>2 DEF IInv, Types

LEMMA RolloverIInv ==
  ASSUME IInv, NEW y \in Syncs, Rollover(y)
  PROVE  IInv' /\ Advances
  <1>1. /\ jobs' \in [Sessions -> Job]
        /\ \A s \in Sessions :
             jobs'[s] = jobs[s] \/ (s \in InStatus({"sent"}) /\ Withdrawn(s))
    BY DeleteJobsRows DEF Rollover
  <1>2. sync' \in [Syncs -> Reading]
    BY GoOnType, ZenonT(30) DEF Rollover
  <1>3. \A s \in Sessions : RowLocked(s) => jobs'[s] = jobs[s]
    BY <1>1, LockedIsProcessing DEF InStatus
  <1>4. \E S : Unlist(S)
    BY DEF Rollover, DeleteJobs
  <1>. QED BY <1>1, <1>2, <1>3, <1>4, BulkStep DEF Rollover, outside, IInv, Types

LEMMA CleanupIInv ==
  ASSUME IInv, Cleanup
  PROVE  IInv' /\ Advances
  <1>1. /\ jobs' \in [Sessions -> Job]
        /\ \A s \in Sessions : jobs'[s] = jobs[s] \/ (Expired(jobs[s]) /\ Withdrawn(s))
    BY DeleteJobsRows, SMTT(30) DEF Cleanup
  <1>2. \A s \in Sessions : RowLocked(s) => jobs'[s] = jobs[s]
    BY <1>1, LockedIsProcessing DEF Expired
  <1>3. \E S : Unlist(S)
    BY DEF Cleanup, DeleteJobs
  <1>. QED BY <1>1, <1>2, <1>3, BulkStep DEF Cleanup, outside, IInv, Types

LEMMA EndSyncType ==
  ASSUME IInv, NEW y \in Syncs, EndSync(y)
  PROVE  sync' \in [Syncs -> Reading]
  BY IdleSyncType DEF EndSync, IInv, Types

LEMMA StartSyncIInv ==
  ASSUME IInv, NEW y \in Syncs, StartSync(y)
  PROVE  IInv' /\ Advances
  <1>1. sync' \in [Syncs -> Reading]
    <2>1. CASE EndSync(y)
      BY <2>1, EndSyncType
    <2>2. CASE sync' = [sync EXCEPT ![y].pc = "resolving", ![y].user = link.user,
                                    ![y].gen = link.gen, ![y].end = now + Horizon]
      <3>1. now + Horizon \in Nat /\ link.gen \in Nat /\ link.user \in Users
        <4>1. link \in Mapping /\ now \in Nat
          BY ZenonT(30) DEF IInv, Types
        <4>. QED BY <4>1, ReminderAssumption DEF Mapping
      <3>. DEFINE r == [sync[y] EXCEPT !.pc = "resolving", !.user = link.user,
                                       !.gen = link.gen, !.end = now + Horizon]
      <3>2. r \in Reading
        BY <3>1, ZenonT(30) DEF IInv, Types, Reading
      <3>3. sync' = [sync EXCEPT ![y] = r]
        BY <2>2, ZenonT(30) DEF IInv, Types
      <3>. HIDE DEF r
      <3>. QED BY <3>2, <3>3, ZenonT(30) DEF IInv, Types
    <2>. QED BY <2>1, <2>2 DEF StartSync
  <1>. QED BY <1>1, BulkStep DEF StartSync, outside, IInv, Types

LEMMA GetSessionsIInv ==
  ASSUME IInv, NEW y \in Syncs, GetSessions(y)
  PROVE  IInv' /\ Advances
  <1>. DEFINE p == [s \in Sessions |->
                      IF now < calendar[s] + Grace /\ calendar[s] \in 1..sync[y].end
                      THEN calendar[s] ELSE 0]
  <1>1. p \in [Sessions -> Nat]
    BY DEF IInv, Types
  <1>2. sync' = [sync EXCEPT ![y].pc = "upserting", ![y].planned = p]
    BY DEF GetSessions
  <1>. HIDE DEF p
  <1>3. sync' \in [Syncs -> Reading]
    BY <1>1, <1>2, ZenonT(30) DEF IInv, Types, Reading
  <1>. QED BY <1>3, BulkStep DEF GetSessions, outside, IInv, Types

LEMMA SyncFailsIInv ==
  ASSUME IInv, NEW y \in Syncs, SyncFails(y)
  PROVE  IInv' /\ Advances
  <1>1. sync' \in [Syncs -> Reading]
    BY EndSyncType DEF SyncFails
  <1>. QED BY <1>1, BulkStep DEF SyncFails, outside, IInv, Types

LEMMA StaleRows ==
  ASSUME IInv, NEW y \in Syncs, CancelJobs(Stale(y))
  PROVE  /\ jobs' \in [Sessions -> Job]
         /\ \A s \in Sessions : jobs'[s] = jobs[s] \/ Withdrawn(s)
         /\ \A s \in Sessions : RowLocked(s) => jobs'[s] = jobs[s]
  <1>1. \A s \in Sessions : s \in Stale(y) => jobs[s].status \in {"pending", "failed"}
    BY DEF Stale, InStatus
  <1>2. /\ jobs' \in [Sessions -> Job]
        /\ \A s \in Sessions : jobs'[s] = jobs[s] \/ (s \in Stale(y) /\ Withdrawn(s))
    BY <1>1, CancelJobsRows, ZenonT(30)
  <1>. QED BY <1>1, <1>2, LockedIsProcessing

LEMMA CancelStaleIInv ==
  ASSUME IInv, NEW y \in Syncs, CancelStale(y)
  PROVE  IInv' /\ Advances
  <1>1. sync' \in [Syncs -> Reading]
    BY EndSyncType DEF CancelStale
  <1>2. CancelJobs(Stale(y))
    BY DEF CancelStale
  <1>. QED BY <1>1, <1>2, StaleRows, BulkStep DEF CancelStale, outside, IInv, Types

LEMMA ResolveCanonicalIInv ==
  ASSUME IInv, NEW y \in Syncs, ResolveCanonical(y)
  PROVE  IInv' /\ Advances
  <1>1. CASE EndSync(y) /\ CancelJobs(Stale(y))
    BY <1>1, EndSyncType, StaleRows, BulkStep DEF ResolveCanonical, outside, IInv, Types
  <1>2. CASE sync' = [sync EXCEPT ![y].pc = "fetching"] /\ UNCHANGED jobs
    <2>1. sync' \in [Syncs -> Reading]
      BY <1>2, GoOnType, ZenonT(30)
    <2>. QED BY <1>2, <2>1, BulkStep DEF ResolveCanonical, outside, IInv, Types
  <1>. QED BY <1>1, <1>2 DEF ResolveCanonical

LEMMA AppliedRow ==
  ASSUME NEW row, NEW at, NEW owner
  PROVE  /\ Opens(row, at, owner) => Applied(row, at, owner) = Fresh(at, owner)
         /\ ~Opens(row, at, owner) /\ UpdatesInPlace(row, owner) =>
              Applied(row, at, owner) = InPlace(row, owner)
         /\ ~Opens(row, at, owner) /\ ~UpdatesInPlace(row, owner) =>
              Applied(row, at, owner) = row
  BY DEF Applied

LEMMA OpensIsNewer ==
  ASSUME NEW row \in Job, NEW at, NEW owner, owner.gen \in Nat,
         row.status = "none" => row.gen = 0, Opens(row, at, owner)
  PROVE  /\ owner.gen >= row.gen
         /\ row.status = "sent" => at # row.at
  BY DEF Opens, Reopens, OlderGeneration, ScheduleChanged, Job

LEMMA UpsertIInv ==
  ASSUME IInv, NEW y \in Syncs, UpsertPendingJobs(y)
  PROVE  IInv' /\ Advances
  <1>1. sync' \in [Syncs -> Reading]
    BY GoOnType, ZenonT(30) DEF UpsertPendingJobs
  <1>2. /\ sync[y].gen \in Nat /\ sync[y].user \in Users \cup {NoUser}
        /\ \A s \in Sessions : sync[y].planned[s] \in Nat
    BY DEF IInv, Types, Reading
  <1>3. ASSUME NEW s \in Sessions
        PROVE  /\ jobs'[s] \in Job
               /\ told'[s] \in Nat /\ (told'[s] = 0 \/ told'[s] = told[s])
               /\ RowKept(s) \/ (RowClosed(s) /\ ~RowLocked(s))
    <2>. DEFINE at == sync[y].planned[s]
                owner == sync[y]
    <2>0. /\ jobs'[s] = IF at = 0 THEN jobs[s] ELSE Applied(jobs[s], at, owner)
          /\ told'[s] = IF at # 0 /\ Opens(jobs[s], at, owner) THEN 0 ELSE told[s]
          /\ at # 0 => ~RowLocked(s)
      BY ZenonT(30) DEF UpsertPendingJobs
    <2>1. jobs[s] \in Job /\ told[s] \in Nat /\ at \in Nat /\ owner.gen \in Nat
          /\ owner.user \in Users \cup {NoUser}
      BY <1>2, ZenonT(30) DEF IInv, Types
    <2>. HIDE DEF at, owner
    <2>2. CASE at = 0
      <3>1. jobs'[s] = jobs[s] /\ told'[s] = told[s]
        BY <2>0, <2>2, ZenonT(30)
      <3>. QED BY <2>1, <3>1, ZenonT(30) DEF RowKept
    <2>3. CASE at # 0 /\ Opens(jobs[s], at, owner)
      <3>1. jobs'[s] = Fresh(at, owner) /\ told'[s] = 0
        <4>1. Applied(jobs[s], at, owner) = Fresh(at, owner)
          BY <2>3, AppliedRow
        <4>. QED BY <2>0, <2>3, <4>1
      <3>2. jobs'[s] \in Job /\ jobs'[s].token = 0 /\ jobs'[s].status = "pending"
            /\ jobs'[s].gen = owner.gen /\ jobs'[s].at = at
        <4>1. /\ Fresh(at, owner) \in Job /\ Fresh(at, owner).token = 0
              /\ Fresh(at, owner).status = "pending" /\ Fresh(at, owner).gen = owner.gen
              /\ Fresh(at, owner).at = at
          BY <2>1, FreshRow
        <4>. QED BY <3>1, <4>1, ZenonT(30)
      <3>3. /\ owner.gen >= jobs[s].gen
            /\ jobs[s].status = "sent" => at # jobs[s].at
        <4>1. jobs[s].status = "none" => jobs[s].gen = 0
          BY ZenonT(30) DEF IInv, RowTokens
        <4>. QED BY <2>1, <2>3, <4>1, OpensIsNewer, ZenonT(30)
      <3>4. RowAdvances(s)
        BY <3>2, <3>3, ZenonT(30) DEF RowAdvances
      <3>5. RowClosed(s)
        BY <3>1, <3>2, <3>4, ZenonT(30) DEF RowClosed
      <3>6. told'[s] \in Nat
        BY <3>1, ZeroIsNat, ZenonT(30)
      <3>. QED BY <2>0, <2>3, <3>1, <3>2, <3>5, <3>6, ZenonT(30)
    <2>4. CASE at # 0 /\ ~Opens(jobs[s], at, owner) /\ UpdatesInPlace(jobs[s], owner)
      <3>1. jobs'[s] = InPlace(jobs[s], owner) /\ told'[s] = told[s]
        BY <2>0, <2>4, AppliedRow, ZenonT(30)
      <3>2. owner.gen >= jobs[s].gen /\ jobs[s].status \in {"pending", "failed"}
        BY <2>1, <2>4, InPlaceIsNewer, ZenonT(30)
      <3>3. /\ jobs'[s] \in Job /\ jobs'[s].token = jobs[s].token
            /\ jobs'[s].status \in {"pending", "failed"}
            /\ jobs'[s].gen >= jobs[s].gen /\ jobs'[s].outcome = jobs[s].outcome
        <4>. DEFINE new == InPlace(jobs[s], owner)
        <4>1. /\ new \in Job /\ new.token = jobs[s].token
              /\ new.status \in {"pending", "failed"}
              /\ new.gen >= jobs[s].gen /\ new.outcome = jobs[s].outcome
          BY <2>1, <3>2, InPlaceRow
        <4>. QED BY <3>1, <4>1, ZenonT(30)
      <3>4. jobs[s].token = 0
        <4>1. jobs[s].status # "processing"
          BY <3>2, ZenonT(30)
        <4>. QED BY <4>1, ZenonT(30) DEF IInv, RowTokens
      <3>5. told'[s] # 0 => Closed(s)'
        <4>1. told[s] # 0 => jobs[s].outcome \in {"sent", "ambiguous"}
          BY <3>2, ZenonT(30) DEF IInv, ToldIsClosed, Closed
        <4>. QED BY <3>1, <3>3, <4>1, ZenonT(30) DEF Closed
      <3>6. jobs'[s].status \notin {"none", "processing"} /\ jobs[s].status # "sent"
        BY <3>2, <3>3, ZenonT(30)
      <3>7. RowAdvances(s)
        BY <3>3, <3>6, ZenonT(30) DEF RowAdvances
      <3>8. RowClosed(s)
        BY <3>3, <3>4, <3>5, <3>6, <3>7, ZenonT(30) DEF RowClosed
      <3>. QED BY <2>0, <2>1, <2>4, <3>1, <3>3, <3>8, ZenonT(30)
    <2>5. CASE at # 0 /\ ~Opens(jobs[s], at, owner) /\ ~UpdatesInPlace(jobs[s], owner)
      <3>1. jobs'[s] = jobs[s] /\ told'[s] = told[s]
        BY <2>0, <2>5, AppliedRow, ZenonT(30)
      <3>. QED BY <2>1, <3>1, ZenonT(30) DEF RowKept
    <2>. QED BY <2>2, <2>3, <2>4, <2>5, ZenonT(30)
  <1>4. jobs' \in [Sessions -> Job] /\ told' \in [Sessions -> Nat]
    BY <1>3 DEF UpsertPendingJobs
  <1>5. Types'
    BY <1>1, <1>4 DEF UpsertPendingJobs, IInv, Types, outside
  <1>. QED BY <1>3, <1>5, RowsStep DEF UpsertPendingJobs, outside

LEMMA NobodyLocks ==
  ASSUME ~SendInProgress, NEW s \in Sessions
  PROVE  ~RowLocked(s)
  BY DEF SendInProgress, RowLocked

LEMMA CancellableRows ==
  ASSUME IInv, NEW s \in Sessions, s \in InStatus(Cancellable)
  PROVE  jobs[s].status # "sent"
  BY SMTT(30) DEF InStatus, Cancellable

LEMMA RelinkIInv == ASSUME IInv, Relink PROVE IInv' /\ Advances
  <1>. DEFINE S == {s \in InStatus(Cancellable) : jobs[s].gen < NextGeneration}
  <1>1. /\ jobs' \in [Sessions -> Job]
        /\ \A s \in Sessions : jobs'[s] = jobs[s] \/ (s \in S /\ Withdrawn(s))
    <2>1. CancelJobs(S) /\ \A s \in Sessions : s \in S => jobs[s].status # "sent"
      BY CancellableRows DEF Relink
    <2>. HIDE DEF S
    <2>. QED BY <2>1, CancelJobsRows
  <1>2. link' \in Mapping
    <2>1. PICK u \in Users : link' = [link EXCEPT !.state = "active", !.user = u,
                                                 !.gen = NextGeneration]
      BY ZenonT(30) DEF Relink
    <2>2. NextGeneration \in Nat
      BY DEF NextGeneration, IInv, Types, Mapping
    <2>. QED BY <2>1, <2>2, ZenonT(30) DEF IInv, Types, Mapping
  <1>3. ~SendInProgress
    BY DEF Relink, LinkEvent
  <1>. QED BY <1>1, <1>2, <1>3, NobodyLocks, BulkStep, SMTT(30) DEF Relink, LinkFrame, IInv, Types

LEMMA RaiseType ==
  ASSUME IInv, NEW state \in {"confirmed-revoked", "locally-unlinked"}, Raise(state)
  PROVE  link' \in Mapping /\ ~SendInProgress
  <1>1. link.gen + 1 \in Nat
    BY DEF IInv, Types, Mapping
  <1>. QED BY <1>1, ZenonT(30) DEF Raise, LinkEvent, IInv, Types, Mapping

LEMMA DisplaceIInv == ASSUME IInv, Displace \/ Deactivate PROVE IInv' /\ Advances
  <1>1. /\ jobs' \in [Sessions -> Job]
        /\ \A s \in Sessions :
             jobs'[s] = jobs[s] \/ (s \in InStatus(Cancellable) /\ Withdrawn(s))
    BY CancellableRows, CancelJobsRows, ZenonT(30) DEF Displace, Deactivate
  <1>2. link' \in Mapping /\ ~SendInProgress
    <2>1. CASE Displace
      BY <2>1 DEF Displace, LinkEvent, IInv, Types, Mapping
    <2>2. CASE Deactivate
      BY <2>2, RaiseType DEF Deactivate
    <2>. QED BY <2>1, <2>2
  <1>. QED BY <1>1, <1>2, NobodyLocks, BulkStep, SMTT(30)
           DEF Displace, Deactivate, LinkFrame, IInv, Types

LEMMA SuspendIInv == ASSUME IInv, Revoke \/ Unlink PROVE IInv' /\ Advances
  <1>1. /\ jobs' \in [Sessions -> Job]
        /\ \A s \in Sessions :
             jobs'[s] = jobs[s] \/ (s \in InStatus(Cancellable) /\ Withdrawn(s))
    BY CancellableRows, SuspendJobsRows DEF Revoke, Unlink
  <1>2. link' \in Mapping /\ ~SendInProgress
    <2>1. CASE Revoke
      BY <2>1, RaiseType DEF Revoke
    <2>2. CASE Unlink
      <3>1. link \in Mapping /\ link.gen + 1 \in Nat
            /\ (IF link.tomb = 0 THEN 1 ELSE link.tomb) \in Nat
        BY DEF IInv, Types, Mapping
      <3>. QED BY <2>2, <3>1, ZenonT(30) DEF Unlink, LinkEvent, Mapping
    <2>. QED BY <2>1, <2>2
  <1>. QED BY <1>1, <1>2, NobodyLocks, BulkStep, SMTT(30) DEF Revoke, Unlink, LinkFrame, IInv, Types

LEMMA DeleteIInv == ASSUME IInv, Delete PROVE IInv' /\ Advances
  <1>. DEFINE mine(s) == jobs[s].user = link.user
  <1>1. jobs' = [s \in Sessions |->
                   CASE mine(s) -> NoJob
                     [] ~mine(s) /\ jobs[s].status \in Cancellable -> Suspended(jobs[s])
                     [] OTHER -> jobs[s]]
    BY ZenonT(30) DEF Delete
  <1>2. ASSUME NEW s \in Sessions
        PROVE  jobs'[s] \in Job /\ (jobs'[s] = jobs[s] \/ Withdrawn(s))
    <2>1. jobs[s] \in Job /\ Suspended(jobs[s]) \in Job
      BY SuspendedRow DEF IInv, Types
    <2>. HIDE DEF mine
    <2>2. CASE mine(s)
      BY <1>1, <2>2, IdleWorkerType, ZenonT(30) DEF Withdrawn
    <2>3. CASE ~mine(s) /\ jobs[s].status \in Cancellable
      <3>1. jobs'[s] = Suspended(jobs[s])
        BY <1>1, <2>3
      <3>. QED BY <2>1, <2>3, <3>1 DEF Withdrawn, Cancellable
    <2>4. CASE ~mine(s) /\ jobs[s].status \notin Cancellable
      BY <1>1, <2>1, <2>4
    <2>. QED BY <2>2, <2>3, <2>4, SMTT(30)
  <1>3. jobs' \in [Sessions -> Job]
    BY <1>1, <1>2
  <1>4. link' \in Mapping /\ ~SendInProgress
    BY ZenonT(30) DEF Delete, LinkEvent, IInv, Types, Mapping
  <1>5. \E S : Unlist(S)
    BY DEF Delete
  <1>. QED BY <1>2, <1>3, <1>4, <1>5, NobodyLocks, BulkStep, SMTT(30) DEF Delete, IInv, Types

LEMMA DeleteUnmappedIInv == ASSUME IInv, DeleteUnmapped PROVE IInv' /\ Advances
  <1>1. /\ jobs' \in [Sessions -> Job]
        /\ \A s \in Sessions : jobs'[s] = jobs[s] \/ Withdrawn(s)
    BY DeleteJobsRows DEF DeleteUnmapped
  <1>2. ~SendInProgress /\ \E S : Unlist(S)
    BY DEF DeleteUnmapped, LinkEvent, DeleteJobs
  <1>. QED BY <1>1, <1>2, NobodyLocks, BulkStep DEF DeleteUnmapped, outside, IInv, Types

LEMMA ObserveIInv == ASSUME IInv, Observe PROVE IInv' /\ Advances
  <1>1. link' \in Mapping /\ ~SendInProgress
    BY SMTT(30) DEF Observe, LinkEvent, IInv, Types, Mapping
  <1>. QED BY <1>1, BulkStep DEF Observe, IInv, Types

\* The one writer of the mapping's state that does not wait for a send.
LEMMA PurgeAuditIInv == ASSUME IInv, PurgeAudit PROVE IInv' /\ Advances
  <1>1. /\ link' = [link EXCEPT !.tomb = 0]
        /\ UNCHANGED <<calendar, jobs, worker, sync, now, claims, told>>
    BY DEF PurgeAudit, LinkFrame
  <1>2. link' \in Mapping /\ link'.state = link.state
        /\ link'.gen = link.gen /\ link'.user = link.user
    BY <1>1 DEF IInv, Types, Mapping
  <1>3. Types' /\ RowTokens' /\ WorkerTokens' /\ OneSender'
    BY <1>1, <1>2, ZenonT(30) DEF IInv, Types, RowTokens, WorkerTokens, OneSender, At, Token
  <1>4. SendIsOwned'
    BY <1>1, <1>2 DEF IInv, SendIsOwned, At, Row, Token
  <1>5. ToldIsClosed' /\ HolderKnows'
    BY <1>1 DEF IInv, ToldIsClosed, Closed, HolderKnows, At, Row, Token
  <1>6. Advances
    BY <1>1 DEF Advances, RowAdvances, IInv, Types, Job
  <1>. QED BY <1>3, <1>4, <1>5, <1>6 DEF IInv

LEMMA CancelAllIInv ==
  ASSUME IInv, CancelPending \/ CancelFromOtherPlatform
  PROVE  IInv' /\ Advances
  <1>1. /\ jobs' \in [Sessions -> Job]
        /\ \A s \in Sessions :
             jobs'[s] = jobs[s] \/ (s \in InStatus(Cancellable) /\ Withdrawn(s))
    BY CancellableRows, CancelJobsRows, ZenonT(30) DEF CancelPending, CancelFromOtherPlatform
  <1>2. \A s \in Sessions : ~RowLocked(s)
    BY SMTT(30) DEF CancelPending, CancelFromOtherPlatform
  <1>3. UNCHANGED <<calendar, link, sync, now, claims, told, worker>>
    BY DEF CancelPending, CancelFromOtherPlatform
  <1>4. /\ calendar' \in [Sessions -> Nat] /\ now' \in Nat
        /\ link' \in Mapping /\ sync' \in [Syncs -> Reading]
    BY <1>3 DEF IInv, Types
  <1>5. \A s \in Sessions : jobs'[s] = jobs[s] \/ Withdrawn(s)
    BY <1>1, ZenonT(30)
  <1>. QED BY <1>1, <1>2, <1>3, <1>4, <1>5, BulkStep, ZenonT(30)

LEMMA ElsewhereIInv ==
  ASSUME IInv, OptOut \/ CancelPendingFails \/ OptIn \/ MoveCanonical \/ PlanSession
  PROVE  IInv' /\ Advances
  <1>1. calendar' \in [Sessions -> Nat]
    <2>1. CASE PlanSession
      <3>1. PICK s \in Sessions, t \in Times \cup {0} : calendar' = [calendar EXCEPT ![s] = t]
        BY <2>1, ZenonT(30) DEF PlanSession
      <3>2. t \in Nat
        BY ReminderAssumption
      <3>. QED BY <3>1, <3>2 DEF IInv, Types
    <2>. QED BY <2>1 DEF OptOut, CancelPendingFails, OptIn, MoveCanonical, IInv, Types
  <1>2. UNCHANGED <<link, jobs, worker, sync, now, claims, told>>
    BY ZenonT(30) DEF OptOut, CancelPendingFails, OptIn, MoveCanonical, PlanSession
  <1>3. /\ now' \in Nat /\ link' \in Mapping /\ sync' \in [Syncs -> Reading]
        /\ jobs' \in [Sessions -> Job]
    BY <1>2, ZenonT(30) DEF IInv, Types
  <1>4. \A s \in Sessions : jobs'[s] = jobs[s]
    BY <1>2, ZenonT(30)
  <1>. QED BY <1>1, <1>2, <1>3, <1>4, BulkStep, ZenonT(30)

LEMMA TickIInv == ASSUME IInv, Tick PROVE IInv' /\ Advances
  <1>1. ASSUME NEW s \in Sessions PROVE jobs'[s] \in Job /\ RowKept(s)
    <2>1. jobs[s] \in Job
      BY DEF IInv, Types
    <2>2. Less(jobs[s].lease) \in Nat /\ Less(jobs[s].wait) \in Nat
      BY <2>1, SMTT(30) DEF Job, Less
    <2>3. jobs'[s] = [jobs[s] EXCEPT !.lease = Less(jobs[s].lease),
                                     !.wait = Less(jobs[s].wait)]
      BY ZenonT(30) DEF Tick
    <2>. HIDE DEF Less
    <2>. QED BY <2>1, <2>2, <2>3, ZenonT(30) DEF Job, RowKept
  <1>2. jobs' \in [Sessions -> Job]
    BY <1>1, ZenonT(30) DEF Tick
  <1>3. Types'
    <2>1. now' \in Nat
      <3>1. now' = now + 1 \/ now' = now
        BY Zenon DEF Tick
      <3>2. now \in Nat
        BY DEF IInv, Types
      <3>. QED BY <3>1, <3>2
    <2>. QED BY <1>2, <2>1, ZenonT(30) DEF Tick, IInv, Types, outside
  <1>. QED BY <1>1, <1>3, RowsStep, ZenonT(30) DEF Tick, outside

-----------------------------------------------------------------------------
LEMMA NextIInv == ASSUME IInv, [Next]_vars PROVE IInv' /\ Advances
  <1>1. ASSUME NEW w \in Workers, WorkerStep(w) \/ WorkerFault(w)
        PROVE  IInv' /\ Advances
    BY <1>1, DispatchDueIInv, ClaimJobIInv, CheckIInv, FenceIInv, LockTimesOutIInv,
       SendIInv, MarkSentIInv, MarkFailedIInv, MarkCancelledIInv, StepThrowsIInv,
       AbandonIInv, ZenonT(30)
       DEF WorkerStep, WorkerFault
  <1>2. ASSUME NEW y \in Syncs, SyncStep(y) \/ Rollover(y) \/ SyncFails(y)
        PROVE  IInv' /\ Advances
    BY <1>2, StartSyncIInv, ResolveCanonicalIInv, GetSessionsIInv, UpsertIInv,
       CancelStaleIInv, RolloverIInv, SyncFailsIInv, ZenonT(30)
       DEF SyncStep
  <1>3. CASE UNCHANGED vars
    BY <1>3, BulkStep DEF vars, IInv, Types
  <1>. QED BY <1>1, <1>2, <1>3, RelinkIInv, DisplaceIInv, SuspendIInv, ObserveIInv,
              DeleteIInv, DeleteUnmappedIInv, PurgeAuditIInv,
              CancelAllIInv, ElsewhereIInv, CleanupIInv, TickIInv, ZenonT(30)
           DEF Next

LEMMA Invariant == Spec => []IInv
  <1>1. Init => IInv
    BY InitIInv
  <1>2. IInv /\ [Next]_vars => IInv'
    BY NextIInv
  <1>. QED BY <1>1, <1>2, PTL DEF Spec

\* Between two openings of a job row at most one reminder may have reached
\* the learner, for any number of dispatch workers, syncs, crashes, failed
\* commits and expired leases (claimJob, markFailed, resetStuckProcessingJobs).
THEOREM RemindedOnceTheorem == Spec => []RemindedOnce
  <1>1. IInv => RemindedOnce
    <2>. SUFFICES ASSUME IInv, NEW s \in Sessions PROVE told[s] <= 1
      BY ZenonT(30) DEF RemindedOnce
    <2>1. told[s] = 0 \/ told[s] = 1
      BY DEF IInv, ToldIsClosed
    <2>. QED BY <2>1
  <1>. QED BY <1>1, Invariant, PTL

\* While the provider is called the mapping, its user, its generation and the row's
\* lease are the caller's (withOwnedDelivery and the writers that wait for it).
THEOREM SendIsOwnedTheorem == Spec => []SendIsOwned
  <1>1. IInv => SendIsOwned
    BY DEF IInv
  <1>. QED BY <1>1, Invariant, PTL

\* No sync, however old its snapshot, takes a row back to an earlier
\* generation of the mapping (applyExisting).
THEOREM GenerationTheorem == Spec => GenerationGrows
  <1>1. IInv /\ [Next]_vars =>
          [\A s \in Sessions : jobs'[s].status # "none" => jobs'[s].gen >= jobs[s].gen]_vars
    BY NextIInv DEF Advances, RowAdvances
  <1>. QED BY <1>1, Invariant, PTL DEF Spec, GenerationGrows

\* A row that was sent is deleted, or opened again for another time of its
\* session, and never anything else (markFailed, markCancelled, the bulk
\* updates and applyExisting).
THEOREM SentTheorem == Spec => SentStaysSent
  <1>1. IInv /\ [Next]_vars =>
          [\A s \in Sessions : jobs[s].status = "sent" =>
             \/ jobs'[s].status \in {"sent", "none"}
             \/ jobs'[s].status = "pending" /\ jobs'[s].at # jobs[s].at]_vars
    BY NextIInv DEF Advances, RowAdvances
  <1>. QED BY <1>1, Invariant, PTL DEF Spec, SentStaysSent
=============================================================================
