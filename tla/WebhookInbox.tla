---------------------------- MODULE WebhookInbox ----------------------------
(***************************************************************************)
(* The durable inbox for webhook events (packages/webhook-inbound and the  *)
(* ingestion services of the Messenger and Zalo bots).  An event is stored *)
(* before it is acknowledged; the pod that stored it tries it at once      *)
(* ("inline"), and a cron, one batch at a time over all pods, retries what *)
(* is due.  A worker claims the row with a fresh lease token, runs the     *)
(* handler and writes the outcome under that token.                        *)
(*                                                                         *)
(* A lease token is the number of the claim, 0 before the first.  Times    *)
(* are countdowns and ages in ticks.  Every database call is one step and  *)
(* may fail, with its effect applied or not; a pod may crash at any time.  *)
(***************************************************************************)
EXTENDS Integers, Sequences, FiniteSets

CONSTANTS
  Events,             \* event ids of one platform
  Pods,               \* processes of the bot
  NoPod,              \* nobody holds the advisory lock of the cron
  MaxRetries,         \* WEBHOOK_INBOUND_MAX_RETRIES
  BaseRetry,          \* WEBHOOK_INBOUND_BASE_RETRY_MS
  CapRetry,           \* WEBHOOK_INBOUND_CAP_RETRY_MS
  ProcessingStuck,    \* WEBHOOK_INBOUND_PROCESSING_STUCK_MS
  Retention,          \* WEBHOOK_INBOUND_RETENTION_DAYS
  RedeliveryWindow,   \* how long the platform may deliver an event again
  RetryLimit,         \* WEBHOOK_INBOUND_RETRY_LIMIT
  RetryConcurrency,   \* WEBHOOK_INBOUND_RETRY_CONCURRENCY
  InlineConcurrency,  \* options.concurrency of the inline dispatcher
  MaxFaults           \* bound: crashes and failed database calls

ASSUME InboxAssumption ==
  /\ NoPod \notin Pods
  /\ {MaxRetries, BaseRetry, CapRetry, ProcessingStuck, RetryLimit,
      RetryConcurrency, InlineConcurrency} \subseteq Nat \ {0}
  /\ {Retention, RedeliveryWindow, MaxFaults} \subseteq Nat
  /\ RedeliveryWindow < Retention

VARIABLES
  rows,       \* table webhook_inbound_events, by event id
  nextId,     \* its id sequence
  age,        \* ticks since created_at
  work,       \* the inline and the cron worker of each event
  cronPod,    \* holder of the advisory lock of the retry cron
  running,    \* InlineWebhookInboundDispatcher.running, per pod
  queue,      \* InlineWebhookInboundDispatcher.queue, per pod
  acked,      \* events the endpoint has answered with 2xx
  claims,     \* history: claims of the event so far
  successes,  \* history: handler runs that returned without an error
  faults      \* faults so far

vars == <<rows, nextId, age, work, cronPod, running, queue, acked, claims,
          successes, faults>>

Workers == {"inline", "cron"} \X Events
Kind(w) == w[1]
Event(w) == w[2]

Terminal == {"completed", "abandoned"}
NoRow == [status |-> "none", retryCount |-> 0, wait |-> 0, stale |-> 0,
          token |-> 0, id |-> 0]
Idle == [pc |-> "idle", token |-> 0, pod |-> NoPod]

\* Between its claim and its last write to the row.
Holding == {"processing", "succeeded", "failing", "completionFailed"}

Init ==
  /\ rows = [e \in Events |-> NoRow]
  /\ nextId = 1
  /\ age = [e \in Events |-> 0]
  /\ work = [w \in Workers |-> Idle]
  /\ cronPod = NoPod
  /\ running = [p \in Pods |-> 0]
  /\ queue = [p \in Pods |-> <<>>]
  /\ acked = {}
  /\ claims = [e \in Events |-> 0]
  /\ successes = [e \in Events |-> 0]
  /\ faults = 0

Fault == faults < MaxFaults /\ faults' = faults + 1

Lesser(a, b) == IF a < b THEN a ELSE b

\* An UPDATE also sets updated_at.
Update(e, row) == rows' = [rows EXCEPT ![e] = [row EXCEPT !.stale = 0]]
-----------------------------------------------------------------------------
(* Ingestion.                                                              *)

\* The platform still delivers the event.
Delivers(e) == age[e] <= RedeliveryWindow

\* ingest() inserts the row; the unique index keeps a stored event.
Insert(e) ==
  /\ rows[e].status = "none"
  /\ rows' = [rows EXCEPT ![e] = [NoRow EXCEPT !.status = "pending", !.id = nextId]]
  /\ nextId' = nextId + 1
  /\ age' = [age EXCEPT ![e] = 0]

\* tryInline() up to the claim: acquire() gives a slot or a place in the queue.
Acquire(e, p) ==
  \/ /\ running[p] < InlineConcurrency
     /\ running' = [running EXCEPT ![p] = @ + 1]
     /\ work' = [work EXCEPT ![<<"inline", e>>] =
                   [pc |-> "claiming", token |-> 0, pod |-> p]]
     /\ UNCHANGED queue
  \/ /\ running[p] >= InlineConcurrency
     /\ queue' = [queue EXCEPT ![p] = Append(@, e)]
     /\ work' = [work EXCEPT ![<<"inline", e>>] =
                   [pc |-> "queued", token |-> 0, pod |-> p]]
     /\ UNCHANGED running

\* A first delivery is stored, dispatched inline and acknowledged.
Ingest(e, p) ==
  /\ Delivers(e)
  /\ work[<<"inline", e>>] = Idle
  /\ Insert(e)
  /\ Acquire(e, p)
  /\ acked' = acked \cup {e}
  /\ UNCHANGED <<cronPod, claims, successes, faults>>

\* A duplicate delivery is acknowledged and otherwise ignored.
IngestDuplicate(e) ==
  /\ Delivers(e)
  /\ rows[e].status # "none"
  /\ acked' = acked \cup {e}
  /\ UNCHANGED <<rows, nextId, age, work, cronPod, running, queue, claims,
                 successes, faults>>

\* The row is stored, but the endpoint answers with an error or the pod dies
\* before the inline dispatch.
IngestUnacknowledged(e) ==
  /\ Delivers(e)
  /\ Fault
  /\ Insert(e)
  /\ UNCHANGED <<work, cronPod, running, queue, acked, claims, successes>>
-----------------------------------------------------------------------------
(* The end of a worker.                                                    *)

\* Faulty variant: a slot that is given back wakes nobody.
ReleaseSilently(e, p) ==
  /\ running' = [running EXCEPT ![p] = @ - 1]
  /\ work' = [work EXCEPT ![<<"inline", e>>] = Idle]
  /\ UNCHANGED queue

\* release(): the slot goes to the head of the queue.
Release(e, p) ==
  \/ /\ queue[p] = <<>>
     /\ running' = [running EXCEPT ![p] = @ - 1]
     /\ work' = [work EXCEPT ![<<"inline", e>>] = Idle]
     /\ UNCHANGED queue
  \/ /\ queue[p] # <<>>
     /\ work' = [work EXCEPT ![<<"inline", e>>] = Idle,
                             ![<<"inline", Head(queue[p])>>].pc = "claiming"]
     /\ queue' = [queue EXCEPT ![p] = Tail(@)]
     /\ UNCHANGED running

Finish(w) ==
  \/ /\ Kind(w) = "inline"
     /\ Release(Event(w), work[w].pod)
  \/ /\ Kind(w) = "cron"
     /\ work' = [work EXCEPT ![w] = Idle]
     /\ UNCHANGED <<running, queue>>

At(w, pc) == work[w].pc = pc
-----------------------------------------------------------------------------
(* A worker and its row.                                                   *)

\* Faulty variant: the claim takes a row that somebody is processing.
ClaimableUnlessTerminal(e) == rows[e].status \in {"pending", "failed", "processing"}

Claimable(e) == rows[e].status \in {"pending", "failed"}

TakeRow(e) ==
  /\ claims' = [claims EXCEPT ![e] = @ + 1]
  /\ Update(e, [rows[e] EXCEPT !.status = "processing", !.token = claims[e] + 1])

\* claim() by a worker that has its slot.
Claim(w) ==
  LET e == Event(w)
  IN  /\ At(w, "claiming")
      /\ \/ /\ Claimable(e)
            /\ TakeRow(e)
            /\ work' = [work EXCEPT ![w].pc = "processing", ![w].token = claims[e] + 1]
            /\ UNCHANGED <<running, queue>>
         \/ /\ ~Claimable(e)
            /\ Finish(w)
            /\ UNCHANGED <<rows, claims>>
      /\ UNCHANGED <<nextId, age, cronPod, acked, successes, faults>>

\* claim() throws, with the row claimed or not; the worker gives up.
ClaimThrows(w) ==
  /\ At(w, "claiming")
  /\ Fault
  /\ \/ Claimable(Event(w)) /\ TakeRow(Event(w))
     \/ UNCHANGED <<rows, claims>>
  /\ Finish(w)
  /\ UNCHANGED <<nextId, age, cronPod, acked, successes>>

\* processEvent() returns or throws.
HandlerEnds(w) ==
  /\ At(w, "processing")
  /\ \/ /\ work' = [work EXCEPT ![w].pc = "succeeded"]
        /\ successes' = [successes EXCEPT ![Event(w)] = @ + 1]
     \/ /\ work' = [work EXCEPT ![w].pc = "failing"]
        /\ UNCHANGED successes
  /\ UNCHANGED <<rows, nextId, age, cronPod, running, queue, acked, claims, faults>>

\* Faulty variant: a write to the row does not ask for the lease token.
OwnedByAnyone(w) == TRUE

\* The WHERE clause of updateOwnedProcessing().
Owned(w) ==
  /\ rows[Event(w)].token = work[w].token
  /\ rows[Event(w)].status = "processing"

\* A write that has an effect only under the caller's lease.
OwnedUpdate(w, row) ==
  \/ Owned(w) /\ Update(Event(w), row)
  \/ ~Owned(w) /\ UNCHANGED rows

\* Faulty variant: the exponent counts from one and the backoff has no cap.
NominalDelayUncapped(n) == BaseRetry * 2^n

\* The nominal delay before retry n, min(base * 2^(n-1), cap).
NominalDelay(n) == Lesser(BaseRetry * 2^(n - 1), CapRetry)

\* jitteredDelayMs: between half and all of the nominal delay.
Delays(n) == ((NominalDelay(n) + 1) \div 2) .. NominalDelay(n)

\* Faulty variant: the last retry is granted once too often.
ExhaustedLate(n) == n > MaxRetries

Exhausted(n) == n >= MaxRetries

\* markFailed().
MarkFailed(w) ==
  LET row == rows[Event(w)]
      n   == row.retryCount + 1
  IN  /\ At(w, "failing")
      /\ \/ /\ Exhausted(n)
            /\ OwnedUpdate(w, [row EXCEPT !.status = "abandoned",
                                          !.retryCount = n, !.wait = 0])
         \/ /\ ~Exhausted(n)
            /\ \E d \in Delays(n) :
                 OwnedUpdate(w, [row EXCEPT !.status = "failed",
                                            !.retryCount = n, !.wait = d])
      /\ Finish(w)
      /\ UNCHANGED <<nextId, age, cronPod, acked, claims, successes, faults>>

\* markCompleted().
MarkCompleted(w) ==
  /\ At(w, "succeeded")
  /\ OwnedUpdate(w, [rows[Event(w)] EXCEPT !.status = "completed", !.wait = 0])
  /\ Finish(w)
  /\ UNCHANGED <<nextId, age, cronPod, acked, claims, successes, faults>>

\* markCompleted() throws, applied or not.
MarkCompletedThrows(w) ==
  /\ At(w, "succeeded")
  /\ Fault
  /\ \/ OwnedUpdate(w, [rows[Event(w)] EXCEPT !.status = "completed", !.wait = 0])
     \/ UNCHANGED rows
  /\ work' = [work EXCEPT ![w].pc = "completionFailed"]
  /\ UNCHANGED <<nextId, age, cronPod, running, queue, acked, claims, successes>>

\* Faulty variant: a completion write that threw is treated as a failed handler.
MarkCompletionFailed(w) ==
  /\ At(w, "completionFailed")
  /\ OwnedUpdate(w, [rows[Event(w)] EXCEPT !.status = "failed", !.wait = 0])
  /\ Finish(w)
  /\ UNCHANGED <<nextId, age, cronPod, acked, claims, successes, faults>>

\* markProcessingAbandoned() after a completion write that threw.
MarkProcessingAbandoned(w) ==
  /\ At(w, "completionFailed")
  /\ OwnedUpdate(w, [rows[Event(w)] EXCEPT !.status = "abandoned", !.wait = 0])
  /\ Finish(w)
  /\ UNCHANGED <<nextId, age, cronPod, acked, claims, successes, faults>>

\* markFailed(), markProcessingAbandoned() or abandonStaleProcessing() throws
\* and changes nothing; the worker ends.
LastWriteThrows(w) ==
  /\ work[w].pc \in {"failing", "completionFailed", "abandoning"}
  /\ Fault
  /\ Finish(w)
  /\ UNCHANGED <<rows, nextId, age, cronPod, acked, claims, successes>>
-----------------------------------------------------------------------------
(* The retry cron.                                                         *)

\* Faulty variant: a stale lease is never listed.
DueUnclaimed(e) == rows[e].status \in {"pending", "failed"} /\ rows[e].wait = 0

\* The predicate of listDue().
Due(e) ==
  \/ rows[e].status \in {"pending", "failed"} /\ rows[e].wait = 0
  \/ rows[e].status = "processing" /\ rows[e].stale >= ProcessingStuck

\* The first n members of a set of stored events by row id.
FirstById(S, n) ==
  {e \in S : Cardinality({f \in S : rows[f].id < rows[e].id}) < n}

\* One tick of the cron: take the advisory lock and read the due rows.  A row
\* listed as processing keeps its token, since its lease is abandoned only if
\* it has not been written since.
HandleRetry(p) ==
  LET due == {e \in Events : Due(e)}
      listed == FirstById(due, RetryLimit)
  IN  /\ cronPod = NoPod
      /\ due # {}
      /\ cronPod' = p
      /\ work' = [w \in Workers |->
                    IF Kind(w) = "cron" /\ Event(w) \in listed
                    THEN [pc |-> IF rows[Event(w)].status = "processing"
                                 THEN "listedStale" ELSE "listed",
                          token |-> rows[Event(w)].token, pod |-> p]
                    ELSE work[w]]
      /\ UNCHANGED <<rows, nextId, age, running, queue, acked, claims, successes, faults>>

CronAt(pcs) == {e \in Events : work[<<"cron", e>>].pc \in pcs}

\* runBatched(): the next RetryConcurrency rows start when the last ones ended.
StartBatch ==
  LET listed == CronAt({"listed", "listedStale"})
      batch  == FirstById(listed, RetryConcurrency)
  IN  /\ listed # {}
      /\ CronAt({"claiming", "abandoning"} \cup Holding) = {}
      /\ work' = [w \in Workers |->
                    IF Kind(w) = "cron" /\ Event(w) \in batch
                    THEN [work[w] EXCEPT !.pc = IF @ = "listed" THEN "claiming"
                                                                ELSE "abandoning"]
                    ELSE work[w]]
      /\ UNCHANGED <<rows, nextId, age, cronPod, running, queue, acked, claims,
                     successes, faults>>

\* abandonStaleProcessing().
AbandonStale(w) ==
  /\ At(w, "abandoning")
  /\ OwnedUpdate(w, [rows[Event(w)] EXCEPT !.status = "abandoned", !.wait = 0])
  /\ Finish(w)
  /\ UNCHANGED <<nextId, age, cronPod, acked, claims, successes, faults>>

\* The batch is over: the advisory lock is released.
EndRetry ==
  /\ cronPod # NoPod
  /\ \A e \in Events : work[<<"cron", e>>] = Idle
  /\ cronPod' = NoPod
  /\ UNCHANGED <<rows, nextId, age, work, running, queue, acked, claims, successes, faults>>
-----------------------------------------------------------------------------
(* Retention, crashes and time.                                            *)

Expired(e) == rows[e].status \in Terminal /\ age[e] >= Retention

\* deleteTerminalOlderThan() by the cleanup cron.  The id is kept to order what
\* a batch of the retry cron has already listed.
DeleteTerminal ==
  /\ \E e \in Events : Expired(e)
  /\ rows' = [e \in Events |-> IF Expired(e) THEN [NoRow EXCEPT !.id = rows[e].id]
                                            ELSE rows[e]]
  /\ UNCHANGED <<nextId, age, work, cronPod, running, queue, acked, claims,
                 successes, faults>>

\* A pod dies with its workers, its inline queue and its advisory lock.
Crash(p) ==
  /\ \E w \in Workers : work[w].pod = p
  /\ Fault
  /\ work' = [w \in Workers |-> IF work[w].pod = p THEN Idle ELSE work[w]]
  /\ cronPod' = IF cronPod = p THEN NoPod ELSE cronPod
  /\ running' = [running EXCEPT ![p] = 0]
  /\ queue' = [queue EXCEPT ![p] = <<>>]
  /\ UNCHANGED <<rows, nextId, age, acked, claims, successes>>

\* next_retry_at comes closer, updated_at and created_at grow old.
Tick ==
  /\ rows' = [e \in Events |->
                [rows[e] EXCEPT !.wait = IF @ > 0 THEN @ - 1 ELSE 0,
                                !.stale = IF rows[e].status = "processing"
                                          THEN Lesser(@ + 1, ProcessingStuck) ELSE 0]]
  /\ age' = [e \in Events |-> IF rows[e].status = "none" THEN age[e]
                              ELSE Lesser(age[e] + 1, Retention)]
  /\ <<rows, age>>' # <<rows, age>>
  /\ UNCHANGED <<nextId, work, cronPod, running, queue, acked, claims, successes, faults>>
-----------------------------------------------------------------------------
WorkerStep(w) ==
  \/ Claim(w) \/ HandlerEnds(w) \/ MarkFailed(w) \/ MarkCompleted(w)
  \/ MarkProcessingAbandoned(w) \/ AbandonStale(w)

Next ==
  \/ \E e \in Events, p \in Pods : Ingest(e, p)
  \/ \E e \in Events : IngestDuplicate(e) \/ IngestUnacknowledged(e)
  \/ \E w \in Workers : \/ WorkerStep(w)
                        \/ ClaimThrows(w) \/ MarkCompletedThrows(w) \/ LastWriteThrows(w)
  \/ \E p \in Pods : HandleRetry(p) \/ Crash(p)
  \/ StartBatch \/ EndRetry
  \/ DeleteTerminal \/ Tick

Spec == Init /\ [][Next]_vars

\* Handlers end, calls are answered, the cron runs every 30 seconds.
Fairness ==
  /\ \A w \in Workers : WF_vars(WorkerStep(w))
  /\ WF_vars(\E p \in Pods : HandleRetry(p))
  /\ WF_vars(StartBatch)
  /\ WF_vars(EndRetry)
  /\ WF_vars(Tick)

FairSpec == Spec /\ Fairness
-----------------------------------------------------------------------------
(* Properties.                                                             *)

Rows == [status : {"none", "pending", "processing", "failed"} \cup Terminal,
         retryCount : Nat, wait : 0..CapRetry,
         stale : 0..ProcessingStuck, token : Nat, id : Nat]

\* The type of the state; a backoff never exceeds WEBHOOK_INBOUND_CAP_RETRY_MS
\* (markFailed).
TypeOK ==
  /\ rows \in [Events -> Rows]
  /\ nextId \in Nat
  /\ age \in [Events -> 0..Retention]
  /\ work \in [Workers -> [pc : {"idle", "queued", "claiming", "listed", "listedStale",
                                 "abandoning"} \cup Holding,
                           token : Nat, pod : Pods \cup {NoPod}]]
  /\ cronPod \in Pods \cup {NoPod}
  /\ running \in [Pods -> Nat]
  /\ queue \in [Pods -> Seq(Events)]
  /\ acked \subseteq Events
  /\ claims \in [Events -> Nat]
  /\ successes \in [Events -> Nat]
  /\ faults \in 0..MaxFaults

\* "an event can never be processed by two workers at once" (claim): inline and
\* cron workers of all pods together, although a stale lease is abandoned while
\* its worker still runs, and retention may then delete the row.
OneWorker ==
  \A v, w \in Workers :
    Event(v) = Event(w) /\ work[v].pc \in Holding /\ work[w].pc \in Holding => v = w

\* The handler of an event succeeds at most once: a completion that is never
\* written, a crash or a duplicate delivery does not lead to another run.
SucceedsOnce == \A e \in Events : successes[e] <= 1

\* An event is claimed at most WEBHOOK_INBOUND_MAX_RETRIES times in all, whether
\* by the inline dispatcher, the cron, or a worker that died (claim, markFailed).
AttemptsBounded == \A e \in Events : claims[e] <= MaxRetries

\* The inline slots: never more workers than slots, a slot for every worker
\* that is not queued, and nobody queued while a slot is free (acquire, release).
SlotsConserved ==
  \A p \in Pods :
    /\ running[p] <= InlineConcurrency
    /\ running[p] = Cardinality({e \in Events :
                       /\ work[<<"inline", e>>].pod = p
                       /\ work[<<"inline", e>>].pc # "queued"})
    /\ queue[p] # <<>> => running[p] = InlineConcurrency

\* A completed or abandoned row changes only by being deleted, and a row that is
\* not terminal is never deleted: late workers and late cron steps have no effect.
TerminalIsFinal ==
  [][\A e \in Events :
       /\ rows[e].status \in Terminal =>
            rows'[e].status \in {rows[e].status, "none"}
       /\ rows'[e].status = "none" => rows[e].status \in Terminal \cup {"none"}]_vars

\* Every stored event ends completed or abandoned, whatever crashes on the way.
EveryEventSettles ==
  \A e \in Events : rows[e].status # "none" ~> rows[e].status \in Terminal
=============================================================================
