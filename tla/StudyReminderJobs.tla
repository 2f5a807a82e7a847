-------------------------- MODULE StudyReminderJobs --------------------------
(***************************************************************************)
(* The study reminder outbox (packages/study-reminder-shared).  A sync     *)
(* copies the learner's calendar into job rows, one per session; dispatch  *)
(* claims the due rows under a lease and sends one message for each, the   *)
(* mapping and the row locked while the provider is called; the link       *)
(* writers, the opt-out and the evening rollover cancel or delete rows     *)
(* under both.                                                             *)
(*                                                                         *)
(* One learner on one platform.  A lease token is the number of the claim, *)
(* 0 when there is none.  now is the time of day in ticks and stays at     *)
(* MaxTime; leases and retry waits are countdowns.  The owner of a mapping *)
(* or a row is a WISPACE user and a mapping generation: a change of owner  *)
(* raises the generation, but a mapping that was deleted starts again      *)
(* after its tombstone, and at 1 when there is none.                       *)
(***************************************************************************)
EXTENDS Integers

CONSTANTS
  Sessions,    \* session keys of the learner's calendar
  Users,       \* WISPACE users the account may be linked to
  NoUser,      \* a null user_id
  StartGen,    \* generation of the mapping at the start; above 1 for an
               \* account that has changed hands before
  Workers,     \* slots of the dispatch runs of all pods
  Syncs,       \* syncs that may overlap: cron, rollover, per-user
  Times,       \* times a session may be planned at
  MaxTime,     \* bound: the last time of day told apart
  Before,      \* STUDY_REMINDER_MINUTES_BEFORE
  MinLead,     \* STUDY_REMINDER_MIN_LEAD_MINUTES
  Grace,       \* a session this long past still counts as upcoming
  Horizon,     \* STUDY_REMINDER_SYNC_HORIZON_HOURS
  Lease,       \* STUDY_REMINDER_LEASE_MS
  Backoff,     \* STUDY_REMINDER_RETRY_BACKOFF_MINUTES
  MaxRetries,  \* STUDY_REMINDER_MAX_RETRIES
  MaxClaims,   \* bound: claims
  MaxEvents    \* bound: crashes, failed calls, changes of the calendar, the
               \* mapping, the consent and the canonical platform

ASSUME ReminderAssumption ==
  /\ Sessions # {}
  /\ Users # {} /\ NoUser \notin Users
  /\ StartGen \in Nat \ {0}
  /\ Times \subseteq Nat \ {0}
  /\ {Lease, MaxRetries} \subseteq Nat \ {0}
  /\ {MaxTime, Before, MinLead, Grace, Horizon, Backoff, MaxClaims,
      MaxEvents} \subseteq Nat

VARIABLES
  calendar,   \* WISPACE calendar: time of each session, 0 if it is not there
  link,       \* mapping row of the learner: link_state ("deleted" when there
              \* is no row), generation and user; tomb is the generation of
              \* the last locally_unlinked audit event, 0 when there is none
  consent,    \* notification preference: in, leaving (off, jobs still to be
              \* cancelled) or out
  canonical,  \* is this platform the learner's canonical one
  jobs,       \* table study_reminder_jobs, by session key
  worker,     \* one processJob of a dispatch run
  sync,       \* one syncOneMapping
  now,        \* time
  claims,     \* lease tokens handed out
  told,       \* history: reminders that may have reached the learner
              \* since the row was inserted or reopened
  heard,      \* history: sessions the learner was told of at their
              \* present calendar time
  events      \* faults and outside changes so far

vars == <<calendar, link, consent, canonical, jobs, worker, sync, now, claims,
          told, heard, events>>

outside == <<calendar, link, consent, canonical>>

Cancellable == {"pending", "processing", "failed"}
Outcomes == {"sent", "not_sent", "rate_limited", "ambiguous"}

NoJob == [status |-> "none", at |-> 0, user |-> NoUser, gen |-> 0, retry |-> 0,
          wait |-> 0, token |-> 0, lease |-> 0, outcome |-> "none"]

\* buildNewEntity and reopenToPending leave the same row.
Fresh(at, owner) ==
  [NoJob EXCEPT !.status = "pending", !.at = at, !.user = owner.user,
                !.gen = owner.gen]

IdleWorker == [pc |-> "idle", job |-> CHOOSE s \in Sessions : TRUE,
               asOf |-> 0, claimed |-> NoJob, outcome |-> "none"]

IdleSync == [pc |-> "idle", user |-> NoUser, gen |-> 0, end |-> 0,
             planned |-> [s \in Sessions |-> 0]]

Init ==
  /\ calendar \in [Sessions -> Times \cup {0}]
  /\ \E u \in Users :
       link = [state |-> "active", gen |-> StartGen, user |-> u, tomb |-> 0]
  /\ consent = "in"
  /\ canonical = TRUE
  /\ jobs = [s \in Sessions |-> NoJob]
  /\ worker = [w \in Workers |-> IdleWorker]
  /\ sync = [y \in Syncs |-> IdleSync]
  /\ now = 0
  /\ claims = 0
  /\ told = [s \in Sessions |-> 0]
  /\ heard = {}
  /\ events = 0

At(w, pc) == worker[w].pc = pc
Token(w) == worker[w].claimed.token
Row(w) == jobs[worker[w].job]

\* withOwnedDelivery holds the ownership lock, the mapping row and the job
\* row from the fence to the end of the provider call.
SendInProgress == \E w \in Workers : At(w, "sending")
RowLocked(s) == \E w \in Workers : At(w, "sending") /\ worker[w].job = s

Goto(w, pc) == worker' = [worker EXCEPT ![w].pc = pc]
Fails(w) ==
  worker' = [worker EXCEPT ![w].pc = "failing", ![w].outcome = "not_sent"]

Event == events < MaxEvents /\ events' = events + 1

-----------------------------------------------------------------------------
(* Rows *)

Terminal(row) ==
  \/ row.outcome \in {"sent", "rate_limited", "ambiguous"}
  \/ row.outcome = "not_sent" /\ row.retry >= MaxRetries

Dispatchable(row) ==
  /\ row.status = "pending" \/ (row.status = "failed" /\ row.retry < MaxRetries)
  /\ \/ row.outcome = "none"
     \/ row.outcome = "not_sent" /\ row.retry < MaxRetries

Due(row) ==
  /\ Dispatchable(row)
  /\ row.at - Before <= now
  /\ row.at > now + MinLead
  /\ row.wait = 0

\* Faulty variant: the lease of a cancelled job is not cleared.
CancelledWithLease(row) ==
  [row EXCEPT !.status = "cancelled", !.wait = 0, !.outcome = "none"]

Cancelled(row) == [row EXCEPT !.status = "cancelled", !.wait = 0, !.token = 0,
                              !.lease = 0, !.outcome = "none"]

CancelJobs(S) ==
  jobs' = [s \in Sessions |-> IF s \in S THEN Cancelled(jobs[s]) ELSE jobs[s]]

\* suspendPendingWork and cancelLocalUnlinkWork leave the delivery columns
\* as they are.
Suspended(row) ==
  [row EXCEPT !.status = "cancelled", !.token = 0, !.lease = 0]

SuspendJobs(S) ==
  jobs' = [s \in Sessions |-> IF s \in S THEN Suspended(jobs[s]) ELSE jobs[s]]

InStatus(statuses) == {s \in Sessions : jobs[s].status \in statuses}

\* A deleted row takes its id with it: who has listed it will not claim
\* the row that replaces it.
Unlist(S) ==
  worker' = [w \in Workers |-> IF At(w, "listed") /\ worker[w].job \in S
                               THEN IdleWorker ELSE worker[w]]

DeleteJobs(S) ==
  /\ jobs' = [s \in Sessions |-> IF s \in S THEN NoJob ELSE jobs[s]]
  /\ Unlist(S)

Owned(w) == Row(w).status = "processing" /\ Row(w).token = Token(w)

\* UPDATE ... WHERE lease_token = :leaseToken AND status = 'processing'.
OwnedUpdate(w, row) ==
  jobs' = IF Owned(w) THEN [jobs EXCEPT ![worker[w].job] = row] ELSE jobs

Released(row) == [row EXCEPT !.token = 0, !.lease = 0, !.wait = 0]

-----------------------------------------------------------------------------
(* Dispatch *)

Stuck(s) == jobs[s].status = "processing" /\ jobs[s].lease = 0

\* Faulty variant: a stuck job is taken for one that was not sent.
ResetRowForRetry(row) ==
  [Released(row) EXCEPT !.status = "failed", !.outcome = "not_sent"]

ResetRow(row) == [Released(row) EXCEPT !.status = "failed",
                                       !.outcome = "ambiguous"]

\* Faulty variant: the run does not look for stuck jobs.
AfterNoReset == jobs

AfterReset ==
  [s \in Sessions |-> IF Stuck(s) THEN ResetRow(jobs[s]) ELSE jobs[s]]

\* A dispatch run: resetStuckProcessingJobs, which waits for the rows it
\* matches, then findDueJobs; the slot w takes one of the jobs found.
DispatchDue(w) ==
  /\ At(w, "idle")
  /\ \A s \in Sessions : Stuck(s) => ~RowLocked(s)
  /\ jobs' = AfterReset
  /\ IF \E s \in Sessions : Due(jobs'[s])
     THEN \E s \in Sessions :
            /\ Due(jobs'[s])
            /\ worker' = [worker EXCEPT ![w].pc = "listed", ![w].job = s,
                                        ![w].asOf = now]
     ELSE UNCHANGED worker
  /\ UNCHANGED <<outside, sync, now, claims, told, heard, events>>

Claimed(row) == [row EXCEPT !.status = "processing", !.token = claims + 1,
                            !.lease = Lease, !.outcome = "none"]

ClaimJob(w) ==
  /\ At(w, "listed")
  /\ IF Dispatchable(Row(w))
     THEN /\ claims < MaxClaims
          /\ claims' = claims + 1
          /\ jobs' = [jobs EXCEPT ![worker[w].job] = Claimed(Row(w))]
          /\ worker' = [worker EXCEPT ![w].pc = "claimed",
                                      ![w].claimed = Claimed(Row(w))]
     ELSE /\ worker' = [worker EXCEPT ![w] = IdleWorker]
          /\ UNCHANGED <<jobs, claims>>
  /\ UNCHANGED <<outside, sync, now, told, heard, events>>

\* Faulty variant: the owner of the mapping is not compared.
SameOwnerAssumed(w) == TRUE

SameOwner(w) ==
  link.gen = worker[w].claimed.gen /\ link.user = worker[w].claimed.user

\* checkMappingBeforeSend, an unlocked read; a mapping that is gone is left
\* to the fence.  The first time it is followed by the dormancy filter and
\* the lead time, as of the start of the dispatch run, and by the text.
CheckMapping(w, next) ==
  CASE link.state = "active" ->
         Goto(w, IF SameOwner(w) THEN next ELSE "cancelling")
    [] link.state \in {"confirmed-revoked", "locally-unlinked"} ->
         Goto(w, "cancelling")
    [] link.state = "deleted" -> Goto(w, next)
    [] link.state = "temporarily-unknown" -> Fails(w)

SessionStarted(w) == worker[w].claimed.at <= worker[w].asOf + MinLead

CheckBeforeText(w) ==
  /\ At(w, "claimed")
  /\ \E dormant \in BOOLEAN :
       CheckMapping(w, IF dormant \/ SessionStarted(w) THEN "cancelling"
                                                       ELSE "written")
  /\ UNCHANGED <<jobs, outside, sync, now, claims, told, heard, events>>

CheckBeforeSend(w) ==
  /\ At(w, "written")
  /\ CheckMapping(w, "fencing")
  /\ UNCHANGED <<jobs, outside, sync, now, claims, told, heard, events>>

\* withOwnedDelivery up to the call of send().  A mapping that is gone counts
\* as unlinked when it left a tombstone, and as unknown otherwise.
Fence(w) ==
  /\ At(w, "fencing")
  /\ ~SendInProgress
  /\ CASE \/ link.state \in {"confirmed-revoked", "locally-unlinked"}
          \/ link.state = "deleted" /\ link.tomb # 0 -> Goto(w, "cancelling")
       [] \/ link.state = "temporarily-unknown"
          \/ link.state = "deleted" /\ link.tomb = 0 -> Fails(w)
       [] link.state = "active" /\ ~SameOwner(w) -> Goto(w, "cancelling")
       [] link.state = "active" /\ SameOwner(w) /\ ~Owned(w)
            -> worker' = [worker EXCEPT ![w] = IdleWorker]
       [] OTHER -> Goto(w, "sending")
  /\ UNCHANGED <<jobs, outside, sync, now, claims, told, heard, events>>

LockTimesOut(w) ==
  /\ At(w, "fencing")
  /\ SendInProgress
  /\ Fails(w)
  /\ UNCHANGED <<jobs, outside, sync, now, claims, told, heard, events>>

\* A message with this outcome may be in front of the learner.
Reaches(w, reached) ==
  /\ told' = IF reached THEN [told EXCEPT ![worker[w].job] = @ + 1] ELSE told
  /\ heard' = IF reached /\ calendar[worker[w].job] = worker[w].claimed.at
              THEN heard \cup {worker[w].job} ELSE heard

\* The outcome a provider call reports and whether the message arrived.
ProviderAnswers ==
  {<<"sent", TRUE>>, <<"not_sent", FALSE>>, <<"rate_limited", FALSE>>,
   <<"ambiguous", TRUE>>, <<"ambiguous", FALSE>>}

\* send() returns, or throws and counts as not_sent, and the transaction of
\* the fence commits.
Send(w) ==
  /\ At(w, "sending")
  /\ \E answer \in ProviderAnswers :
       /\ Reaches(w, answer[2])
       /\ worker' = [worker EXCEPT
            ![w].pc = IF answer[1] = "sent" THEN "sent" ELSE "failing",
            ![w].outcome = answer[1]]
  /\ UNCHANGED <<jobs, outside, sync, now, claims, events>>

\* The provider has answered and the commit fails.
SendUncommitted(w) ==
  /\ At(w, "sending")
  /\ Event
  /\ \E answer \in ProviderAnswers :
       /\ Reaches(w, answer[2])
       /\ worker' = [worker EXCEPT ![w].pc = "failing", ![w].outcome = answer[1]]
  /\ UNCHANGED <<jobs, outside, sync, now, claims>>

MarkSent(w) ==
  /\ At(w, "sent")
  /\ OwnedUpdate(w, [Released(Row(w)) EXCEPT !.status = "sent",
                                             !.outcome = "sent"])
  /\ worker' = [worker EXCEPT ![w] = IdleWorker]
  /\ UNCHANGED <<outside, sync, now, claims, told, heard, events>>

\* markSent throws, its write done or not: the job is closed as ambiguous.
MarkSentThrows(w) ==
  /\ At(w, "sent")
  /\ Event
  /\ \/ OwnedUpdate(w, [Released(Row(w)) EXCEPT !.status = "sent",
                                                !.outcome = "sent"])
     \/ UNCHANGED jobs
  /\ worker' = [worker EXCEPT ![w].pc = "failing", ![w].outcome = "ambiguous"]
  /\ UNCHANGED <<outside, sync, now, claims, told, heard>>

Larger(a, b) == IF a > b THEN a ELSE b

\* The retry count markFailed stores.  An attempt that was not sent is
\* retried unless the error or the count is terminal.
RetryCount(w, terminal) ==
  IF terminal THEN Larger(worker[w].claimed.retry + 1, MaxRetries)
              ELSE worker[w].claimed.retry + 1

FailedRow(w, terminal) ==
  [Released(Row(w)) EXCEPT
     !.status = "failed", !.outcome = worker[w].outcome,
     !.retry = RetryCount(w, terminal),
     !.wait = IF worker[w].outcome = "not_sent" /\ ~terminal THEN Backoff ELSE 0]

MarkFailed(w) ==
  /\ At(w, "failing")
  /\ \E terminal \in BOOLEAN :
       /\ worker[w].claimed.retry + 1 >= MaxRetries => terminal
       /\ OwnedUpdate(w, FailedRow(w, terminal))
  /\ worker' = [worker EXCEPT ![w] = IdleWorker]
  /\ UNCHANGED <<outside, sync, now, claims, told, heard, events>>

MarkCancelled(w) ==
  /\ At(w, "cancelling")
  /\ OwnedUpdate(w, Cancelled(Row(w)))
  /\ worker' = [worker EXCEPT ![w] = IdleWorker]
  /\ UNCHANGED <<outside, sync, now, claims, told, heard, events>>

\* A read, the text or markCancelled throws: the outer catch block.
StepThrows(w) ==
  /\ worker[w].pc \in {"claimed", "written", "fencing", "cancelling"}
  /\ Event
  /\ Fails(w)
  /\ UNCHANGED <<jobs, outside, sync, now, claims, told, heard>>

\* The process dies, or markFailed throws: the row stays as it is.  A call
\* to the provider may have got through.
Abandon(w) ==
  /\ worker[w].pc \notin {"idle", "listed"}
  /\ Event
  /\ \E reached \in BOOLEAN : Reaches(w, reached /\ At(w, "sending"))
  /\ worker' = [worker EXCEPT ![w] = IdleWorker]
  /\ UNCHANGED <<jobs, outside, sync, now, claims>>

-----------------------------------------------------------------------------
(* Sync *)

SyncAt(y, pc) == sync[y].pc = pc
EndSync(y) == sync' = [sync EXCEPT ![y] = IdleSync]

\* The evening rollover purges the sent jobs, then syncs.
Rollover(y) ==
  /\ SyncAt(y, "idle")
  /\ DeleteJobs(InStatus({"sent"}))
  /\ sync' = [sync EXCEPT ![y].pc = "purged"]
  /\ UNCHANGED <<outside, now, claims, told, heard, events>>

\* The end of the horizon, and the mapping if it is active and its learner
\* wants reminders.
StartSync(y) ==
  /\ sync[y].pc \in {"idle", "purged"}
  /\ IF link.state = "active" /\ consent = "in"
     THEN sync' = [sync EXCEPT ![y].pc = "resolving", ![y].user = link.user,
                               ![y].gen = link.gen, ![y].end = now + Horizon]
     ELSE EndSync(y)
  /\ UNCHANGED <<jobs, outside, worker, now, claims, told, heard, events>>

\* Pending and failed rows up to the horizon that are not in the batch.
Stale(y) == {s \in InStatus({"pending", "failed"}) :
               sync[y].planned[s] = 0 /\ jobs[s].at <= sync[y].end}

ResolveCanonical(y) ==
  /\ SyncAt(y, "resolving")
  /\ IF canonical
     THEN sync' = [sync EXCEPT ![y].pc = "fetching"] /\ UNCHANGED jobs
     ELSE EndSync(y) /\ CancelJobs(Stale(y))
  /\ UNCHANGED <<outside, worker, now, claims, told, heard, events>>

\* The upcoming sessions of the calendar, without those past the horizon.
GetSessions(y) ==
  /\ SyncAt(y, "fetching")
  /\ sync' = [sync EXCEPT ![y].pc = "upserting",
       ![y].planned = [s \in Sessions |->
          IF now < calendar[s] + Grace /\ calendar[s] \in 1..sync[y].end
          THEN calendar[s] ELSE 0]]
  /\ UNCHANGED <<jobs, outside, worker, now, claims, told, heard, events>>

\* Faulty variant: a sync writes what it read, whatever the row's owner.
OlderGenerationNever(row, gen) == FALSE

OlderGeneration(row, gen) == gen < row.gen

\* Faulty variant: a session that is put off leaves its row as it is.
ScheduleMovedUp(row, at) == at < row.at

ScheduleChanged(row, at) == row.at # at

OwnerChanged(row, owner) == row.gen # owner.gen \/ row.user # owner.user

\* Faulty variant: every sync opens the row again.
ReopensAlways(row, at, owner) == ~OlderGeneration(row, owner.gen)

\* applyExisting: the row is opened for a new delivery ...
Reopens(row, at, owner) ==
  /\ ~OlderGeneration(row, owner.gen)
  /\ \/ row.status = "cancelled"
     \/ /\ ScheduleChanged(row, at)
        /\ row.status = "processing" => ~OwnerChanged(row, owner)

\* ... or updated in place, a failure that is not terminal going back to
\* pending, or left alone.
UpdatesInPlace(row, owner) ==
  ~OlderGeneration(row, owner.gen) /\ row.status \in {"pending", "failed"}

InPlace(row, owner) ==
  IF Terminal(row)
  THEN [row EXCEPT !.user = owner.user,
                   !.status = IF row.outcome = "not_sent" THEN "failed" ELSE @]
  ELSE [row EXCEPT !.user = owner.user, !.gen = owner.gen, !.status = "pending",
                   !.wait = IF row.status = "failed" THEN 0 ELSE @]

Opens(row, at, owner) == row.status = "none" \/ Reopens(row, at, owner)

Applied(row, at, owner) ==
  CASE Opens(row, at, owner) -> Fresh(at, owner)
    [] ~Opens(row, at, owner) /\ UpdatesInPlace(row, owner) -> InPlace(row, owner)
    [] OTHER -> row

UpsertPendingJobs(y) ==
  /\ SyncAt(y, "upserting")
  /\ \A s \in Sessions : sync[y].planned[s] # 0 => ~RowLocked(s)
  /\ jobs' = [s \in Sessions |->
                IF sync[y].planned[s] = 0 THEN jobs[s]
                ELSE Applied(jobs[s], sync[y].planned[s], sync[y])]
  /\ told' = [s \in Sessions |->
                IF /\ sync[y].planned[s] # 0
                   /\ Opens(jobs[s], sync[y].planned[s], sync[y])
                THEN 0 ELSE told[s]]
  /\ sync' = [sync EXCEPT ![y].pc = "cancelling"]
  /\ UNCHANGED <<outside, worker, now, claims, heard, events>>

CancelStale(y) ==
  /\ SyncAt(y, "cancelling")
  /\ CancelJobs(Stale(y))
  /\ EndSync(y)
  /\ UNCHANGED <<outside, worker, now, claims, told, heard, events>>

\* A call of the sync throws, or its process dies: the rest is skipped.
SyncFails(y) ==
  /\ ~SyncAt(y, "idle")
  /\ Event
  /\ EndSync(y)
  /\ UNCHANGED <<jobs, outside, worker, now, claims, told, heard>>

-----------------------------------------------------------------------------
(* The writers of the mapping; all of them wait for a send in progress. *)

LinkEvent == ~SendInProgress /\ Event

Raise(state) ==
  /\ LinkEvent
  /\ link' = [link EXCEPT !.state = state, !.gen = @ + 1]

LinkFrame == UNCHANGED <<calendar, consent, canonical, worker, sync, now,
                         claims, told, heard>>

\* The generation of the next owner: a mapping that is gone comes back after
\* its tombstone, or at 1.
NextGeneration == (IF link.state = "deleted" THEN link.tomb ELSE link.gen) + 1

\* upsertLink, for another user or for a mapping that is not active.
Relink ==
  /\ LinkEvent
  /\ \E u \in Users :
       /\ link.state = "active" => u # link.user
       /\ link' = [link EXCEPT !.state = "active", !.user = u,
                               !.gen = NextGeneration]
  /\ CancelJobs({s \in InStatus(Cancellable) : jobs[s].gen < NextGeneration})
  /\ LinkFrame

\* upsertLink for another account of the same user: Discord and Zalo delete
\* this mapping and leave no tombstone, ...
Displace ==
  /\ link.state # "deleted"
  /\ LinkEvent
  /\ link' = [link EXCEPT !.state = "deleted"]
  /\ CancelJobs(InStatus(Cancellable))
  /\ LinkFrame

\* ... Messenger deactivates it.
Deactivate ==
  /\ link.state = "active"
  /\ Raise("locally-unlinked")
  /\ CancelJobs(InStatus(Cancellable))
  /\ LinkFrame

\* applyObservation: upstream says the link is gone, cannot tell, or is fine.
Revoke ==
  /\ link.state \in {"active", "temporarily-unknown"}
  /\ Raise("confirmed-revoked")
  /\ SuspendJobs(InStatus(Cancellable))
  /\ LinkFrame

Observe ==
  /\ LinkEvent
  /\ \/ link.state = "active" /\ link' = [link EXCEPT !.state = "temporarily-unknown"]
     \/ link.state = "temporarily-unknown" /\ link' = [link EXCEPT !.state = "active"]
  /\ UNCHANGED <<calendar, consent, canonical, jobs, worker, sync, now, claims,
                 told, heard>>

\* The privacy command unlink leaves a tombstone of the new generation, or
\* of the last one when the mapping is gone.
Unlink ==
  /\ LinkEvent
  /\ \/ /\ link.state \in {"active", "temporarily-unknown"}
        /\ link' = [link EXCEPT !.state = "locally-unlinked",
                                !.gen = link.gen + 1, !.tomb = link.gen + 1]
     \/ /\ link.state = "deleted"
        /\ link' = [link EXCEPT !.tomb = IF link.tomb = 0 THEN 1 ELSE link.tomb]
  /\ SuspendJobs(InStatus(Cancellable))
  /\ LinkFrame

\* Delete leaves a tombstone, cancels the jobs of the account and deletes
\* those of the WISPACE user, ...
Delete ==
  /\ link.state # "deleted"
  /\ LinkEvent
  /\ link' = [link EXCEPT !.state = "deleted", !.tomb = link.gen]
  /\ jobs' = [s \in Sessions |->
                CASE jobs[s].user = link.user -> NoJob
                  [] jobs[s].user # link.user /\ jobs[s].status \in Cancellable ->
                       Suspended(jobs[s])
                  [] OTHER -> jobs[s]]
  /\ Unlist({s \in Sessions : jobs[s].user = link.user})
  /\ UNCHANGED <<calendar, consent, canonical, sync, now, claims, told, heard>>

\* ... or, when the mapping is gone, all jobs of the account.
DeleteUnmapped ==
  /\ link.state = "deleted"
  /\ LinkEvent
  /\ DeleteJobs(Sessions)
  /\ UNCHANGED <<outside, sync, now, claims, told, heard>>

\* The retention of the audit events ends for the tombstone.
PurgeAudit ==
  /\ link.tomb # 0
  /\ Event
  /\ link' = [link EXCEPT !.tomb = 0]
  /\ UNCHANGED jobs
  /\ LinkFrame

-----------------------------------------------------------------------------
(* Consent, calendar, the other platforms, cleanup and time *)

\* The consent command switches the preference off ...
OptOut ==
  /\ consent = "in"
  /\ Event
  /\ consent' = "leaving"
  /\ UNCHANGED <<calendar, link, canonical, jobs, worker, sync, now, claims,
                 told, heard>>

\* ... and then cancels the jobs, or dies first.
CancelPending ==
  /\ consent = "leaving"
  /\ \A s \in Sessions : ~RowLocked(s)
  /\ CancelJobs(InStatus(Cancellable))
  /\ consent' = "out"
  /\ UNCHANGED <<calendar, link, canonical, worker, sync, now, claims, told,
                 heard, events>>

CancelPendingFails ==
  /\ consent = "leaving"
  /\ Event
  /\ consent' = "out"
  /\ UNCHANGED <<calendar, link, canonical, jobs, worker, sync, now, claims,
                 told, heard>>

OptIn ==
  /\ consent = "out"
  /\ Event
  /\ consent' = "in"
  /\ UNCHANGED <<calendar, link, canonical, jobs, worker, sync, now, claims,
                 told, heard>>

PlanSession ==
  /\ Event
  /\ \E s \in Sessions, t \in Times \cup {0} :
       /\ calendar[s] # t
       /\ calendar' = [calendar EXCEPT ![s] = t]
       /\ heard' = heard \ {s}
  /\ UNCHANGED <<link, consent, canonical, jobs, worker, sync, now, claims,
                 told>>

\* The learner's canonical platform changes to or from this one.
MoveCanonical ==
  /\ Event
  /\ canonical' = ~canonical
  /\ UNCHANGED <<calendar, link, consent, jobs, worker, sync, now, claims, told,
                 heard>>

\* The per-user sync of the Messenger bot cancels the learner's jobs on the
\* other platforms, those in processing too.
CancelFromOtherPlatform ==
  /\ Event
  /\ \A s \in Sessions : ~RowLocked(s)
  /\ CancelJobs(InStatus(Cancellable))
  /\ UNCHANGED <<calendar, link, consent, canonical, worker, sync, now, claims,
                 told, heard>>

\* The retention of days is longer than any wait for a session that is due:
\* a terminal row this old is about a session of the past.
Expired(row) ==
  /\ row.at <= now
  /\ \/ row.status \in {"cancelled", "failed"} /\ row.retry >= MaxRetries
     \/ /\ row.status \in {"pending", "failed"}
        /\ row.outcome \in {"ambiguous", "rate_limited"}

Cleanup ==
  /\ \E s \in Sessions : Expired(jobs[s])
  /\ DeleteJobs({s \in Sessions : Expired(jobs[s])})
  /\ UNCHANGED <<outside, sync, now, claims, told, heard, events>>

Less(n) == IF n > 0 THEN n - 1 ELSE 0

Tick ==
  /\ now' = IF now < MaxTime THEN now + 1 ELSE now
  /\ jobs' = [s \in Sessions |-> [jobs[s] EXCEPT !.lease = Less(@),
                                                 !.wait = Less(@)]]
  /\ <<now', jobs'>> # <<now, jobs>>
  /\ UNCHANGED <<outside, worker, sync, claims, told, heard, events>>

-----------------------------------------------------------------------------
WorkerStep(w) ==
  \/ DispatchDue(w) \/ ClaimJob(w) \/ CheckBeforeText(w)
  \/ CheckBeforeSend(w) \/ Fence(w) \/ LockTimesOut(w)
  \/ Send(w) \/ MarkSent(w) \/ MarkFailed(w) \/ MarkCancelled(w)

WorkerFault(w) ==
  SendUncommitted(w) \/ MarkSentThrows(w) \/ StepThrows(w) \/ Abandon(w)

SyncStep(y) ==
  \/ StartSync(y) \/ ResolveCanonical(y) \/ GetSessions(y)
  \/ UpsertPendingJobs(y) \/ CancelStale(y)

Next ==
  \/ \E w \in Workers : WorkerStep(w) \/ WorkerFault(w)
  \/ \E y \in Syncs : SyncStep(y) \/ Rollover(y) \/ SyncFails(y)
  \/ Relink \/ Displace \/ Deactivate \/ Revoke \/ Observe
  \/ Unlink \/ Delete \/ DeleteUnmapped \/ PurgeAudit
  \/ OptOut \/ CancelPending \/ CancelPendingFails \/ OptIn
  \/ PlanSession \/ MoveCanonical \/ CancelFromOtherPlatform
  \/ Cleanup \/ Tick

Spec == Init /\ [][Next]_vars

\* Timers fire, provider calls have timeouts, the crons and the dispatch
\* loop re-arm themselves.
Fairness ==
  /\ \A w \in Workers : WF_vars(WorkerStep(w))
  /\ \A y \in Syncs : WF_vars(SyncStep(y))
  /\ WF_vars(Tick)

FairSpec == Spec /\ Fairness

-----------------------------------------------------------------------------
(* Properties *)

Statuses == {"none", "pending", "processing", "sent", "failed", "cancelled"}

JobType ==
  [status : Statuses, at : Times \cup {0}, user : Users \cup {NoUser}, gen : Nat,
   retry : Nat, wait : 0..Backoff, token : 0..claims, lease : 0..Lease,
   outcome : Outcomes \cup {"none"}]

Generations == 0..StartGen + MaxEvents

\* The values of the rows, of the workers and of the syncs: a token is held
\* by a row just while it is in processing, and a row of a session has the
\* retries, the wait and the lease that markFailed and claimJob give it.
TypeOK ==
  /\ calendar \in [Sessions -> Times \cup {0}]
  /\ link \in [state : {"active", "temporarily-unknown", "confirmed-revoked",
                        "locally-unlinked", "deleted"},
              gen : Generations \ {0}, user : Users, tomb : Generations]
  /\ consent \in {"in", "leaving", "out"}
  /\ canonical \in BOOLEAN
  /\ jobs \in [Sessions -> JobType]
  /\ \A s \in Sessions : jobs[s].status = "processing" <=> jobs[s].token # 0
  /\ worker \in [Workers ->
       [pc : {"idle", "listed", "claimed", "written",
              "fencing", "sending", "sent", "failing", "cancelling"},
        job : Sessions, asOf : 0..MaxTime, claimed : JobType,
        outcome : Outcomes \cup {"none"}]]
  /\ sync \in [Syncs ->
       [pc : {"idle", "purged", "resolving", "fetching", "upserting",
              "cancelling"}, user : Users \cup {NoUser}, gen : Generations,
        end : 0..MaxTime + Horizon, planned : [Sessions -> Times \cup {0}]]]
  /\ now \in 0..MaxTime
  /\ claims \in 0..MaxClaims
  /\ told \in [Sessions -> Nat]
  /\ heard \subseteq Sessions
  /\ events \in 0..MaxEvents

\* From the time a job row is inserted or reopened to the next time, at most
\* one reminder may have reached the learner, whatever the claims, expired
\* leases, crashes, failed writes and syncs in between (claimJob, the
\* terminal outcomes of markFailed and resetStuckProcessingJobs).
RemindedOnce == \A s \in Sessions : told[s] <= 1

\* While the provider is called the mapping is active, the user and the
\* generation it belongs to are the ones the job was claimed for, and the row
\* is still in processing under the caller's lease token (withOwnedDelivery):
\* nothing relinks, displaces, revokes, unlinks, reopens or resets under a send.
SendIsOwned ==
  \A w \in Workers : At(w, "sending") =>
    /\ link.state = "active"
    /\ link.gen = worker[w].claimed.gen /\ link.user = worker[w].claimed.user
    /\ Row(w).status = "processing"
    /\ Row(w).token = Token(w)
    /\ Row(w).gen = link.gen /\ Row(w).user = link.user

\* A sync that read the mapping before a relink never takes a row of the new
\* generation back to the one it read: the generation of a row only falls
\* when the row is deleted (applyExisting, isOlderGeneration).
GenerationGrows ==
  [][\A s \in Sessions : jobs'[s].status # "none" => jobs'[s].gen >= jobs[s].gen]_vars

\* A job that was sent is only deleted, or opened again for another time of
\* its session; no late worker, reset or cancel touches it (the status
\* conditions of markFailed, markCancelled and the bulk updates).
SentStaysSent ==
  [][\A s \in Sessions : jobs[s].status = "sent" =>
       \/ jobs'[s].status \in {"sent", "none"}
       \/ jobs'[s].status = "pending" /\ jobs'[s].at # jobs[s].at]_vars

\* A claimed job does not stay in processing: its worker closes it, or the
\* lease runs out and a dispatch run resets it (resetStuckProcessingJobs).
ClaimsEnd ==
  \A s \in Sessions :
    jobs[s].status = "processing" ~> jobs[s].status # "processing"

\* The calendar plans the session within the horizon and it has not started.
Ahead(s) == now < calendar[s] /\ calendar[s] <= now + Horizon

\* A displaced mapping leaves no tombstone, and the next owner starts below the
\* rows of the last: the syncs of that owner leave these rows alone.
LeftBehind(s) == OlderGeneration(jobs[s], link.gen)

InStep(s) ==
  /\ Ahead(s) => jobs[s].at = calendar[s] \/ LeftBehind(s)
  /\ calendar[s] = 0 /\ jobs[s].at <= now + Horizon => ~Dispatchable(jobs[s])

\* A row that dispatch, an opt-out or another platform cancelled.
Revived(s) == Ahead(s) => jobs[s].status # "cancelled" \/ LeftBehind(s)

Resting == link.state = "active" /\ consent = "in" /\ canonical

\* Once calendar, link and consent rest, the rows agree with the calendar for
\* good: a session ahead has a row at its time, and no row that could still be
\* sent is left for a session that was taken out, however syncs with old
\* snapshots overlapped; and a cancelled row of a session ahead is opened again
\* each time (upsertPendingJobs, applyExisting, cancelStale).  The rows of a
\* generation above the mapping's own are the exception.
JobsFollowCalendar ==
  /\ <>[](Resting => \A s \in Sessions : InStep(s))
  /\ \A s \in Sessions : []<>(Resting => Revived(s))

\* docs/adr/0003-outbox-pattern.md: "syncing multiple times does not create
\* duplicate jobs".  The learner is told of a session once, as long as
\* neither its time nor anything else about them changes.
ToldOncePerTime ==
  [][\A s \in Sessions : told'[s] > told[s] => s \notin heard]_vars
=============================================================================
