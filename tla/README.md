# WISPACE bots: TLA+ specifications

Specifications of the durable and concurrent parts of the WISPACE chat bots: three
applications (`src/apps/messenger-bot`, `zalo-bot`, `discord-bot`) over the shared
packages in `src/packages`. Paths below are relative to `src/`.

1. [The system](#the-system) · 2. [Modules and code](#modules-and-code) ·
3. [Runs](#runs) · 4. [Bounds](#bounds) · 5. [Fairness](#fairness) ·
6. [Proofs](#proofs) · 7. [Only model-checked](#only-model-checked) ·
8. [Where the code and its documents disagree](#where-the-code-and-its-documents-disagree) ·
9. [Not modelled](#not-modelled) · 10. [Plan](#plan)

`PROJECT.json` maps every definition to the lines it stands for and lists the hazards
of the code with the properties that cover them.

## The system

**The path of a chat message.** A platform calls the webhook. The event is stored in
`webhook_inbound_events` and acknowledged; the pod that stored it handles it inline, and
a cron retries what failed. The handler puts the text into a queue, one buffer per
learner: `DebounceChatQueue` in memory, or `RedisChatQueueStore` in production, where
workers of all pods poll. After the debounce window a flush takes the batch through
`ChatPipeline`: reserve a slot of the daily quota under the batch's idempotency key, ask
the agent, send the reply, mark the slot delivered and completed, or refund it. The agent
may stage a reschedule of a study session, which the learner confirms with a button.

**The path of a reminder.** A sync copies the learner's WISPACE calendar into
`study_reminder_jobs`, one row per session. Dispatch workers claim due rows under a lease
and send one message per row, with the mapping row and the job row locked during the
provider call. Link changes, opt-outs and the evening rollover cancel or delete rows.

| part | state | operations | what makes it hard |
| --- | --- | --- | --- |
| in-memory queue | `Map` of buffers, timers, `processing` flags | enqueue, flush, flushNow, clear, drain, destroy | callbacks interleave at each await; handlers may never return; a key travels apart from its texts |
| webhook inbox | event rows with status, retry count, lease token; slots of the inline dispatcher | ingest, claim, markFailed, markCompleted, abandon, retry cron, retention | inline and cron workers of several pods; a slow worker looks like a dead one; a success whose record fails |
| quota and pipeline | `chat_idempotency`, `chat_daily_usage` | reserve, refund, mark, recover stuck, purge | two tables that must agree; owner and day change between reservation and refund; late flushes |
| Redis queue | JSON buffer, active set, flush and stuck ZSETs | append, claim, complete, retry, clear, poll, repair, rehydrate | leases, recovered batches merged with new ones, an unlocked repair |
| reminder outbox | job rows, mapping row, preference | sync, rollover, dispatch, stuck reset, link writers, opt-out | snapshots of the calendar and of the mapping used later; ambiguous sends |
| staged reschedule | one staged row, attempt records, WISPACE calendar, daily budget | stage, confirm, cancel, recovery cron | requests carried out without an answer; double taps; a crash between two writes |
| report wave, LLM admission, dead letters, privacy jobs, caches, tokens | leases, counters, outboxes | claim, retry, release | see [Plan](#plan) |

Every pod may crash at any step, every database or network call may fail with its effect
applied or not, platforms deliver events again, and operators change links at any time.

**What has to hold.** No accepted message is lost or answered twice; nobody is charged
twice or not at all; limits hold across pods and channels; one worker per event, batch or
job; late writes of a worker that lost its lease change nothing; a reminder goes once and
only to the learner who owns the mapping; a reschedule never loses a session and is never
confirmed without having been made; everything claimed is released in the end.

## Modules and code

Conventions: a lease token is the number of the claim that drew it; times are countdowns
or ages in ticks, capped where older makes no difference; a budget of faults or events
bounds crashes, failed calls and outside changes; histories (`successes`,
`confirmed`, `told`, ...) serve the properties and guide no action. A line marked
*Faulty variant* before a definition is the form a plausible bug would give it; it is used
only to see that a property would notice.

### `DebounceChatQueue` — `packages/chat-queue-core/src/debounce-chat-queue.ts`

`live` is the key set of the `Map`; `texts`, `key`, `pending`, `pendingKey`,
`processing`, `remaining` and `timer` are the fields of a `QueueState`. Messages of a
user are numbered, so a buffer shows at a glance what is missing or repeated. An action is
one callback up to its next await: `Enqueue`, `TimerFires`, `FlushNow`, the end of a flush
by its handler or by the deadline, `Clear`, and the passes of `drain()` inside `destroy()`.
Handlers are free never to end. Contexts and callbacks are left out.

### `WebhookInbox` — `packages/webhook-inbound`, ingestion in the Messenger and Zalo apps

`rows` is the table, `work` holds one inline and one cron worker per event, `running` and
`queue` are the slots of `InlineWebhookInboundDispatcher`, `cronPod` holds the advisory
lock of the retry cron. `Claim`, `HandlerEnds`, `MarkFailed`, `MarkCompleted`,
`MarkProcessingAbandoned`, `AbandonStale`, `HandleRetry`, `StartBatch`, `EndRetry`,
`DeleteTerminal` are the methods of those names; each database call is one step and has a
failing twin. The handler is external: it ends with success or failure.

### `ChatQuota` — `packages/chat-metering/src/chat-rate-limit`, `packages/chat-pipeline`

`idem` is `chat_idempotency`, `usage` is `chat_daily_usage`, `flush` the pipelines in
progress. The reservation is two steps, the work inside the transaction and its commit,
so that two reservations overlap as far as the advisory locks allow. The recovery cron,
the purge, changes of link and midnight are actions. The agent and the send are external;
the Redis burst counter only advises and is left out, and so is the option
`CHAT_BURST_COUNT_REFUNDED`, off by default, which counts refunded rows as well.

### `RedisChatQueue` — `packages/chat-agent/src/chat-queue`

`buf` is the buffer JSON of one user; `active`, `flushSet` and `stuckSet` are their
entries in the indexes; `worker` the flush slots of all pods; `rehydrate` the unlocked
repair, whose read and write are separate steps. Users share nothing but the poll limit,
so one user is enough. A store operation runs under the user's lock and writes in one
MULTI and is therefore one step; the expiry of that lock is not modelled.

### `ChatTurn` — the queue with the ledger

Extends `RedisChatQueue` with the status and age of each key's ledger row: what becomes
of a batch whose worker died after reserving. The queue replays it `StuckAfter` after the
claim, the ledger takes the row for stuck when it is older than `StuckReserved`, strictly
(`chat-rate-limit.repository.ts:602`), counted from the reservation. Up to `ReserveWithin`
passes between claim and reservation, so the row's window starts later than the batch's.

### `StudyReminderJobs` — `packages/study-reminder-shared`, link writers in `packages/database` and the apps

`jobs` is the table, `link` the mapping row of one account (state, generation, WISPACE
user) with the tombstone that an unlink or a deletion leaves in the audit table, `consent` the
preference, `worker` the dispatch slots, `sync` the syncs with the snapshots they hold,
`calendar` the external WISPACE calendar. The lock on mapping and row that
`withOwnedDelivery` keeps during the provider call is a guard (`RowLocked`) of every other
writer, with the lock timeout as an action. `told` counts the reminders that may have
arrived since the row was last opened.

The writers of the mapping differ in what they do to the generation. `Relink`, `Revoke`,
`Unlink` and Messenger's `Deactivate` raise it. `Delete` removes the row and leaves a
tombstone, after which a new link goes on; `PurgeAudit` ends the tombstone's retention.
`Displace`, the case of `upsertLink` that finds the same learner under another account,
deletes the row without a tombstone on Discord and Zalo: the next link of that account
starts at 1 again. `ScheduleChanged` compares the time of a session only: the topic is the
same for all jobs in production and `remindAt` follows from the time.

### `RescheduleConfirm` — `packages/reschedule-confirm`, `PlatformStudyCalendarCommandService`

`row` is the learner's only row in `reschedule_confirmations`, `attempts` the table of
attempts, `calendar` the sessions held by WISPACE, `used` the charged budget. A worker is a
`confirm()` call and takes one step per upstream call or statement; a call may fail before
or after it took effect, for want of scope or otherwise, and a request may be carried out
twice. `cron` is the recovery tick.

## Runs

Every `MC*` module extends a specification and adds symmetry sets or constant
functions; the `.cfg` gives the constants their values.

| run | configuration | checks | shows |
| --- | --- | --- | --- |
| `debounce_queue` | `MCDebounceChatQueue.cfg` | `BufferIsNewestRun`, `WorkIsScheduled`, `KeyIsFresh`, `NoMessageStays`, `DestroyReturns` | with handlers that may hang, nothing is reordered, repeated or stranded, no key is flushed twice, and shutdown ends |
| `webhook_inbox` | `MCWebhookInbox.cfg` | `OneWorker`, `SucceedsOnce`, `AttemptsBounded`, `SlotsConserved`, `TerminalIsFinal`, `EveryEventSettles` | an event has one worker and one success, slots do not leak, every event ends completed or abandoned |
| `quota_buckets` | `MCChatQuota.cfg` | `CountersMatchRows`, `DailyLimitHolds`, `AnsweredOnce`, `ReplyIsCharged`, `DeliveredIsFinal` | the counters equal the charged rows in every bucket, limits hold across two channels of one learner, a reply is charged once |
| `quota_burst` | `MCChatQuotaBurst.cfg` | `BurstLimitHolds`, `ReservationsSettle` | the burst limit holds over midnight; no slot stays reserved |
| `redis_queue` | `MCRedisChatQueue.cfg` | `NothingLost`, `LeaseIsBatch`, `KeyOfNewest`, `NoDuplicates`, `WorkIsIndexed`, `MessagesSettle` | crashes, recoveries and late completions neither lose nor double a message, and work is always where a poll finds it |
| `turn_recovery` | `MCChatTurn.cfg` | `AtLeastOnce` | when `StuckReserved + ReserveWithin < StuckAfter`, a crash loses nothing |
| `turn_default_windows` | `MCChatTurnDefaults.cfg` | `AtLeastOnce`, **violated** | with the default order of the windows the batch is forgotten |
| `reminder_jobs` | `MCStudyReminderJobs.cfg` | `RemindedOnce`, `SendIsOwned`, `SentStaysSent` | at most one reminder per opening of a row, only for the learner who owns the mapping |
| `reminder_sync` | `MCStudyReminderSync.cfg` | `GenerationGrows`, `ClaimsEnd`, `JobsFollowCalendar` | overlapping syncs with old snapshots end in agreement with the calendar and revive what was cancelled, but for rows of a generation above the mapping's |
| `reminder_rollover` | `MCStudyReminderRollover.cfg` | `ToldOncePerTime`, **violated** | the rollover makes the learner be reminded twice of one session |
| `reschedule_confirm` | `MCRescheduleConfirm.cfg` | `NeverWithoutSession`, `WriteHoldsRow`, `ConfirmedIsReal`, `RowIsReleased` | whatever fails, a session stays, the running write keeps its row, what is confirmed was made and charged |
| `reschedule_recovery` | `MCRescheduleReplay.cfg` | `TapRepeatsConfirmation`, **violated** | recovery re-arms a confirmed change, and the next tap denies it |

`TypeOK` is checked beside these; the types of `ChatQuota` are part of its proved
invariant (`Types`). Deadlock is checked for the
reminder outbox, whose crons never stop; the other specifications come to rest when their
bounded inputs are used up and all work is done.

## Bounds

The bounds are small; these are the cases each leaves room for.

- *Debounce queue*: two users, three messages each, a cap of two (so the cap drops one), a
  deadline of two ticks (so a flush and a drain can have different time left).
- *Inbox*: two events compete for one inline slot and a retry limit of one row; two
  attempts, so a failure is followed by a last attempt; two pods, so that one crashes while
  the other runs the cron; one crash or failed call. Retention of one tick lets rows
  disappear under a late worker. `RedeliveryWindow < Retention` is assumed: the platform
  stops redelivering hours after the event, retention is counted in days.
- *Quota*: two keys and two flushes suffice for every race of two reservations, of a flush
  with its replay, and of a late flush with recovery; limits of one make every second
  reservation a conflict; two days for midnight. `quota_burst` keeps one channel so that
  the burst window can be longer than the stuck window.
- *Redis queue*: two enqueue calls (two messages, or one delivered twice), two workers for
  the worker and its replacement, one retry, one fault. With a cap of one, a merge after
  recovery goes over it. `MaxKeys` is never reached.
- *Turn*: as the queue. `turn_recovery` has a window of three for the batch, of one for the
  row, and one tick from claim to reservation, the smallest values with
  `StuckReserved + ReserveWithin < StuckAfter` in which each of the three is positive. At
  equality (3, 2, 1, or equal windows and no delay) `AtLeastOnce` fails already.
- *Reminders*: one session, because rows are independent but for the mapping; two dispatch
  workers or two syncs; two times of a session, due now and due later; `reminder_jobs`
  allows any two of: crash, failed write, relink, displacement, revocation, opt-out,
  reschedule, cleanup, and so on, with two learners for the mapping. `reminder_sync` keeps
  the clock at 0 and one learner, with two events, so that an opt-out is followed by an
  opt-in and a displacement by a new link. `StartGen = 2` leaves room below the first
  generation for a restart at 1.
- *Reschedule*: two slots, two proposals, three taps, two concurrent calls, any two faults.
  `Targets` moves a session to the other slot; see below for its own slot.

`MaxMessages`, `MaxFaults`, `MaxEvents`, `MaxFlushes`, `MaxDay`, `MaxClaims`, `MaxTime`,
`MaxDeliveries`, `MaxRequests` and `MaxTaps` are bounds of the models, not of the code. The
theorems hold for every value of them.

## Fairness

All fairness is weak.

- *Debounce queue*: timers, deadlines and the drain's wake-ups fire, as `setTimeout`
  guarantees on a live event loop. Nothing is assumed of handlers.
- *Inbox*: a worker goes on unless it crashes, the cron recurs (every 30 s). Handlers are
  assumed to end, as the calls they make have timeouts; a handler that never returned would
  hold the cron's advisory lock, and that is not covered.
- *Quota*: time passes and the recovery cron recurs (every five minutes). Flushes may stop
  anywhere for ever.
- *Redis queue*: polls recur, and the steps of a flush are taken since its LLM and HTTP
  calls have deadlines. Repairs are not assumed to run.
- *Reminders*: dispatch workers and syncs go on and the clock advances; faults, link
  changes and the rollover need not happen.
- *Reschedule*: a `confirm()` goes on unless it crashes, the cron and the clock run. A tick
  is five minutes and no live call holds its claim for one: at most five upstream calls of
  at most 50 s each (`wispace-client/src/utils/with-retry.ts:97`) stay below
  `STALE_AFTER_MS`.

`turn_recovery`, `turn_default_windows`, `quota_buckets`, `reminder_jobs` and
`reminder_rollover` check safety only and use the specification without fairness.

## Proofs

The modules `*Proofs` are checked by TLAPS (SMT, Zenon and LS4). Each has an inductive
invariant `IInv`, one lemma per action or per group of similar actions, and temporal
theorems that combine them. The assumptions are the named `ASSUME`s of the component
modules: constants are natural numbers or finite sets as the code's configuration
guarantees, and `RedeliveryWindow < Retention`.

**`DebounceChatQueueProofs`** — `TypeTheorem`, `BufferTheorem`, `ScheduleTheorem`,
`KeyTheorem`: the type invariant and the three safety invariants of `debounce_queue`.
`IInv` adds to the types the shape of a buffer: during a flush there is no text and no
timer, outside a flush nothing is pending, an empty pending list has no key
(`UserShape`), and an entry of the `Map` without a flush has text and a timer
(`EntryShape`). Without the last clause of `UserShape` a promotion could carry the key of
messages that were cleared. `CappedRun` states that dropping the oldest from a run of
consecutive messages leaves such a run.

**`WebhookInboxProofs`** — `OneWorkerTheorem`, `SucceedsOnceTheorem`, `AttemptsTheorem`,
and the action property `TerminalTheorem`. The argument: an open row has exactly as many
claims as its retry count, a row in processing one more (`Budget`); a row that a worker
holds is not open, even when its lease was given up, since giving up is terminal
(`Leases`); after a success nobody runs the event and it cannot be claimed (`Successes`).
Deleting a row would reset all this, which is where the assumption on retention is used.

**`ChatQuotaProofs`** — `AnsweredOnceTheorem`, `ReplyIsChargedTheorem`,
`DeliveredTheorem`. The key is `Ledger`: confirmed replies and flushes that still hold a
reservation together never outnumber the charged row and the reservations taken back as
stuck. It counts, rather than saying who holds what, because a late flush may refund the
reservation of another. `Exclusive` and `Fresh` say what the advisory locks give: one open
reservation transaction per channel, whose reads still hold when it commits.

**`StudyReminderJobsProofs`** — `RemindedOnceTheorem`, `SendIsOwnedTheorem`,
`GenerationTheorem`, `SentTheorem`. `RowTokens` and `WorkerTokens` make a token name one
row and one worker; `ToldIsClosed` says that a row whose reminder may have arrived cannot be
dispatched again, and `HolderKnows` that the worker still holding such a row will record
it as sent or ambiguous. `SendIsOwned` compares user and generation of the claimed job with
the mapping's; no step of the proof needs generations to grow, which they do not.
`RemindedOnce` alone is not inductive: a pending row that was told
of already would be sent again.

## Only model-checked

Liveness (`NoMessageStays`, `DestroyReturns`, `EveryEventSettles`, `ReservationsSettle`,
`MessagesSettle`, `ClaimsEnd`, `JobsFollowCalendar`, `RowIsReleased`) is out of the
prover's reach. `CountersMatchRows`, `DailyLimitHolds`, `BurstLimitHolds` and
`SlotsConserved` count members of changing sets and have no proof yet, nor have the
invariants of `RedisChatQueue`, `ChatTurn` and `RescheduleConfirm`.

## Where the code and its documents disagree

Three disagreements have a run with a counterexample (`findings` in `PROJECT.json`):

1. *A crash after reserving loses the batch* (`turn_default_windows`). The queue replays a
   batch after 300 s, the ledger frees its slot after 600 s; in between the replay is taken
   for a duplicate and completed. `docs/agent-state-and-recovery.md:300` promises
   at-least-once delivery. `turn_recovery` shows what is enough: a ledger window shorter
   than the queue's by more than a flush takes from its claim to its reservation. Equal
   windows are not.
2. *The rollover repeats reminders* (`reminder_rollover`). It deletes every sent row and
   syncs, so a session that is still ahead gets a new row and a second reminder.
3. *Recovery never finds an attempt* (`reschedule_recovery`). The cron looks it up under
   the platform-prefixed id, `confirm()` stores it under the raw id. Every stale row is
   re-armed, also one whose change was confirmed; the next tap overwrites the record and
   says that the change was not made.

Smaller observations made while modelling, without a run of their own:

- A worker with an old list may claim a batch that was abandoned meanwhile
  (`redis-chat-queue.store.ts:272`); `writeState` then puts it into no index although it is
  in processing, contrary to the comment above it. The batch still completes or ends
  abandoned.
- A session "moved" to the slot it has is taken for its own replacement and deleted
  (`platform-study-calendar-command.service.ts:230`; the comment at 165 says a failure can
  never leave the user with no session). `NeverWithoutSession` fails when `Targets` allows
  it.
- A POST that timed out is repeated and may create a second session
  (`user-calendar-api.client.ts:84` calls the retry safe). A delete that timed out but was
  performed is reported as a failure and refunded.
- A tap refused because an attempt is unfinished keeps the budget unit it consumed
  (`reschedule-confirm.service.ts:573`).
- `claim()` of the inbox ignores the backoff, `claimJob()` of the reminders ignores
  `remind_at` and `next_retry_at`: both rely on the list that was read before.
- A sync that read the mapping before an opt-out reopens the cancelled job; dispatch checks
  the preference again, so nothing is sent.
- The account that `upsertLink` displaces on Discord and Zalo loses its mapping without a
  tombstone (`typeorm-discord-account-link.repository.ts:105`). Linked again, it starts at
  generation 1, below the generation its old rows may have, and `isOlderGeneration()` makes
  every sync skip them: cancelled rows of sessions still ahead stay cancelled until cleanup
  deletes them or the generation has caught up. `JobsFollowCalendar` excepts exactly these
  rows (`LeftBehind`); without the exception `reminder_sync` fails. The purge of a tombstone
  leads to the same place.
- A job cancelled between the send and `markSent` and opened again by a sync is sent again;
  `RemindedOnce` counts per opening of the row for that reason.
- A reply of several parts that is cut off and whose bookkeeping fails is refunded although
  parts arrived (`chat-pipeline.ts:287`); the first message of an anonymous channel is
  counted without a look at a daily limit of 0 (`chat-rate-limit.repository.ts:285`);
  releasing a Redis burst slot decrements the bucket of the current time
  (`redis-burst-counter.ts:122`).
- `maxPendingSize: 0` means the default cap of 20, not "no cap" (`chat-queue-core`
  `types.ts:35`).
- What is still buffered in memory when the drain's deadline passes is lost
  (`docs/agent-state-and-recovery.md:447` describes a drain), and so is the notice about
  messages the cap dropped when its send fails.

## Not modelled

Text and its functions (prompts, safety and grounding filters, formatting), HTTP and
platform gateways, metrics, configuration and bootstrap have no state that the properties
tell apart. Append-only records (LLM usage, safety events, chat history) are never read
into a decision. In the modelled parts: contexts and callbacks of the in-memory queue, the
quarantine of malformed JSON and the expiry of the buffer lock in the Redis queue, the
legacy usage schema and replies of several parts in the pipeline, delivery of the
confirmation message and the change of day of its budget in the reschedule.
`PROJECT.json` gives the reason for every part, and a note for every hazard without a
property.

## Plan

In this order; new questions join the run of the component they belong to where they can.

1. `ReportClaims`: the weekly report wave (`scheduler-core`): leader lease, per-learner
   claims with leases, retry outbox, Discord re-engagement. Properties: one report per
   learner and week unless recording it failed (the catch releases the claim); a send that
   outlasts its lease; the read-change-save of `recordRetryableFailure()` against the retry
   dispatcher; a database error that makes every pod the leader; no learner left claimed.
2. `LlmAdmission`: bounded local queue composed with the Redis slot counter. An abstract
   specification (at most N calls, no slot lost for ever) that the composition is shown to
   implement up to the counter's expiry. Hard spots: a slot granted after its caller gave
   up, a waiter at the head that backs off in front of others.
3. `DeadLetters` and `PrivacyCleanup`: leased outboxes; an abstract leased job that these,
   `WebhookInbox` and `StudyReminderJobs` refine (`INSTANCE ... WITH`). Hard spots: a pod
   that dies between the provider's acknowledgement and the update, a request that completes
   a job a worker holds.
4. `Clarification` (compare-and-set), `ZaloToken` (single-use refresh token),
   `WispaceDataCache` (invalidation against fetches in flight), account-link reconcile.
5. Proofs: `LeaseIsBatch` and `NothingLost` of `RedisChatQueue`; `WriteHoldsRow` and
   `ConfirmedIsReal` of `RescheduleConfirm`; `CountersMatchRows` and
   `DailyLimitHolds` of `ChatQuota` with the cardinality lemmas of `ChatQuotaProofs`.
