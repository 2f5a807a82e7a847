--------------------------- MODULE RedisChatQueue ---------------------------
(***************************************************************************)
(* The production chat queue (packages/chat-agent/src/chat-queue): the     *)
(* Redis buffer of one user, its three indexes, the workers that poll them *)
(* and flush batches, and the jobs that repair the indexes.  Users share   *)
(* no state but the poll limit, so one user is modelled; listing the user  *)
(* stands for their turn in a poll.                                        *)
(*                                                                         *)
(* A store operation runs under the user's Redis lock and writes in one    *)
(* MULTI, so it is one step.  A message is its own idempotency key.  Times *)
(* are countdowns in ticks; Unset is a null time or no index member.       *)
(***************************************************************************)
EXTENDS Integers, Sequences

CONSTANTS
  Messages,       \* messages of the user
  NoKey,          \* a null idempotency key
  Workers,        \* flush slots of all pods
  MaxPending,     \* CHAT_MAX_PENDING_MESSAGES, 0 is no cap
  MaxKeys,        \* MAX_IDEMPOTENCY_KEYS
  MaxRetries,     \* CHAT_FLUSH_MAX_RETRIES
  RetryEnabled,   \* CHAT_FLUSH_RETRY_ENABLED
  ChecksMapping,  \* a freshMappingProvider is configured
  Debounce,       \* CHAT_DEBOUNCE_MS
  RetryDelay,     \* CHAT_FLUSH_RETRY_DELAY_MS
  StuckAfter,     \* CHAT_QUEUE_PROCESSING_STUCK_MS
  MaxDeliveries,  \* bound: enqueue calls
  MaxFaults       \* bound: crashes and failed store calls

ASSUME QueueAssumption ==
  /\ NoKey \notin Messages
  /\ RetryEnabled \in BOOLEAN /\ ChecksMapping \in BOOLEAN
  /\ {MaxPending, Debounce, RetryDelay, MaxDeliveries, MaxFaults} \subseteq Nat
  /\ {MaxKeys, MaxRetries, StuckAfter} \subseteq Nat \ {0}

VARIABLES
  buf,         \* the buffer JSON
  active,      \* membership of the active set
  flushSet,    \* score in the flush ZSET
  stuckSet,    \* score in the stuck ZSET
  worker,      \* what each flush slot is doing
  rehydrate,   \* the rehydration, under its own lock
  claims,      \* lease tokens issued
  owed,        \* history: messages accepted and not yet settled
  deliveries,  \* enqueue calls so far
  faults       \* faults so far

store == <<buf, active, flushSet, stuckSet>>
bounds == <<deliveries, faults>>
vars == <<store, worker, rehydrate, claims, owed, bounds>>

Unset == -1
emptyState == [texts |-> <<>>, pending |-> <<>>, proc |-> <<>>, processing |-> FALSE,
               stuckIn |-> 0, token |-> 0, lastKey |-> NoKey, pendKey |-> NoKey,
               procKey |-> NoKey, keys |-> <<>>, retry |-> 0, abandoned |-> FALSE,
               flushIn |-> Unset]
Idle == [pc |-> "idle", token |-> 0, batch |-> <<>>, key |-> NoKey, retry |-> 0]
NoScan == [pc |-> "idle", set |-> "none", score |-> Unset]

Elements(s) == {s[i] : i \in DOMAIN s}
Held(b) == Elements(b.texts) \cup Elements(b.pending) \cup Elements(b.proc)
HasWork(b) == b.texts # <<>> \/ b.pending # <<>> \/ b.proc # <<>> \/ b.processing

Init ==
  /\ buf = emptyState
  /\ active = FALSE /\ flushSet = Unset /\ stuckSet = Unset
  /\ worker = [w \in Workers |-> Idle]
  /\ rehydrate = NoScan
  /\ claims = 0
  /\ owed = {}
  /\ deliveries = 0 /\ faults = 0

Fault == faults < MaxFaults /\ faults' = faults + 1 /\ UNCHANGED deliveries
At(w, pc) == worker[w].pc = pc
Goto(w, pc) == worker' = [worker EXCEPT ![w].pc = pc]
End(w) == worker' = [worker EXCEPT ![w] = Idle]

\* Faulty variant: one element too many is kept.
LastNAndOne(s, n) == IF Len(s) > n + 1 THEN SubSeq(s, Len(s) - n + 1, Len(s)) ELSE s

\* The last n elements of a sequence.
LastN(s, n) == IF Len(s) > n THEN SubSeq(s, Len(s) - n + 1, Len(s)) ELSE s
-----------------------------------------------------------------------------
(* Buffer and indexes.                                                     *)

\* Faulty variant: a batch in flight is not put in the stuck set.
StuckScoreMissing(b) == Unset

\* The scores writeState() gives a buffer.
StuckScore(b) == IF HasWork(b) /\ b.processing /\ ~b.abandoned THEN b.stuckIn ELSE Unset

FlushScore(b) ==
  IF ~HasWork(b) \/ b.processing \/ b.abandoned THEN Unset
  ELSE IF b.flushIn = Unset THEN 0 ELSE b.flushIn

\* writeState(): a buffer without work is deleted.
Write(b) ==
  /\ buf' = IF HasWork(b) THEN b ELSE emptyState
  /\ active' = HasWork(b)
  /\ flushSet' = FlushScore(b)
  /\ stuckSet' = StuckScore(b)

\* The user leaves every index.
DropIndexes == active' = FALSE /\ flushSet' = Unset /\ stuckSet' = Unset

\* resetToReady().
Ready(b, texts, flushIn) ==
  [b EXCEPT !.processing = FALSE, !.stuckIn = 0, !.token = 0, !.procKey = NoKey,
            !.proc = <<>>, !.texts = texts, !.pending = <<>>, !.flushIn = flushIn]

\* What a retry or a recovery flushes again.
Replay(b) == b.proc \o b.pending

\* Faulty variant: the claimed batch's key is kept.
ReplayKeyOfBatch(b) == IF b.procKey # NoKey THEN b.procKey ELSE b.pendKey

ReplayKey(b) ==
  IF b.pendKey # NoKey THEN b.pendKey
  ELSE IF b.procKey # NoKey THEN b.procKey ELSE b.lastKey


Exhausted(b) == b.retry + 1 > MaxRetries

\* The batch goes back to the buffer for another attempt after a delay, or is
\* kept as abandoned when the retries are used up.
Requeued(b, delay) ==
  [Ready(b, Replay(b), IF Exhausted(b) THEN Unset ELSE delay) EXCEPT
     !.lastKey = ReplayKey(b), !.pendKey = NoKey, !.retry = b.retry + 1,
     !.abandoned = Exhausted(b)]
-----------------------------------------------------------------------------
(* Enqueue.                                                                *)

Cap(s) == IF MaxPending > 0 THEN LastN(s, MaxPending) ELSE s

Dropped(s) == Elements(s) \ Elements(Cap(s))

\* The list a new message goes to.
Target(b) == IF b.processing THEN b.pending ELSE b.texts

\* The buffer after a new message.
Appended(b, m) ==
  LET s == Append(Target(b), m)
      c == [b EXCEPT !.keys = LastN(Append(@, m), MaxKeys), !.abandoned = FALSE,
                     !.retry = IF b.abandoned THEN 0 ELSE @]
  IN  IF b.processing
      THEN [c EXCEPT !.pending = Cap(s), !.pendKey = m]
      ELSE [c EXCEPT !.texts = Cap(s), !.lastKey = m, !.flushIn = Debounce]

\* Faulty variant: redeliveries are not recognised.
SeenNever(b, m) == FALSE

Seen(b, m) == m \in Elements(b.keys)

\* appendChatBuffer(): a new message, or one already in the buffer.  An append
\* that throws is delivered again by the inbox.
Enqueue(m) ==
  /\ deliveries < MaxDeliveries
  /\ deliveries' = deliveries + 1
  /\ \/ /\ Seen(buf, m)
        /\ active' = TRUE
        /\ UNCHANGED <<buf, flushSet, stuckSet, owed>>
     \/ /\ ~Seen(buf, m)
        /\ Write(Appended(buf, m))
        /\ owed' = (owed \cup {m}) \ Dropped(Append(Target(buf), m))
  /\ UNCHANGED <<worker, rehydrate, claims, faults>>
-----------------------------------------------------------------------------
(* Workers.                                                                *)

Due == flushSet = 0 \/ stuckSet = 0

\* listReadyExternalUserIds() returns the user, due by one of the ZSETs.
List(w) ==
  /\ At(w, "idle")
  /\ Due /\ HasWork(buf)
  /\ Goto(w, "listed")
  /\ UNCHANGED <<store, rehydrate, claims, owed, bounds>>

\* It drops a due member whose buffer is gone.
RemoveStaleMember ==
  /\ Due /\ ~HasWork(buf)
  /\ DropIndexes
  /\ UNCHANGED <<buf, worker, rehydrate, claims, owed, bounds>>

\* Faulty variant: a claim never takes over a stuck batch.
StuckNever(b) == FALSE

Stuck(b) == b.processing /\ b.stuckIn = 0

\* The first half of claimReadyBuffer(): a stuck batch is taken back.
Recovered(b) ==
  IF ~Stuck(b) THEN b
  ELSE IF Replay(b) = <<>> THEN Ready(b, b.texts, b.flushIn) ELSE Requeued(b, 0)

\* The claim ends early: in flight, nothing to flush, or not due yet.
Declined(b) == b.processing \/ b.texts = <<>> \/ b.flushIn > 0

\* The second half: the batch in flight under a new lease.
Claimed(b, token) ==
  [b EXCEPT !.proc = b.texts, !.texts = <<>>, !.procKey = b.lastKey, !.lastKey = NoKey,
            !.processing = TRUE, !.stuckIn = StuckAfter, !.token = token]

\* Faulty variant: a recovered batch keeps its lease token.
NextTokenKept == IF buf.token # 0 THEN buf.token ELSE claims + 1

NextToken == claims + 1

\* claimReadyBuffer().
Claim(w) ==
  LET b == Recovered(buf)
  IN  /\ At(w, "listed")
      /\ \/ /\ Stuck(buf) /\ (b.abandoned \/ Declined(b))
            /\ Write(b)
            /\ End(w)
            /\ UNCHANGED claims
         \/ /\ ~Stuck(buf) /\ Declined(b)
            /\ End(w)
            /\ UNCHANGED <<store, claims>>
         \/ /\ ~Declined(b) /\ ~(Stuck(buf) /\ b.abandoned)
            /\ Write(Claimed(b, NextToken))
            /\ worker' = [worker EXCEPT ![w] =
                 [pc |-> "claimed", token |-> NextToken, batch |-> b.texts,
                  key |-> b.lastKey, retry |-> b.retry]]
            /\ claims' = claims + 1
      /\ UNCHANGED <<rehydrate, owed, bounds>>

\* scheduleRetryForFailedBatch() does nothing when retries are off: the batch
\* waits in flight until it is stuck.
FailBatch(w) == IF RetryEnabled THEN Goto(w, "retrying") ELSE End(w)

\* applyFreshMapping() drops the batch of an account that is not linked.
DropBatch(w) ==
  /\ Goto(w, "completing")
  /\ owed' = owed \ Elements(worker[w].batch)

\* flushReady() looks the mapping up again: the learner is linked; or unknown,
\* and the batch is deferred; or not linked, and the batch is dropped.
CheckMapping(w) ==
  /\ At(w, "claimed")
  /\ \/ /\ Goto(w, "running")
        /\ UNCHANGED owed
     \/ /\ ChecksMapping
        /\ FailBatch(w)
        /\ UNCHANGED owed
     \/ ChecksMapping /\ DropBatch(w)
  /\ UNCHANGED <<store, rehydrate, claims, bounds>>

\* handleFlush(): delivered, denied, duplicate, terminal or fallback sent.
FlushHandled(w) ==
  /\ At(w, "running")
  /\ Goto(w, "completing")
  /\ owed' = owed \ Elements(worker[w].batch)
  /\ UNCHANGED <<store, rehydrate, claims, bounds>>

\* handleFlush(): failed, and the fallback was not sent.
FlushFailed(w) ==
  /\ At(w, "running")
  /\ FailBatch(w)
  /\ UNCHANGED <<store, rehydrate, claims, owed, bounds>>

HoldsLease(w) == buf.processing /\ buf.token = worker[w].token

\* Faulty variant: what arrived meanwhile is cleared with the batch.
CompletedAlone(b) ==
  [Ready(b, <<>>, Unset) EXCEPT !.lastKey = NoKey, !.pendKey = NoKey, !.retry = 0,
     !.abandoned = FALSE]

\* The buffer after its batch is done: what arrived meanwhile is debounced.
Completed(b) ==
  [Ready(b, b.pending, IF b.pending # <<>> THEN Debounce ELSE Unset) EXCEPT
     !.lastKey = b.pendKey, !.pendKey = NoKey, !.retry = 0, !.abandoned = FALSE]

\* completeChatBuffer().
CompleteChatBuffer(w) ==
  /\ At(w, "completing")
  /\ \/ HoldsLease(w) /\ Write(Completed(buf))
     \/ ~HoldsLease(w) /\ UNCHANGED store
  /\ End(w)
  /\ UNCHANGED <<rehydrate, claims, owed, bounds>>

\* scheduleRetryFlush(); a batch in flight is never empty.
ScheduleRetryFlush(w) ==
  /\ At(w, "retrying")
  /\ \/ HoldsLease(w) /\ Write(Requeued(buf, RetryDelay))
     \/ ~HoldsLease(w) /\ UNCHANGED store
  /\ End(w)
  /\ UNCHANGED <<rehydrate, claims, owed, bounds>>

\* The user's lock is busy or Redis fails: claim, completion or retry is lost.
StoreFails(w) ==
  /\ worker[w].pc \in {"listed", "completing", "retrying"}
  /\ Fault
  /\ End(w)
  /\ UNCHANGED <<store, rehydrate, claims, owed>>

\* The pod dies.
Crash(w) ==
  /\ worker[w].pc \in {"claimed", "running"}
  /\ Fault
  /\ End(w)
  /\ UNCHANGED <<store, rehydrate, claims, owed>>
-----------------------------------------------------------------------------
(* Erasure, repair and time.                                               *)

\* clearChatBuffer(): the account is unlinked or erased.
ClearChatBuffer ==
  /\ HasWork(buf)
  /\ buf' = emptyState
  /\ DropIndexes
  /\ owed' = owed \ Held(buf)
  /\ UNCHANGED <<worker, rehydrate, claims, bounds>>

\* The key expires a day after the last write, which only an abandoned buffer
\* lives to see; the indexes stay.
Expire ==
  /\ buf.abandoned
  /\ buf' = emptyState
  /\ owed' = owed \ Held(buf)
  /\ UNCHANGED <<active, flushSet, stuckSet, worker, rehydrate, claims, bounds>>

\* The indexes reconcileUser() expects.
Mismatch ==
  \/ active # HasWork(buf)
  \/ (flushSet # Unset) # (~buf.processing /\ ~buf.abandoned /\ buf.texts # <<>>)
  \/ (stuckSet # Unset) # buf.processing

\* reconcileUser(): the buffer is written again, or the indexes of a missing
\* buffer are dropped.
Reconcile ==
  /\ Mismatch
  /\ Write(buf)
  /\ UNCHANGED <<worker, rehydrate, claims, owed, bounds>>

\* maybeRehydrate() holds no user lock: it finds both ZSETs empty, ...
RehydrateStart ==
  /\ rehydrate.pc = "idle"
  /\ flushSet = Unset /\ stuckSet = Unset /\ active
  /\ rehydrate' = [rehydrate EXCEPT !.pc = "reading"]
  /\ UNCHANGED <<store, worker, claims, owed, bounds>>

\* ... reads the buffer, and drops the member if there is none, ...
RehydrateRead ==
  /\ rehydrate.pc = "reading"
  /\ \/ /\ buf.processing /\ ~buf.abandoned
        /\ rehydrate' = [pc |-> "adding", set |-> "stuck", score |-> buf.stuckIn]
        /\ UNCHANGED store
     \/ /\ ~buf.processing /\ ~buf.abandoned /\ buf.texts # <<>> /\ buf.flushIn # Unset
        /\ rehydrate' = [pc |-> "adding", set |-> "flush", score |-> buf.flushIn]
        /\ UNCHANGED store
     \/ /\ buf.abandoned \/ ~HasWork(buf)
        /\ rehydrate' = NoScan
        /\ IF HasWork(buf) THEN UNCHANGED store ELSE DropIndexes /\ UNCHANGED buf
  /\ UNCHANGED <<worker, claims, owed, bounds>>

\* ... and adds the score it read.
RehydrateAdd ==
  /\ rehydrate.pc = "adding"
  /\ flushSet' = IF rehydrate.set = "flush" THEN rehydrate.score ELSE flushSet
  /\ stuckSet' = IF rehydrate.set = "stuck" THEN rehydrate.score ELSE stuckSet
  /\ rehydrate' = NoScan
  /\ UNCHANGED <<buf, active, worker, claims, owed, bounds>>

Less(n) == IF n > 0 THEN n - 1 ELSE n

Tick ==
  /\ \E n \in {buf.flushIn, buf.stuckIn, flushSet, stuckSet, rehydrate.score} : n > 0
  /\ buf' = [buf EXCEPT !.flushIn = Less(@), !.stuckIn = Less(@)]
  /\ flushSet' = Less(flushSet)
  /\ stuckSet' = Less(stuckSet)
  /\ rehydrate' = [rehydrate EXCEPT !.score = Less(@)]
  /\ UNCHANGED <<active, worker, claims, owed, bounds>>

Next ==
  \/ \E m \in Messages : Enqueue(m)
  \/ \E w \in Workers :
       \/ List(w) \/ Claim(w) \/ CheckMapping(w) \/ FlushHandled(w) \/ FlushFailed(w)
       \/ CompleteChatBuffer(w) \/ ScheduleRetryFlush(w) \/ StoreFails(w) \/ Crash(w)
  \/ RemoveStaleMember \/ ClearChatBuffer \/ Expire \/ Reconcile
  \/ RehydrateStart \/ RehydrateRead \/ RehydrateAdd \/ Tick

Spec == Init /\ [][Next]_vars

\* Polls recur and the calls of a flush have timeouts, so a worker's next step
\* and the clock cannot be put off for ever.
Fairness ==
  /\ WF_vars(Tick)
  /\ \A w \in Workers :
       /\ WF_vars(List(w)) /\ WF_vars(Claim(w)) /\ WF_vars(CheckMapping(w))
       /\ WF_vars(FlushHandled(w) \/ FlushFailed(w))
       /\ WF_vars(CompleteChatBuffer(w)) /\ WF_vars(ScheduleRetryFlush(w))

FairSpec == Spec /\ Fairness
-----------------------------------------------------------------------------
(* Properties.                                                             *)

Scores == {Unset} \cup Nat
Buffers ==
  [texts : Seq(Messages), pending : Seq(Messages), proc : Seq(Messages),
   processing : BOOLEAN, stuckIn : 0..StuckAfter, token : Nat,
   lastKey : Messages \cup {NoKey}, pendKey : Messages \cup {NoKey},
   procKey : Messages \cup {NoKey}, keys : Seq(Messages), retry : Nat,
   abandoned : BOOLEAN, flushIn : Scores]
WorkerStates ==
  [pc : {"idle", "listed", "claimed", "running", "completing", "retrying"}, token : Nat,
   batch : Seq(Messages), key : Messages \cup {NoKey}, retry : Nat]

\* The buffer, the indexes and the workers have the shapes the code gives them, and
\* the lists the code caps stay within their caps.
TypeOK ==
  /\ buf \in Buffers /\ Len(buf.keys) <= MaxKeys
  /\ MaxPending > 0 => /\ Len(buf.pending) <= MaxPending
                        /\ buf.retry = 0 => Len(buf.texts) <= MaxPending
  /\ active \in BOOLEAN /\ flushSet \in Scores /\ stuckSet \in Scores
  /\ worker \in [Workers -> WorkerStates]
  /\ rehydrate \in [pc : {"idle", "reading", "adding"}, set : {"none", "flush", "stuck"},
                    score : Scores]
  /\ claims \in Nat /\ owed \subseteq Messages
  /\ deliveries \in 0..MaxDeliveries /\ faults \in 0..MaxFaults

\* Every accepted message is in the buffer until a flush has handled it, the cap
\* or a missing mapping has dropped it, or the buffer was erased: crashes, retries
\* and recoveries by appendChatBuffer(), claimReadyBuffer(), scheduleRetryFlush()
\* and completeChatBuffer() lose nothing.
NothingLost == owed \subseteq Held(buf)

Flushing(w) == worker[w].pc \in {"claimed", "running", "completing", "retrying"}

\* The worker whose lease token is in the buffer, and no other, works on the batch
\* that is in flight: completion and retry change only the caller's own batch.
LeaseIsBatch ==
  \A w \in Workers : Flushing(w) /\ buf.processing /\ buf.token = worker[w].token =>
    /\ worker[w].batch = buf.proc /\ worker[w].batch # <<>>
    /\ \A v \in Workers \ {w} : ~(Flushing(v) /\ worker[v].token = worker[w].token)

\* A batch is charged under the key of its newest message, whatever retries and
\* recoveries merged into it.
KeyOfNewest ==
  \A w \in Workers : Flushing(w) => worker[w].key = worker[w].batch[Len(worker[w].batch)]

\* A message is at most once in the buffer however often the webhook or the inbox
\* delivers it, as long as its key is remembered (appendChatBuffer()).
NoDuplicates ==
  LET s == buf.proc \o buf.texts \o buf.pending
  IN  \A i, j \in DOMAIN s : s[i] = s[j] => i = j

\* Work that is not abandoned is in the index that will bring a worker to it, whatever
\* retries, recoveries, repairs and rehydrations wrote it (writeState()).
WorkIsIndexed ==
  HasWork(buf) /\ ~buf.abandoned =>
    IF buf.processing THEN stuckSet # Unset ELSE flushSet # Unset

\* Every accepted message is settled, or kept in a buffer marked as abandoned.
MessagesSettle ==
  \A m \in Messages : m \in owed ~> (m \notin owed \/ buf.abandoned)
=============================================================================
