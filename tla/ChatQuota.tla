----------------------------- MODULE ChatQuota ------------------------------
(***************************************************************************)
(* The chat quota and the reply pipeline that spends it                    *)
(* (packages/chat-metering/src/chat-rate-limit, packages/chat-pipeline).   *)
(* A flush of a batch reserves a slot under the batch's idempotency key,   *)
(* asks the agent, sends the reply and finalises or refunds the slot.  Two *)
(* tables hold the quota: chat_idempotency, one row per key with the owner *)
(* charged, and chat_daily_usage, one counter per channel, owner and day.  *)
(*                                                                         *)
(* Several flushes may run for one key: the queue retries a failed batch   *)
(* and replays one whose worker seems dead.  The Redis burst counter only  *)
(* advises and is left out; the usage tables are the owner-aware ones.     *)
(***************************************************************************)
EXTENDS Integers, FiniteSets, FiniteSetsExt

CONSTANTS
  Keys,           \* idempotency keys
  Channels,       \* (platform, external user id)
  KeyChannel,     \* the channel of each key
  Learners,       \* WISPACE user ids
  Anon,           \* the owner of a channel that is not linked
  Flushes,        \* workers, each running one flush at a time
  DailyLimit,     \* CHAT_FREE_FORM_DAILY_LIMIT
  BurstLimit,     \* CHAT_BURST_PER_MINUTE
  BurstWindow,    \* CHAT_BURST_WINDOW_MS
  StuckReserved,  \* CHAT_IDEMPOTENCY_STUCK_RESERVED_MS
  Retention,      \* CHAT_IDEMPOTENCY_RETENTION_DAYS
  MaxDay,         \* bound: days
  MaxFlushes,     \* bound: flushes in all
  MaxFaults       \* bound: crashes and failed calls

ASSUME QuotaAssumption ==
  /\ Keys # {} /\ IsFiniteSet(Keys) /\ IsFiniteSet(Flushes) /\ IsFiniteSet(Channels)
  /\ KeyChannel \in [Keys -> Channels]
  /\ Anon \notin Learners
  /\ {DailyLimit, BurstLimit, BurstWindow, StuckReserved, Retention, MaxDay}
       \subseteq Nat \ {0}
  /\ {MaxFlushes, MaxFaults} \subseteq Nat
  /\ StuckReserved <= Retention /\ BurstWindow <= Retention

VARIABLES
  idem,       \* chat_idempotency
  usage,      \* chat_daily_usage.free_form_count
  link,       \* the learner each channel is linked to
  today,      \* todayInTimezone()
  flush,      \* the state of each worker
  confirmed,  \* history: confirmed replies, clarifications aside
  recovered,  \* history: reservations taken back because they were stuck
  started,    \* flushes so far
  faults      \* faults so far

vars == <<idem, usage, link, today, flush, confirmed, recovered, started, faults>>

Owners == Learners \cup {Anon}
Days == 1..MaxDay
Buckets == Channels \X Owners \X Days
NoRow == [status |-> "none", owner |-> Anon, day |-> 1, age |-> 0]
Idle == [pc |-> "idle", key |-> CHOOSE k \in Keys : TRUE, owner |-> Anon, day |-> 1,
         again |-> FALSE, verdict |-> "none", delivered |-> FALSE]

\* The statuses under which a key counts against the quota.
Counting == {"reserved", "delivered", "completed"}

Init ==
  /\ idem = [k \in Keys |-> NoRow]
  /\ usage = [b \in Buckets |-> 0]
  /\ link \in [Channels -> Owners]
  /\ today = 1
  /\ flush = [w \in Flushes |-> Idle]
  /\ confirmed = [k \in Keys |-> 0]
  /\ recovered = [k \in Keys |-> 0]
  /\ started = 0
  /\ faults = 0

Fault == faults < MaxFaults /\ faults' = faults + 1

At(w, pc) == flush[w].pc = pc
Goto(w, pc) == flush' = [flush EXCEPT ![w].pc = pc]
End(w) == flush' = [flush EXCEPT ![w] = Idle]
Key(w) == flush[w].key
Status(k) == idem[k].status
SetStatus(k, s) == idem' = [idem EXCEPT ![k].status = s]
DeleteRow(k) == idem' = [idem EXCEPT ![k] = NoRow]

\* The counter a key was charged to, from the owner and day its row records.
Bucket(k) == <<KeyChannel[k], idem[k].owner, idem[k].day>>
Less(n, d) == IF n > d THEN n - d ELSE 0
Stuck(k) == idem[k].age > StuckReserved
-----------------------------------------------------------------------------
(* Reservation.                                                            *)

\* flush() begins; the mapping and the day are read once.  No batch is retried
\* after the row of its key has been purged.
Start(w, k) ==
  /\ At(w, "idle")
  /\ started < MaxFlushes
  /\ Status(k) # "purged"
  /\ flush' = [flush EXCEPT ![w] = [Idle EXCEPT !.pc = "reserving", !.key = k,
                                      !.owner = link[KeyChannel[k]], !.day = today]]
  /\ started' = started + 1
  /\ UNCHANGED <<idem, usage, link, today, confirmed, recovered, faults>>

\* Faulty variant: reservations of one learner are not serialised.
ConflictsOnChannel(v, w) ==
  /\ flush[v].pc = "committing"
  /\ KeyChannel[Key(v)] = KeyChannel[Key(w)]

\* The advisory transaction locks: on the learner and day, and on the channel.
Conflicts(v, w) ==
  /\ flush[v].pc = "committing"
  /\ \/ KeyChannel[Key(v)] = KeyChannel[Key(w)]
     \/ flush[v].owner # Anon /\ flush[v].owner = flush[w].owner /\ flush[v].day = flush[w].day

\* The rows of a channel that count in the burst window.
InBurst(c) == {k \in Keys : KeyChannel[k] = c /\ Status(k) \in Counting
                              /\ idem[k].age < BurstWindow}

\* The usage of an owner on a day as seen from a channel: a learner's over all
\* channels, an anonymous channel's its own.
Used(c, o, d) ==
  IF o = Anon THEN usage[<<c, o, d>>]
              ELSE MapThenSumSet(LAMBDA x : usage[<<x, o, d>>], Channels)


Exhausted(c, o, d) == Used(c, o, d) >= DailyLimit

\* Faulty variant: the row being inserted does not count in the burst.
BurstExceededLate(c) == Cardinality(InBurst(c)) > BurstLimit

BurstExceeded(c) == Cardinality(InBurst(c)) + 1 > BurstLimit

\* ON CONFLICT DO NOTHING returns no row.
Taken(k) == Status(k) # "none"

\* What the reservation transaction finds.
Verdict(k, o, d) ==
  IF Taken(k) THEN "conflict"
  ELSE IF BurstExceeded(KeyChannel[k]) THEN "burst"
  ELSE IF Exhausted(KeyChannel[k], o, d) THEN "daily" ELSE "ok"

\* reserveFreeFormSlotInTransaction(): locks taken, table read.
Reserve(w) ==
  /\ At(w, "reserving")
  /\ \A v \in Flushes \ {w} : ~Conflicts(v, w)
  /\ flush' = [flush EXCEPT ![w].pc = "committing",
                 ![w].verdict = Verdict(Key(w), flush[w].owner, flush[w].day)]
  /\ UNCHANGED <<idem, usage, link, today, confirmed, recovered, started, faults>>

\* The transaction writes the row and the counter.
WriteReservation(w) ==
  LET f == flush[w]
  IN  /\ idem' = [idem EXCEPT ![f.key] = [status |-> "reserved", owner |-> f.owner,
                                          day |-> f.day, age |-> 0]]
      /\ usage' = [usage EXCEPT ![<<KeyChannel[f.key], f.owner, f.day>>] = @ + 1]

\* Faulty variant: a duplicate has its answer sent again.
CommitIgnoringConflict(w) ==
  /\ At(w, "committing")
  /\ \/ flush[w].verdict = "ok" /\ WriteReservation(w) /\ Goto(w, "answering")
     \/ flush[w].verdict = "conflict" /\ Goto(w, "sending") /\ UNCHANGED <<idem, usage>>
     \/ flush[w].verdict \in {"burst", "daily"} /\ End(w) /\ UNCHANGED <<idem, usage>>
  /\ UNCHANGED <<link, today, confirmed, recovered, started, faults>>

\* The transaction ends: reserved, refused, or in conflict, which is followed
\* by a recovery the first time and taken for a duplicate the second time.
Commit(w) ==
  /\ At(w, "committing")
  /\ \/ /\ flush[w].verdict = "ok"
        /\ WriteReservation(w)
        /\ Goto(w, "answering")
     \/ /\ flush[w].verdict = "conflict" /\ ~flush[w].again
        /\ Goto(w, "recovering")
        /\ UNCHANGED <<idem, usage>>
     \/ /\ flush[w].verdict \in {"burst", "daily"} \/ (flush[w].verdict = "conflict" /\ flush[w].again)
        /\ End(w)
        /\ UNCHANGED <<idem, usage>>
  /\ UNCHANGED <<link, today, confirmed, recovered, started, faults>>

\* The reservation throws, applied or not: the flush throws without a refund.
ReserveThrows(w) ==
  /\ At(w, "committing")
  /\ Fault
  /\ \/ flush[w].verdict = "ok" /\ WriteReservation(w)
     \/ UNCHANGED <<idem, usage>>
  /\ End(w)
  /\ UNCHANGED <<link, today, confirmed, recovered, started>>
-----------------------------------------------------------------------------
(* Taking a reservation back.                                              *)

\* Faulty variant: a slot is refunded to whoever the channel is linked to now.
ReleaseLinked(k) ==
  usage' = [usage EXCEPT ![<<KeyChannel[k], link[KeyChannel[k]], idem[k].day>>] = Less(@, 1)]

\* The charged counter goes down by one, never below 0.
ReleaseSlot(k) == usage' = [usage EXCEPT ![Bucket(k)] = Less(@, 1)]

ReopensStuck(k) == Status(k) = "reserved" /\ Stuck(k)

ReopensRefunded(k) == Status(k) = "refunded"

\* recoverIdempotencyForRetry() and the second attempt to reserve.
RecoverForRetry(w) ==
  LET k == Key(w)
      reopen == flush' = [flush EXCEPT ![w].pc = "reserving", ![w].again = TRUE]
  IN  /\ At(w, "recovering")
      /\ \/ /\ ReopensStuck(k)
            /\ DeleteRow(k)
            /\ ReleaseSlot(k)
            /\ recovered' = [recovered EXCEPT ![k] = @ + 1]
            /\ reopen
         \/ /\ ReopensRefunded(k)
            /\ DeleteRow(k)
            /\ reopen
            /\ UNCHANGED <<usage, recovered>>
         \/ /\ ~ReopensStuck(k) /\ ~ReopensRefunded(k)
            /\ End(w)
            /\ UNCHANGED <<idem, usage, recovered>>
      /\ UNCHANGED <<link, today, confirmed, started, faults>>

\* Faulty variant: a refund also takes back a delivered slot.
RefundableUnlessTerminal(k) == Status(k) \in {"reserved", "delivered"}

Refundable(k) == Status(k) = "reserved"

\* refundReservedSlot() at the end of a flush.
Refund(w) ==
  LET k == Key(w)
  IN  /\ At(w, "refunding")
      /\ \/ Refundable(k) /\ SetStatus(k, "refunded") /\ ReleaseSlot(k)
         \/ ~Refundable(k) /\ UNCHANGED <<idem, usage>>
      /\ End(w)
      /\ UNCHANGED <<link, today, confirmed, recovered, started, faults>>

\* The refund or the recovery throws; the flush ends and nothing is taken back.
TakeBackThrows(w) ==
  /\ flush[w].pc \in {"refunding", "recovering"}
  /\ Fault
  /\ End(w)
  /\ UNCHANGED <<idem, usage, link, today, confirmed, recovered, started>>
-----------------------------------------------------------------------------
(* The reply.                                                              *)

\* agent.reply(): a text to send, a replayed clarification that is not sent
\* again (skipDelivery), or nothing to send or an error.
Answer(w) ==
  /\ At(w, "answering")
  /\ \/ Goto(w, "sending")
     \/ flush' = [flush EXCEPT ![w].pc = "marking", ![w].delivered = TRUE]
     \/ Goto(w, "refunding")
  /\ UNCHANGED <<idem, usage, link, today, confirmed, recovered, started, faults>>

\* Faulty variant: a delivered reply is followed by a refund.
SendThenRefund(w) ==
  /\ At(w, "sending")
  /\ Goto(w, "refunding")
  /\ \/ confirmed' = [confirmed EXCEPT ![Key(w)] = @ + 1]
     \/ UNCHANGED confirmed
  /\ UNCHANGED <<idem, usage, link, today, recovered, started, faults>>

\* outbound.sendText(): delivered; delivered in part; a clarification, not
\* delivered, rate limited or an error, which are refunded.
Send(w) ==
  /\ At(w, "sending")
  /\ \/ /\ flush' = [flush EXCEPT ![w].pc = "marking", ![w].delivered = TRUE]
        /\ confirmed' = [confirmed EXCEPT ![Key(w)] = @ + 1]
     \/ Goto(w, "marking") /\ UNCHANGED confirmed
     \/ Goto(w, "refunding") /\ UNCHANGED confirmed
  /\ UNCHANGED <<idem, usage, link, today, recovered, started, faults>>

DeliverRow(k) ==
  \/ Status(k) = "reserved" /\ SetStatus(k, "delivered")
  \/ Status(k) # "reserved" /\ UNCHANGED idem

CompleteRow(k) ==
  \/ Status(k) \in {"reserved", "delivered"} /\ SetStatus(k, "completed")
  \/ Status(k) \notin {"reserved", "delivered"} /\ UNCHANGED idem

\* markDeliveredSlot().
MarkDelivered(w) ==
  /\ At(w, "marking")
  /\ DeliverRow(Key(w))
  /\ Goto(w, "appending")
  /\ UNCHANGED <<usage, link, today, confirmed, recovered, started, faults>>

\* history.appendTurn(), or no turn to append.
AppendTurn(w) ==
  /\ At(w, "appending")
  /\ Goto(w, "completing")
  /\ UNCHANGED <<idem, usage, link, today, confirmed, recovered, started, faults>>

\* completeReservedSlot().
MarkCompleted(w) ==
  /\ At(w, "completing")
  /\ CompleteRow(Key(w))
  /\ End(w)
  /\ UNCHANGED <<usage, link, today, confirmed, recovered, started, faults>>

\* markDelivered() or appendTurn() throws: a refund unless delivered.
BookkeepingThrows(w) ==
  /\ flush[w].pc \in {"marking", "appending"}
  /\ Fault
  /\ \/ At(w, "marking") /\ DeliverRow(Key(w))
     \/ UNCHANGED idem
  /\ \/ flush[w].delivered /\ End(w)
     \/ ~flush[w].delivered /\ Goto(w, "refunding")
  /\ UNCHANGED <<usage, link, today, confirmed, recovered, started>>

\* markCompleted() throws and changes nothing; the error is swallowed.
CompletionThrows(w) ==
  /\ At(w, "completing")
  /\ Fault
  /\ End(w)
  /\ UNCHANGED <<idem, usage, link, today, confirmed, recovered, started>>

\* The process dies; an open transaction is rolled back.
Crash(w) ==
  /\ ~At(w, "idle")
  /\ Fault
  /\ End(w)
  /\ UNCHANGED <<idem, usage, link, today, confirmed, recovered, started>>
-----------------------------------------------------------------------------
(* Crons, links and time.                                                  *)

\* Faulty variant: the recovery only completes delivered rows.
RecoverableNone == {}

Recoverable == {k \in Keys : Status(k) = "reserved" /\ Stuck(k)}

Finalizable == {k \in Keys : Status(k) = "delivered" /\ Stuck(k)}

\* recoverAllStuckReserved().
RecoverStuck ==
  /\ Recoverable \cup Finalizable # {}
  /\ idem' = [k \in Keys |-> CASE k \in Finalizable -> [idem[k] EXCEPT !.status = "completed"]
                               [] k \in Recoverable -> [idem[k] EXCEPT !.status = "refunded"]
                               [] OTHER -> idem[k]]
  /\ usage' = [b \in Buckets |->
                 Less(usage[b], Cardinality({k \in Recoverable : Bucket(k) = b}))]
  /\ recovered' = [k \in Keys |-> IF k \in Recoverable THEN recovered[k] + 1 ELSE recovered[k]]
  /\ UNCHANGED <<link, today, flush, confirmed, started, faults>>

\* Retention is counted in days: no flush of the key still runs then.
Purgeable(k) ==
  /\ Status(k) \in {"completed", "refunded"} /\ idem[k].age >= Retention
  /\ \A w \in Flushes : flush[w].pc = "idle" \/ flush[w].key # k

\* "purged" stands for no row, and remembers that the key was charged.
AfterPurge(k) ==
  CASE ~Purgeable(k) -> idem[k]
    [] Purgeable(k) /\ Status(k) = "completed" -> [idem[k] EXCEPT !.status = "purged"]
    [] Purgeable(k) /\ Status(k) = "refunded" -> NoRow

\* The cleanup cron deletes old terminal rows.
Purge ==
  /\ \E k \in Keys : Purgeable(k)
  /\ idem' = [k \in Keys |-> AfterPurge(k)]
  /\ UNCHANGED <<usage, link, today, flush, confirmed, recovered, started, faults>>

\* A channel is linked, unlinked, or linked to another learner.
Relink(c, o) ==
  /\ link[c] # o
  /\ link' = [link EXCEPT ![c] = o]
  /\ UNCHANGED <<idem, usage, today, flush, confirmed, recovered, started, faults>>

NewDay ==
  /\ today < MaxDay
  /\ today' = today + 1
  /\ UNCHANGED <<idem, usage, link, flush, confirmed, recovered, started, faults>>

\* Rows grow old.
Tick ==
  /\ idem' = [k \in Keys |-> IF Status(k) \in {"none", "purged"} \/ idem[k].age > Retention
                             THEN idem[k] ELSE [idem[k] EXCEPT !.age = @ + 1]]
  /\ idem' # idem
  /\ UNCHANGED <<usage, link, today, flush, confirmed, recovered, started, faults>>
-----------------------------------------------------------------------------
FlushStep(w) ==
  \/ Reserve(w) \/ Commit(w) \/ RecoverForRetry(w) \/ Refund(w)
  \/ Answer(w) \/ Send(w) \/ MarkDelivered(w) \/ AppendTurn(w) \/ MarkCompleted(w)

FlushFault(w) ==
  \/ ReserveThrows(w) \/ TakeBackThrows(w) \/ BookkeepingThrows(w)
  \/ CompletionThrows(w) \/ Crash(w)

Next ==
  \/ \E w \in Flushes : (\E k \in Keys : Start(w, k)) \/ FlushStep(w) \/ FlushFault(w)
  \/ \E c \in Channels, o \in Owners : Relink(c, o)
  \/ RecoverStuck \/ Purge \/ NewDay \/ Tick

Spec == Init /\ [][Next]_vars

\* Time passes and the recovery cron runs every five minutes.
FairSpec == Spec /\ WF_vars(RecoverStuck) /\ WF_vars(Tick)
-----------------------------------------------------------------------------
(* Properties.                                                             *)

\* The values of a status and of a program counter.
Statuses == {"none", "refunded", "purged"} \cup Counting
Pcs == {"idle", "reserving", "committing", "recovering", "answering", "sending", "marking",
        "appending", "completing", "refunding"}

\* The row of the key still counts, or did until it was purged.
Charged(k) == Status(k) \in Counting \cup {"purged"}

\* The counters are exact: free_form_count of a channel, owner and day is the
\* number of keys charged there, although links and days change between a
\* reservation and its refund (refundReservedSlot, recoverAllStuckReserved).
CountersMatchRows ==
  \A b \in Buckets : usage[b] = Cardinality({k \in Keys : Charged(k) /\ Bucket(k) = b})

\* A learner's usage of a day, over all channels, never exceeds the daily limit;
\* nor does that of an anonymous channel (reserveFreeFormSlotInTransaction).
DailyLimitHolds ==
  \A c \in Channels, o \in Owners, d \in Days : Used(c, o, d) <= DailyLimit

\* A channel never has more counting rows in the burst window than the limit.
BurstLimitHolds == \A c \in Channels : Cardinality(InBurst(c)) <= BurstLimit

\* A key is answered again only after one of its reservations was taken back as
\* stuck: retries, duplicates, crashes and failed bookkeeping never repeat a
\* confirmed reply by themselves (reserveSlotOrRecoverOnConflict, flush).
AnsweredOnce == \A k \in Keys : confirmed[k] <= 1 + recovered[k]

\* A confirmed reply stays charged, with the one exception the code documents:
\* a reservation taken back as stuck (recoverStuckReservedSlots, #293).
ReplyIsCharged == \A k \in Keys : confirmed[k] > recovered[k] => Charged(k)

\* A delivered or completed row is never refunded, reserved again or reopened,
\* whatever late refunds and recoveries still run.
DeliveredIsFinal ==
  [][\A k \in Keys :
       /\ Status(k) = "delivered" => Status(k)' \in {"delivered", "completed"}
       /\ Status(k) = "completed" => Status(k)' \in {"completed", "purged"}]_vars

\* No slot stays reserved for ever, even if its flush died.
ReservationsSettle == \A k \in Keys : Status(k) = "reserved" ~> Status(k) # "reserved"
=============================================================================
