------------------------- MODULE RescheduleConfirm -------------------------
(***************************************************************************)
(* The staged reschedule of one learner on one platform: the agent stages a *)
(* proposal in a single row, the learner confirms or cancels it with its    *)
(* approval token, confirm() moves the session upstream (create the         *)
(* replacement, then delete the original), and a recovery cron settles rows *)
(* that a dead confirm() left in flight.                                    *)
(*                                                                          *)
(* Approval tokens (nonces) are 1, 2, ... in staging order.  A lease token  *)
(* is the number of the claim that drew it.  One tick is five minutes, the  *)
(* age at which the recovery cron takes a row for stale.                    *)
(***************************************************************************)
EXTENDS Integers, FiniteSets

CONSTANTS Workers,      \* confirm() calls that may run at the same time
          Slots,        \* date and time of a session
          Targets,      \* [Slots -> SUBSET Slots]: where a session may be moved
          DailyCap,     \* reschedules a learner may make in a day
          PendingTtl,   \* ticks a proposal can be confirmed
          StaleAfter,   \* ticks after which an in-flight row is stale
          MaxRequests,  \* bound: proposals staged
          MaxTaps,      \* bound: taps on a confirm button
          MaxFaults     \* bound: crashes and failed calls

ASSUME RescheduleAssumption ==
  /\ Workers # {}
  /\ Targets \in [Slots -> SUBSET Slots]
  /\ {DailyCap, PendingTtl, StaleAfter} \subseteq Nat \ {0}
  /\ {MaxRequests, MaxTaps, MaxFaults} \subseteq Nat

VARIABLES
  row,       \* reschedule_confirmations: the learner's only row
  attempts,  \* reschedule_confirmation_attempts, by external id and nonce
  calendar,  \* external: the learner's sessions held by WISPACE
  lastId,    \* external: the last session id WISPACE gave out
  used,      \* chat_tool_daily_usage: reschedules charged today
  stager,    \* the stage() call of the agent
  staged,    \* number of nonces drawn
  offered,   \* nonces the learner holds a confirm button for
  worker,    \* the confirm() calls
  cron,      \* the recovery tick
  claims,    \* number of lease tokens drawn
  taps,      \* taps on a confirm button so far
  faults,    \* faults so far
  committed, \* history: nonces under which the calendar write returned
  proven,    \* history: nonces recorded as confirmed
  told       \* history: what the learner was answered, under which nonce

vars == <<row, attempts, calendar, lastId, used, stager, staged, offered, worker,
          cron, claims, taps, faults, committed, proven, told>>
rowVars   == <<row, claims>>
stageVars == <<stager, staged, offered>>
wispace   == <<calendar, lastId, committed>>

Nonces == 1 .. MaxRequests

\* The staged row is stored under the platform-scoped key, attempts under the
\* platform's own id.
Raw    == "psid"
Scoped == "messenger:psid"
key(externalId) == IF externalId = Raw THEN Scoped ELSE externalId

NoRow == [status |-> "none", externalId |-> Scoped, nonce |-> 0, src |-> 0, dst |-> 0,
          lease |-> 0, ttl |-> 0, age |-> 0]
IdleStager == [pc |-> "idle", src |-> 0, dst |-> 0]
IdleWorker == [pc |-> "idle", nonce |-> 0, lease |-> 0, src |-> 0, dst |-> 0,
               snap |-> {}, scope |-> FALSE, answer |-> "none"]
IdleCron   == [pc |-> "idle", externalId |-> Scoped, nonce |-> 0, found |-> "none"]

Init ==
  /\ row = NoRow
  /\ attempts = [a \in {Raw, Scoped} \X Nonces |-> "none"]
  /\ \E s \in Slots: calendar = {[id |-> 1, slot |-> s]}
  /\ lastId = 1
  /\ used = 0
  /\ stager = IdleStager
  /\ staged = 0
  /\ offered = {}
  /\ worker = [w \in Workers |-> IdleWorker]
  /\ cron = IdleCron
  /\ claims = 0
  /\ taps = 0
  /\ faults = 0
  /\ committed = {}
  /\ proven = {}
  /\ told = {}

Fault == faults < MaxFaults /\ faults' = faults + 1
NoFault == UNCHANGED faults

-----------------------------------------------------------------------------
(* stage() and cancel() *)

\* The proposal is checked against the sessions listed at this moment.
StageList ==
  /\ stager.pc = "idle" /\ staged < MaxRequests
  /\ \E e \in calendar: \E dst \in Targets[e.slot]:
       stager' = [pc |-> "save", src |-> e.id, dst |-> dst]
  /\ UNCHANGED <<rowVars, attempts, wispace, used, staged, offered, worker, cron, taps,
                 faults, proven, told>>

\* Faulty variant: the save also replaces a row that is being confirmed.
SaveMaySupersedeAlways(r) == TRUE

SaveMaySupersede(r) == r.status # "processing"

\* save(); a turn aborted by now does not hand the token out.
StageSave ==
  /\ stager.pc = "save"
  /\ staged' = staged + 1
  /\ \E aborted \in BOOLEAN:
       /\ row' = IF SaveMaySupersede(row)
                 THEN [NoRow EXCEPT !.status = "pending", !.externalId = key(Raw),
                                    !.nonce = staged + 1, !.src = stager.src,
                                    !.dst = stager.dst, !.ttl = PendingTtl]
                 ELSE row
       /\ offered' = IF SaveMaySupersede(row) /\ ~aborted
                     THEN offered \cup {staged + 1} ELSE offered
       /\ stager' = IF aborted THEN [stager EXCEPT !.pc = "abort"] ELSE IdleStager
  /\ UNCHANGED <<claims, attempts, wispace, used, worker, cron, taps, faults, proven, told>>

cancelPending(r, nonce) ==
  IF r.status \in {"pending", "cancelled"} /\ r.nonce = nonce THEN NoRow ELSE r

StageAbort ==
  /\ stager.pc = "abort"
  /\ row' = cancelPending(row, staged)
  /\ stager' = IdleStager
  /\ UNCHANGED <<claims, attempts, wispace, used, staged, offered, worker, cron, taps,
                 faults, proven, told>>

getPendingState(r) ==
  CASE r.status = "processing"              -> "processing"
    [] r.status = "pending" /\ r.ttl = 0    -> "expired"
    [] r.status = "pending" /\ r.ttl > 0    -> "pending"
    [] r.status \in {"none", "cancelled"}   -> "none"

\* An expired proposal is deleted by the read that finds it.
AfterRead(r) == IF getPendingState(r) = "expired" THEN NoRow ELSE r

Cancel(n) ==
  /\ n \in offered
  /\ row' = cancelPending(AfterRead(row), n)
  /\ row' # row
  /\ UNCHANGED <<claims, attempts, wispace, used, stageVars, worker, cron, taps, faults,
                 proven, told>>

-----------------------------------------------------------------------------
(* confirm() up to the calendar write *)

Goto(w, pc) == worker' = [worker EXCEPT ![w].pc = pc]

\* The learner is answered and the call ends.
Answer(w, answer) ==
  /\ told' = told \cup {[nonce |-> worker[w].nonce, answer |-> answer,
                         proven |-> worker[w].nonce \in proven]}
  /\ worker' = [worker EXCEPT ![w] = IdleWorker]

findAttempt(externalId, nonce) == attempts[externalId, nonce]

\* The learner taps a confirm button; the first read answers an expired one.
Tap(w, n) ==
  /\ worker[w].pc = "idle" /\ taps < MaxTaps /\ n \in offered
  /\ taps' = taps + 1
  /\ row' = AfterRead(row)
  /\ worker' = IF getPendingState(row) = "expired" THEN worker
               ELSE [worker EXCEPT ![w] = [IdleWorker EXCEPT !.pc = "take", !.nonce = n]]
  /\ UNCHANGED <<claims, attempts, wispace, used, stageVars, cron, faults, proven, told>>

TakeIsValid(r, nonce) == r.status = "pending" /\ r.ttl > 0 /\ r.nonce = nonce

takeValid(w) ==
  /\ worker[w].pc = "take"
  /\ IF TakeIsValid(row, worker[w].nonce)
     THEN /\ claims' = claims + 1
          /\ row' = [row EXCEPT !.status = "processing", !.lease = claims + 1, !.age = 0]
          /\ worker' = [worker EXCEPT ![w].pc = "budget", ![w].lease = claims + 1,
                                      ![w].src = row.src, ![w].dst = row.dst]
     ELSE Goto(w, "lookup") /\ UNCHANGED rowVars
  /\ UNCHANGED <<attempts, wispace, used, stageVars, cron, taps, faults, proven, told>>

\* What the durable record says of a token whose row is gone.
ReplayAnswer(status) ==
  CASE status = "confirmed"  -> "confirmed"
    [] status = "attempting" -> "unknown"
    [] status = "none"       -> "absent"

Lookup(w) ==
  LET recorded == ReplayAnswer(findAttempt(Raw, worker[w].nonce))
  IN  /\ worker[w].pc = "lookup"
      /\ row' = IF recorded = "absent" THEN AfterRead(row) ELSE row
      /\ Answer(w, IF recorded # "absent" THEN recorded
                   ELSE IF getPendingState(row) \in {"expired", "processing"}
                        THEN getPendingState(row) ELSE "absent")
      /\ UNCHANGED <<claims, attempts, wispace, used, stageVars, cron, taps, faults, proven>>

\* Faulty variant: the condition of the upsert is off by one.
BudgetLeftLate == used <= DailyCap

\* The condition of the upsert that raises the day's count.
BudgetLeft == used < DailyCap

consumeRescheduleBudget(w) ==
  /\ worker[w].pc = "budget"
  /\ \/ /\ BudgetLeft
        /\ used' = used + 1
        /\ Goto(w, "find")
     \/ /\ ~BudgetLeft
        /\ UNCHANGED used
        /\ worker' = [worker EXCEPT ![w].pc = "revert", ![w].answer = "denied"]
  /\ UNCHANGED <<rowVars, attempts, wispace, stageVars, cron, taps, faults, proven, told>>

\* Only an unfinished attempt of the same token stops the write.
FindAttempt(w) ==
  /\ worker[w].pc = "find"
  /\ worker' = IF findAttempt(Raw, worker[w].nonce) = "attempting"
               THEN [worker EXCEPT ![w].pc = "revert", ![w].answer = "unknown"]
               ELSE [worker EXCEPT ![w].pc = "begin"]
  /\ UNCHANGED <<rowVars, attempts, wispace, used, stageVars, cron, taps, faults, proven, told>>

beginAttempt(w) ==
  /\ worker[w].pc = "begin"
  /\ attempts' = [attempts EXCEPT ![Raw, worker[w].nonce] = "attempting"]
  /\ Goto(w, "list")
  /\ UNCHANGED <<rowVars, wispace, used, stageVars, cron, taps, faults, proven, told>>

-----------------------------------------------------------------------------
(* rescheduleSession(): list, create the replacement, delete the original *)

Failed(w, scope) == worker' = [worker EXCEPT ![w].pc = "clear", ![w].scope = scope,
                                             ![w].snap = {}]

\* One snapshot serves the lookup of the original and the duplicate check.
listCalendars(w) ==
  /\ worker[w].pc = "list"
  /\ \/ /\ \E e \in calendar: e.id = worker[w].src
        /\ worker' = [worker EXCEPT ![w].pc = "create", ![w].snap = calendar]
        /\ NoFault
     \/ /\ \A e \in calendar: e.id # worker[w].src
        /\ Failed(w, FALSE)
        /\ NoFault
     \/ \E scope \in BOOLEAN: Failed(w, scope) /\ Fault
  /\ UNCHANGED <<rowVars, attempts, wispace, used, stageVars, cron, taps, proven, told>>

NewSession(w) == {[id |-> lastId + 1, slot |-> worker[w].dst]}

\* Faulty variant: any session of the snapshot passes for the replacement.
TargetExistsAnywhere(w) == worker[w].snap # {}

TargetExists(w) == \E e \in worker[w].snap: e.slot = worker[w].dst

\* The replacement is created unless the snapshot already has the slot.  A
\* failed request may have been carried out, and may be sent again.  A record in
\* the slot, or the one just created, may fail the check of whose it is.
createTargetIdempotent(w) ==
  /\ worker[w].pc = "create"
  /\ \/ /\ TargetExists(w)
        /\ Goto(w, "delete")
        /\ UNCHANGED <<calendar, lastId>> /\ NoFault
     \/ /\ TargetExists(w)
        /\ Failed(w, TRUE)
        /\ UNCHANGED <<calendar, lastId>> /\ Fault
     \/ /\ ~TargetExists(w)
        /\ \/ /\ calendar' = calendar \cup NewSession(w) /\ lastId' = lastId + 1
              /\ Goto(w, "delete") /\ NoFault
           \/ /\ Fault
              /\ \/ UNCHANGED <<calendar, lastId>>
                 \/ calendar' = calendar \cup NewSession(w) /\ lastId' = lastId + 1
              /\ UNCHANGED worker \/ \E scope \in BOOLEAN: Failed(w, scope)
  /\ UNCHANGED <<rowVars, attempts, committed, used, stageVars, cron, taps, proven, told>>

Without(sessions, id) == {e \in sessions: e.id # id}

\* deleteWithRetry(): a failed delete may have been carried out; the retries of a
\* delete that was carried out fail.
deleteWithRetry(w) ==
  /\ worker[w].pc = "delete"
  /\ \/ /\ \E e \in calendar: e.id = worker[w].src
        /\ calendar' = Without(calendar, worker[w].src)
        /\ committed' = committed \cup {worker[w].nonce}
        /\ worker' = [worker EXCEPT ![w].pc = "record", ![w].snap = {}]
        /\ NoFault
     \/ /\ IF \E e \in calendar: e.id = worker[w].src THEN Fault ELSE NoFault
        /\ calendar' \in {calendar, Without(calendar, worker[w].src)}
        /\ Failed(w, FALSE)
        /\ UNCHANGED committed
  /\ UNCHANGED <<rowVars, attempts, lastId, used, stageVars, cron, taps, proven, told>>

-----------------------------------------------------------------------------
(* confirm() after the calendar write *)

\* A record that is missing, or cannot be written, leaves the outcome unknown.
confirmAttempt(w) ==
  /\ worker[w].pc = "record"
  /\ \/ /\ findAttempt(Raw, worker[w].nonce) = "attempting"
        /\ attempts' = [attempts EXCEPT ![Raw, worker[w].nonce] = "confirmed"]
        /\ proven' = proven \cup {worker[w].nonce}
        /\ Goto(w, "cleanup") /\ NoFault /\ UNCHANGED told
     \/ /\ IF findAttempt(Raw, worker[w].nonce) = "attempting" THEN Fault ELSE NoFault
        /\ Answer(w, "unknown") /\ UNCHANGED <<attempts, proven>>
  /\ UNCHANGED <<rowVars, wispace, used, stageVars, cron, taps>>

Holds(w) == row.status = "processing" /\ row.lease = worker[w].lease

\* cancelClaimed(): deletes the row of this lease; a failure is only logged.
Cleanup(w) ==
  /\ worker[w].pc = "cleanup"
  /\ \/ row' = (IF Holds(w) THEN NoRow ELSE row) /\ NoFault
     \/ UNCHANGED row /\ Fault
  /\ Answer(w, "confirmed")
  /\ UNCHANGED <<claims, attempts, wispace, used, stageVars, cron, taps, proven>>

clearAttempt(w) ==
  /\ worker[w].pc = "clear"
  /\ \/ attempts' = [attempts EXCEPT ![Raw, worker[w].nonce] = "none"] /\ NoFault
     \/ UNCHANGED attempts /\ Fault
  /\ Goto(w, "refund")
  /\ UNCHANGED <<rowVars, wispace, used, stageVars, cron, taps, proven, told>>

\* Faulty variant: the refund is taken for every charge of the day.
RefundedAll(n) == 0

Refunded(n) == IF n > 0 THEN n - 1 ELSE 0

refundRescheduleBudget(w) ==
  /\ worker[w].pc = "refund"
  /\ used' = Refunded(used)
  /\ worker' = [worker EXCEPT ![w].pc = "revert",
                              ![w].answer = IF worker[w].scope THEN "scope" ELSE "failed"]
  /\ UNCHANGED <<rowVars, attempts, wispace, stageVars, cron, taps, faults, proven, told>>

Rearmed(r) == [r EXCEPT !.status = "pending", !.lease = 0, !.ttl = PendingTtl, !.age = 0]

\* revertToPending() of the own lease; a scope failure drops the row instead.
Revert(w) ==
  /\ worker[w].pc = "revert"
  /\ row' = IF ~Holds(w) THEN row
            ELSE IF worker[w].answer = "scope" THEN NoRow ELSE Rearmed(row)
  /\ Answer(w, worker[w].answer)
  /\ UNCHANGED <<claims, attempts, wispace, used, stageVars, cron, taps, faults, proven>>

\* The process dies, or a statement outside the try block throws: no answer, and
\* the row stays in flight.
Crash(w) ==
  /\ worker[w].pc # "idle" /\ Fault
  /\ worker' = [worker EXCEPT ![w] = IdleWorker]
  /\ UNCHANGED <<rowVars, attempts, wispace, used, stageVars, cron, taps, proven, told>>

-----------------------------------------------------------------------------
(* The recovery cron, one tick at a time under its advisory lock *)

Stale(r) == r.status = "processing" /\ r.age >= StaleAfter

listStaleProcessing ==
  /\ cron.pc = "idle" /\ Stale(row)
  /\ cron' = [IdleCron EXCEPT !.pc = "find", !.externalId = row.externalId,
                              !.nonce = row.nonce]
  /\ UNCHANGED <<rowVars, attempts, wispace, used, stageVars, worker, taps, faults, proven, told>>

\* The attempt is looked up under the row's own external id; a failed lookup
\* counts as no attempt.
CronFind ==
  /\ cron.pc = "find"
  /\ \/ /\ cron' = [cron EXCEPT !.pc = "settle",
                                !.found = findAttempt(cron.externalId, cron.nonce)]
        /\ NoFault
     \/ cron' = [cron EXCEPT !.pc = "settle"] /\ Fault
  /\ UNCHANGED <<rowVars, attempts, wispace, used, stageVars, worker, taps, proven, told>>

\* Faulty variant: nothing is done with a row that has no attempt.
SettledNever(r, found) == IF found = "none" THEN r ELSE NoRow

\* cancelStaleRow() when an attempt was found, revertStaleRow() otherwise.
Settled(r, found) ==
  IF found = "none" THEN Rearmed(r)
  ELSE [r EXCEPT !.status = "cancelled", !.lease = 0, !.age = 0]

CronSettle ==
  /\ cron.pc = "settle"
  /\ row' = IF row.status = "processing" THEN Settled(row, cron.found) ELSE row
  /\ cron' = IdleCron
  /\ UNCHANGED <<claims, attempts, wispace, used, stageVars, worker, taps, faults, proven, told>>

-----------------------------------------------------------------------------
\* A claim is held for less than a tick: the five upstream calls of a confirm()
\* time out after 50 s each.
Claiming == {"budget", "find", "begin", "list", "create", "delete", "record",
             "cleanup", "clear", "refund", "revert"}

AtMost(n, bound) == IF n < bound THEN n + 1 ELSE bound

Tick ==
  /\ \A w \in Workers: worker[w].pc \notin Claiming
  /\ \/ row.status = "processing"
        /\ row' = [row EXCEPT !.age = AtMost(@, StaleAfter)]
     \/ row.status = "pending" /\ row.ttl > 0
        /\ row' = [row EXCEPT !.ttl = @ - 1]
  /\ row' # row
  /\ UNCHANGED <<claims, attempts, wispace, used, stageVars, worker, cron, taps, faults,
                 proven, told>>

WorkerStep(w) ==
  \/ takeValid(w) \/ Lookup(w) \/ consumeRescheduleBudget(w) \/ FindAttempt(w)
  \/ beginAttempt(w) \/ listCalendars(w) \/ createTargetIdempotent(w) \/ deleteWithRetry(w)
  \/ confirmAttempt(w) \/ Cleanup(w) \/ clearAttempt(w) \/ refundRescheduleBudget(w)
  \/ Revert(w)

Cron == listStaleProcessing \/ CronFind \/ CronSettle

Next ==
  \/ StageList \/ StageSave \/ StageAbort
  \/ \E n \in Nonces: Cancel(n)
  \/ \E w \in Workers: (\E n \in Nonces: Tap(w, n)) \/ WorkerStep(w) \/ Crash(w)
  \/ Cron
  \/ Tick

Spec == Init /\ [][Next]_vars

\* A running confirm() goes on, the cron and the clock keep running.
FairSpec ==
  /\ Spec
  /\ \A w \in Workers: WF_vars(WorkerStep(w))
  /\ WF_vars(Cron)
  /\ WF_vars(Tick)

-----------------------------------------------------------------------------
\* Type invariant of the tables, the calls in progress and the histories.
TypeOK ==
  /\ row \in [status: {"none", "pending", "processing", "cancelled"}, externalId: {Scoped},
              nonce: Nat, src: Nat, dst: Slots \cup {0}, lease: Nat,
              ttl: 0 .. PendingTtl, age: 0 .. StaleAfter]
  /\ attempts \in [{Raw, Scoped} \X Nonces -> {"none", "attempting", "confirmed"}]
  /\ calendar \subseteq [id: 1 .. lastId, slot: Slots]
  /\ used \in 0 .. DailyCap
  /\ staged \in 0 .. MaxRequests /\ offered \subseteq 1 .. staged
  /\ \A w \in Workers: worker[w].pc \in Claiming \cup {"idle", "take", "lookup"}
  /\ committed \subseteq Nonces /\ proven \subseteq committed

\* The learner is never left without a session: rescheduleSession() deletes the
\* original only once another session stands in the slot asked for, whatever
\* request fails, is repeated or is carried out without an answer, and however
\* often recovery re-arms the request ("a failure can never leave the user with
\* no session").  It needs a target other than the session's own slot (s \notin
\* Targets[s]): the code deletes a session that is moved to where it stands.
NeverWithoutSession == calendar # {}

\* While a confirm() is between its claim and its last statement, the staged row
\* is the one it claimed, under its lease: no newer proposal, second tap or
\* recovery tick takes the row away from a calendar write that is running.
WriteHoldsRow ==
  \A w \in Workers: worker[w].pc \in Claiming => Holds(w) /\ row.nonce = worker[w].nonce

\* The learner is told that a change was made only if the calendar write of that
\* very token returned, for the first answer and for a replayed one, and every such
\* change stays charged to the daily budget: no refund of a failed attempt takes
\* back the unit of a change that was made (confirm()).
ConfirmedIsReal ==
  LET confirmed == {t.nonce : t \in {u \in told: u.answer = "confirmed"}}
  IN  confirmed \subseteq committed /\ Cardinality(confirmed) <= used

\* A row in flight does not stay in flight: its confirm() ends it, or the recovery
\* cron does, so the learner can stage or confirm again.
RowIsReleased == (row.status = "processing") ~> (row.status # "processing")

\* Once a change is recorded as confirmed, no later tap on the same button tells the
\* learner that it was not made.
TapRepeatsConfirmation ==
  \A t \in told: t.proven => t.answer \notin {"failed", "absent"}
=============================================================================
