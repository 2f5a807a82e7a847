------------------------------ MODULE ChatTurn ------------------------------
(***************************************************************************)
(* The Redis queue and the quota ledger together: what becomes of a batch  *)
(* whose worker dies after it has reserved a slot.  The queue is           *)
(* RedisChatQueue; of the pipeline and the ledger (ChatQuota) the status   *)
(* and the age of the row of each key are kept.  The claim and the         *)
(* reservation are two calls, and time passes between them.  Every message *)
(* is delivered once and no account is erased.                             *)
(***************************************************************************)
EXTENDS RedisChatQueue

CONSTANTS
  StuckReserved,  \* CHAT_IDEMPOTENCY_STUCK_RESERVED_MS
  ReserveWithin   \* the longest a live flush takes from its claim to its reservation

ASSUME TurnAssumption ==
  StuckReserved \in Nat \ {0} /\ ReserveWithin \in Nat /\ ReserveWithin < StuckAfter

VARIABLES
  row,   \* chat_idempotency: status and age of each key's row
  turn,  \* whether a running flush has reserved
  sent   \* messages delivered to the queue

turnVars == <<vars, row, turn, sent>>

NoRow == [status |-> "none", age |-> 0]

TurnInit ==
  /\ Init
  /\ row = [k \in Messages |-> NoRow]
  /\ turn = [w \in Workers |-> "none"]
  /\ sent = {}

Key(w) == worker[w].key

\* Faulty variant: a reservation is never reopened.
ReservableNew(k) == row[k].status \in {"none", "refunded"}

\* The row has been reserved for longer than the ledger's window; at exactly the
\* window it is still in flight.
StuckRow(k) == row[k].status = "reserved" /\ row[k].age > StuckReserved

\* The reservation succeeds: no row, a refunded one, or one stuck as reserved.
Reservable(k) == row[k].status \in {"none", "refunded"} \/ StuckRow(k)

\* The flush reserves a slot for its batch.
Reserve(w) ==
  /\ At(w, "running") /\ turn[w] = "none"
  /\ Reservable(Key(w))
  /\ row' = [row EXCEPT ![Key(w)] = [status |-> "reserved", age |-> 0]]
  /\ turn' = [turn EXCEPT ![w] = "reserved"]
  /\ UNCHANGED <<vars, sent>>

\* The key is taken: the batch is a duplicate, and the queue forgets it.
Duplicate(w) ==
  /\ At(w, "running") /\ turn[w] = "none"
  /\ ~Reservable(Key(w))
  /\ Goto(w, "completing")
  /\ UNCHANGED <<store, rehydrate, claims, owed, bounds, row, turn, sent>>

\* The quota is used up and the learner is told so.
Denied(w) ==
  /\ turn[w] = "none" /\ FlushHandled(w)
  /\ Reservable(Key(w))
  /\ UNCHANGED <<row, turn, sent>>

\* A row still reserved changes its status.
Settle(k, s) ==
  row' = IF row[k].status = "reserved" THEN [row EXCEPT ![k].status = s] ELSE row

\* The reply is sent and recorded.
Replied(w) ==
  /\ turn[w] = "reserved"
  /\ FlushHandled(w)
  /\ Settle(Key(w), "delivered")
  /\ turn' = [turn EXCEPT ![w] = "none"]
  /\ UNCHANGED sent

\* The flush fails: the slot is refunded, and the fallback is sent or the batch
\* is to be tried again.
Failed(w) ==
  /\ turn[w] = "reserved"
  /\ FlushHandled(w) \/ FlushFailed(w)
  /\ Settle(Key(w), "refunded")
  /\ turn' = [turn EXCEPT ![w] = "none"]
  /\ UNCHANGED sent

\* The pod dies and its reservation stays.
TurnCrash(w) ==
  /\ Crash(w)
  /\ turn' = [turn EXCEPT ![w] = "none"]
  /\ UNCHANGED <<row, sent>>

\* recoverStuckReservedSlots(), the cron.
RecoverStuck(k) ==
  /\ StuckRow(k)
  /\ Settle(k, "refunded")
  /\ UNCHANGED <<vars, turn, sent>>

\* The flush has claimed its batch and may still reserve.
Reserving(w) == At(w, "claimed") \/ (At(w, "running") /\ turn[w] = "none")

\* Time passes, also between a claim and its reservation, for ReserveWithin at most.
TurnTick ==
  /\ \A w \in Workers : Reserving(w) =>
       HoldsLease(w) /\ buf.stuckIn > StuckAfter - ReserveWithin
  /\ \/ Tick
     \/ UNCHANGED vars /\ \E k \in Messages : row[k].status = "reserved"
  /\ row' = [k \in Messages |->
       IF row[k].status = "reserved" /\ row[k].age <= StuckReserved
       THEN [row[k] EXCEPT !.age = @ + 1] ELSE row[k]]
  /\ UNCHANGED <<turn, sent>>

\* The steps of the queue that leave the ledger alone.
QueueStep ==
  /\ \/ \E w \in Workers :
          \/ List(w) \/ Claim(w) \/ CheckMapping(w)
          \/ CompleteChatBuffer(w) \/ ScheduleRetryFlush(w) \/ StoreFails(w)
     \/ Expire \/ Reconcile
  /\ UNCHANGED <<row, turn, sent>>

\* The inbox hands a message to the queue.
Deliver(m) ==
  /\ m \notin sent
  /\ Enqueue(m)
  /\ sent' = sent \cup {m}
  /\ UNCHANGED <<row, turn>>

TurnNext ==
  \/ QueueStep
  \/ \E m \in Messages : Deliver(m)
  \/ \E w \in Workers : \/ Reserve(w) \/ Duplicate(w) \/ Denied(w)
                        \/ Replied(w) \/ Failed(w) \/ TurnCrash(w)
  \/ \E k \in Messages : RecoverStuck(k)
  \/ TurnTick

TurnSpec == TurnInit /\ [][TurnNext]_turnVars
-----------------------------------------------------------------------------
\* The messages of the flushes that have reserved and are still running.
InTurn == UNION {Elements(worker[w].batch) :
                   w \in {v \in Workers : At(v, "running") /\ turn[v] = "reserved"}}

\* An accepted message that was not answered, denied, dropped or erased is in the
\* buffer or with a live worker, so that a crash between the reservation and the
\* reply does not lose it (claimReadyBuffer(), reserve(), handleFlush()).
AtLeastOnce == owed \subseteq Held(buf) \cup InTurn
=============================================================================
