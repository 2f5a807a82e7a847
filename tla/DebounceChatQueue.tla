------------------------- MODULE DebounceChatQueue -------------------------
(***************************************************************************)
(* The in-memory debounce queue of packages/chat-queue-core: one buffer    *)
(* per chat user, a debounce timer, one flush at a time with a deadline,   *)
(* messages that arrive during a flush kept aside and promoted after it,   *)
(* and a drain on shutdown.                                                *)
(*                                                                         *)
(* Messages of a user are numbered in the order they are accepted; the     *)
(* idempotency key of message n is n, 0 stands for "undefined".  Deadlines *)
(* are countdowns of at most DrainTimeout ticks.  JavaScript runs one      *)
(* callback at a time, so an action is one callback up to its next await.  *)
(***************************************************************************)
EXTENDS Integers, Sequences

CONSTANTS
  Users,                  \* external user ids
  ConfigMaxPendingSize,   \* config.maxPendingSize
  DefaultMaxPendingSize,  \* DEFAULT_MAX_PENDING_SIZE
  DrainTimeout,           \* drainTimeoutMs, in ticks
  MaxMessages             \* bound: messages accepted per user

ASSUME ConfigAssumption ==
  /\ ConfigMaxPendingSize \in Nat
  /\ DefaultMaxPendingSize \in Nat \ {0}
  /\ DrainTimeout \in Nat \ {0}
  /\ MaxMessages \in Nat

VARIABLES
  live,        \* the keys of the Map "queues"
  texts,       \* state.texts
  key,         \* state.lastIdempotencyKey
  pending,     \* state.pendingWhileProcessing
  pendingKey,  \* state.lastPendingIdempotencyKey
  processing,  \* state.processing
  remaining,   \* ticks until state.processingDeadlineAt
  timer,       \* is state.debounceTimer armed
  phase,       \* "running", "draining", "starved", "destroyed"
  drainLeft,   \* ticks until the deadline of drain()
  drainer,     \* per user, flushOrWait in the current pass of drain()
  accepted,    \* number of messages accepted so far
  boundary     \* history: newest message handed to onFlush or cleared

buffers == <<texts, key, pending, pendingKey>>
vars == <<live, texts, key, pending, pendingKey, processing, remaining, timer,
          phase, drainLeft, drainer, accepted, boundary>>

maxPendingSize == IF ConfigMaxPendingSize > 0 THEN ConfigMaxPendingSize
                                              ELSE DefaultMaxPendingSize

\* Faulty variant: the cap keeps the oldest messages.
CappedOldest(s) == IF Len(s) > maxPendingSize THEN SubSeq(s, 1, maxPendingSize)
                                              ELSE s

\* splice(0, excess): only the newest messages stay.
Capped(s) ==
  LET excess == Len(s) - maxPendingSize
  IN  IF excess > 0 THEN SubSeq(s, excess + 1, Len(s)) ELSE s

Lesser(a, b) == IF a < b THEN a ELSE b

Init ==
  /\ live = {}
  /\ texts = [u \in Users |-> <<>>]
  /\ key = [u \in Users |-> 0]
  /\ pending = [u \in Users |-> <<>>]
  /\ pendingKey = [u \in Users |-> 0]
  /\ processing = [u \in Users |-> FALSE]
  /\ remaining = [u \in Users |-> 0]
  /\ timer = [u \in Users |-> FALSE]
  /\ phase = "running"
  /\ drainLeft = 0
  /\ drainer = [u \in Users |-> "idle"]
  /\ accepted = [u \in Users |-> 0]
  /\ boundary = [u \in Users |-> 0]

\* The thread is free to run timers and callbacks; in "starved" it is not.
EventLoopTurns == phase # "starved"
-----------------------------------------------------------------------------
\* enqueue() of a message with or without an idempotency key.
Enqueue(u, keyed) ==
  LET m == accepted[u] + 1
  IN  /\ phase = "running"
      /\ accepted[u] < MaxMessages
      /\ accepted' = [accepted EXCEPT ![u] = m]
      /\ live' = live \cup {u}
      /\ \/ /\ processing[u]
            /\ pending' = [pending EXCEPT ![u] = Capped(Append(@, m))]
            /\ pendingKey' = [pendingKey EXCEPT ![u] = IF keyed THEN m ELSE @]
            /\ UNCHANGED <<texts, key, timer>>
         \/ /\ ~processing[u]
            /\ texts' = [texts EXCEPT ![u] = Capped(Append(@, m))]
            /\ key' = [key EXCEPT ![u] = IF keyed THEN m ELSE @]
            /\ timer' = [timer EXCEPT ![u] = TRUE]
            /\ UNCHANGED <<pending, pendingKey>>
      /\ UNCHANGED <<processing, remaining, phase, drainLeft, drainer, boundary>>

CanFlush(u) == u \in live /\ ~processing[u] /\ texts[u] # <<>>

\* flush() from its guard to the call of onFlush, for the users in S.
StartFlush(S, ticks) ==
  /\ timer' = [u \in Users |-> timer[u] /\ u \notin S]
  /\ processing' = [u \in Users |-> processing[u] \/ u \in S]
  /\ remaining' = [u \in Users |-> IF u \in S THEN ticks ELSE remaining[u]]
  /\ texts' = [u \in Users |-> IF u \in S THEN <<>> ELSE texts[u]]
  /\ key' = [u \in Users |-> IF u \in S THEN 0 ELSE key[u]]
  /\ boundary' = [u \in Users |-> IF u \in S THEN accepted[u] ELSE boundary[u]]

\* The debounce timer fires: flush() unless its guard returns early.
TimerFires(u) ==
  /\ EventLoopTurns
  /\ timer[u]
  /\ \/ /\ CanFlush(u)
        /\ StartFlush({u}, DrainTimeout)
     \/ /\ ~CanFlush(u)
        /\ timer' = [timer EXCEPT ![u] = FALSE]
        /\ UNCHANGED <<processing, remaining, texts, key, boundary>>
  /\ UNCHANGED <<live, pending, pendingKey, phase, drainLeft, drainer, accepted>>

\* flushNow() on an idle user.  On a busy one it waits for the flush to end and
\* then does what the timer that is armed by then does.
FlushNow(u) ==
  /\ EventLoopTurns
  /\ CanFlush(u)
  /\ StartFlush({u}, DrainTimeout)
  /\ UNCHANGED <<live, pending, pendingKey, phase, drainLeft, drainer, accepted>>

\* Faulty variant: the finally block does not re-arm the timer.
SettleUnscheduled(u) ==
  LET promoted == pending[u] # <<>>
      rest     == texts[u] \o pending[u]
  IN  /\ processing' = [processing EXCEPT ![u] = FALSE]
      /\ remaining' = [remaining EXCEPT ![u] = 0]
      /\ texts' = [texts EXCEPT ![u] = rest]
      /\ pending' = [pending EXCEPT ![u] = <<>>]
      /\ key' = [key EXCEPT ![u] = IF promoted THEN pendingKey[u] ELSE @]
      /\ pendingKey' = [pendingKey EXCEPT ![u] = IF promoted THEN 0 ELSE @]
      /\ live' = IF rest = <<>> /\ ~timer[u] THEN live \ {u} ELSE live
      /\ drainer' = [drainer EXCEPT ![u] = IF @ = "flush" THEN "done" ELSE @]
      /\ UNCHANGED <<timer, phase, drainLeft, accepted, boundary>>

\* The finally block of flush().
Settle(u) ==
  LET promoted == pending[u] # <<>>
      rest     == texts[u] \o pending[u]
  IN  /\ processing' = [processing EXCEPT ![u] = FALSE]
      /\ remaining' = [remaining EXCEPT ![u] = 0]
      /\ texts' = [texts EXCEPT ![u] = rest]
      /\ pending' = [pending EXCEPT ![u] = <<>>]
      /\ key' = [key EXCEPT ![u] = IF promoted THEN pendingKey[u] ELSE @]
      /\ pendingKey' = [pendingKey EXCEPT ![u] = IF promoted THEN 0 ELSE @]
      /\ timer' = [timer EXCEPT ![u] = @ \/ rest # <<>>]
      /\ live' = IF rest = <<>> /\ ~timer[u] THEN live \ {u} ELSE live
      /\ drainer' = [drainer EXCEPT ![u] = IF @ = "flush" THEN "done" ELSE @]
      /\ UNCHANGED <<phase, drainLeft, accepted, boundary>>

\* onFlush resolves or rejects before the deadline of the flush.
HandlerFinishes(u) ==
  /\ EventLoopTurns
  /\ processing[u]
  /\ Settle(u)

\* Faulty variant: only a drain gives flushes a deadline.
FlushTimesOutInDrain(u) ==
  /\ phase = "draining"
  /\ processing[u]
  /\ remaining[u] = 0
  /\ Settle(u)

\* The deadline wins the race; the handler itself keeps running.
FlushTimesOut(u) ==
  /\ EventLoopTurns
  /\ processing[u]
  /\ remaining[u] = 0
  /\ Settle(u)

\* Faulty variant: the key of the pending messages survives clear().
ClearKeepsPendingKey(u) ==
  /\ EventLoopTurns
  /\ u \in live
  /\ timer' = [timer EXCEPT ![u] = FALSE]
  /\ texts' = [texts EXCEPT ![u] = <<>>]
  /\ pending' = [pending EXCEPT ![u] = <<>>]
  /\ key' = [key EXCEPT ![u] = 0]
  /\ live' = IF processing[u] THEN live ELSE live \ {u}
  /\ boundary' = [boundary EXCEPT ![u] = accepted[u]]
  /\ UNCHANGED <<pendingKey, processing, remaining, phase, drainLeft, drainer,
                 accepted>>

\* clear(): buffered work is discarded, a flush in flight is not cancelled.
Clear(u) ==
  /\ EventLoopTurns
  /\ u \in live
  /\ timer' = [timer EXCEPT ![u] = FALSE]
  /\ texts' = [texts EXCEPT ![u] = <<>>]
  /\ pending' = [pending EXCEPT ![u] = <<>>]
  /\ key' = [key EXCEPT ![u] = 0]
  /\ pendingKey' = [pendingKey EXCEPT ![u] = 0]
  /\ live' = IF processing[u] THEN live ELSE live \ {u}
  /\ boundary' = [boundary EXCEPT ![u] = accepted[u]]
  /\ UNCHANGED <<processing, remaining, phase, drainLeft, drainer, accepted>>
-----------------------------------------------------------------------------
\* Ticks flushOrWait() still waits for a flush of u that is in progress.
WaitLeft(u, left) == Lesser(left, remaining[u])

\* One pass of drain(): flushOrWait() for every user up to its first await.
StartPass(left) ==
  /\ StartFlush({u \in live : CanFlush(u)}, left)
  /\ drainer' = [u \in Users |->
       IF u \notin live THEN "idle"
       ELSE IF CanFlush(u) THEN "flush"
       ELSE IF processing[u] /\ WaitLeft(u, left) > 0 THEN "wait" ELSE "done"]
  /\ drainLeft' = left
  /\ UNCHANGED <<live, pending, pendingKey, accepted>>

\* destroy(): refuse new messages, stop the sweep, begin to drain.
Destroy ==
  /\ phase = "running"
  /\ phase' = "draining"
  /\ StartPass(DrainTimeout)

\* flushOrWait() wakes: the flush it waited for is over, or its time is.
DrainWakes(u) ==
  /\ phase = "draining"
  /\ drainer[u] = "wait"
  /\ ~processing[u] \/ WaitLeft(u, drainLeft) = 0
  /\ \/ /\ CanFlush(u)
        /\ StartFlush({u}, drainLeft)
        /\ drainer' = [drainer EXCEPT ![u] = "flush"]
     \/ /\ ~CanFlush(u)
        /\ drainer' = [drainer EXCEPT ![u] = "done"]
        /\ UNCHANGED <<timer, processing, remaining, texts, key, boundary>>
  /\ UNCHANGED <<live, pending, pendingKey, phase, drainLeft, accepted>>

PassOver == phase = "draining" /\ \A u \in Users : drainer[u] \in {"idle", "done"}

HasWork == \E u \in live : processing[u] \/ texts[u] # <<>> \/ pending[u] # <<>>

\* A new pass would only meet flushes past their deadline: it returns at once,
\* again and again, and no timer can fire until drain() itself gives up.
OnlyOverdue == \A u \in live : processing[u] /\ WaitLeft(u, drainLeft) = 0

NextPass ==
  /\ PassOver
  /\ HasWork
  /\ drainLeft > 0
  /\ \/ /\ OnlyOverdue
        /\ phase' = "starved"
        /\ UNCHANGED <<live, buffers, processing, remaining, timer, drainLeft,
                       drainer, accepted, boundary>>
     \/ /\ ~OnlyOverdue
        /\ UNCHANGED phase
        /\ StartPass(drainLeft)

\* Faulty variant: drain() has no deadline of its own.
DrainReturnsWhenIdle ==
  /\ PassOver
  /\ ~HasWork
  /\ phase' = "destroyed"
  /\ timer' = [u \in Users |-> timer[u] /\ u \notin live]
  /\ live' = {}
  /\ UNCHANGED <<buffers, processing, remaining, drainLeft, drainer, accepted,
                 boundary>>

\* drain() returns; destroy() clears the timers and empties the Map.
DrainReturns ==
  /\ PassOver \/ phase = "starved"
  /\ ~HasWork \/ drainLeft = 0
  /\ phase' = "destroyed"
  /\ timer' = [u \in Users |-> timer[u] /\ u \notin live]
  /\ live' = {}
  /\ UNCHANGED <<buffers, processing, remaining, drainLeft, drainer, accepted,
                 boundary>>

\* Faulty variant: the time left of an expired deadline goes negative.
TickPastDeadline ==
  /\ drainLeft > 0 \/ \E u \in Users : remaining[u] > 0
  /\ drainLeft' = drainLeft - 1
  /\ remaining' = [u \in Users |-> remaining[u] - 1]
  /\ UNCHANGED <<live, buffers, processing, timer, phase, drainer, accepted,
                 boundary>>

\* Time passes: every deadline comes closer, whatever the thread is doing.
Tick ==
  /\ drainLeft > 0 \/ \E u \in Users : remaining[u] > 0
  /\ drainLeft' = IF drainLeft > 0 THEN drainLeft - 1 ELSE 0
  /\ remaining' = [u \in Users |->
                     IF remaining[u] > 0 THEN remaining[u] - 1 ELSE 0]
  /\ UNCHANGED <<live, buffers, processing, timer, phase, drainer, accepted,
                 boundary>>

UserStep(u) ==
  \/ \E keyed \in BOOLEAN : Enqueue(u, keyed)
  \/ TimerFires(u)
  \/ FlushNow(u)
  \/ HandlerFinishes(u)
  \/ FlushTimesOut(u)
  \/ Clear(u)
  \/ DrainWakes(u)

Next ==
  \/ \E u \in Users : UserStep(u)
  \/ Destroy
  \/ NextPass
  \/ DrainReturns
  \/ Tick

Spec == Init /\ [][Next]_vars

\* Timers fire and the clock advances; nothing is assumed of the handlers.
Fairness ==
  /\ \A u \in Users : WF_vars(TimerFires(u)) /\ WF_vars(FlushTimesOut(u))
                      /\ WF_vars(DrainWakes(u))
  /\ WF_vars(NextPass)
  /\ WF_vars(DrainReturns)
  /\ WF_vars(Tick)

FairSpec == Spec /\ Fairness
-----------------------------------------------------------------------------
Buffered(u) == texts[u] \o pending[u]

\* s counts up to n.
IsRunUpTo(s, n) == \A i \in 1..Len(s) : s[i] = n - Len(s) + i

TypeOK ==
  /\ live \subseteq Users
  /\ texts \in [Users -> Seq(Nat)]
  /\ key \in [Users -> Nat]
  /\ pending \in [Users -> Seq(Nat)]
  /\ pendingKey \in [Users -> Nat]
  /\ processing \in [Users -> BOOLEAN]
  /\ remaining \in [Users -> 0..DrainTimeout]
  /\ timer \in [Users -> BOOLEAN]
  /\ phase \in {"running", "draining", "starved", "destroyed"}
  /\ drainLeft \in 0..DrainTimeout
  /\ drainer \in [Users -> {"idle", "wait", "flush", "done"}]
  /\ accepted \in [Users -> 0..MaxMessages]
  /\ boundary \in [Users -> 0..MaxMessages]

\* What a user has buffered is exactly the newest messages enqueue() accepted,
\* in arrival order and without a gap, all of them newer than anything already
\* handed to onFlush or cleared: nothing is flushed twice, reordered, or lost
\* other than by the cap that drops the oldest.
BufferIsNewestRun ==
  \A u \in Users :
    /\ Len(Buffered(u)) =< maxPendingSize
    /\ boundary[u] =< accepted[u] - Len(Buffered(u))
    /\ IsRunUpTo(Buffered(u), accepted[u])

\* An entry of the Map is never left without someone who will act on it: either
\* a flush is in progress, and its finally block promotes what is pending, or
\* there is text and the debounce timer is armed.  Hence evictStale() finds
\* nothing to evict.
WorkIsScheduled ==
  \A u \in live : \/ processing[u] /\ texts[u] = <<>> /\ ~timer[u]
                  \/ ~processing[u] /\ texts[u] # <<>> /\ pending[u] = <<>>
                       /\ timer[u]

\* The idempotency key a batch is flushed with belongs to a message accepted
\* since the previous flush or clear: a key never reaches onFlush twice, where
\* the second batch would be swallowed as a duplicate.
KeyIsFresh ==
  \A u \in Users :
    /\ key[u] # 0 => boundary[u] < key[u] /\ key[u] =< accepted[u]
    /\ pendingKey[u] # 0 =>
         boundary[u] < pendingKey[u] /\ pendingKey[u] =< accepted[u]

\* A message that enqueue() accepted does not stay buffered for ever while the
\* process runs, even if handlers hang: it is flushed, dropped or cleared.
NoMessageStays ==
  \A u \in Users : \A m \in 1..MaxMessages :
    (\E i \in DOMAIN Buffered(u) : Buffered(u)[i] = m)
      ~> \/ phase = "destroyed"
         \/ ~\E i \in DOMAIN Buffered(u) : Buffered(u)[i] = m

\* destroy() returns, even if handlers hang and whatever drain() meets.
DestroyReturns == phase = "draining" ~> phase = "destroyed"
=============================================================================
