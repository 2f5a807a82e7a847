---------------------- MODULE DebounceChatQueueProofs ----------------------
(***************************************************************************)
(* Proofs about the in-memory debounce queue, for any set of users, any    *)
(* cap, any deadline and any number of messages.                           *)
(***************************************************************************)
EXTENDS DebounceChatQueue, TLAPS

\* What the buffers of one user look like.
UserShape(u) ==
  /\ processing[u] => texts[u] = <<>> /\ ~timer[u]
  /\ ~processing[u] => pending[u] = <<>>
  /\ pending[u] = <<>> => pendingKey[u] = 0

\* Outside the Map there is nothing, until destroy() detaches what is left.
EntryShape(u) ==
  /\ u \in live /\ ~processing[u] => texts[u] # <<>> /\ timer[u]
  /\ u \notin live /\ phase # "destroyed" => ~processing[u] /\ texts[u] = <<>>

\* The inductive invariant.
IInv ==
  /\ TypeOK
  /\ \A u \in Users : UserShape(u) /\ EntryShape(u)
  /\ BufferIsNewestRun
  /\ KeyIsFresh

LEMMA CapIsPositive == maxPendingSize \in Nat \ {0}
  BY ConfigAssumption DEF maxPendingSize

LEMMA ConcatEmpty ==
  ASSUME NEW s \in Seq(Nat)
  PROVE  <<>> \o s = s /\ s \o <<>> = s /\ Len(s) \in Nat
  OBVIOUS

\* Capping a sequence keeps its newest elements.
LEMMA CappedFacts ==
  ASSUME NEW s \in Seq(Nat)
  PROVE  /\ Capped(s) \in Seq(Nat)
         /\ Len(Capped(s)) =< maxPendingSize
         /\ Len(Capped(s)) =< Len(s)
         /\ Len(Capped(s)) \in Nat
         /\ s # <<>> => Capped(s) # <<>>
         /\ \A i \in 1..Len(Capped(s)) :
              Capped(s)[i] = s[Len(s) - Len(Capped(s)) + i]
  <1>. maxPendingSize \in Nat \ {0}
    BY CapIsPositive
  <1>1. CASE Len(s) - maxPendingSize > 0
    <2>1. Capped(s) = SubSeq(s, Len(s) - maxPendingSize + 1, Len(s))
      BY <1>1 DEF Capped
    <2>2. Capped(s) \in Seq(Nat) /\ Len(Capped(s)) = maxPendingSize
      BY <1>1, <2>1
    <2>3. \A i \in 1..Len(Capped(s)) :
             Capped(s)[i] = s[Len(s) - Len(Capped(s)) + i]
      BY <1>1, <2>1, <2>2
    <2>4. Capped(s) # <<>>
      BY <2>2
    <2>. QED BY <1>1, <2>2, <2>3, <2>4
  <1>2. CASE ~(Len(s) - maxPendingSize > 0)
    <2>1. Capped(s) = s
      BY <1>2 DEF Capped
    <2>. QED BY <1>2, <2>1
  <1>. QED BY <1>1, <1>2

\* Appending the next number and capping keeps a run a run.
LEMMA CappedRun ==
  ASSUME NEW s \in Seq(Nat), NEW n \in Nat, IsRunUpTo(s, n)
  PROVE  /\ IsRunUpTo(Capped(Append(s, n + 1)), n + 1)
         /\ Len(Capped(Append(s, n + 1))) =< Len(s) + 1
         /\ Len(Capped(Append(s, n + 1))) \in Nat
  <1>. DEFINE full == Append(s, n + 1)
  <1>1. full \in Seq(Nat) /\ Len(full) = Len(s) + 1 /\ Len(s) \in Nat
    OBVIOUS
  <1>2. ASSUME NEW i \in 1..Len(full)
        PROVE  full[i] = n + 1 - Len(full) + i
    <2>1. CASE i = Len(s) + 1
      BY <1>1, <2>1
    <2>2. CASE i \in 1..Len(s)
      <3>1. full[i] = s[i]
        BY <2>2
      <3>2. s[i] = n - Len(s) + i
        BY <2>2 DEF IsRunUpTo
      <3>. QED BY <1>1, <2>2, <3>1, <3>2
    <2>. QED BY <1>1, <2>1, <2>2
  <1>. DEFINE c == Capped(full)
  <1>3. /\ c \in Seq(Nat) /\ Len(c) =< Len(full) /\ Len(c) \in Nat
        /\ \A i \in 1..Len(c) : c[i] = full[Len(full) - Len(c) + i]
    <2>. HIDE DEF full
    <2>. QED BY <1>1, CappedFacts, ZenonT(30)
  <1>. HIDE DEF full, c
  <1>4. ASSUME NEW i \in 1..Len(c)
        PROVE  c[i] = n + 1 - Len(c) + i
    <2>1. Len(full) - Len(c) + i \in 1..Len(full)
      BY <1>1, <1>3
    <2>2. full[Len(full) - Len(c) + i] = n + 1 - Len(full) + (Len(full) - Len(c) + i)
      BY <2>1, <1>2
    <2>3. c[i] = full[Len(full) - Len(c) + i]
      BY <1>3
    <2>. QED BY <1>1, <1>3, <2>2, <2>3
  <1>5. IsRunUpTo(c, n + 1)
    BY <1>4 DEF IsRunUpTo
  <1>. QED BY <1>1, <1>3, <1>5 DEF full, c

\* A sequence that was appended to has a last element.
LEMMA AppendIsNotEmpty ==
  ASSUME NEW s \in Seq(Nat), NEW n \in Nat
  PROVE  Append(s, n) # <<>>
  <1>1. Len(Append(s, n)) = Len(s) + 1 /\ Len(s) \in Nat
    OBVIOUS
  <1>. QED BY <1>1

LEMMA InitIInv == Init => IInv
  BY CapIsPositive, ConfigAssumption
  DEF Init, IInv, TypeOK, UserShape, EntryShape, BufferIsNewestRun, IsRunUpTo, Buffered, KeyIsFresh

\* flush() hands over everything the users in S have buffered.
LEMMA StartFlushIInv ==
  ASSUME IInv,
         NEW S \in SUBSET Users, \A u \in S : CanFlush(u),
         NEW ticks \in 0..DrainTimeout,
         StartFlush(S, ticks),
         UNCHANGED <<live, pending, pendingKey, accepted>>,
         phase' \in {"running", "draining", "starved", "destroyed"},
         drainLeft' \in 0..DrainTimeout,
         drainer' \in [Users -> {"idle", "wait", "flush", "done"}],
         phase = "destroyed" => phase' = "destroyed"
  PROVE  IInv'
  <1>1. TypeOK'
    BY DEF IInv, TypeOK, StartFlush
  <1>2. ASSUME NEW u \in Users
        PROVE  UserShape(u)' /\ EntryShape(u)'
    BY <1>2 DEF IInv, TypeOK, StartFlush, UserShape, EntryShape, CanFlush
  <1>3. BufferIsNewestRun'
    <2>1. SUFFICES ASSUME NEW u \in Users
          PROVE  /\ Len(Buffered(u)') =< maxPendingSize
                 /\ boundary'[u] =< accepted'[u] - Len(Buffered(u)')
                 /\ IsRunUpTo(Buffered(u)', accepted'[u])
      BY DEF BufferIsNewestRun
    <2>2. CASE u \in S
      <3>1. texts'[u] = <<>> /\ pending'[u] = <<>>
        BY <2>2 DEF IInv, StartFlush, UserShape, CanFlush
      <3>2. Buffered(u)' = <<>>
        BY <3>1 DEF Buffered
      <3>. QED BY <2>2, <3>2, CapIsPositive DEF StartFlush, IInv, TypeOK, IsRunUpTo
    <2>3. CASE u \notin S
      <3>1. Buffered(u)' = Buffered(u) /\ boundary'[u] = boundary[u]
        BY <2>3, ZenonT(30) DEF Buffered, StartFlush
      <3>. QED BY <3>1 DEF IInv, BufferIsNewestRun
    <2>. QED BY <2>2, <2>3
  <1>4. KeyIsFresh'
    BY DEF IInv, TypeOK, StartFlush, UserShape, KeyIsFresh, CanFlush
  <1>. QED BY <1>1, <1>2, <1>3, <1>4 DEF IInv

\* enqueue() appends to the run of newest messages and the cap cuts its head.
LEMMA EnqueueIInv ==
  ASSUME IInv, NEW u \in Users, NEW keyed \in BOOLEAN, Enqueue(u, keyed)
  PROVE  IInv'
  <1>. DEFINE m == accepted[u] + 1
  <1>0. m \in 0..MaxMessages /\ m \in Nat /\ accepted[u] \in Nat /\ boundary[u] \in Nat
    BY ConfigAssumption DEF IInv, TypeOK, Enqueue
  <1>1. /\ texts[u] \in Seq(Nat) /\ pending[u] \in Seq(Nat)
        /\ Append(texts[u], m) \in Seq(Nat) /\ Append(pending[u], m) \in Seq(Nat)
    BY <1>0 DEF IInv, TypeOK
  <1>. HIDE DEF m
  <1>a. Append(texts[u], m) # <<>> /\ Append(pending[u], m) # <<>>
    BY <1>0, <1>1, AppendIsNotEmpty, ZenonT(30)
  <1>. USE DEF m
  <1>2. /\ Capped(Append(texts[u], m)) \in Seq(Nat)
        /\ Capped(Append(pending[u], m)) \in Seq(Nat)
        /\ Capped(Append(texts[u], m)) # <<>>
        /\ Capped(Append(pending[u], m)) # <<>>
    BY <1>1, <1>a, CappedFacts, ZenonT(30)
  <1>3. TypeOK'
    <2>0. TypeOK
      BY DEF IInv
    <2>1. texts' \in [Users -> Seq(Nat)] /\ key' \in [Users -> Nat]
      <3>1. CASE processing[u]
        BY <2>0, <3>1 DEF TypeOK, Enqueue
      <3>2. CASE ~processing[u]
        <4>1. /\ texts' = [texts EXCEPT ![u] = Capped(Append(texts[u], m))]
              /\ key' = [key EXCEPT ![u] = IF keyed THEN m ELSE key[u]]
          BY <3>2 DEF Enqueue
        <4>2. (IF keyed THEN m ELSE key[u]) \in Nat
          BY <1>0, <2>0 DEF TypeOK
        <4>. QED BY <1>2, <2>0, <4>1, <4>2, SMTT(30) DEF TypeOK
      <3>. QED BY <3>1, <3>2
    <2>2. pending' \in [Users -> Seq(Nat)] /\ pendingKey' \in [Users -> Nat]
      <3>1. CASE processing[u]
        <4>1. /\ pending' = [pending EXCEPT ![u] = Capped(Append(pending[u], m))]
              /\ pendingKey' = [pendingKey EXCEPT ![u] =
                                  IF keyed THEN m ELSE pendingKey[u]]
          BY <3>1 DEF Enqueue
        <4>2. (IF keyed THEN m ELSE pendingKey[u]) \in Nat
          BY <1>0, <2>0 DEF TypeOK
        <4>. QED BY <1>2, <2>0, <4>1, <4>2, SMTT(30) DEF TypeOK
      <3>2. CASE ~processing[u]
        BY <2>0, <3>2 DEF TypeOK, Enqueue
      <3>. QED BY <3>1, <3>2
    <2>3. accepted' \in [Users -> 0..MaxMessages] /\ timer' \in [Users -> BOOLEAN]
      BY <1>0, ConfigAssumption, ZenonT(30) DEF IInv, TypeOK, Enqueue
    <2>. QED BY <2>1, <2>2, <2>3, SMTT(30) DEF IInv, TypeOK, Enqueue
  <1>4. ASSUME NEW v \in Users
        PROVE  UserShape(v)' /\ EntryShape(v)'
    BY <1>2, <1>4, ZenonT(30) DEF IInv, TypeOK, Enqueue, UserShape, EntryShape
  <1>5. BufferIsNewestRun'
    <2>1. SUFFICES ASSUME NEW v \in Users
          PROVE  /\ Len(Buffered(v)') =< maxPendingSize
                 /\ boundary'[v] =< accepted'[v] - Len(Buffered(v)')
                 /\ IsRunUpTo(Buffered(v)', accepted'[v])
      BY DEF BufferIsNewestRun
    <2>2. CASE v = u
      <3>. DEFINE old == Buffered(u)
      <3>1. old \in Seq(Nat) /\ Append(old, m) \in Seq(Nat)
        BY <1>0, <1>1 DEF Buffered
      <3>2. Buffered(u)' = Capped(Append(old, m))
        <4>1. CASE processing[u]
          <5>1. texts[u] = <<>> /\ texts'[u] = <<>> /\ old = pending[u]
            BY <4>1, <1>1, ConcatEmpty, ZenonT(30) DEF IInv, UserShape, Buffered, Enqueue
          <5>2. pending'[u] = Capped(Append(pending[u], m))
            BY <4>1 DEF IInv, TypeOK, Enqueue
          <5>. QED BY <5>1, <5>2, <1>2 DEF Buffered
        <4>2. CASE ~processing[u]
          <5>1. pending[u] = <<>> /\ pending'[u] = <<>> /\ old = texts[u]
            BY <4>2, <1>1, ConcatEmpty, ZenonT(30) DEF IInv, UserShape, Buffered, Enqueue
          <5>2. texts'[u] = Capped(Append(texts[u], m))
            BY <4>2 DEF IInv, TypeOK, Enqueue
          <5>. QED BY <5>1, <5>2, <1>2 DEF Buffered
        <4>. QED BY <4>1, <4>2
      <3>3. boundary[u] =< accepted[u] - Len(old) /\ IsRunUpTo(old, accepted[u])
        BY DEF IInv, BufferIsNewestRun
      <3>4. accepted'[u] = m /\ boundary'[u] = boundary[u]
        BY DEF IInv, TypeOK, Enqueue
      <3>5. /\ IsRunUpTo(Capped(Append(old, m)), m)
            /\ Len(Capped(Append(old, m))) =< Len(old) + 1
            /\ Len(Capped(Append(old, m))) \in Nat
        BY <1>0, <3>1, <3>3, CappedRun
      <3>6. Len(Capped(Append(old, m))) =< maxPendingSize
        BY <3>1, CappedFacts, ZenonT(30)
      <3>7. boundary[u] =< m - Len(Capped(Append(old, m)))
        BY <1>0, <3>1, <3>3, <3>5
      <3>. QED BY <2>2, <3>2, <3>4, <3>5, <3>6, <3>7
    <2>3. CASE v # u
      <3>1. /\ Buffered(v)' = Buffered(v) /\ boundary'[v] = boundary[v]
            /\ accepted'[v] = accepted[v]
        BY <2>3, ZenonT(30) DEF Buffered, Enqueue, IInv, TypeOK
      <3>. QED BY <3>1 DEF IInv, BufferIsNewestRun
    <2>. QED BY <2>2, <2>3
  <1>6. KeyIsFresh'
    <2>1. boundary[u] =< accepted[u]
      <3>1. Buffered(u) \in Seq(Nat)
        BY <1>1 DEF Buffered
      <3>2. boundary[u] =< accepted[u] - Len(Buffered(u)) /\ Len(Buffered(u)) \in Nat
        BY <3>1 DEF IInv, BufferIsNewestRun
      <3>. QED BY <1>0, <3>2
    <2>. QED BY <1>0, <2>1, SMTT(30) DEF IInv, TypeOK, Enqueue, KeyIsFresh
  <1>. QED BY <1>3, <1>4, <1>5, <1>6 DEF IInv

\* The finally block only moves what is pending.
LEMMA SettleIInv ==
  ASSUME IInv, NEW u \in Users, processing[u], Settle(u)
  PROVE  IInv'
  <1>1. /\ texts[u] = <<>> /\ pending[u] \in Seq(Nat)
        /\ texts[u] \o pending[u] = pending[u]
    BY ConcatEmpty, ZenonT(30) DEF IInv, TypeOK, UserShape
  <1>2. /\ texts' = [texts EXCEPT ![u] = pending[u]]
        /\ pending' = [pending EXCEPT ![u] = <<>>]
        /\ key' = [key EXCEPT ![u] = IF pending[u] # <<>> THEN pendingKey[u] ELSE @]
        /\ pendingKey' = [pendingKey EXCEPT ![u] = IF pending[u] # <<>> THEN 0 ELSE @]
        /\ timer' = [timer EXCEPT ![u] = @ \/ pending[u] # <<>>]
        /\ live' = IF pending[u] = <<>> /\ ~timer[u] THEN live \ {u} ELSE live
        /\ processing' = [processing EXCEPT ![u] = FALSE]
        /\ UNCHANGED <<phase, drainLeft, accepted, boundary>>
    BY <1>1 DEF Settle
  <1>3. TypeOK'
    <2>1. /\ texts' \in [Users -> Seq(Nat)] /\ pending' \in [Users -> Seq(Nat)]
      BY <1>1, <1>2 DEF IInv, TypeOK
    <2>2. key' \in [Users -> Nat] /\ pendingKey' \in [Users -> Nat]
      BY <1>2 DEF IInv, TypeOK
    <2>3. /\ remaining' \in [Users -> 0..DrainTimeout]
          /\ drainer' \in [Users -> {"idle", "wait", "flush", "done"}]
      BY ConfigAssumption DEF IInv, TypeOK, Settle
    <2>4. /\ timer' \in [Users -> BOOLEAN] /\ processing' \in [Users -> BOOLEAN]
          /\ live' \subseteq Users
      BY <1>2 DEF IInv, TypeOK
    <2>. QED BY <1>2, <2>1, <2>2, <2>3, <2>4, SMTT(30) DEF IInv, TypeOK
  <1>4. ASSUME NEW v \in Users
        PROVE  UserShape(v)' /\ EntryShape(v)'
    BY <1>1, <1>2, <1>4, ZenonT(30) DEF IInv, TypeOK, UserShape, EntryShape
  <1>5. BufferIsNewestRun'
    <2>1. ASSUME NEW v \in Users
          PROVE  Buffered(v)' = Buffered(v)
      BY <1>1, <1>2, ConcatEmpty, ZenonT(30) DEF Buffered, IInv, TypeOK
    <2>. QED BY <1>2, <2>1 DEF IInv, BufferIsNewestRun
  <1>6. KeyIsFresh'
    BY <1>2 DEF IInv, TypeOK, KeyIsFresh
  <1>. QED BY <1>3, <1>4, <1>5, <1>6 DEF IInv

\* clear() empties the buffers and moves the boundary to the newest message.
LEMMA ClearIInv ==
  ASSUME IInv, NEW u \in Users, Clear(u)
  PROVE  IInv'
  <1>1. TypeOK'
    BY SMTT(30) DEF IInv, TypeOK, Clear
  <1>2. ASSUME NEW v \in Users
        PROVE  UserShape(v)' /\ EntryShape(v)'
    BY <1>2, ZenonT(30) DEF IInv, TypeOK, UserShape, EntryShape, Clear
  <1>3. BufferIsNewestRun'
    <2>1. SUFFICES ASSUME NEW v \in Users
          PROVE  /\ Len(Buffered(v)') =< maxPendingSize
                 /\ boundary'[v] =< accepted'[v] - Len(Buffered(v)')
                 /\ IsRunUpTo(Buffered(v)', accepted'[v])
      BY DEF BufferIsNewestRun
    <2>2. CASE v = u
      <3>1. Buffered(v)' = <<>>
        BY <2>2 DEF Buffered, Clear, IInv, TypeOK
      <3>. QED BY <2>2, <3>1, CapIsPositive DEF Clear, IInv, TypeOK, IsRunUpTo
    <2>3. CASE v # u
      <3>1. Buffered(v)' = Buffered(v) /\ boundary'[v] = boundary[v]
        BY <2>3, ZenonT(30) DEF Buffered, Clear, IInv, TypeOK
      <3>. QED BY <3>1 DEF IInv, BufferIsNewestRun, Clear
    <2>. QED BY <2>2, <2>3
  <1>4. KeyIsFresh'
    BY SMTT(30) DEF IInv, TypeOK, KeyIsFresh, Clear
  <1>. QED BY <1>1, <1>2, <1>3, <1>4 DEF IInv

\* Steps that leave the buffers alone and touch only timers and the drain.
LEMMA QuietIInv ==
  ASSUME IInv, TypeOK', UNCHANGED <<buffers, processing, accepted, boundary>>,
         \A u \in Users : timer'[u] => timer[u],
         \A u \in Users : EntryShape(u)'
  PROVE  IInv'
  <1>1. ASSUME NEW u \in Users
        PROVE  UserShape(u)'
    BY <1>1 DEF IInv, UserShape, buffers
  <1>2. BufferIsNewestRun' /\ KeyIsFresh'
    BY ZenonT(30) DEF IInv, BufferIsNewestRun, Buffered, KeyIsFresh, buffers
  <1>. QED BY <1>1, <1>2 DEF IInv

LEMMA NextIInv == IInv /\ [Next]_vars => IInv'
  <1>. SUFFICES ASSUME IInv, [Next]_vars
                PROVE  IInv'
    OBVIOUS
  <1>0. DrainTimeout \in 0..DrainTimeout /\ DrainTimeout \in Nat
    BY ConfigAssumption
  <1>1. ASSUME NEW u \in Users, NEW keyed \in BOOLEAN, Enqueue(u, keyed)
        PROVE  IInv'
    BY <1>1, EnqueueIInv
  <1>2. ASSUME NEW u \in Users, TimerFires(u)
        PROVE  IInv'
    <2>1. CASE CanFlush(u) /\ StartFlush({u}, DrainTimeout)
      BY <1>0, <1>2, <2>1, StartFlushIInv, ZenonT(30) DEF TimerFires, IInv, TypeOK
    <2>2. CASE ~CanFlush(u) /\ timer' = [timer EXCEPT ![u] = FALSE]
      <3>1. UNCHANGED <<live, phase, drainLeft, drainer, remaining, buffers,
                        processing, accepted, boundary>>
        BY <1>2, <2>2 DEF TimerFires, StartFlush, CanFlush, IInv, UserShape, buffers
      <3>2. TypeOK' /\ \A v \in Users : timer'[v] => timer[v]
        BY <2>2, <3>1, SMTT(30) DEF IInv, TypeOK, buffers
      <3>3. ASSUME NEW v \in Users PROVE EntryShape(v)'
        BY <2>2, <3>1, <3>3, SMTT(30) DEF IInv, TypeOK, EntryShape, CanFlush, buffers
      <3>. QED BY <3>1, <3>2, <3>3, QuietIInv
    <2>. QED BY <1>2, <2>1, <2>2 DEF TimerFires
  <1>3. ASSUME NEW u \in Users, FlushNow(u)
        PROVE  IInv'
    BY <1>0, <1>3, StartFlushIInv, ZenonT(30) DEF FlushNow, IInv, TypeOK
  <1>4. ASSUME NEW u \in Users, HandlerFinishes(u) \/ FlushTimesOut(u)
        PROVE  IInv'
    BY <1>4, SettleIInv DEF HandlerFinishes, FlushTimesOut
  <1>5. ASSUME NEW u \in Users, Clear(u)
        PROVE  IInv'
    BY <1>5, ClearIInv
  <1>6. ASSUME NEW u \in Users, DrainWakes(u)
        PROVE  IInv'
    <2>1. CASE CanFlush(u) /\ StartFlush({u}, drainLeft)
                /\ drainer' = [drainer EXCEPT ![u] = "flush"]
      BY <1>6, <2>1, StartFlushIInv, ZenonT(30) DEF DrainWakes, IInv, TypeOK
    <2>2. CASE /\ drainer' = [drainer EXCEPT ![u] = "done"]
               /\ UNCHANGED <<timer, processing, remaining, texts, key, boundary>>
      <3>1. UNCHANGED <<live, phase, timer, buffers, processing, accepted, boundary>>
        BY <1>6, <2>2 DEF DrainWakes, buffers
      <3>2. TypeOK'
        BY <1>6, <2>2, SMTT(30) DEF IInv, TypeOK, DrainWakes
      <3>. QED BY <3>1, <3>2, QuietIInv DEF EntryShape, IInv, buffers
    <2>. QED BY <1>6, <2>1, <2>2 DEF DrainWakes
  <1>7. ASSUME NEW left \in 0..DrainTimeout, StartPass(left), phase # "destroyed",
               phase' \in {"running", "draining", "starved", "destroyed"}
        PROVE  IInv'
    <2>1. drainer' \in [Users -> {"idle", "wait", "flush", "done"}]
      BY <1>7 DEF StartPass
    <2>2. {u \in live : CanFlush(u)} \in SUBSET Users
      BY DEF IInv, TypeOK
    <2>. QED BY <1>7, <2>1, <2>2, StartFlushIInv DEF StartPass
  <1>8. CASE Destroy
    BY <1>0, <1>7, <1>8 DEF Destroy
  <1>9. CASE NextPass
    <2>1. CASE StartPass(drainLeft) /\ UNCHANGED phase
      BY <1>7, <1>9, <2>1 DEF NextPass, PassOver, IInv, TypeOK
    <2>2. CASE /\ phase' = "starved"
               /\ UNCHANGED <<live, buffers, processing, remaining, timer, drainLeft,
                              drainer, accepted, boundary>>
      <3>1. TypeOK'
        BY <2>2 DEF IInv, TypeOK, buffers
      <3>2. ASSUME NEW v \in Users PROVE EntryShape(v)'
        BY <1>9, <2>2, <3>2 DEF IInv, EntryShape, buffers, NextPass, PassOver
      <3>. QED BY <2>2, <3>1, <3>2, QuietIInv
    <2>. QED BY <1>9, <2>1, <2>2 DEF NextPass
  <1>10. CASE DrainReturns
    <2>1. TypeOK'
      BY <1>10 DEF IInv, TypeOK, DrainReturns, buffers
    <2>2. \A v \in Users : EntryShape(v)' /\ (timer'[v] => timer[v])
      BY <1>10, ZenonT(30) DEF EntryShape, DrainReturns
    <2>. QED BY <1>10, <2>1, <2>2, QuietIInv DEF DrainReturns
  <1>11. CASE Tick
    <2>1. drainLeft' \in 0..DrainTimeout /\ remaining' \in [Users -> 0..DrainTimeout]
      <3>1. drainLeft \in 0..DrainTimeout /\ \A u \in Users : remaining[u] \in 0..DrainTimeout
        BY DEF IInv, TypeOK
      <3>2. drainLeft' \in 0..DrainTimeout
        BY <1>0, <1>11, <3>1 DEF Tick
      <3>3. ASSUME NEW u \in Users
            PROVE  (IF remaining[u] > 0 THEN remaining[u] - 1 ELSE 0) \in 0..DrainTimeout
        BY <1>0, <3>1, <3>3
      <3>. QED BY <1>11, <3>2, <3>3 DEF Tick
    <2>2. TypeOK'
      BY <1>11, <2>1, SMTT(30) DEF IInv, TypeOK, Tick, buffers
    <2>3. \A v \in Users : EntryShape(v)' /\ (timer'[v] => timer[v])
      BY <1>11 DEF EntryShape, Tick, IInv, buffers
    <2>. QED BY <1>11, <2>2, <2>3, QuietIInv DEF Tick
  <1>12. CASE UNCHANGED vars
    <2>1. TypeOK'
      BY <1>12 DEF IInv, TypeOK, vars
    <2>2. \A v \in Users : EntryShape(v)' /\ (timer'[v] => timer[v])
      BY <1>12 DEF EntryShape, IInv, vars
    <2>. QED BY <1>12, <2>1, <2>2, QuietIInv DEF vars, buffers
  <1>. QED BY <1>1, <1>2, <1>3, <1>4, <1>5, <1>6, <1>8, <1>9, <1>10, <1>11, <1>12
           DEF Next, UserStep

\* The variables keep their types; deadlines stay within DrainTimeout.
THEOREM TypeTheorem == Spec => []TypeOK
  <1>1. IInv => TypeOK
    BY DEF IInv
  <1>. QED BY <1>1, InitIInv, NextIInv, PTL DEF Spec

\* Whatever the interleaving of messages, timers, slow handlers, clears and
\* shutdown, a user's buffer is the run of the newest accepted messages.
THEOREM BufferTheorem == Spec => []BufferIsNewestRun
  <1>1. IInv => BufferIsNewestRun
    BY DEF IInv
  <1>. QED BY <1>1, InitIInv, NextIInv, PTL DEF Spec

\* An entry of the Map always has a flush in progress or an armed timer, so no
\* message is stranded and evictStale() has nothing to evict.
THEOREM ScheduleTheorem == Spec => []WorkIsScheduled
  <1>1. IInv => WorkIsScheduled
    BY DEF IInv, TypeOK, UserShape, EntryShape, WorkIsScheduled
  <1>. QED BY <1>1, InitIInv, NextIInv, PTL DEF Spec

\* No idempotency key reaches onFlush a second time.
THEOREM KeyTheorem == Spec => []KeyIsFresh
  <1>1. IInv => KeyIsFresh
    BY DEF IInv
  <1>. QED BY <1>1, InitIInv, NextIInv, PTL DEF Spec
=============================================================================
