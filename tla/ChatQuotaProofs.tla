-------------------------- MODULE ChatQuotaProofs ---------------------------
(***************************************************************************)
(* Proofs that a confirmed reply is not repeated and stays charged unless  *)
(* a reservation of its key was taken back as stuck, and that delivered    *)
(* rows are final, for any keys, channels, workers, limits and faults.     *)
(*                                                                         *)
(* The argument counts.  A flush "spends" a reservation of its key from    *)
(* the commit until it has confirmed a reply, refunded the slot or ended.  *)
(* Confirmed replies and spending flushes together never outnumber the     *)
(* charged row and the reservations taken back as stuck: a reservation     *)
(* adds one to both sides, a refund takes one from both, although a late   *)
(* flush may refund the reservation of another.                            *)
(***************************************************************************)
EXTENDS ChatQuota, FiniteSetTheorems, TLAPS

\* The flush holds a reservation for which no reply is confirmed yet.
Spends(f, k) ==
  /\ f.key = k
  /\ \/ f.pc \in {"answering", "sending", "refunding"}
     \/ f.pc \in {"marking", "appending"} /\ ~f.delivered

Spending(k) == {w \in Flushes : Spends(flush[w], k)}
Worth(f, k) == IF Spends(f, k) THEN 1 ELSE 0
Charge(k) == IF Charged(k) THEN 1 ELSE 0

FlushRecords == [pc : Pcs, key : Keys, owner : Owners, day : Days, again : BOOLEAN,
                 verdict : {"none", "ok", "conflict", "burst", "daily"}, delivered : BOOLEAN]

\* As much of the type as the proofs need.
Types ==
  /\ idem \in [Keys -> [status : Statuses, owner : Owners, day : Days, age : Int]]
  /\ flush \in [Flushes -> FlushRecords]
  /\ link \in [Channels -> Owners]
  /\ today \in Days
  /\ confirmed \in [Keys -> Nat]
  /\ recovered \in [Keys -> Nat]

\* At most one open reservation transaction per channel.
Exclusive ==
  \A v, w \in Flushes :
    v # w /\ At(v, "committing") /\ At(w, "committing")
      => KeyChannel[Key(v)] # KeyChannel[Key(w)]

\* What an open transaction has read still holds when it commits.
Fresh ==
  \A w \in Flushes : At(w, "committing") /\ flush[w].verdict = "ok" => Status(Key(w)) = "none"

Ledger ==
  \A k \in Keys : confirmed[k] + Cardinality(Spending(k)) <= recovered[k] + Charge(k)

IInv == Types /\ Exclusive /\ Fresh /\ Ledger
-----------------------------------------------------------------------------
LEMMA SpendingFinite ==
  ASSUME NEW k \in Keys
  PROVE  IsFiniteSet(Spending(k)) /\ Cardinality(Spending(k)) \in Nat
<1>1. Spending(k) \subseteq Flushes
  BY DEF Spending
<1> QED
  BY <1>1, FS_Subset, FS_CardinalityType, QuotaAssumption

\* How one worker's move changes the number of spending flushes of a key.
LEMMA Move ==
  ASSUME flush \in [Flushes -> FlushRecords], NEW w \in Flushes, NEW f,
         flush' = [flush EXCEPT ![w] = f], NEW k \in Keys
  PROVE  /\ Cardinality(Spending(k)') \in Nat
         /\ Cardinality(Spending(k)')
              = Cardinality(Spending(k)) - Worth(flush[w], k) + Worth(f, k)
<1> DEFINE S == Spending(k)
<1> DEFINE T == Spending(k)'
<1>1. IsFiniteSet(S) /\ Cardinality(S) \in Nat
  BY SpendingFinite
<1>2. \A v \in Flushes : v # w => (v \in T <=> v \in S)
  BY DEF Spending
<1>3. w \in T <=> Spends(f, k)
  BY DEF Spending
<1>4. w \in S <=> Spends(flush[w], k)
  BY DEF Spending
<1>5. S \subseteq Flushes /\ T \subseteq Flushes
  BY DEF Spending
<1> HIDE DEF S, T
<1>6. CASE Spends(f, k) /\ Spends(flush[w], k)
  <2>1. T = S
    BY <1>2, <1>3, <1>4, <1>5, <1>6
  <2> QED
    BY <2>1, <1>1, <1>6 DEF Worth, S, T
<1>7. CASE Spends(f, k) /\ ~Spends(flush[w], k)
  <2>1. T = S \cup {w} /\ w \notin S
    BY <1>2, <1>3, <1>4, <1>5, <1>7
  <2>2. Cardinality(T) = Cardinality(S) + 1
    BY <2>1, <1>1, FS_AddElement, ZenonT(30)
  <2> QED
    BY <2>2, <1>1, <1>7 DEF Worth, S, T
<1>8. CASE ~Spends(f, k) /\ Spends(flush[w], k)
  <2>1. T = S \ {w} /\ w \in S
    BY <1>2, <1>3, <1>4, <1>5, <1>8
  <2>2. Cardinality(T) = Cardinality(S) - 1 /\ IsFiniteSet(T)
    BY <2>1, <1>1, FS_RemoveElement
  <2>3. Cardinality(T) \in Nat
    BY <2>2, FS_CardinalityType
  <2> QED
    BY <2>2, <2>3, <1>1, <1>8 DEF Worth, S, T
<1>9. CASE ~Spends(f, k) /\ ~Spends(flush[w], k)
  <2>1. T = S
    BY <1>2, <1>3, <1>4, <1>5, <1>9
  <2> QED
    BY <2>1, <1>1, <1>9 DEF Worth, S, T
<1> QED
  BY <1>6, <1>7, <1>8, <1>9

\* The ledger is kept by a move that does not cost more than it brings.
LEMMA LedgerStep ==
  ASSUME Types, Types', Ledger, NEW w \in Flushes, NEW f, flush' = [flush EXCEPT ![w] = f],
         \A k \in Keys : confirmed'[k] + Worth(f, k) + recovered[k] + Charge(k)
                       <= confirmed[k] + Worth(flush[w], k) + recovered'[k] + Charge(k)'
  PROVE  Ledger'
<1> SUFFICES ASSUME NEW k \in Keys
             PROVE  confirmed'[k] + Cardinality(Spending(k)') <= recovered'[k] + Charge(k)'
  BY DEF Ledger
<1>1. /\ Cardinality(Spending(k)') \in Nat
      /\ Cardinality(Spending(k)')
              = Cardinality(Spending(k)) - Worth(flush[w], k) + Worth(f, k)
  BY Move, ZenonT(30) DEF Types
<1>2. Cardinality(Spending(k)) \in Nat
  BY SpendingFinite
<1>3. confirmed[k] + Cardinality(Spending(k)) <= recovered[k] + Charge(k)
  BY DEF Ledger
<1>4. /\ confirmed[k] \in Nat /\ confirmed'[k] \in Nat
      /\ recovered[k] \in Nat /\ recovered'[k] \in Nat
  BY DEF Types
<1>5. Worth(f, k) \in Int /\ Worth(flush[w], k) \in Int /\ Charge(k) \in Int /\ Charge(k)' \in Int
  BY DEF Worth, Charge
<1>6. confirmed'[k] + Worth(f, k) + recovered[k] + Charge(k)
                       <= confirmed[k] + Worth(flush[w], k) + recovered'[k] + Charge(k)'
  OBVIOUS
<1> QED
  BY <1>1, <1>2, <1>3, <1>4, <1>5, <1>6

\* The transactions stay apart when a worker moves that does not open one and
\* no row appears.
LEMMA NoRowAppears ==
  ASSUME Types, Exclusive, Fresh, NEW w \in Flushes, NEW f,
         flush' = [flush EXCEPT ![w] = f], f.pc # "committing",
         \A k \in Keys : Status(k) = "none" => Status(k)' = "none"
  PROVE  Exclusive' /\ Fresh'
<1>1. \A v \in Flushes : At(v, "committing")' => v # w /\ flush'[v] = flush[v]
  BY DEF At, Types
<1>2. Exclusive'
  BY <1>1 DEF Exclusive, At, Key
<1>3. Fresh'
  <2> SUFFICES ASSUME NEW v \in Flushes, At(v, "committing")', flush'[v].verdict = "ok"
               PROVE  Status(Key(v))' = "none"
    BY DEF Fresh
  <2>1. flush'[v] = flush[v]
    BY <1>1
  <2>2. Key(v) \in Keys /\ Key(v)' = Key(v)
    BY <2>1 DEF Key, Types, FlushRecords
  <2>3. Status(Key(v)) = "none"
    BY <2>1 DEF Fresh, At
  <2> QED
    BY <2>2, <2>3 DEF Status
<1> QED
  BY <1>2, <1>3
-----------------------------------------------------------------------------
(* Kinds of step.                                                          *)

RowTypes == idem \in [Keys -> [status : Statuses, owner : Owners, day : Days, age : Int]]

LEMMA IdleRecord == Idle \in FlushRecords /\ Idle.pc = "idle"
<1>1. (CHOOSE k \in Keys : TRUE) \in Keys
  BY QuotaAssumption
<1>2. Anon \in Owners
  BY DEF Owners
<1>3. 1 \in Days
  BY QuotaAssumption DEF Days
<1> QED
  BY <1>1, <1>2, <1>3 DEF Idle, FlushRecords, Pcs

LEMMA GotoMove ==
  ASSUME Types, NEW w \in Flushes, NEW p \in Pcs, Goto(w, p)
  PROVE  \E f \in FlushRecords :
           /\ flush' = [flush EXCEPT ![w] = f]
           /\ f.pc = p /\ f.key = Key(w) /\ f.delivered = flush[w].delivered
<1> DEFINE f == [flush[w] EXCEPT !.pc = p]
<1>1. flush[w] \in FlushRecords
  BY DEF Types
<1>2. f \in FlushRecords /\ f.pc = p /\ f.key = Key(w) /\ f.delivered = flush[w].delivered
  BY <1>1 DEF FlushRecords, Key
<1>3. flush' = [flush EXCEPT ![w] = f]
  BY DEF Goto, Types
<1> QED
  BY <1>2, <1>3, ZenonT(30)

LEMMA EndMove ==
  ASSUME Types, NEW w \in Flushes, End(w)
  PROVE  \E f \in FlushRecords : flush' = [flush EXCEPT ![w] = f] /\ f.pc = "idle"
BY IdleRecord, ZenonT(30) DEF End

LEMMA RowSet ==
  ASSUME Types, NEW k \in Keys, NEW s \in Statuses, SetStatus(k, s)
  PROVE  RowTypes' /\ Status(k)' = s /\ \A j \in Keys \ {k} : Status(j)' = Status(j)
<1>1. idem[k] \in [status : Statuses, owner : Owners, day : Days, age : Int]
  BY DEF Types
<1>2. idem' = [idem EXCEPT ![k] = [idem[k] EXCEPT !.status = s]]
  BY DEF SetStatus, Types
<1>3. [idem[k] EXCEPT !.status = s] \in [status : Statuses, owner : Owners, day : Days, age : Int]
  BY <1>1
<1>4. [idem[k] EXCEPT !.status = s].status = s
  BY <1>1
<1> HIDE <1>1
<1> QED
  BY <1>2, <1>3, <1>4 DEF RowTypes, Status, Types

LEMMA RowDeleted ==
  ASSUME Types, NEW k \in Keys, DeleteRow(k)
  PROVE  RowTypes' /\ Status(k)' = "none" /\ \A j \in Keys \ {k} : Status(j)' = Status(j)
<1>1. NoRow \in [status : Statuses, owner : Owners, day : Days, age : Int] /\ NoRow.status = "none"
  BY QuotaAssumption DEF NoRow, Statuses, Owners, Days
<1> QED
  BY <1>1 DEF DeleteRow, RowTypes, Status, Types

\* A worker moves outside the reservation transactions.
LEMMA WorkerMove ==
  ASSUME IInv, NEW w \in Flushes, NEW f \in FlushRecords,
         flush' = [flush EXCEPT ![w] = f], f.pc # "committing",
         RowTypes', UNCHANGED <<link, today>>,
         \A k \in Keys : Status(k) = "none" => Status(k)' = "none",
         confirmed' \in [Keys -> Nat], recovered' \in [Keys -> Nat],
         \A k \in Keys : confirmed'[k] + Worth(f, k) + recovered[k] + Charge(k)
                       <= confirmed[k] + Worth(flush[w], k) + recovered'[k] + Charge(k)'
  PROVE  IInv'
<1>1. Types'
  BY DEF IInv, Types, RowTypes
<1>2. Ledger'
  BY <1>1, LedgerStep, ZenonT(30) DEF IInv
<1>3. Exclusive' /\ Fresh'
  BY NoRowAppears, ZenonT(30) DEF IInv
<1> QED
  BY <1>1, <1>2, <1>3 DEF IInv

\* A worker moves and nothing else changes, and it spends no more than before.
LEMMA QuietMove ==
  ASSUME IInv, NEW w \in Flushes, NEW f \in FlushRecords,
         flush' = [flush EXCEPT ![w] = f], f.pc # "committing",
         \A k \in Keys : Worth(f, k) <= Worth(flush[w], k),
         UNCHANGED <<idem, link, today, confirmed, recovered>>
  PROVE  IInv'
<1>1. \A k \in Keys : Status(k)' = Status(k) /\ Charge(k)' = Charge(k)
  BY DEF Status, Charge, Charged
<1>2. RowTypes' /\ confirmed' \in [Keys -> Nat] /\ recovered' \in [Keys -> Nat]
  BY DEF IInv, Types, RowTypes
<1>3. ASSUME NEW k \in Keys
      PROVE  confirmed'[k] + Worth(f, k) + recovered[k] + Charge(k)
                       <= confirmed[k] + Worth(flush[w], k) + recovered'[k] + Charge(k)'
  <2>1. confirmed[k] \in Nat /\ recovered[k] \in Nat
    BY DEF IInv, Types
  <2>2. Worth(f, k) \in Int /\ Worth(flush[w], k) \in Int /\ Charge(k) \in Int
    BY DEF Worth, Charge
  <2>3. confirmed'[k] = confirmed[k] /\ recovered'[k] = recovered[k] /\ Charge(k)' = Charge(k)
    BY <1>1
  <2> QED
    BY <2>1, <2>2, <2>3
<1> QED
  BY <1>1, <1>2, <1>3, WorkerMove, ZenonT(30)

\* No worker moves, and no row that counts is taken back without a record of it.
LEMMA GlobalMove ==
  ASSUME IInv, RowTypes', UNCHANGED <<flush, confirmed>>,
         link' \in [Channels -> Owners], today' \in Days, recovered' \in [Keys -> Nat],
         \A k \in Keys : Status(k) = "none" => Status(k)' = "none",
         \A k \in Keys : recovered[k] + Charge(k) <= recovered'[k] + Charge(k)'
  PROVE  IInv'
<1>1. Types'
  BY DEF IInv, Types, RowTypes
<1>2. Exclusive'
  BY DEF IInv, Exclusive, At, Key
<1>3. Fresh'
  <2>1. \A w \in Flushes : Key(w) \in Keys
    BY DEF IInv, Types, Key, FlushRecords
  <2> QED
    BY <2>1 DEF IInv, Fresh, At, Key, Status
<1>4. ASSUME NEW k \in Keys
      PROVE  confirmed'[k] + Cardinality(Spending(k)') <= recovered'[k] + Charge(k)'
  <2>1. Spending(k)' = Spending(k)
    BY DEF Spending
  <2>2. Cardinality(Spending(k)) \in Nat
    BY SpendingFinite
  <2>3. confirmed[k] + Cardinality(Spending(k)) <= recovered[k] + Charge(k)
    BY DEF IInv, Ledger
  <2>4. recovered[k] + Charge(k) <= recovered'[k] + Charge(k)'
    OBVIOUS
  <2>5. confirmed[k] \in Nat /\ recovered[k] \in Nat /\ recovered'[k] \in Nat
    BY DEF IInv, Types
  <2>6. Charge(k) \in Int /\ Charge(k)' \in Int
    BY DEF Charge
  <2>7. confirmed'[k] = confirmed[k]
    OBVIOUS
  <2> QED
    BY <2>1, <2>2, <2>3, <2>4, <2>5, <2>6, <2>7
<1>5. Ledger'
  BY <1>4 DEF Ledger
<1> QED
  BY <1>1, <1>2, <1>3, <1>5 DEF IInv
-----------------------------------------------------------------------------
(* One lemma per action.                                                   *)

LEMMA StartStep ==
  ASSUME IInv, NEW w \in Flushes, NEW k \in Keys, Start(w, k)
  PROVE  IInv'
<1> DEFINE f == [Idle EXCEPT !.pc = "reserving", !.key = k,
                             !.owner = link[KeyChannel[k]], !.day = today]
<1>1. KeyChannel[k] \in Channels /\ link[KeyChannel[k]] \in Owners /\ today \in Days
  BY QuotaAssumption DEF IInv, Types
<1>2. f \in FlushRecords /\ f.pc = "reserving"
  BY <1>1, IdleRecord, ZenonT(30) DEF FlushRecords, Idle, Pcs
<1>3. flush' = [flush EXCEPT ![w] = f]
  BY DEF Start
<1> HIDE DEF f
<1>4. \A j \in Keys : Worth(f, j) <= Worth(flush[w], j)
  BY <1>2 DEF Worth, Spends
<1> QED
  BY <1>2, <1>3, <1>4, QuietMove, ZenonT(30) DEF Start

LEMMA ReserveStep ==
  ASSUME IInv, NEW w \in Flushes, Reserve(w)
  PROVE  IInv'
<1> DEFINE v == Verdict(Key(w), flush[w].owner, flush[w].day)
<1> DEFINE f == [flush[w] EXCEPT !.pc = "committing", !.verdict = v]
<1>1. flush[w] \in FlushRecords
  BY DEF IInv, Types
<1>2. v \in {"none", "ok", "conflict", "burst", "daily"} /\ (v = "ok" => Status(Key(w)) = "none")
  BY DEF Verdict, Taken
<1>3. flush' = [flush EXCEPT ![w] = f]
  BY ZenonT(30) DEF Reserve, IInv, Types
<1> HIDE DEF v
<1>4. f \in FlushRecords /\ f.pc = "committing" /\ f.key = Key(w) /\ f.verdict = v
  BY <1>1, <1>2, ZenonT(30) DEF FlushRecords, Pcs, Key
<1> HIDE DEF f
<1>5. UNCHANGED <<idem, link, today, confirmed, recovered>> /\ At(w, "reserving")
  BY DEF Reserve
<1>6. Types'
  BY <1>3, <1>4, <1>5 DEF IInv, Types
<1>7. Exclusive'
  <2> SUFFICES ASSUME NEW x \in Flushes, NEW y \in Flushes, x # y,
                      At(x, "committing")', At(y, "committing")'
               PROVE  KeyChannel[Key(x)'] # KeyChannel[Key(y)']
    BY DEF Exclusive
  <2>1. \A u \in Flushes : u # w => flush'[u] = flush[u]
    BY <1>3 DEF IInv, Types
  <2>2. flush'[w] = f
    BY <1>3 DEF IInv, Types
  <2>3. \A u \in Flushes : u # w /\ At(u, "committing") => KeyChannel[Key(u)] # KeyChannel[Key(w)]
    BY DEF Reserve, Conflicts, At
  <2>4. CASE x # w /\ y # w
    BY <2>1, <2>4 DEF IInv, Exclusive, At, Key
  <2>5. CASE x = w
    BY <2>1, <2>2, <2>3, <2>5, <1>4 DEF At, Key
  <2>6. CASE y = w
    BY <2>1, <2>2, <2>3, <2>6, <1>4 DEF At, Key
  <2> QED
    BY <2>4, <2>5, <2>6
<1>8. Fresh'
  <2> SUFFICES ASSUME NEW x \in Flushes, At(x, "committing")', flush'[x].verdict = "ok"
               PROVE  Status(Key(x)') = "none"
    BY <1>5 DEF Fresh, Status
  <2>1. CASE x = w
    BY <2>1, <1>2, <1>3, <1>4 DEF IInv, Types, Key
  <2>2. CASE x # w
    BY <2>2, <1>3 DEF IInv, Types, Key, At, Fresh
  <2> QED
    BY <2>1, <2>2
<1>9. ASSUME NEW k \in Keys
      PROVE  confirmed'[k] + Worth(f, k) + recovered[k] + Charge(k)
                       <= confirmed[k] + Worth(flush[w], k) + recovered'[k] + Charge(k)'
  <2>1. Worth(f, k) = 0 /\ Worth(flush[w], k) = 0
    BY <1>4, <1>5 DEF Worth, Spends, At
  <2>2. Charge(k)' = Charge(k) /\ Charge(k) \in Int
    BY <1>5 DEF Charge, Charged, Status
  <2>3. confirmed[k] \in Nat /\ recovered[k] \in Nat
    BY DEF IInv, Types
  <2>4. confirmed'[k] = confirmed[k] /\ recovered'[k] = recovered[k]
    BY <1>5
  <2> QED
    BY <2>1, <2>2, <2>3, <2>4
<1>10. Ledger'
  BY <1>3, <1>6, <1>9, LedgerStep, ZenonT(30) DEF IInv
<1> QED
  BY <1>6, <1>7, <1>8, <1>10 DEF IInv

\* The reservation is written by a worker that goes on, or that gives up.
LEMMA WriteStep ==
  ASSUME IInv, NEW w \in Flushes, At(w, "committing"), flush[w].verdict = "ok",
         WriteReservation(w), NEW f \in FlushRecords, flush' = [flush EXCEPT ![w] = f],
         f.pc = "idle" \/ (f.pc = "answering" /\ f.key = Key(w)),
         UNCHANGED <<link, today, confirmed, recovered>>
  PROVE  IInv'
<1>1. flush[w] \in FlushRecords
  BY DEF IInv, Types
<1> DEFINE r == [status |-> "reserved", owner |-> flush[w].owner, day |-> flush[w].day, age |-> 0]
<1>2. r \in [status : Statuses, owner : Owners, day : Days, age : Int] /\ r.status = "reserved"
  BY <1>1 DEF FlushRecords, Statuses, Counting
<1>3. idem' = [idem EXCEPT ![Key(w)] = r]
  BY DEF WriteReservation, Key
<1>4. Key(w) \in Keys
  BY <1>1 DEF FlushRecords, Key
<1> HIDE DEF r
<1>5. Types'
  BY <1>2, <1>3, <1>4 DEF IInv, Types
<1>6. Status(Key(w)) = "none"
  BY DEF IInv, Fresh
<1>7. \A k \in Keys : k # Key(w) => Status(k)' = Status(k)
  BY <1>3, <1>4 DEF IInv, Types, Status
<1>8. idem'[Key(w)].status = "reserved"
  BY <1>2, <1>3, <1>4 DEF IInv, Types
<1>9. \A v \in Flushes : At(v, "committing")' => v # w /\ flush'[v] = flush[v]
  BY DEF IInv, Types, At
<1>10. Exclusive'
  BY <1>9 DEF IInv, Exclusive, At, Key
<1>11. Fresh'
  <2> SUFFICES ASSUME NEW v \in Flushes, At(v, "committing")', flush'[v].verdict = "ok"
               PROVE  Status(Key(v))' = "none"
    BY DEF Fresh
  <2>1. v # w /\ flush'[v] = flush[v]
    BY <1>9
  <2>2. Key(v) \in Keys /\ Key(v)' = Key(v)
    BY <2>1 DEF IInv, Key, Types, FlushRecords
  <2>3. Status(Key(v)) = "none"
    BY <2>1 DEF IInv, Fresh, At
  <2>4. KeyChannel[Key(v)] # KeyChannel[Key(w)]
    BY <2>1 DEF IInv, Exclusive, At
  <2>5. Key(v) # Key(w)
    BY <2>4
  <2>6. idem'[Key(v)].status = "none"
    BY <1>7, <2>2, <2>3, <2>5 DEF Status
  <2> QED
    BY <2>2, <2>6 DEF Status
<1>12. ASSUME NEW k \in Keys
       PROVE  confirmed'[k] + Worth(f, k) + recovered[k] + Charge(k)
                       <= confirmed[k] + Worth(flush[w], k) + recovered'[k] + Charge(k)'
  <2>1. Worth(flush[w], k) = 0
    BY DEF Worth, Spends, At
  <2>2. Worth(f, k) \in 0..1 /\ (k # Key(w) => Worth(f, k) = 0)
    BY DEF Worth, Spends
  <2>3. CASE k = Key(w)
    <3>1. Charge(k) = 0 /\ Charge(k)' = 1
      BY <2>3, <1>6, <1>8 DEF Charge, Charged, Status, Counting
    <3> QED
      BY <2>1, <2>2, <3>1, SMTT(30) DEF IInv, Types
  <2>4. CASE k # Key(w)
    <3>1. Charge(k)' = Charge(k) /\ Charge(k) \in Int
      BY <2>4, <1>7 DEF Charge, Charged
    <3> QED
      BY <2>1, <2>2, <2>4, <3>1 DEF IInv, Types
  <2> QED
    BY <2>3, <2>4
<1>13. Ledger'
  BY <1>5, <1>12, LedgerStep, ZenonT(30) DEF IInv
<1> QED
  BY <1>5, <1>10, <1>11, <1>13 DEF IInv

LEMMA CommitStep ==
  ASSUME IInv, NEW w \in Flushes, Commit(w)
  PROVE  IInv'
<1>1. At(w, "committing") /\ UNCHANGED <<link, today, confirmed, recovered>> /\ Types
  BY DEF Commit, IInv
<1>2. CASE flush[w].verdict = "ok" /\ WriteReservation(w) /\ Goto(w, "answering")
  <2>1. PICK f \in FlushRecords : /\ flush' = [flush EXCEPT ![w] = f]
                                  /\ f.pc = "answering" /\ f.key = Key(w)
    BY <1>1, <1>2, GotoMove DEF Pcs
  <2> QED
    BY <1>1, <1>2, <2>1, WriteStep, ZenonT(30)
<1>3. CASE Goto(w, "recovering") /\ UNCHANGED idem
  <2>1. PICK f \in FlushRecords : flush' = [flush EXCEPT ![w] = f] /\ f.pc = "recovering"
    BY <1>1, <1>3, GotoMove DEF Pcs
  <2>2. \A k \in Keys : Worth(f, k) <= Worth(flush[w], k)
    BY <2>1 DEF Worth, Spends
  <2> QED
    BY <1>1, <1>3, <2>1, <2>2, QuietMove, ZenonT(30)
<1>4. CASE End(w) /\ UNCHANGED idem
  <2>1. PICK f \in FlushRecords : flush' = [flush EXCEPT ![w] = f] /\ f.pc = "idle"
    BY <1>1, <1>4, EndMove
  <2>2. \A k \in Keys : Worth(f, k) <= Worth(flush[w], k)
    BY <2>1 DEF Worth, Spends
  <2> QED
    BY <1>1, <1>4, <2>1, <2>2, QuietMove, ZenonT(30)
<1> QED
  BY <1>2, <1>3, <1>4 DEF Commit

\* A worker ends and leaves the table as it is.
LEMMA EndStep ==
  ASSUME IInv, NEW w \in Flushes, End(w), UNCHANGED <<idem, link, today, confirmed, recovered>>
  PROVE  IInv'
<1>1. PICK f \in FlushRecords : flush' = [flush EXCEPT ![w] = f] /\ f.pc = "idle"
  BY EndMove DEF IInv
<1>2. \A k \in Keys : Worth(f, k) <= Worth(flush[w], k)
  BY <1>1 DEF Worth, Spends
<1> QED
  BY <1>1, <1>2, QuietMove, ZenonT(30)

LEMMA ReserveThrowsStep ==
  ASSUME IInv, NEW w \in Flushes, ReserveThrows(w)
  PROVE  IInv'
<1>1. At(w, "committing") /\ UNCHANGED <<link, today, confirmed, recovered>> /\ End(w)
  BY DEF ReserveThrows
<1>2. CASE flush[w].verdict = "ok" /\ WriteReservation(w)
  <2>1. PICK f \in FlushRecords : flush' = [flush EXCEPT ![w] = f] /\ f.pc = "idle"
    BY <1>1, EndMove DEF IInv
  <2> QED
    BY <1>1, <1>2, <2>1, WriteStep, ZenonT(30)
<1>3. CASE UNCHANGED idem
  BY <1>1, <1>3, EndStep
<1> QED
  BY <1>2, <1>3 DEF ReserveThrows

LEMMA RecoverForRetryStep ==
  ASSUME IInv, NEW w \in Flushes, RecoverForRetry(w)
  PROVE  IInv'
<1> DEFINE f == [flush[w] EXCEPT !.pc = "reserving", !.again = TRUE]
<1>1. Types /\ At(w, "recovering") /\ UNCHANGED <<link, today, confirmed>> /\ Key(w) \in Keys
  BY DEF RecoverForRetry, IInv, Types, FlushRecords, Key
<1>2. f \in FlushRecords /\ f.pc = "reserving"
  BY <1>1, ZenonT(30) DEF Types, FlushRecords, Pcs
<1>3. flush' = [flush EXCEPT ![w].pc = "reserving", ![w].again = TRUE]
        => flush' = [flush EXCEPT ![w] = f]
  BY <1>1, ZenonT(30) DEF Types
<1> HIDE DEF f
<1>4. \A k \in Keys : Worth(f, k) = 0 /\ Worth(flush[w], k) = 0
  BY <1>1, <1>2 DEF Worth, Spends, At
<1>5. CASE End(w) /\ UNCHANGED <<idem, recovered>>
  BY <1>1, <1>5, EndStep, SMTT(30)
<1>6. CASE /\ DeleteRow(Key(w))
           /\ flush' = [flush EXCEPT ![w] = f]
           /\ \/ recovered' = [recovered EXCEPT ![Key(w)] = @ + 1]
              \/ Status(Key(w)) = "refunded" /\ UNCHANGED recovered
  <2>1. /\ RowTypes' /\ idem'[Key(w)].status = "none"
        /\ \A j \in Keys \ {Key(w)} : Status(j)' = Status(j)
    BY <1>1, <1>6, RowDeleted DEF Status
  <2>2. \A k \in Keys : Status(k) = "none" => Status(k)' = "none"
    BY <2>1 DEF Status
  <2>3. recovered' \in [Keys -> Nat] /\ confirmed' \in [Keys -> Nat]
    BY <1>1, <1>6 DEF Types
  <2>4. ASSUME NEW k \in Keys
        PROVE  confirmed'[k] + Worth(f, k) + recovered[k] + Charge(k)
                       <= confirmed[k] + Worth(flush[w], k) + recovered'[k] + Charge(k)'
    <3>1. confirmed[k] \in Nat /\ recovered[k] \in Nat /\ confirmed'[k] = confirmed[k]
      BY <1>1 DEF Types
    <3>2. Worth(f, k) = 0 /\ Worth(flush[w], k) = 0
      BY <1>4
    <3>3. Charge(k) \in 0..1 /\ Charge(k)' \in 0..1
      BY DEF Charge
    <3>4. CASE k # Key(w)
      <4>1. Charge(k)' = Charge(k)
        BY <2>1, <3>4 DEF Charge, Charged
      <4>2. recovered'[k] = recovered[k]
        BY <1>1, <1>6, <3>4 DEF Types
      <4> QED
        BY <3>1, <3>2, <3>3, <4>1, <4>2, SMTT(30)
    <3>5. CASE k = Key(w) /\ recovered' = [recovered EXCEPT ![Key(w)] = @ + 1]
      <4>1. recovered'[k] = recovered[k] + 1
        BY <1>1, <3>5 DEF Types
      <4> QED
        BY <3>1, <3>2, <3>3, <4>1
    <3>6. CASE k = Key(w) /\ Status(Key(w)) = "refunded" /\ UNCHANGED recovered
      <4>1. Charge(k) = 0
        BY <3>6 DEF Charge, Charged, Counting
      <4>2. recovered'[k] = recovered[k]
        BY <3>6
      <4> QED
        BY <3>1, <3>2, <3>3, <4>1, <4>2
    <3> QED
      BY <1>6, <3>4, <3>5, <3>6
  <2> QED
    BY <1>1, <1>2, <1>6, <2>1, <2>2, <2>3, <2>4, WorkerMove, ZenonT(30)
<1> QED
  BY <1>3, <1>5, <1>6 DEF RecoverForRetry, ReopensRefunded

LEMMA RefundStep ==
  ASSUME IInv, NEW w \in Flushes, Refund(w)
  PROVE  IInv'
<1>1. /\ Types /\ At(w, "refunding") /\ UNCHANGED <<link, today, confirmed, recovered>>
      /\ Key(w) \in Keys /\ End(w)
  BY DEF Refund, IInv, Types, FlushRecords, Key
<1>2. CASE UNCHANGED idem
  BY <1>1, <1>2, EndStep, SMTT(30)
<1>3. CASE Status(Key(w)) = "reserved" /\ SetStatus(Key(w), "refunded")
  <2>1. PICK f \in FlushRecords : flush' = [flush EXCEPT ![w] = f] /\ f.pc = "idle"
    BY <1>1, EndMove
  <2>2. /\ RowTypes' /\ idem'[Key(w)].status = "refunded"
        /\ \A j \in Keys \ {Key(w)} : Status(j)' = Status(j)
    BY <1>1, <1>3, RowSet DEF Status, Statuses
  <2>3. \A k \in Keys : Status(k) = "none" => Status(k)' = "none"
    BY <1>3, <2>2 DEF Status
  <2>4. ASSUME NEW k \in Keys
        PROVE  confirmed'[k] + Worth(f, k) + recovered[k] + Charge(k)
                       <= confirmed[k] + Worth(flush[w], k) + recovered'[k] + Charge(k)'
    <3>1. /\ confirmed[k] \in Nat /\ recovered[k] \in Nat
          /\ confirmed'[k] = confirmed[k] /\ recovered'[k] = recovered[k]
      BY <1>1 DEF Types
    <3>2. Worth(f, k) = 0 /\ Worth(flush[w], k) \in 0..1
      BY <2>1 DEF Worth, Spends
    <3>3. Charge(k) \in 0..1 /\ Charge(k)' \in 0..1
      BY SMTT(30) DEF Charge
    <3>4. CASE k # Key(w)
      <4>1. Charge(k)' = Charge(k)
        BY <2>2, <3>4 DEF Charge, Charged
      <4> QED
        BY <3>1, <3>2, <3>3, <4>1
    <3>5. CASE k = Key(w)
      <4>1. Worth(flush[w], k) = 1
        BY <1>1, <3>5 DEF Worth, Spends, At, Key
      <4> QED
        BY <3>1, <3>2, <3>3, <4>1
    <3> QED
      BY <3>4, <3>5
  <2>5. confirmed' \in [Keys -> Nat] /\ recovered' \in [Keys -> Nat]
    BY <1>1 DEF Types
  <2> QED
    BY <1>1, <2>1, <2>2, <2>3, <2>4, <2>5, WorkerMove, ZenonT(30)
<1> QED
  BY <1>2, <1>3 DEF Refund, Refundable

LEMMA AnswerStep ==
  ASSUME IInv, NEW w \in Flushes, Answer(w)
  PROVE  IInv'
<1>1. Types /\ At(w, "answering") /\ UNCHANGED <<idem, link, today, confirmed, recovered>>
  BY DEF Answer, IInv
<1>2. ASSUME NEW p \in {"sending", "refunding"}, Goto(w, p)
      PROVE  IInv'
  <2>1. PICK f \in FlushRecords : flush' = [flush EXCEPT ![w] = f] /\ f.pc = p /\ f.key = Key(w)
    BY <1>1, <1>2, GotoMove DEF Pcs
  <2>2. \A k \in Keys : Worth(f, k) <= Worth(flush[w], k)
    BY <1>1, <2>1 DEF Worth, Spends, At, Key
  <2> QED
    BY <1>1, <2>1, <2>2, QuietMove, ZenonT(30)
<1>3. CASE flush' = [flush EXCEPT ![w].pc = "marking", ![w].delivered = TRUE]
  <2> DEFINE f == [flush[w] EXCEPT !.pc = "marking", !.delivered = TRUE]
  <2>1. f \in FlushRecords /\ f.pc = "marking" /\ f.delivered = TRUE
    BY <1>1, ZenonT(30) DEF Types, FlushRecords, Pcs
  <2>2. flush' = [flush EXCEPT ![w] = f]
    BY <1>1, <1>3, ZenonT(30) DEF Types
  <2> HIDE DEF f
  <2>3. \A k \in Keys : Worth(f, k) <= Worth(flush[w], k)
    BY <2>1 DEF Worth, Spends
  <2> QED
    BY <1>1, <2>1, <2>2, <2>3, QuietMove, ZenonT(30)
<1> QED
  BY <1>2, <1>3 DEF Answer

LEMMA SendStep ==
  ASSUME IInv, NEW w \in Flushes, Send(w)
  PROVE  IInv'
<1>1. Types /\ At(w, "sending") /\ UNCHANGED <<idem, link, today, recovered>> /\ Key(w) \in Keys
  BY DEF Send, IInv, Types, FlushRecords, Key
<1>2. ASSUME NEW p \in {"marking", "refunding"}, Goto(w, p), UNCHANGED confirmed
      PROVE  IInv'
  <2>1. PICK f \in FlushRecords : flush' = [flush EXCEPT ![w] = f] /\ f.pc = p /\ f.key = Key(w)
    BY <1>1, <1>2, GotoMove DEF Pcs
  <2>2. \A k \in Keys : Worth(f, k) <= Worth(flush[w], k)
    BY <1>1, <2>1 DEF Worth, Spends, At, Key
  <2> QED
    BY <1>1, <1>2, <2>1, <2>2, QuietMove, ZenonT(30)
<1>3. CASE /\ flush' = [flush EXCEPT ![w].pc = "marking", ![w].delivered = TRUE]
           /\ confirmed' = [confirmed EXCEPT ![Key(w)] = @ + 1]
  <2> DEFINE f == [flush[w] EXCEPT !.pc = "marking", !.delivered = TRUE]
  <2>1. f \in FlushRecords /\ f.pc = "marking" /\ f.delivered = TRUE
    BY <1>1, ZenonT(30) DEF Types, FlushRecords, Pcs
  <2>2. flush' = [flush EXCEPT ![w] = f]
    BY <1>1, <1>3, ZenonT(30) DEF Types
  <2> HIDE DEF f
  <2>3. \A k \in Keys : Status(k)' = Status(k) /\ Charge(k)' = Charge(k)
    BY <1>1 DEF Status, Charge, Charged
  <2>4. ASSUME NEW k \in Keys
        PROVE  confirmed'[k] + Worth(f, k) + recovered[k] + Charge(k)
                       <= confirmed[k] + Worth(flush[w], k) + recovered'[k] + Charge(k)'
    <3>1. Worth(f, k) = 0 /\ Worth(flush[w], k) = IF k = Key(w) THEN 1 ELSE 0
      BY <1>1, <2>1 DEF Worth, Spends, At, Key
    <3>2. confirmed'[k] = confirmed[k] + (IF k = Key(w) THEN 1 ELSE 0)
      BY <1>1, <1>3 DEF Types
    <3>3. confirmed[k] \in Nat /\ recovered[k] \in Nat /\ recovered'[k] = recovered[k]
      BY <1>1 DEF Types
    <3>4. Charge(k)' = Charge(k) /\ Charge(k) \in Int
      BY <2>3 DEF Charge
    <3> QED
      BY <3>1, <3>2, <3>3, <3>4, SMTT(30)
  <2>5. RowTypes' /\ confirmed' \in [Keys -> Nat] /\ recovered' \in [Keys -> Nat]
    BY <1>1, <1>3 DEF Types, RowTypes
  <2> QED
    BY <1>1, <2>1, <2>2, <2>3, <2>4, <2>5, WorkerMove, ZenonT(30)
<1> QED
  BY <1>2, <1>3 DEF Send

\* Marking a row delivered or completed leaves it charged, or uncharged.
LEMMA MarkKeeps ==
  ASSUME Types, NEW k \in Keys, DeliverRow(k) \/ CompleteRow(k)
  PROVE  /\ RowTypes'
         /\ \A j \in Keys : /\ Status(j) = "none" => Status(j)' = "none"
                           /\ Charge(j)' = Charge(j)
<1>1. CASE UNCHANGED idem
  BY <1>1 DEF Types, RowTypes, Status, Charge, Charged
<1>2. ASSUME NEW s \in {"delivered", "completed"}, SetStatus(k, s),
             Status(k) \in {"reserved", "delivered"}
      PROVE  /\ RowTypes'
             /\ \A j \in Keys : /\ Status(j) = "none" => Status(j)' = "none"
                               /\ Charge(j)' = Charge(j)
  <2>1. RowTypes' /\ Status(k)' = s /\ \A j \in Keys \ {k} : Status(j)' = Status(j)
    BY <1>2, RowSet DEF Statuses, Counting
  <2> QED
    BY <1>2, <2>1 DEF Charge, Charged, Counting
<1> QED
  BY <1>1, <1>2 DEF DeliverRow, CompleteRow

\* A worker moves on after such a mark.
LEMMA MarkMove ==
  ASSUME IInv, NEW w \in Flushes, NEW f \in FlushRecords,
         flush' = [flush EXCEPT ![w] = f], f.pc # "committing",
         \A k \in Keys : Worth(f, k) <= Worth(flush[w], k),
         DeliverRow(Key(w)) \/ CompleteRow(Key(w)),
         UNCHANGED <<link, today, confirmed, recovered>>
  PROVE  IInv'
<1>1. Key(w) \in Keys /\ Types
  BY DEF IInv, Types, FlushRecords, Key
<1>2. /\ RowTypes'
      /\ \A k \in Keys : Status(k) = "none" => Status(k)' = "none"
      /\ \A k \in Keys : Charge(k)' = Charge(k)
  BY <1>1, MarkKeeps
<1>3. ASSUME NEW k \in Keys
      PROVE  confirmed'[k] + Worth(f, k) + recovered[k] + Charge(k)
                       <= confirmed[k] + Worth(flush[w], k) + recovered'[k] + Charge(k)'
  <2>1. /\ confirmed[k] \in Nat /\ recovered[k] \in Nat
        /\ confirmed'[k] = confirmed[k] /\ recovered'[k] = recovered[k]
    BY <1>1 DEF Types
  <2>2. Worth(f, k) \in Int /\ Worth(flush[w], k) \in Int /\ Charge(k) \in Int
    BY DEF Worth, Charge
  <2>3. Charge(k)' = Charge(k)
    BY <1>2
  <2> QED
    BY <2>1, <2>2, <2>3
<1>4. confirmed' \in [Keys -> Nat] /\ recovered' \in [Keys -> Nat]
  BY <1>1 DEF Types
<1> QED
  BY <1>2, <1>3, <1>4, WorkerMove, ZenonT(30)

LEMMA MarkDeliveredStep ==
  ASSUME IInv, NEW w \in Flushes, MarkDelivered(w)
  PROVE  IInv'
<1>1. PICK f \in FlushRecords : /\ flush' = [flush EXCEPT ![w] = f] /\ f.pc = "appending"
                                /\ f.key = Key(w) /\ f.delivered = flush[w].delivered
  BY GotoMove DEF MarkDelivered, IInv, Pcs
<1>2. \A k \in Keys : Worth(f, k) <= Worth(flush[w], k)
  BY <1>1 DEF MarkDelivered, Worth, Spends, At, Key
<1> QED
  BY <1>1, <1>2, MarkMove, ZenonT(30) DEF MarkDelivered

LEMMA MarkCompletedStep ==
  ASSUME IInv, NEW w \in Flushes, MarkCompleted(w)
  PROVE  IInv'
<1>1. PICK f \in FlushRecords : flush' = [flush EXCEPT ![w] = f] /\ f.pc = "idle"
  BY EndMove DEF MarkCompleted, IInv
<1>2. \A k \in Keys : Worth(f, k) <= Worth(flush[w], k)
  BY <1>1 DEF Worth, Spends
<1> QED
  BY <1>1, <1>2, MarkMove, ZenonT(30) DEF MarkCompleted

LEMMA AppendTurnStep ==
  ASSUME IInv, NEW w \in Flushes, AppendTurn(w)
  PROVE  IInv'
<1>1. PICK f \in FlushRecords : flush' = [flush EXCEPT ![w] = f] /\ f.pc = "completing"
  BY GotoMove DEF AppendTurn, IInv, Pcs
<1>2. \A k \in Keys : Worth(f, k) <= Worth(flush[w], k)
  BY <1>1 DEF Worth, Spends
<1> QED
  BY <1>1, <1>2, QuietMove, ZenonT(30) DEF AppendTurn

LEMMA BookkeepingThrowsStep ==
  ASSUME IInv, NEW w \in Flushes, BookkeepingThrows(w)
  PROVE  IInv'
<1>1. PICK f \in FlushRecords :
        /\ flush' = [flush EXCEPT ![w] = f]
        /\ f.pc = "idle" \/ (f.pc = "refunding" /\ f.key = Key(w) /\ ~flush[w].delivered)
  <2>1. CASE End(w)
    BY <2>1, EndMove DEF IInv
  <2>2. CASE ~flush[w].delivered /\ Goto(w, "refunding")
    BY <2>2, GotoMove DEF IInv, Pcs
  <2> QED
    BY <2>1, <2>2 DEF BookkeepingThrows
<1>2. \A k \in Keys : Worth(f, k) <= Worth(flush[w], k)
  BY <1>1 DEF BookkeepingThrows, Worth, Spends, Key
<1>3. CASE DeliverRow(Key(w))
  BY <1>1, <1>2, <1>3, MarkMove, ZenonT(30) DEF BookkeepingThrows
<1>4. CASE UNCHANGED idem
  BY <1>1, <1>2, <1>4, QuietMove, ZenonT(30) DEF BookkeepingThrows
<1> QED
  BY <1>3, <1>4 DEF BookkeepingThrows

LEMMA RecoverStuckStep ==
  ASSUME IInv, RecoverStuck
  PROVE  IInv'
<1>1. /\ Types /\ UNCHANGED <<link, today, flush, confirmed>>
      /\ \A k \in Keys : idem[k] \in [status : Statuses, owner : Owners, day : Days, age : Int]
  BY DEF RecoverStuck, IInv, Types
<1>2. ASSUME NEW k \in Keys
      PROVE  /\ idem'[k] \in [status : Statuses, owner : Owners, day : Days, age : Int]
             /\ idem'[k].status = CASE k \in Finalizable -> "completed"
                                    [] k \in Recoverable -> "refunded"
                                    [] OTHER -> idem[k].status
  BY <1>1, <1>2 DEF RecoverStuck, Statuses, Counting
<1>3. DOMAIN idem' = Keys /\ idem' = [k \in Keys |-> idem'[k]]
  BY DEF RecoverStuck
<1>4. RowTypes'
  BY <1>2, <1>3 DEF RowTypes
<1>5. \A k \in Keys : Status(k) = "none" => Status(k)' = "none"
  BY <1>2 DEF Status, Finalizable, Recoverable
<1>6. \A k \in Keys : recovered'[k] = IF k \in Recoverable THEN recovered[k] + 1 ELSE recovered[k]
  BY DEF RecoverStuck
<1>7. recovered' \in [Keys -> Nat]
  BY <1>1 DEF RecoverStuck, Types
<1>8. ASSUME NEW k \in Keys
      PROVE  recovered[k] + Charge(k) <= recovered'[k] + Charge(k)'
  <2>1. recovered[k] \in Nat
    BY <1>1 DEF Types
  <2>2. Charge(k) \in 0..1 /\ Charge(k)' \in 0..1
    BY DEF Charge
  <2>3. CASE k \in Recoverable
    <3>1. recovered'[k] = recovered[k] + 1
      BY <1>6, <2>3
    <3> QED
      BY <2>1, <2>2, <3>1
  <2>4. CASE k \notin Recoverable
    <3>1. recovered'[k] = recovered[k]
      BY <1>6, <2>4
    <3>2. Charge(k) <= Charge(k)'
      BY <1>2, <2>4 DEF Charge, Charged, Status, Counting, Finalizable
    <3> QED
      BY <2>1, <2>2, <3>1, <3>2
  <2> QED
    BY <2>3, <2>4
<1>9. link' \in [Channels -> Owners] /\ today' \in Days
  BY <1>1 DEF Types
<1> QED
  BY <1>1, <1>4, <1>5, <1>7, <1>8, <1>9, GlobalMove

\* The table changes, but every key keeps its charge.
LEMMA TableMove ==
  ASSUME IInv, UNCHANGED <<flush, confirmed, recovered>>, RowTypes',
         link' \in [Channels -> Owners], today' \in Days,
         \A k \in Keys : Status(k) = "none" => Status(k)' = "none",
         \A k \in Keys : Charge(k)' = Charge(k)
  PROVE  IInv'
<1>1. recovered' \in [Keys -> Nat]
  BY DEF IInv, Types
<1>2. \A k \in Keys : recovered[k] + Charge(k) <= recovered'[k] + Charge(k)'
  <2> SUFFICES ASSUME NEW k \in Keys
               PROVE  recovered[k] + Charge(k) <= recovered'[k] + Charge(k)'
    OBVIOUS
  <2>1. recovered[k] \in Nat /\ Charge(k) \in Int /\ Charge(k)' = Charge(k)
    BY DEF IInv, Types, Charge
  <2> QED
    BY <2>1
<1> QED
  BY <1>1, <1>2, GlobalMove

LEMMA PurgeStep ==
  ASSUME IInv, Purge
  PROVE  IInv'
<1>1. /\ Types /\ UNCHANGED <<link, today, flush, confirmed, recovered>>
      /\ \A k \in Keys : idem[k] \in [status : Statuses, owner : Owners, day : Days, age : Int]
  BY DEF Purge, IInv, Types
<1>2. NoRow \in [status : Statuses, owner : Owners, day : Days, age : Int] /\ NoRow.status = "none"
  BY QuotaAssumption, SMTT(30) DEF NoRow, Statuses, Owners, Days
<1>3. ASSUME NEW k \in Keys
      PROVE  /\ idem'[k] \in [status : Statuses, owner : Owners, day : Days, age : Int]
             /\ \/ idem'[k].status = idem[k].status
                \/ idem[k].status = "completed" /\ idem'[k].status = "purged"
                \/ idem[k].status = "refunded" /\ idem'[k].status = "none"
  <2>1. CASE ~Purgeable(k)
    <3>1. idem'[k] = idem[k]
      BY <2>1 DEF Purge, AfterPurge
    <3> QED
      BY <1>1, <3>1
  <2>2. CASE Purgeable(k) /\ Status(k) = "completed"
    <3>1. idem'[k] = [idem[k] EXCEPT !.status = "purged"]
      BY <2>2 DEF Purge, AfterPurge
    <3> QED
      BY <1>1, <2>2, <3>1 DEF Statuses, Status
  <2>3. CASE Purgeable(k) /\ Status(k) = "refunded"
    <3>1. idem'[k] = NoRow
      BY <2>3 DEF Purge, AfterPurge
    <3> QED
      BY <1>2, <2>3, <3>1 DEF Status
  <2> QED
    BY <2>1, <2>2, <2>3 DEF Purgeable
<1>4. idem' = [k \in Keys |-> idem'[k]]
  BY DEF Purge
<1>5. RowTypes'
  BY <1>3, <1>4 DEF RowTypes
<1>6. \A k \in Keys : /\ Status(k) = "none" => Status(k)' = "none"
                     /\ Charge(k)' = Charge(k)
  BY <1>3 DEF Status, Charge, Charged, Counting
<1>7. link' \in [Channels -> Owners] /\ today' \in Days
  BY <1>1 DEF Types
<1> QED
  BY <1>1, <1>5, <1>6, <1>7, TableMove

LEMMA TickStep ==
  ASSUME IInv, Tick
  PROVE  IInv'
<1>1. /\ Types /\ UNCHANGED <<link, today, flush, confirmed, recovered>>
      /\ \A k \in Keys : idem[k] \in [status : Statuses, owner : Owners, day : Days, age : Int]
  BY DEF Tick, IInv, Types
<1>2. ASSUME NEW k \in Keys
      PROVE  /\ idem'[k] \in [status : Statuses, owner : Owners, day : Days, age : Int]
             /\ idem'[k].status = idem[k].status
  BY <1>1 DEF Tick
<1>3. idem' = [k \in Keys |-> idem'[k]]
  BY DEF Tick
<1>4. RowTypes'
  BY <1>2, <1>3 DEF RowTypes
<1>5. \A k \in Keys : Status(k)' = Status(k) /\ Charge(k)' = Charge(k)
  BY <1>2 DEF Status, Charge, Charged
<1>6. link' \in [Channels -> Owners] /\ today' \in Days
  BY <1>1 DEF Types
<1> QED
  BY <1>1, <1>4, <1>5, <1>6, TableMove

\* Links and days do not touch the ledger.
LEMMA RelinkStep ==
  ASSUME IInv, (\E c \in Channels, o \in Owners : Relink(c, o)) \/ NewDay
  PROVE  IInv'
<1>1. UNCHANGED <<idem, flush, confirmed, recovered>>
  BY SMTT(30) DEF Relink, NewDay
<1>2. link' \in [Channels -> Owners] /\ today' \in Days
  BY QuotaAssumption DEF Relink, NewDay, IInv, Types, Days
<1>3. RowTypes' /\ \A k \in Keys : Status(k)' = Status(k) /\ Charge(k)' = Charge(k)
  BY <1>1 DEF IInv, Types, RowTypes, Status, Charge, Charged
<1> QED
  BY <1>1, <1>2, <1>3, TableMove
-----------------------------------------------------------------------------
LEMMA InitIInv == Init => IInv
<1> SUFFICES ASSUME Init
             PROVE  IInv
  OBVIOUS
<1>1. NoRow \in [status : Statuses, owner : Owners, day : Days, age : Int] /\ NoRow.status = "none"
  BY QuotaAssumption, SMTT(30) DEF NoRow, Statuses, Owners, Days
<1>2. Types
  BY <1>1, IdleRecord, QuotaAssumption DEF Init, Types, Days
<1>3. Exclusive /\ Fresh
  BY IdleRecord DEF Init, Exclusive, Fresh, At
<1>4. ASSUME NEW k \in Keys
      PROVE  confirmed[k] + Cardinality(Spending(k)) <= recovered[k] + Charge(k)
  <2>1. Spending(k) = {}
    BY IdleRecord DEF Init, Spending, Spends
  <2>2. Cardinality(Spending(k)) = 0
    BY <2>1, FS_EmptySet
  <2>3. confirmed[k] = 0 /\ recovered[k] = 0
    BY DEF Init
  <2>4. Charge(k) \in 0..1
    BY DEF Charge
  <2> QED
    BY <2>2, <2>3, <2>4
<1> QED
  BY <1>2, <1>3, <1>4 DEF IInv, Ledger

LEMMA NextIInv == IInv /\ [Next]_vars => IInv'
<1> SUFFICES ASSUME IInv, [Next]_vars
             PROVE  IInv'
  OBVIOUS
<1>1. ASSUME NEW w \in Flushes, NEW k \in Keys, Start(w, k)
      PROVE  IInv'
  BY <1>1, StartStep
<1>2. ASSUME NEW w \in Flushes, FlushStep(w)
      PROVE  IInv'
  BY <1>2, ReserveStep, CommitStep, RecoverForRetryStep, RefundStep, AnswerStep, SendStep,
     MarkDeliveredStep, AppendTurnStep, MarkCompletedStep, SMTT(30) DEF FlushStep
<1>3. ASSUME NEW w \in Flushes, FlushFault(w)
      PROVE  IInv'
  <2>1. CASE TakeBackThrows(w) \/ CompletionThrows(w) \/ Crash(w)
    BY <2>1, EndStep DEF TakeBackThrows, CompletionThrows, Crash
  <2> QED
    BY <1>3, <2>1, ReserveThrowsStep, BookkeepingThrowsStep, SMTT(30) DEF FlushFault
<1>4. CASE (\E c \in Channels, o \in Owners : Relink(c, o)) \/ NewDay
  BY <1>4, RelinkStep
<1>5. CASE RecoverStuck \/ Purge \/ Tick
  BY <1>5, RecoverStuckStep, PurgeStep, TickStep
<1>6. CASE UNCHANGED vars
  <2>1. UNCHANGED <<idem, flush, link, today, confirmed, recovered>>
    BY <1>6 DEF vars
  <2>2. RowTypes' /\ \A k \in Keys : Status(k)' = Status(k) /\ Charge(k)' = Charge(k)
    BY <2>1 DEF IInv, Types, RowTypes, Status, Charge, Charged
  <2>3. link' \in [Channels -> Owners] /\ today' \in Days
    BY <2>1 DEF IInv, Types
  <2> QED
    BY <2>1, <2>2, <2>3, TableMove
<1> QED
  BY <1>1, <1>2, <1>3, <1>4, <1>5, <1>6 DEF Next

THEOREM Invariance == Spec => []IInv
BY InitIInv, NextIInv, PTL DEF Spec

\* A key is answered again only after one of its reservations was taken back as
\* stuck (AnsweredOnce; flush, reserveSlotOrRecoverOnConflict).
THEOREM AnsweredOnceTheorem == Spec => []AnsweredOnce
<1>1. IInv => AnsweredOnce
  <2> SUFFICES ASSUME IInv, NEW k \in Keys
               PROVE  confirmed[k] <= 1 + recovered[k]
    BY DEF AnsweredOnce
  <2>1. confirmed[k] + Cardinality(Spending(k)) <= recovered[k] + Charge(k)
    BY DEF IInv, Ledger
  <2>2. Cardinality(Spending(k)) \in Nat /\ Charge(k) \in 0..1
    BY SpendingFinite DEF Charge
  <2>3. confirmed[k] \in Nat /\ recovered[k] \in Nat
    BY DEF IInv, Types
  <2> QED
    BY <2>1, <2>2, <2>3
<1> QED
  BY <1>1, Invariance, PTL

\* A confirmed reply stays charged unless a reservation of its key was taken
\* back as stuck (ReplyIsCharged; recoverStuckReservedSlots, #293).
THEOREM ReplyIsChargedTheorem == Spec => []ReplyIsCharged
<1>1. IInv => ReplyIsCharged
  <2> SUFFICES ASSUME IInv, NEW k \in Keys, confirmed[k] > recovered[k], ~Charged(k)
               PROVE  FALSE
    BY DEF ReplyIsCharged
  <2>1. confirmed[k] + Cardinality(Spending(k)) <= recovered[k] + Charge(k)
    BY DEF IInv, Ledger
  <2>2. Cardinality(Spending(k)) \in Nat /\ Charge(k) = 0
    BY SpendingFinite DEF Charge
  <2>3. confirmed[k] \in Nat /\ recovered[k] \in Nat
    BY DEF IInv, Types
  <2> QED
    BY <2>1, <2>2, <2>3, SMTT(30)
<1> QED
  BY <1>1, Invariance, PTL

\* A delivered or completed row is never refunded, reserved again or reopened
\* (DeliveredIsFinal; the WHERE clauses of refundReservedSlot, the recoveries
\* and the cleanup).
THEOREM DeliveredTheorem == Spec => DeliveredIsFinal
<1> DEFINE A == \A k \in Keys :
       /\ Status(k) = "delivered" => Status(k)' \in {"delivered", "completed"}
       /\ Status(k) = "completed" => Status(k)' \in {"completed", "purged"}
<1>1. IInv /\ [Next]_vars => [A]_vars
  <2> SUFFICES ASSUME IInv, Next
               PROVE  A
    OBVIOUS
  <2>1. Types /\ \A w \in Flushes : Key(w) \in Keys
    BY DEF IInv, Types, FlushRecords, Key
  <2>2. CASE UNCHANGED idem
    BY <2>2 DEF Status
  <2>3. ASSUME NEW j \in Keys, NEW s \in Statuses, SetStatus(j, s),
               \/ Status(j) = "reserved"
               \/ Status(j) = "delivered" /\ s = "completed"
        PROVE  A
    BY <2>1, <2>3, RowSet
  <2>4. ASSUME NEW j \in Keys, DeleteRow(j), Status(j) \in {"reserved", "refunded"}
        PROVE  A
    BY <2>1, <2>4, RowDeleted, SMTT(30)
  <2>5. ASSUME NEW w \in Flushes, DeliverRow(Key(w)) \/ CompleteRow(Key(w))
        PROVE  A
    BY <2>1, <2>2, <2>3, <2>5 DEF DeliverRow, CompleteRow, Statuses, Counting
  <2>6. ASSUME NEW w \in Flushes, At(w, "committing"), flush[w].verdict = "ok",
               WriteReservation(w)
        PROVE  A
    <3>1. Status(Key(w)) = "none"
      BY <2>6, SMTT(30) DEF IInv, Fresh
    <3>2. \A k \in Keys : k # Key(w) => Status(k)' = Status(k)
      BY <2>1, <2>6, SMTT(30) DEF WriteReservation, Status, Types, Key
    <3> QED
      BY <3>1, <3>2
  <2>7. ASSUME NEW w \in Flushes, FlushStep(w)
        PROVE  A
    <3>1. CASE Commit(w)
      BY <2>2, <2>6, <3>1 DEF Commit
    <3>2. CASE RecoverForRetry(w)
      BY <2>1, <2>2, <2>4, <3>2, SMTT(30) DEF RecoverForRetry, ReopensStuck, ReopensRefunded
    <3>3. CASE Refund(w)
      BY <2>1, <2>2, <2>3, <3>3, SMTT(30) DEF Refund, Refundable, Statuses
    <3>4. CASE MarkDelivered(w) \/ MarkCompleted(w)
      BY <2>5, <3>4 DEF MarkDelivered, MarkCompleted
    <3>5. CASE Reserve(w) \/ Answer(w) \/ Send(w) \/ AppendTurn(w)
      BY <2>2, <3>5 DEF Reserve, Answer, Send, AppendTurn
    <3> QED
      BY <2>7, <3>1, <3>2, <3>3, <3>4, <3>5, SMTT(30) DEF FlushStep
  <2>8. ASSUME NEW w \in Flushes, FlushFault(w)
        PROVE  A
    <3>1. CASE ReserveThrows(w)
      BY <2>2, <2>6, <3>1, SMTT(30) DEF ReserveThrows
    <3>2. CASE BookkeepingThrows(w)
      BY <2>2, <2>5, <3>2, SMTT(30) DEF BookkeepingThrows
    <3>3. CASE TakeBackThrows(w) \/ CompletionThrows(w) \/ Crash(w)
      BY <2>2, <3>3 DEF TakeBackThrows, CompletionThrows, Crash
    <3> QED
      BY <2>8, <3>1, <3>2, <3>3, SMTT(30) DEF FlushFault
  <2>9. CASE RecoverStuck
    <3>1. \A k \in Keys : idem[k] \in [status : Statuses, owner : Owners, day : Days, age : Int]
      BY <2>1 DEF Types
    <3>2. \A k \in Keys : \/ idem'[k] = idem[k]
                          \/ k \in Finalizable /\ idem'[k] = [idem[k] EXCEPT !.status = "completed"]
                          \/ k \in Recoverable
      BY <2>9 DEF RecoverStuck
    <3> QED
      BY <3>1, <3>2, ZenonT(30) DEF Status, Finalizable, Recoverable
  <2>10. CASE Purge
    <3>1. \A k \in Keys : idem[k] \in [status : Statuses, owner : Owners, day : Days, age : Int]
      BY <2>1 DEF Types
    <3>2. \A k \in Keys : \/ idem'[k] = idem[k]
                          \/ idem'[k] = [idem[k] EXCEPT !.status = "purged"] /\ Status(k) = "completed"
                          \/ Status(k) = "refunded"
      BY <2>10 DEF Purge, AfterPurge, Purgeable
    <3> QED
      BY <3>1, <3>2, ZenonT(30) DEF Status
  <2>11. CASE Tick
    <3>1. \A k \in Keys : idem[k] \in [status : Statuses, owner : Owners, day : Days, age : Int]
      BY <2>1 DEF Types
    <3>2. \A k \in Keys : idem'[k].status = idem[k].status
      BY <2>11, <3>1, SMTT(30) DEF Tick
    <3> QED
      BY <3>2 DEF Status
  <2>12. CASE \/ \E w \in Flushes, k \in Keys : Start(w, k)
              \/ \E c \in Channels, o \in Owners : Relink(c, o)
              \/ NewDay
    BY <2>2, <2>12, ZenonT(30) DEF Start, Relink, NewDay
  <2> QED
    BY <2>7, <2>8, <2>9, <2>10, <2>11, <2>12 DEF Next
<1> QED
  BY <1>1, Invariance, PTL DEF Spec, DeliveredIsFinal
=============================================================================
