--------------------------- MODULE JobQueueProofs ---------------------------
(***************************************************************************)
(* What holds of the job queue for any number of jobs, types, workers and  *)
(* clients, in every deployment JobQueueMC checks one of: with and without *)
(* leases, crashes, restarts, cancellations and failing commands; then     *)
(* what holds as long as none of these has struck; and last what is left   *)
(* once it has: lapses lose nothing, one trouble strands nothing.          *)
(***************************************************************************)
EXTENDS JobQueueInvariants, FiniteSetTheorems, WellFoundedInduction, TLAPS

-----------------------------------------------------------------------------
(* What the list commands of RedisLists return, for lists of any length.   *)

\* Every set of naturals that is not empty has a least element.
LEMMA LeastNatural ==
    ASSUME NEW T, T \subseteq Nat, T # {}
    PROVE  \E n \in T : \A m \in T : n <= m
<1>1. \E n \in T : \A m \in T : <<m, n>> \notin OpToRel(<, Nat) BY NatLessThanWellFounded, WFMin
<1>2. PICK n \in T : \A m \in T : <<m, n>> \notin OpToRel(<, Nat) BY <1>1
<1>3. \A m \in T : ~(m < n) BY <1>2 DEF OpToRel
<1> QED BY <1>3

\* How many positions LREM keeps up to n: it grows by one at each of them.
LEMMA KeptGrows ==
    ASSUME NEW S, NEW list \in Seq(S), NEW x
    PROVE  /\ IsFiniteSet(Kept(list, x))
           /\ Cardinality(KeptUpTo(list, x, 0)) = 0
           /\ \A n \in Nat : Cardinality(KeptUpTo(list, x, n)) \in Nat
           /\ \A n \in Nat : Cardinality(KeptUpTo(list, x, n + 1)) =
                 Cardinality(KeptUpTo(list, x, n)) + IF n + 1 \in Kept(list, x) THEN 1 ELSE 0
           /\ KeptUpTo(list, x, Len(list)) = Kept(list, x)
<1> DEFINE U(n) == KeptUpTo(list, x, n)
<1>1. /\ Len(list) \in Nat /\ DOMAIN list = 1..Len(list)
      /\ Kept(list, x) \subseteq 1..Len(list)
    BY DEF Kept
<1>2. IsFiniteSet(Kept(list, x))
  <2>1. IsFiniteSet(1..Len(list)) BY <1>1, FS_Interval
  <2> QED BY <1>1, <2>1, FS_Subset
<1>3. \A n \in Nat : IsFiniteSet(U(n)) /\ Cardinality(U(n)) \in Nat
    BY <1>2, FS_Subset, FS_CardinalityType DEF KeptUpTo
<1>4. Cardinality(U(0)) = 0
  <2>1. U(0) = {} BY <1>1 DEF KeptUpTo
  <2> QED BY <2>1, FS_EmptySet
<1>5. ASSUME NEW n \in Nat
      PROVE  Cardinality(U(n + 1)) =
                 Cardinality(U(n)) + IF n + 1 \in Kept(list, x) THEN 1 ELSE 0
  <2>1. CASE n + 1 \in Kept(list, x)
    <3>1. U(n + 1) = U(n) \cup {n + 1} /\ n + 1 \notin U(n) BY <1>1, <2>1 DEF KeptUpTo
    <3> HIDE DEF U
    <3> QED BY <1>3, <2>1, <3>1, FS_AddElement
  <2>2. CASE n + 1 \notin Kept(list, x)
    <3>1. U(n + 1) = U(n) BY <1>1, <2>2 DEF KeptUpTo
    <3> HIDE DEF U
    <3> QED BY <1>3, <2>2, <3>1
  <2> QED BY <2>1, <2>2
<1>6. U(Len(list)) = Kept(list, x) BY <1>1 DEF KeptUpTo
<1> QED BY <1>2, <1>3, <1>4, <1>5, <1>6

\* The n-th kept position exists, so the CHOOSE of LRem means what it should.
LEMMA NthKept ==
    ASSUME NEW S, NEW list \in Seq(S), NEW x, NEW n \in 1..Cardinality(Kept(list, x))
    PROVE  \E i \in Kept(list, x) : Cardinality(KeptUpTo(list, x, i)) = n
<1> DEFINE C(m) == Cardinality(KeptUpTo(list, x, m))
           Enough == {m \in Nat : n <= C(m)}
<1>1. /\ C(0) = 0 /\ C(Len(list)) = Cardinality(Kept(list, x))
      /\ \A m \in Nat : C(m) \in Nat
      /\ \A m \in Nat : C(m + 1) = C(m) + IF m + 1 \in Kept(list, x) THEN 1 ELSE 0
    BY KeptGrows
<1>2. Len(list) \in Nat /\ n \in Nat /\ n >= 1 /\ n <= Cardinality(Kept(list, x))
  <2>1. Cardinality(Kept(list, x)) \in Nat BY KeptGrows, FS_CardinalityType
  <2> QED BY <2>1
<1> HIDE DEF C
<1>3. PICK m \in Enough : \A k \in Enough : m <= k
  <2>1. Len(list) \in Enough BY <1>1, <1>2
  <2> QED BY <2>1, LeastNatural
<1>4. m # 0 BY <1>1, <1>2, <1>3
<1>5. PICK k \in Nat : m = k + 1
  <2>1. m - 1 \in Nat /\ m = (m - 1) + 1 BY <1>3, <1>4
  <2> QED BY <2>1
<1>6. C(k) < n
  <2>1. k \notin Enough BY <1>3, <1>5
  <2>2. ~(n <= C(k)) BY <1>5, <2>1
  <2>3. C(k) \in Nat BY <1>1, <1>5
  <2> HIDE DEF Enough
  <2> QED BY <1>2, <2>2, <2>3
<1>7. C(k + 1) = C(k) + IF k + 1 \in Kept(list, x) THEN 1 ELSE 0 BY <1>1
<1>8. n <= C(k + 1) BY <1>3, <1>5
<1>9. m \in Kept(list, x) /\ C(m) = n
  <2>1. C(k) \in Nat BY <1>1
  <2>2. CASE k + 1 \in Kept(list, x) BY <1>2, <1>5, <1>6, <1>7, <1>8, <2>1, <2>2
  <2>3. CASE k + 1 \notin Kept(list, x) BY <1>2, <1>6, <1>7, <1>8, <2>1, <2>3
  <2> QED BY <2>2, <2>3
<1> QED BY <1>9 DEF C

\* LREM returns a list over the same elements, without x, and repeats nothing
\* the list did not repeat.
LEMMA LRemList ==
    ASSUME NEW S, NEW list \in Seq(S), NEW x
    PROVE  /\ LRem(list, x) \in Seq(S)
           /\ Elements(LRem(list, x)) \subseteq Elements(list) \ {x}
           /\ NoRepeats(list) => NoRepeats(LRem(list, x))
<1> DEFINE K == Kept(list, x)
           N == Cardinality(K)
           At(n) == CHOOSE i \in K : Cardinality(KeptUpTo(list, x, i)) = n
<1>1. N \in Nat BY KeptGrows, FS_CardinalityType
<1>2. \A n \in 1..N : At(n) \in K /\ Cardinality(KeptUpTo(list, x, At(n))) = n BY NthKept
<1>3. \A i \in K : i \in DOMAIN list /\ list[i] # x /\ list[i] \in S BY DEF Kept
<1>4. LRem(list, x) = [n \in 1..N |-> list[At(n)]] BY DEF LRem
<1> HIDE DEF At, K, N
<1>5. LRem(list, x) \in [1..N -> S] BY <1>2, <1>3, <1>4
<1>6. LRem(list, x) \in Seq(S) BY <1>1, <1>5
<1>7. DOMAIN LRem(list, x) = 1..N /\ \A n \in 1..N : LRem(list, x)[n] = list[At(n)] BY <1>4
<1>8. Elements(LRem(list, x)) \subseteq Elements(list) \ {x} BY <1>2, <1>3, <1>7 DEF Elements
<1>9. ASSUME NoRepeats(list) PROVE NoRepeats(LRem(list, x))
  <2> SUFFICES ASSUME NEW i \in 1..N, NEW k \in 1..N, list[At(i)] = list[At(k)]
               PROVE  i = k
      BY <1>7 DEF NoRepeats
  <2>1. At(i) = At(k) BY <1>2, <1>3, <1>9 DEF NoRepeats
  <2> QED BY <1>2, <2>1
<1> QED BY <1>6, <1>8, <1>9

-----------------------------------------------------------------------------
(* How an actor moves on. *)

LEMMA GotoOK ==
    ASSUME LocalOK, NEW a \in Actors, NEW l \in Pcs, Goto(a, l),
           l \notin EmptyHanded => cur[a] \in Jobs,
           l \in Sweeping => todo[a] # <<>>,
           l # "complete_set"
    PROVE  LocalOK'
BY DEF LocalOK, Goto

LEMMA HoldOK ==
    ASSUME LocalOK, NEW a \in Actors, NEW l \in Pcs, NEW j \in Jobs \cup {NoJob},
           NEW b \in Blob, Hold(a, l, j, b),
           l \notin EmptyHanded => j \in Jobs,
           l \in Sweeping => todo[a] # <<>>,
           l = "complete_set" => b.status = "completed"
    PROVE  LocalOK'
BY DEF LocalOK, Hold

LEMMA AbsentBlob == Absent \in Blob /\ Fresh \in Blob
BY DEF Absent, Fresh, Blob, Status

LEMMA AdvanceOK ==
    ASSUME LocalOK, NEW a \in Actors, NEW first \in Pcs, NEW done \in Pcs,
           Advance(a, first, done), todo[a] # <<>>,
           first \in EmptyHanded, done \in EmptyHanded, done \notin Sweeping
    PROVE  LocalOK'
<1>1. "complete_set" \notin EmptyHanded BY DEF EmptyHanded
<1>2. todo[a] \in Seq(Jobs) /\ Tail(todo[a]) \in Seq(Jobs) BY DEF LocalOK
<1>3. Len(todo[a]) > 1 => Tail(todo[a]) # <<>>
  <2>1. Len(todo[a]) \in Nat /\ Len(Tail(todo[a])) = Len(todo[a]) - 1 BY <1>2
  <2> QED BY <2>1
<1> QED BY <1>1, <1>2, <1>3, AbsentBlob DEF LocalOK, Advance

LEMMA RestIsRest ==
    ASSUME NEW a \in Actors
    PROVE  /\ {LoopHead, AfterPromote, Rest(a), "pick", "idle", "down"} \subseteq Pcs
           /\ {LoopHead, AfterPromote, Rest(a), "pick", "idle", "down"} \subseteq EmptyHanded
           /\ {LoopHead, AfterPromote, Rest(a), "pick", "idle", "down"} \cap Sweeping = {}
BY DEF LoopHead, AfterPromote, Rest, Pcs, WorkerPcs, ClientPcs, EmptyHanded, Sweeping

LEMMA ReturnOK ==
    ASSUME LocalOK, NEW a \in Actors, Return(a)
    PROVE  LocalOK'
<1>1. CASE Reaping(a)
  <2>1. "reap_zrem" \in Pcs /\ "reap_zrem" \in EmptyHanded BY DEF Pcs, WorkerPcs, EmptyHanded
  <2> QED BY <1>1, <2>1, AdvanceOK, RestIsRest DEF Return, Reaping
<1>2. CASE ~Reaping(a)
  <2>1. Rest(a) # "complete_set" BY DEF Rest, LoopHead, AfterPromote
  <2> QED BY <1>2, <2>1, HoldOK, RestIsRest, AbsentBlob DEF Return
<1> QED BY <1>1, <1>2

LEMMA ScanOK ==
    ASSUME LocalOK, NEW a \in Actors, NEW S, S \subseteq Jobs,
           NEW first \in Pcs, NEW done \in Pcs, Scan(a, S, first, done),
           first \in EmptyHanded, done \in EmptyHanded, done \notin Sweeping
    PROVE  LocalOK'
<1>1. PICK s \in Orders(S) :
          /\ todo' = [todo EXCEPT ![a] = s]
          /\ pc' = [pc EXCEPT ![a] = IF s = <<>> THEN done ELSE first]
          /\ UNCHANGED <<cur, copy>>
    BY DEF Scan
<1>2. s \in Seq(Jobs)
  <2>1. IsFiniteSet(S) /\ Cardinality(S) \in Nat BY JobsAssumption, FS_Subset, FS_CardinalityType
  <2>2. s \in [1..Cardinality(S) -> Jobs] BY DEF Orders
  <2> QED BY <2>1, <2>2
<1>3. "complete_set" \notin EmptyHanded BY DEF EmptyHanded
<1> QED BY <1>1, <1>2, <1>3 DEF LocalOK

\* Crashes, and the exceptions that end a request, leave nothing in memory.
LEMMA ForgetOK ==
    ASSUME LocalOK, NEW a \in Actors, NEW l \in {"down", "idle"},
           pc' = [pc EXCEPT ![a] = l],
           cur' = [cur EXCEPT ![a] = NoJob],
           copy' = [copy EXCEPT ![a] = Absent],
           todo' = [todo EXCEPT ![a] = <<>>]
    PROVE  LocalOK'
<1>1. l \in Pcs /\ l \in EmptyHanded /\ l \notin Sweeping /\ l # "complete_set" BY RestIsRest
<1>2. <<>> \in Seq(Jobs) OBVIOUS
<1> QED BY <1>1, <1>2, AbsentBlob DEF LocalOK

-----------------------------------------------------------------------------
(* What the helpers write. *)

LEMMA SetOK ==
    ASSUME StoreOK, NEW j \in Jobs, NEW b \in Blob, Set(j, b)
    PROVE  StoreOK'
BY DEF StoreOK, Set, OnlySettledExpire

LEMMA SetExOK ==
    ASSUME StoreOK, NEW j \in Jobs, NEW b \in Blob, SetEx(j, b),
           b.status \in {"completed", "failed"}
    PROVE  StoreOK'
BY DEF StoreOK, SetEx, OnlySettledExpire

LEMMA EnqueueOK ==
    ASSUME queue \in [TypeSet -> Seq(Jobs)], NEW j \in Jobs, Enqueue(j)
    PROVE  queue' \in [TypeSet -> Seq(Jobs)]
<1>1. <<j>> \in Seq(Jobs) /\ TypeOf[j] \in TypeSet BY JobsAssumption
<1>2. <<j>> \o queue[TypeOf[j]] \in Seq(Jobs) BY <1>1
<1> QED BY <1>2 DEF Enqueue, LPush

LEMMA BuryOK ==
    ASSUME dlq \in [TypeSet -> Seq(Jobs)], NEW j \in Jobs, Bury(j)
    PROVE  dlq' \in [TypeSet -> Seq(Jobs)]
<1>1. <<j>> \in Seq(Jobs) /\ TypeOf[j] \in TypeSet BY JobsAssumption
<1>2. <<j>> \o dlq[TypeOf[j]] \in Seq(Jobs) BY <1>1
<1> QED BY <1>2 DEF Bury, LPush

LEMMA UntrackOK ==
    ASSUME LocalOK, ListsOK, NEW a \in Actors, UntrackOwner(a)
    PROVE  proc' \in [Workers -> Seq(Jobs)]
<1>1. CASE copy[a].worker = NoWorker BY <1>1 DEF UntrackOwner, ListsOK
<1>2. CASE copy[a].worker # NoWorker
  <2>1. copy[a].worker \in Workers BY <1>2 DEF LocalOK, Blob
  <2>2. LRem(proc[copy[a].worker], cur[a]) \in Seq(Jobs) BY <2>1, LRemList DEF ListsOK
  <2> QED BY <1>2, <2>1, <2>2 DEF UntrackOwner, ListsOK
<1> QED BY <1>1, <1>2

LEMMA ClearLeaseOK ==
    ASSUME lease \in [Jobs -> {"none", "held", "expired"}], NEW j, ClearLease(j)
    PROVE  lease' \in [Jobs -> {"none", "held", "expired"}]
BY DEF ClearLease

\* BRPOP takes a job and leaves a list of jobs.
LEMMA PopOK ==
    ASSUME NEW list \in Seq(Jobs), list # <<>>
    PROVE  Oldest(list) \in Jobs /\ Older(list) \in Seq(Jobs)
BY DEF Oldest, Older

-----------------------------------------------------------------------------
(* The steps of an actor.  What the invariant says of it, in one place: *)

LEMMA KnownOf ==
    ASSUME IInv, NEW a \in Actors
    PROVE  /\ LocalOK /\ RedisOK /\ HistoryOK
           /\ blob \in [Jobs -> Blob] /\ copy[a] \in Blob /\ todo[a] \in Seq(Jobs)
           /\ pc[a] \notin EmptyHanded => cur[a] \in Jobs
           /\ pc[a] \in Sweeping => todo[a] # <<>> /\ Next1(a) \in Jobs
           /\ pc[a] = "complete_set" => copy[a].status = "completed"
<1>1. todo[a] # <<>> => Head(todo[a]) \in Jobs BY DEF IInv, LocalOK
<1> QED BY <1>1 DEF IInv, LocalOK, RedisOK, StoreOK, Next1

\* The blob fail() writes.
LEMMA FailedBlob ==
    ASSUME NEW b \in Blob, NEW st \in Status
    PROVE  [b EXCEPT !.retries = @ + 1, !.status = st] \in Blob
<1>1. b.retries + 1 \in Nat BY DEF Blob
<1>2. \A n \in Nat : [b EXCEPT !.retries = n, !.status = st] \in Blob BY DEF Blob
<1> QED BY <1>1, <1>2

LEMMA FailThrowsOK ==
    ASSUME LocalOK, NEW a \in Actors, FailThrows(a)
    PROVE  LocalOK'
<1>1. CASE Reaping(a)
  <2>1. "reap_restore" \in Pcs \cap EmptyHanded BY DEF Pcs, WorkerPcs, EmptyHanded
  <2> QED BY <1>1, <2>1, GotoOK DEF FailThrows, Reaping
<1>2. CASE ~Reaping(a) BY <1>2, ReturnOK DEF FailThrows
<1> QED BY <1>1, <1>2

\* promote_due_jobs and reap_expired_leases.
LEMMA SweepSteps ==
    ASSUME IInv, NEW w \in Workers,
           \/ PromoteScan(w) \/ PromoteZrem(w) \/ PromoteGet(w) \/ PromotePush(w)
           \/ PromoteRestore(w) \/ ReapScan(w) \/ ReapZrem(w) \/ ReapRestore(w)
    PROVE  IInv'
<1>0. /\ w \in Actors /\ LocalOK /\ RedisOK /\ HistoryOK
      /\ blob \in [Jobs -> Blob] /\ copy[w] \in Blob
      /\ pc[w] \notin EmptyHanded => cur[w] \in Jobs
      /\ pc[w] \in Sweeping => todo[w] # <<>> /\ Next1(w) \in Jobs
      /\ pc[w] = "complete_set" => copy[w].status = "completed"
    BY KnownOf DEF Actors
<1>1. ASSUME PromoteScan(w) PROVE IInv'
  <2>1. "promote_zrem" \in Pcs \cap EmptyHanded BY DEF Pcs, WorkerPcs, EmptyHanded
  <2>2. LocalOK' BY <1>0, <1>1, <2>1, ScanOK, RestIsRest DEF PromoteScan
  <2>3. RedisOK' BY <1>0, <1>1 DEF PromoteScan, RedisOK, StoreOK, ListsOK, SetsOK,
    OnlySettledExpire, redis, store, zsets, morgue
  <2>4. HistoryOK' BY <1>0, <1>1 DEF PromoteScan, HistoryOK, history
  <2> QED BY <2>2, <2>3, <2>4 DEF IInv
<1>2. ASSUME PromoteZrem(w) PROVE IInv'
  <2>1. todo[w] # <<>> /\ Next1(w) \in Jobs BY <1>0, <1>2 DEF PromoteZrem, Sweeping, Next1
  <2>2. "promote_zrem" \in Pcs \cap EmptyHanded /\ "promote_get" \in Pcs
      BY DEF Pcs, WorkerPcs, EmptyHanded
  <2>3. LocalOK'
    <3>1. CASE delayed[Next1(w)] = "none"
      <4>1. Advance(w, "promote_zrem", AfterPromote) BY <1>0, <1>2, <2>1, <2>2, <3>1 DEF PromoteZrem
      <4> QED BY <1>0, <1>2, <2>1, <2>2, <4>1, AdvanceOK, RestIsRest
    <3>2. CASE delayed[Next1(w)] # "none"
        BY <1>0, <1>2, <2>1, <2>2, <3>2, HoldOK, AbsentBlob DEF PromoteZrem
    <3> QED BY <3>1, <3>2
  <2>4. RedisOK'
    <3>1. StoreOK' /\ ListsOK' BY <1>0, <1>2, <2>1 DEF PromoteZrem, RedisOK, StoreOK, ListsOK,
      OnlySettledExpire, store, morgue
    <3>2. SetsOK' BY <1>0, <1>2, <2>1 DEF PromoteZrem, RedisOK, SetsOK, morgue
    <3> QED BY <3>1, <3>2 DEF RedisOK
  <2>5. HistoryOK' BY <1>0, <1>2, <2>1 DEF PromoteZrem, HistoryOK, history
  <2> QED BY <2>3, <2>4, <2>5 DEF IInv
<1>3. ASSUME PromoteGet(w) PROVE IInv'
  <2>1. cur[w] \in Jobs /\ todo[w] # <<>> BY <1>0, <1>3 DEF PromoteGet, EmptyHanded, Sweeping
  <2>2. "promote_zrem" \in Pcs \cap EmptyHanded /\ "promote_push" \in Pcs
      BY DEF Pcs, WorkerPcs, EmptyHanded
  <2>3. LocalOK' BY <1>0, <1>3, <2>1, <2>2, AdvanceOK, GotoOK, RestIsRest DEF PromoteGet
  <2>4. RedisOK' BY <1>0, <1>3, <2>1 DEF PromoteGet, RedisOK, StoreOK, ListsOK, SetsOK,
    OnlySettledExpire, redis, store, zsets, morgue
  <2>5. HistoryOK' BY <1>0, <1>3, <2>1 DEF PromoteGet, HistoryOK, history
  <2> QED BY <2>3, <2>4, <2>5 DEF IInv
<1>4. ASSUME PromotePush(w) PROVE IInv'
  <2>1. cur[w] \in Jobs /\ todo[w] # <<>> BY <1>0, <1>4 DEF PromotePush, EmptyHanded, Sweeping
  <2>2. "promote_zrem" \in Pcs \cap EmptyHanded BY DEF Pcs, WorkerPcs, EmptyHanded
  <2>3. LocalOK' BY <1>0, <1>4, <2>1, <2>2, AdvanceOK, RestIsRest DEF PromotePush
  <2>4. RedisOK' BY <1>0, <1>4, <2>1, EnqueueOK DEF PromotePush, RedisOK, SetsOK, StoreOK,
    OnlySettledExpire, ListsOK, store, zsets, morgue
  <2>5. HistoryOK' BY <1>0, <1>4, <2>1 DEF PromotePush, HistoryOK, history
  <2> QED BY <2>3, <2>4, <2>5 DEF IInv
<1>5. ASSUME PromoteRestore(w) PROVE IInv'
  <2>1. todo[w] # <<>> /\ Next1(w) \in Jobs BY <1>0, <1>5 DEF PromoteRestore, Sweeping, Next1
  <2>2. "promote_zrem" \in Pcs \cap EmptyHanded BY DEF Pcs, WorkerPcs, EmptyHanded
  <2>3. LocalOK' BY <1>0, <1>5, <2>1, <2>2, AdvanceOK, RestIsRest DEF PromoteRestore
  <2>4. RedisOK' BY <1>0, <1>5, <2>1 DEF PromoteRestore, RedisOK, SetsOK, StoreOK,
    OnlySettledExpire, ListsOK, store, zsets, morgue
  <2>5. HistoryOK' BY <1>0, <1>5, <2>1 DEF PromoteRestore, HistoryOK, history
  <2> QED BY <2>3, <2>4, <2>5 DEF IInv
<1>6. ASSUME ReapScan(w) PROVE IInv'
  <2>1. "reap_zrem" \in Pcs \cap EmptyHanded BY DEF Pcs, WorkerPcs, EmptyHanded
  <2>2. LocalOK' BY <1>0, <1>6, <2>1, ScanOK, RestIsRest DEF ReapScan
  <2>3. RedisOK' BY <1>0, <1>6 DEF ReapScan, RedisOK, StoreOK, ListsOK, SetsOK, OnlySettledExpire,
    redis, store, zsets, morgue
  <2>4. HistoryOK' BY <1>0, <1>6 DEF ReapScan, HistoryOK, history
  <2> QED BY <2>2, <2>3, <2>4 DEF IInv
<1>7. ASSUME ReapZrem(w) PROVE IInv'
  <2>1. todo[w] # <<>> /\ Next1(w) \in Jobs BY <1>0, <1>7 DEF ReapZrem, Sweeping, Next1
  <2>2. "reap_zrem" \in Pcs \cap EmptyHanded /\ "fail_get" \in Pcs \ Sweeping
      BY DEF Pcs, WorkerPcs, EmptyHanded, Sweeping
  <2>3. LocalOK'
    <3>1. CASE lease[Next1(w)] = "none"
        BY <1>0, <1>7, <2>1, <2>2, <3>1, AdvanceOK, RestIsRest DEF ReapZrem
    <3>2. CASE lease[Next1(w)] # "none"
        BY <1>0, <1>7, <2>1, <2>2, <3>2, HoldOK, AbsentBlob DEF ReapZrem
    <3> QED BY <3>1, <3>2
  <2>4. RedisOK'
    <3>1. StoreOK' /\ ListsOK' BY <1>0, <1>7, <2>1 DEF ReapZrem, RedisOK, StoreOK, ListsOK,
      OnlySettledExpire, store, morgue
    <3>2. SetsOK' BY <1>0, <1>7, <2>1 DEF ReapZrem, RedisOK, SetsOK, morgue
    <3> QED BY <3>1, <3>2 DEF RedisOK
  <2>5. HistoryOK' BY <1>0, <1>7, <2>1 DEF ReapZrem, HistoryOK, history
  <2> QED BY <2>3, <2>4, <2>5 DEF IInv
<1>8. ASSUME ReapRestore(w) PROVE IInv'
  <2>1. todo[w] # <<>> /\ Next1(w) \in Jobs BY <1>0, <1>8 DEF ReapRestore, Sweeping, Next1
  <2>2. "reap_zrem" \in Pcs \cap EmptyHanded BY DEF Pcs, WorkerPcs, EmptyHanded
  <2>3. LocalOK' BY <1>0, <1>8, <2>1, <2>2, AdvanceOK, RestIsRest DEF ReapRestore
  <2>4. RedisOK' BY <1>0, <1>8, <2>1 DEF ReapRestore, RedisOK, SetsOK, StoreOK, OnlySettledExpire,
    ListsOK, store, zsets, morgue
  <2>5. HistoryOK' BY <1>0, <1>8, <2>1 DEF ReapRestore, HistoryOK, history
  <2> QED BY <2>3, <2>4, <2>5 DEF IInv
<1> QED BY <1>1, <1>2, <1>3, <1>4, <1>5, <1>6, <1>7, <1>8

\* pick(): the queues, the processing list, the status and the lease.
LEMMA PickSteps ==
    ASSUME IInv, NEW w \in Workers,
           \/ PickMove(w) \/ PickPop(w) \/ PickTrack(w) \/ PickUntake(w)
           \/ PickTimeout(w) \/ PickGet(w) \/ PickDrop(w) \/ PickSet(w)
           \/ PickLease(w)
    PROVE  IInv'
<1>0. /\ w \in Actors /\ LocalOK /\ RedisOK /\ HistoryOK
      /\ blob \in [Jobs -> Blob] /\ copy[w] \in Blob
      /\ pc[w] \notin EmptyHanded => cur[w] \in Jobs
      /\ pc[w] \in Sweeping => todo[w] # <<>> /\ Next1(w) \in Jobs
      /\ pc[w] = "complete_set" => copy[w].status = "completed"
    BY KnownOf DEF Actors
<1>1. ASSUME PickMove(w) PROVE IInv'
  <2>1. "pick_get" \in Pcs \ Sweeping BY DEF Pcs, WorkerPcs, Sweeping
  <2>2. LocalOK'
    <3>1. PICK t \in TypeSet : queue[t] # <<>> /\ Hold(w, "pick_get", Oldest(queue[t]), Absent)
        BY <1>0, <1>1, <2>1 DEF PickMove, Ready
    <3>2. Oldest(queue[t]) \in Jobs BY <1>0, <1>1, <2>1, <3>1, PopOK DEF RedisOK, ListsOK
    <3> QED BY <1>0, <1>1, <2>1, <3>1, <3>2, HoldOK, AbsentBlob
  <2>3. RedisOK'
    <3>1. PICK t \in TypeSet :
              /\ queue[t] # <<>>
              /\ queue' = [queue EXCEPT ![t] = Older(@)]
              /\ proc' = [proc EXCEPT ![w] = LPush(@, Oldest(queue[t]))]
        BY <1>0, <1>1 DEF PickMove, Ready
    <3>2. Oldest(queue[t]) \in Jobs /\ Older(queue[t]) \in Seq(Jobs)
        BY <1>0, <1>1, <3>1, PopOK DEF RedisOK, ListsOK
    <3>3. LPush(proc[w], Oldest(queue[t])) \in Seq(Jobs)
      <4>1. proc[w] \in Seq(Jobs) BY <1>0, <1>1 DEF RedisOK, ListsOK
      <4> QED BY <3>2, <4>1 DEF LPush
    <3>4. ListsOK' BY <1>0, <1>1, <3>1, <3>2, <3>3 DEF PickMove, RedisOK, ListsOK, morgue
    <3>5. StoreOK' /\ SetsOK' BY <1>0, <1>1 DEF PickMove, RedisOK, StoreOK, SetsOK,
      OnlySettledExpire, store, zsets, morgue
    <3> QED BY <3>4, <3>5 DEF RedisOK
  <2>4. HistoryOK' BY <1>0, <1>1 DEF PickMove, HistoryOK, history
  <2> QED BY <2>2, <2>3, <2>4 DEF IInv
<1>2. ASSUME PickPop(w) PROVE IInv'
  <2>1. "pick_track" \in Pcs \ Sweeping BY DEF Pcs, WorkerPcs, Sweeping
  <2>2. LocalOK'
    <3>1. PICK t \in TypeSet : queue[t] # <<>> /\ Hold(w, "pick_track", Oldest(queue[t]), Absent)
        BY <1>0, <1>2, <2>1 DEF PickPop, Ready
    <3>2. Oldest(queue[t]) \in Jobs BY <1>0, <1>2, <2>1, <3>1, PopOK DEF RedisOK, ListsOK
    <3> QED BY <1>0, <1>2, <2>1, <3>1, <3>2, HoldOK, AbsentBlob
  <2>3. RedisOK'
    <3>1. PICK t \in TypeSet : queue[t] # <<>> /\ queue' = [queue EXCEPT ![t] = Older(@)]
        BY <1>0, <1>2 DEF PickPop, Ready
    <3>2. Older(queue[t]) \in Seq(Jobs) BY <1>0, <1>2, <3>1, PopOK DEF RedisOK, ListsOK
    <3> QED BY <1>0, <1>2, <3>1, <3>2 DEF PickPop, RedisOK, StoreOK, ListsOK, SetsOK,
      OnlySettledExpire, store, zsets, morgue
  <2>4. HistoryOK' BY <1>0, <1>2 DEF PickPop, HistoryOK, history
  <2> QED BY <2>2, <2>3, <2>4 DEF IInv
<1>3. ASSUME PickTrack(w) PROVE IInv'
  <2>1. cur[w] \in Jobs BY <1>0, <1>3 DEF PickTrack, EmptyHanded
  <2>2. "pick_get" \in Pcs \ Sweeping BY DEF Pcs, WorkerPcs, Sweeping
  <2>3. LocalOK' BY <1>0, <1>3, <2>1, <2>2, GotoOK DEF PickTrack
  <2>4. RedisOK'
    <3>1. RPush(proc[w], cur[w]) \in Seq(Jobs)
        BY <1>0, <1>3, <2>1, LRemList, JobsAssumption DEF RedisOK, ListsOK, RPush
    <3>2. ListsOK' BY <1>0, <1>3, <2>1, <3>1 DEF PickTrack, RedisOK, ListsOK, morgue
    <3>3. StoreOK' /\ SetsOK' BY <1>0, <1>3, <2>1 DEF PickTrack, RedisOK, StoreOK, SetsOK,
      OnlySettledExpire, store, zsets, morgue
    <3> QED BY <3>2, <3>3 DEF RedisOK
  <2>5. HistoryOK' BY <1>0, <1>3, <2>1 DEF PickTrack, HistoryOK, history
  <2> QED BY <2>3, <2>4, <2>5 DEF IInv
<1>4. ASSUME PickUntake(w) PROVE IInv'
  <2>1. cur[w] \in Jobs BY <1>0, <1>4 DEF PickUntake, EmptyHanded
  <2>2. LocalOK' BY <1>0, <1>4, <2>1, ReturnOK DEF PickUntake
  <2>3. RedisOK'
    <3>1. RPush(queue[TypeOf[cur[w]]], cur[w]) \in Seq(Jobs)
        BY <1>0, <1>4, <2>1, LRemList, JobsAssumption DEF RedisOK, ListsOK, RPush
    <3>2. ListsOK' BY <1>0, <1>4, <2>1, <3>1 DEF PickUntake, RedisOK, ListsOK, morgue
    <3>3. StoreOK' /\ SetsOK' BY <1>0, <1>4, <2>1 DEF PickUntake, RedisOK, StoreOK, SetsOK,
      OnlySettledExpire, store, zsets, morgue
    <3> QED BY <3>2, <3>3 DEF RedisOK
  <2>4. HistoryOK' BY <1>0, <1>4, <2>1 DEF PickUntake, HistoryOK, history
  <2> QED BY <2>2, <2>3, <2>4 DEF IInv
<1>5. ASSUME PickTimeout(w) PROVE IInv'
  <2>1. LocalOK' BY <1>0, <1>5, ReturnOK DEF PickTimeout
  <2>2. RedisOK' BY <1>0, <1>5 DEF PickTimeout, RedisOK, StoreOK, ListsOK, SetsOK,
    OnlySettledExpire, redis, store, zsets, morgue
  <2>3. HistoryOK' BY <1>0, <1>5 DEF PickTimeout, HistoryOK, history
  <2> QED BY <2>1, <2>2, <2>3 DEF IInv
<1>6. ASSUME PickGet(w) PROVE IInv'
  <2>1. cur[w] \in Jobs BY <1>0, <1>6 DEF PickGet, EmptyHanded
  <2>2. {"pick_drop", "pick_set"} \subseteq Pcs \ Sweeping BY DEF Pcs, WorkerPcs, Sweeping
  <2>3. LocalOK'
    <3>1. CASE Missing(cur[w]) \/ Finished(cur[w])
        BY <1>0, <1>6, <2>1, <2>2, <3>1, GotoOK DEF PickGet
    <3>2. CASE ~(Missing(cur[w]) \/ Finished(cur[w]))
      <4>1. [blob[cur[w]] EXCEPT !.status = "processing", !.worker = w] \in Blob
          BY <1>0, <1>6, <2>1, <2>2 DEF Blob, Status
      <4> QED BY <1>0, <1>6, <2>1, <2>2, <3>2, <4>1, HoldOK DEF PickGet
    <3> QED BY <3>1, <3>2
  <2>4. RedisOK' BY <1>0, <1>6, <2>1 DEF PickGet, RedisOK, StoreOK, ListsOK, SetsOK,
    OnlySettledExpire, redis, store, zsets, morgue
  <2>5. HistoryOK' BY <1>0, <1>6, <2>1 DEF PickGet, HistoryOK, history
  <2> QED BY <2>3, <2>4, <2>5 DEF IInv
<1>7. ASSUME PickDrop(w) PROVE IInv'
  <2>1. cur[w] \in Jobs BY <1>0, <1>7 DEF PickDrop, EmptyHanded
  <2>2. LocalOK' BY <1>0, <1>7, <2>1, ReturnOK DEF PickDrop
  <2>3. RedisOK'
    <3>1. LRem(proc[w], cur[w]) \in Seq(Jobs)
        BY <1>0, <1>7, <2>1, LRemList, JobsAssumption DEF RedisOK, ListsOK
    <3>2. ListsOK' BY <1>0, <1>7, <2>1, <3>1 DEF PickDrop, RedisOK, ListsOK, morgue
    <3>3. StoreOK' /\ SetsOK' BY <1>0, <1>7, <2>1 DEF PickDrop, RedisOK, StoreOK, SetsOK,
      OnlySettledExpire, store, zsets, morgue
    <3> QED BY <3>2, <3>3 DEF RedisOK
  <2>4. HistoryOK' BY <1>0, <1>7, <2>1 DEF PickDrop, HistoryOK, history
  <2> QED BY <2>2, <2>3, <2>4 DEF IInv
<1>8. ASSUME PickSet(w) PROVE IInv'
  <2>1. cur[w] \in Jobs BY <1>0, <1>8 DEF PickSet, EmptyHanded
  <2>2. {"pick_lease", "trace_get"} \subseteq Pcs \ Sweeping BY DEF Pcs, WorkerPcs, Sweeping
  <2>3. LocalOK' BY <1>0, <1>8, <2>1, <2>2, HoldOK, AbsentBlob DEF PickSet
  <2>4. RedisOK' BY <1>0, <1>8, <2>1, SetOK DEF PickSet, RedisOK, ListsOK, SetsOK, zsets, morgue
  <2>5. HistoryOK' BY <1>0, <1>8, <2>1 DEF PickSet, HistoryOK, history
  <2> QED BY <2>3, <2>4, <2>5 DEF IInv
<1>9. ASSUME PickLease(w) PROVE IInv'
  <2>1. cur[w] \in Jobs BY <1>0, <1>9 DEF PickLease, EmptyHanded
  <2>2. "trace_get" \in Pcs \ Sweeping BY DEF Pcs, WorkerPcs, Sweeping
  <2>3. LocalOK' BY <1>0, <1>9, <2>1, <2>2, GotoOK DEF PickLease
  <2>4. RedisOK' BY <1>0, <1>9, <2>1 DEF PickLease, RedisOK, SetsOK, StoreOK, OnlySettledExpire,
    ListsOK, store, zsets, morgue
  <2>5. HistoryOK' BY <1>0, <1>9, <2>1 DEF PickLease, HistoryOK, history
  <2> QED BY <2>3, <2>4, <2>5 DEF IInv
<1> QED BY <1>1, <1>2, <1>3, <1>4, <1>5, <1>6, <1>7, <1>8, <1>9

\* set_trace_id(), the handler, complete().
LEMMA RunSteps ==
    ASSUME IInv, NEW w \in Workers,
           \/ TraceGet(w) \/ TraceSet(w) \/ Handle(w) \/ CompleteGet(w)
           \/ CompleteSet(w) \/ CompleteUntrack(w) \/ CompleteUnlease(w)
    PROVE  IInv'
<1>0. /\ w \in Actors /\ LocalOK /\ RedisOK /\ HistoryOK
      /\ blob \in [Jobs -> Blob] /\ copy[w] \in Blob
      /\ pc[w] \notin EmptyHanded => cur[w] \in Jobs
      /\ pc[w] \in Sweeping => todo[w] # <<>> /\ Next1(w) \in Jobs
      /\ pc[w] = "complete_set" => copy[w].status = "completed"
    BY KnownOf DEF Actors
<1>1. ASSUME TraceGet(w) PROVE IInv'
  <2>1. cur[w] \in Jobs BY <1>0, <1>1 DEF TraceGet, EmptyHanded
  <2>2. {"run", "trace_set"} \subseteq Pcs \ Sweeping BY DEF Pcs, WorkerPcs, Sweeping
  <2>3. LocalOK'
    <3>1. CASE Missing(cur[w]) BY <1>0, <1>1, <2>1, <2>2, <3>1, GotoOK DEF TraceGet
    <3>2. CASE ~(Missing(cur[w]))
      <4>1. blob[cur[w]] \in Blob BY <1>0, <1>1, <2>1, <2>2 DEF Blob, Status
      <4> QED BY <1>0, <1>1, <2>1, <2>2, <3>2, <4>1, HoldOK DEF TraceGet, Blob
    <3> QED BY <3>1, <3>2
  <2>4. RedisOK' BY <1>0, <1>1, <2>1 DEF TraceGet, RedisOK, StoreOK, ListsOK, SetsOK,
    OnlySettledExpire, redis, store, zsets, morgue
  <2>5. HistoryOK' BY <1>0, <1>1, <2>1 DEF TraceGet, HistoryOK, history
  <2> QED BY <2>3, <2>4, <2>5 DEF IInv
<1>2. ASSUME TraceSet(w) PROVE IInv'
  <2>1. cur[w] \in Jobs BY <1>0, <1>2 DEF TraceSet, EmptyHanded
  <2>2. "run" \in Pcs \ Sweeping BY DEF Pcs, WorkerPcs, Sweeping
  <2>3. LocalOK' BY <1>0, <1>2, <2>1, <2>2, HoldOK, AbsentBlob DEF TraceSet
  <2>4. RedisOK' BY <1>0, <1>2, <2>1, SetOK DEF TraceSet, RedisOK, ListsOK, SetsOK, zsets, morgue
  <2>5. HistoryOK' BY <1>0, <1>2, <2>1 DEF TraceSet, HistoryOK, history
  <2> QED BY <2>3, <2>4, <2>5 DEF IInv
<1>3. ASSUME Handle(w) PROVE IInv'
  <2>1. cur[w] \in Jobs BY <1>0, <1>3 DEF Handle, EmptyHanded
  <2>2. {"complete_get", "dead_get", "fail_get"} \subseteq Pcs \ Sweeping
      BY DEF Pcs, WorkerPcs, Sweeping
  <2>3. LocalOK' BY <1>0, <1>3, <2>1, <2>2, GotoOK DEF Handle
  <2>4. RedisOK' BY <1>0, <1>3, <2>1 DEF Handle, RedisOK, StoreOK, ListsOK, SetsOK,
    OnlySettledExpire, redis, store, zsets, morgue
  <2>5. HistoryOK' BY <1>0, <1>3, <2>1 DEF Handle, HistoryOK, redis
  <2> QED BY <2>3, <2>4, <2>5 DEF IInv
<1>4. ASSUME CompleteGet(w) PROVE IInv'
  <2>1. cur[w] \in Jobs BY <1>0, <1>4 DEF CompleteGet, EmptyHanded
  <2>2. {"fail_get", "complete_set"} \subseteq Pcs \ Sweeping BY DEF Pcs, WorkerPcs, Sweeping
  <2>3. LocalOK'
    <3>1. CASE Missing(cur[w]) BY <1>0, <1>4, <2>1, <2>2, <3>1, GotoOK DEF CompleteGet
    <3>2. CASE ~(Missing(cur[w]))
      <4>1. [blob[cur[w]] EXCEPT !.status = "completed"] \in Blob
          BY <1>0, <1>4, <2>1, <2>2 DEF Blob, Status
      <4> QED BY <1>0, <1>4, <2>1, <2>2, <3>2, <4>1, HoldOK DEF CompleteGet, Blob
    <3> QED BY <3>1, <3>2
  <2>4. RedisOK' BY <1>0, <1>4, <2>1 DEF CompleteGet, RedisOK, StoreOK, ListsOK, SetsOK,
    OnlySettledExpire, redis, store, zsets, morgue
  <2>5. HistoryOK' BY <1>0, <1>4, <2>1 DEF CompleteGet, HistoryOK, history
  <2> QED BY <2>3, <2>4, <2>5 DEF IInv
<1>5. ASSUME CompleteSet(w) PROVE IInv'
  <2>1. cur[w] \in Jobs BY <1>0, <1>5 DEF CompleteSet, EmptyHanded
  <2>2. "complete_untrack" \in Pcs \ Sweeping BY DEF Pcs, WorkerPcs, Sweeping
  <2>3. LocalOK' BY <1>0, <1>5, <2>1, <2>2, GotoOK DEF CompleteSet
  <2>4. RedisOK' BY <1>0, <1>5, <2>1, SetExOK DEF CompleteSet, RedisOK, ListsOK, SetsOK, zsets,
    morgue
  <2>5. HistoryOK' BY <1>0, <1>5, <2>1 DEF CompleteSet, HistoryOK, history
  <2> QED BY <2>3, <2>4, <2>5 DEF IInv
<1>6. ASSUME CompleteUntrack(w) PROVE IInv'
  <2>1. cur[w] \in Jobs BY <1>0, <1>6 DEF CompleteUntrack, EmptyHanded
  <2>2. "complete_unlease" \in Pcs \ Sweeping BY DEF Pcs, WorkerPcs, Sweeping
  <2>3. LocalOK' BY <1>0, <1>6, <2>1, <2>2, GotoOK DEF CompleteUntrack
  <2>4. RedisOK'
    <3>1. proc' \in [Workers -> Seq(Jobs)]
        BY <1>0, <1>6, <2>1, UntrackOK DEF CompleteUntrack, RedisOK
    <3> QED BY <1>0, <1>6, <2>1, <3>1 DEF CompleteUntrack, RedisOK, StoreOK, ListsOK, SetsOK,
      OnlySettledExpire, store, zsets, morgue
  <2>5. HistoryOK' BY <1>0, <1>6, <2>1 DEF CompleteUntrack, HistoryOK, history
  <2> QED BY <2>3, <2>4, <2>5 DEF IInv
<1>7. ASSUME CompleteUnlease(w) PROVE IInv'
  <2>1. LocalOK' BY <1>0, <1>7, ReturnOK DEF CompleteUnlease
  <2>2. RedisOK'
    <3>1. lease' \in [Jobs -> {"none", "held", "expired"}]
        BY <1>0, <1>7, ClearLeaseOK DEF CompleteUnlease, RedisOK, SetsOK
    <3> QED BY <1>0, <1>7, <3>1 DEF CompleteUnlease, RedisOK, StoreOK, ListsOK, SetsOK,
      OnlySettledExpire, store, morgue
  <2>3. HistoryOK' BY <1>0, <1>7 DEF CompleteUnlease, HistoryOK, history
  <2> QED BY <2>1, <2>2, <2>3 DEF IInv
<1> QED BY <1>1, <1>2, <1>3, <1>4, <1>5, <1>6, <1>7

\* fail(), for the loop and for the sweep of leases.
LEMMA FailSteps ==
    ASSUME IInv, NEW w \in Workers,
           \/ FailGet(w) \/ FailUntrack(w) \/ FailUnlease(w) \/ FailSet(w)
           \/ FailPark(w) \/ FailPush(w) \/ FailDlq(w) \/ FailIndex(w)
           \/ DropUntrack(w) \/ DropUnlease(w)
    PROVE  IInv'
<1>0. /\ w \in Actors /\ LocalOK /\ RedisOK /\ HistoryOK
      /\ blob \in [Jobs -> Blob] /\ copy[w] \in Blob
      /\ pc[w] \notin EmptyHanded => cur[w] \in Jobs
      /\ pc[w] \in Sweeping => todo[w] # <<>> /\ Next1(w) \in Jobs
      /\ pc[w] = "complete_set" => copy[w].status = "completed"
    BY KnownOf DEF Actors
<1>1. ASSUME FailGet(w) PROVE IInv'
  <2>1. cur[w] \in Jobs BY <1>0, <1>1 DEF FailGet, EmptyHanded
  <2>2. {"drop_untrack", "fail_untrack"} \subseteq Pcs \ Sweeping BY DEF Pcs, WorkerPcs, Sweeping
  <2>3. LocalOK'
    <3>1. CASE Missing(cur[w]) BY <1>0, <1>1, <2>1, <2>2, <3>1, FailThrowsOK DEF FailGet, Finished,
      Missing, Terminal
    <3>2. CASE Finished(cur[w]) BY <1>0, <1>1, <2>1, <2>2, <3>2, HoldOK DEF FailGet, Finished,
      Missing, Terminal
    <3>3. CASE ~Missing(cur[w]) /\ ~Finished(cur[w])
      <4> DEFINE b == blob[cur[w]]
                 st == IF RetriesLeft(cur[w], b.retries + 1) THEN "pending" ELSE "dead"
      <4>0. b \in Blob /\ st \in Status BY <1>0, <1>1, <2>1, <2>2 DEF Status
      <4>1. [b EXCEPT !.retries = @ + 1, !.status = st] \in Blob BY <4>0, FailedBlob
      <4> QED BY <1>0, <1>1, <2>1, <2>2, <3>3, <4>1, HoldOK DEF FailGet
    <3> QED BY <3>1, <3>2, <3>3
  <2>4. RedisOK' BY <1>0, <1>1, <2>1 DEF FailGet, RedisOK, StoreOK, ListsOK, SetsOK,
    OnlySettledExpire, redis, store, zsets, morgue
  <2>5. HistoryOK' BY <1>0, <1>1, <2>1 DEF FailGet, HistoryOK, history
  <2> QED BY <2>3, <2>4, <2>5 DEF IInv
<1>2. ASSUME FailUntrack(w) PROVE IInv'
  <2>1. cur[w] \in Jobs BY <1>0, <1>2 DEF FailUntrack, EmptyHanded
  <2>2. "fail_unlease" \in Pcs \ Sweeping BY DEF Pcs, WorkerPcs, Sweeping
  <2>3. LocalOK' BY <1>0, <1>2, <2>1, <2>2, GotoOK DEF FailUntrack
  <2>4. RedisOK'
    <3>1. proc' \in [Workers -> Seq(Jobs)] BY <1>0, <1>2, <2>1, UntrackOK DEF FailUntrack, RedisOK
    <3> QED BY <1>0, <1>2, <2>1, <3>1 DEF FailUntrack, RedisOK, StoreOK, ListsOK, SetsOK,
      OnlySettledExpire, store, zsets, morgue
  <2>5. HistoryOK' BY <1>0, <1>2, <2>1 DEF FailUntrack, HistoryOK, history
  <2> QED BY <2>3, <2>4, <2>5 DEF IInv
<1>3. ASSUME FailUnlease(w) PROVE IInv'
  <2>1. cur[w] \in Jobs BY <1>0, <1>3 DEF FailUnlease, EmptyHanded
  <2>2. "fail_set" \in Pcs \ Sweeping BY DEF Pcs, WorkerPcs, Sweeping
  <2>3. LocalOK' BY <1>0, <1>3, <2>1, <2>2, GotoOK DEF FailUnlease
  <2>4. RedisOK'
    <3>1. lease' \in [Jobs -> {"none", "held", "expired"}]
        BY <1>0, <1>3, <2>1, ClearLeaseOK DEF FailUnlease, RedisOK, SetsOK
    <3> QED BY <1>0, <1>3, <2>1, <3>1 DEF FailUnlease, RedisOK, StoreOK, ListsOK, SetsOK,
      OnlySettledExpire, store, morgue
  <2>5. HistoryOK' BY <1>0, <1>3, <2>1 DEF FailUnlease, HistoryOK, history
  <2> QED BY <2>3, <2>4, <2>5 DEF IInv
<1>4. ASSUME FailSet(w) PROVE IInv'
  <2>1. cur[w] \in Jobs BY <1>0, <1>4 DEF FailSet, EmptyHanded
  <2>2. {"fail_dlq", "fail_park", "fail_push"} \subseteq Pcs \ Sweeping
      BY DEF Pcs, WorkerPcs, Sweeping
  <2>3. LocalOK' BY <1>0, <1>4, <2>1, <2>2, GotoOK DEF FailSet
  <2>4. RedisOK' BY <1>0, <1>4, <2>1, SetOK DEF FailSet, RedisOK, ListsOK, SetsOK, zsets, morgue
  <2>5. HistoryOK' BY <1>0, <1>4, <2>1 DEF FailSet, HistoryOK, history
  <2> QED BY <2>3, <2>4, <2>5 DEF IInv
<1>5. ASSUME FailPark(w) PROVE IInv'
  <2>1. cur[w] \in Jobs BY <1>0, <1>5 DEF FailPark, EmptyHanded
  <2>2. LocalOK' BY <1>0, <1>5, <2>1, ReturnOK DEF FailPark
  <2>3. RedisOK' BY <1>0, <1>5, <2>1 DEF FailPark, RedisOK, SetsOK, StoreOK, OnlySettledExpire,
    ListsOK, store, zsets, morgue
  <2>4. HistoryOK' BY <1>0, <1>5, <2>1 DEF FailPark, HistoryOK, history
  <2> QED BY <2>2, <2>3, <2>4 DEF IInv
<1>6. ASSUME FailPush(w) PROVE IInv'
  <2>1. cur[w] \in Jobs BY <1>0, <1>6 DEF FailPush, EmptyHanded
  <2>2. LocalOK' BY <1>0, <1>6, <2>1, ReturnOK DEF FailPush
  <2>3. RedisOK'
    <3>1. queue' \in [TypeSet -> Seq(Jobs)]
        BY <1>0, <1>6, <2>1, EnqueueOK DEF FailPush, RedisOK, ListsOK
    <3> QED BY <1>0, <1>6, <2>1, <3>1 DEF FailPush, RedisOK, StoreOK, ListsOK, SetsOK,
      OnlySettledExpire, store, zsets, morgue
  <2>4. HistoryOK' BY <1>0, <1>6, <2>1 DEF FailPush, HistoryOK, history
  <2> QED BY <2>2, <2>3, <2>4 DEF IInv
<1>7. ASSUME FailDlq(w) PROVE IInv'
  <2>1. cur[w] \in Jobs BY <1>0, <1>7 DEF FailDlq, EmptyHanded
  <2>2. "fail_index" \in Pcs \ Sweeping BY DEF Pcs, WorkerPcs, Sweeping
  <2>3. LocalOK' BY <1>0, <1>7, <2>1, <2>2, GotoOK DEF FailDlq
  <2>4. RedisOK'
    <3>1. dlq' \in [TypeSet -> Seq(Jobs)] BY <1>0, <1>7, <2>1, BuryOK DEF FailDlq, RedisOK, ListsOK
    <3> QED BY <1>0, <1>7, <2>1, <3>1 DEF FailDlq, RedisOK, StoreOK, ListsOK, SetsOK,
      OnlySettledExpire, store, zsets
  <2>5. HistoryOK' BY <1>0, <1>7, <2>1 DEF FailDlq, HistoryOK, history
  <2> QED BY <2>3, <2>4, <2>5 DEF IInv
<1>8. ASSUME FailIndex(w) PROVE IInv'
  <2>1. cur[w] \in Jobs BY <1>0, <1>8 DEF FailIndex, EmptyHanded
  <2>2. LocalOK' BY <1>0, <1>8, <2>1, ReturnOK DEF FailIndex
  <2>3. RedisOK' BY <1>0, <1>8, <2>1 DEF FailIndex, RedisOK, SetsOK, StoreOK, OnlySettledExpire,
    ListsOK, store, zsets, morgue
  <2>4. HistoryOK' BY <1>0, <1>8, <2>1 DEF FailIndex, HistoryOK, history
  <2> QED BY <2>2, <2>3, <2>4 DEF IInv
<1>9. ASSUME DropUntrack(w) PROVE IInv'
  <2>1. cur[w] \in Jobs BY <1>0, <1>9 DEF DropUntrack, EmptyHanded
  <2>2. "drop_unlease" \in Pcs \ Sweeping BY DEF Pcs, WorkerPcs, Sweeping
  <2>3. LocalOK' BY <1>0, <1>9, <2>1, <2>2, GotoOK DEF DropUntrack
  <2>4. RedisOK'
    <3>1. proc' \in [Workers -> Seq(Jobs)] BY <1>0, <1>9, <2>1, UntrackOK DEF DropUntrack, RedisOK
    <3> QED BY <1>0, <1>9, <2>1, <3>1 DEF DropUntrack, RedisOK, StoreOK, ListsOK, SetsOK,
      OnlySettledExpire, store, zsets, morgue
  <2>5. HistoryOK' BY <1>0, <1>9, <2>1 DEF DropUntrack, HistoryOK, history
  <2> QED BY <2>3, <2>4, <2>5 DEF IInv
<1>10. ASSUME DropUnlease(w) PROVE IInv'
  <2>1. LocalOK' BY <1>0, <1>10, ReturnOK DEF DropUnlease
  <2>2. RedisOK'
    <3>1. lease' \in [Jobs -> {"none", "held", "expired"}]
        BY <1>0, <1>10, ClearLeaseOK DEF DropUnlease, RedisOK, SetsOK
    <3> QED BY <1>0, <1>10, <3>1 DEF DropUnlease, RedisOK, StoreOK, ListsOK, SetsOK,
      OnlySettledExpire, store, morgue
  <2>3. HistoryOK' BY <1>0, <1>10 DEF DropUnlease, HistoryOK, history
  <2> QED BY <2>1, <2>2, <2>3 DEF IInv
<1> QED BY <1>1, <1>2, <1>3, <1>4, <1>5, <1>6, <1>7, <1>8, <1>9, <1>10

\* dead_letter().
LEMMA DeadSteps ==
    ASSUME IInv, NEW w \in Workers,
           \/ DeadGet(w) \/ DeadUntrack(w) \/ DeadUnlease(w) \/ DeadPush(w)
           \/ DeadIndex(w) \/ DeadSet(w)
    PROVE  IInv'
<1>0. /\ w \in Actors /\ LocalOK /\ RedisOK /\ HistoryOK
      /\ blob \in [Jobs -> Blob] /\ copy[w] \in Blob
      /\ pc[w] \notin EmptyHanded => cur[w] \in Jobs
      /\ pc[w] \in Sweeping => todo[w] # <<>> /\ Next1(w) \in Jobs
      /\ pc[w] = "complete_set" => copy[w].status = "completed"
    BY KnownOf DEF Actors
<1>1. ASSUME DeadGet(w) PROVE IInv'
  <2>1. cur[w] \in Jobs BY <1>0, <1>1 DEF DeadGet, EmptyHanded
  <2>2. "dead_untrack" \in Pcs \ Sweeping BY DEF Pcs, WorkerPcs, Sweeping
  <2>3. LocalOK'
    <3>1. CASE Missing(cur[w]) BY <1>0, <1>1, <2>1, <2>2, <3>1, ReturnOK DEF DeadGet
    <3>2. CASE ~(Missing(cur[w]))
      <4>1. [blob[cur[w]] EXCEPT !.status = "dead"] \in Blob
          BY <1>0, <1>1, <2>1, <2>2 DEF Blob, Status
      <4> QED BY <1>0, <1>1, <2>1, <2>2, <3>2, <4>1, HoldOK DEF DeadGet, Blob
    <3> QED BY <3>1, <3>2
  <2>4. RedisOK' BY <1>0, <1>1, <2>1 DEF DeadGet, RedisOK, StoreOK, ListsOK, SetsOK,
    OnlySettledExpire, redis, store, zsets, morgue
  <2>5. HistoryOK' BY <1>0, <1>1, <2>1 DEF DeadGet, HistoryOK, history
  <2> QED BY <2>3, <2>4, <2>5 DEF IInv
<1>2. ASSUME DeadUntrack(w) PROVE IInv'
  <2>1. cur[w] \in Jobs BY <1>0, <1>2 DEF DeadUntrack, EmptyHanded
  <2>2. "dead_unlease" \in Pcs \ Sweeping BY DEF Pcs, WorkerPcs, Sweeping
  <2>3. LocalOK' BY <1>0, <1>2, <2>1, <2>2, GotoOK DEF DeadUntrack
  <2>4. RedisOK'
    <3>1. proc' \in [Workers -> Seq(Jobs)] BY <1>0, <1>2, <2>1, UntrackOK DEF DeadUntrack, RedisOK
    <3> QED BY <1>0, <1>2, <2>1, <3>1 DEF DeadUntrack, RedisOK, StoreOK, ListsOK, SetsOK,
      OnlySettledExpire, store, zsets, morgue
  <2>5. HistoryOK' BY <1>0, <1>2, <2>1 DEF DeadUntrack, HistoryOK, history
  <2> QED BY <2>3, <2>4, <2>5 DEF IInv
<1>3. ASSUME DeadUnlease(w) PROVE IInv'
  <2>1. cur[w] \in Jobs BY <1>0, <1>3 DEF DeadUnlease, EmptyHanded
  <2>2. "dead_push" \in Pcs \ Sweeping BY DEF Pcs, WorkerPcs, Sweeping
  <2>3. LocalOK' BY <1>0, <1>3, <2>1, <2>2, GotoOK DEF DeadUnlease
  <2>4. RedisOK'
    <3>1. lease' \in [Jobs -> {"none", "held", "expired"}]
        BY <1>0, <1>3, <2>1, ClearLeaseOK DEF DeadUnlease, RedisOK, SetsOK
    <3> QED BY <1>0, <1>3, <2>1, <3>1 DEF DeadUnlease, RedisOK, StoreOK, ListsOK, SetsOK,
      OnlySettledExpire, store, morgue
  <2>5. HistoryOK' BY <1>0, <1>3, <2>1 DEF DeadUnlease, HistoryOK, history
  <2> QED BY <2>3, <2>4, <2>5 DEF IInv
<1>4. ASSUME DeadPush(w) PROVE IInv'
  <2>1. cur[w] \in Jobs BY <1>0, <1>4 DEF DeadPush, EmptyHanded
  <2>2. "dead_index" \in Pcs \ Sweeping BY DEF Pcs, WorkerPcs, Sweeping
  <2>3. LocalOK' BY <1>0, <1>4, <2>1, <2>2, GotoOK DEF DeadPush
  <2>4. RedisOK'
    <3>1. dlq' \in [TypeSet -> Seq(Jobs)] BY <1>0, <1>4, <2>1, BuryOK DEF DeadPush, RedisOK, ListsOK
    <3> QED BY <1>0, <1>4, <2>1, <3>1 DEF DeadPush, RedisOK, StoreOK, ListsOK, SetsOK,
      OnlySettledExpire, store, zsets
  <2>5. HistoryOK' BY <1>0, <1>4, <2>1 DEF DeadPush, HistoryOK, history
  <2> QED BY <2>3, <2>4, <2>5 DEF IInv
<1>5. ASSUME DeadIndex(w) PROVE IInv'
  <2>1. cur[w] \in Jobs BY <1>0, <1>5 DEF DeadIndex, EmptyHanded
  <2>2. "dead_set" \in Pcs \ Sweeping BY DEF Pcs, WorkerPcs, Sweeping
  <2>3. LocalOK' BY <1>0, <1>5, <2>1, <2>2, GotoOK DEF DeadIndex
  <2>4. RedisOK' BY <1>0, <1>5, <2>1 DEF DeadIndex, RedisOK, SetsOK, StoreOK, OnlySettledExpire,
    ListsOK, store, zsets, morgue
  <2>5. HistoryOK' BY <1>0, <1>5, <2>1 DEF DeadIndex, HistoryOK, history
  <2> QED BY <2>3, <2>4, <2>5 DEF IInv
<1>6. ASSUME DeadSet(w) PROVE IInv'
  <2>1. cur[w] \in Jobs BY <1>0, <1>6 DEF DeadSet, EmptyHanded
  <2>2. LocalOK' BY <1>0, <1>6, <2>1, ReturnOK DEF DeadSet
  <2>3. RedisOK' BY <1>0, <1>6, <2>1, SetOK DEF DeadSet, RedisOK, ListsOK, SetsOK, zsets, morgue
  <2>4. HistoryOK' BY <1>0, <1>6, <2>1 DEF DeadSet, HistoryOK, history
  <2> QED BY <2>2, <2>3, <2>4 DEF IInv
<1> QED BY <1>1, <1>2, <1>3, <1>4, <1>5, <1>6

\* recover_processing().
LEMMA RecoverSteps ==
    ASSUME IInv, NEW w \in Workers,
           \/ RecoverScan(w) \/ RecoverGet(w) \/ RecoverSet(w) \/ RecoverPush(w)
           \/ RecoverLrem(w) \/ Restart(w)
    PROVE  IInv'
<1>0. /\ w \in Actors /\ LocalOK /\ RedisOK /\ HistoryOK
      /\ blob \in [Jobs -> Blob] /\ copy[w] \in Blob
      /\ pc[w] \notin EmptyHanded => cur[w] \in Jobs
      /\ pc[w] \in Sweeping => todo[w] # <<>> /\ Next1(w) \in Jobs
      /\ pc[w] = "complete_set" => copy[w].status = "completed"
    BY KnownOf DEF Actors
<1>1. ASSUME RecoverScan(w) PROVE IInv'
  <2>1. "recover_get" \in Pcs \cap EmptyHanded BY DEF Pcs, WorkerPcs, EmptyHanded
  <2>2. LocalOK'
    <3>1. proc[w] \in Seq(Jobs) BY <1>0, <1>1, <2>1 DEF RedisOK, ListsOK
    <3>2. LoopHead # "complete_set" BY DEF LoopHead, AfterPromote
    <3> QED BY <1>0, <1>1, <2>1, <3>1, <3>2, RestIsRest DEF RecoverScan, LocalOK
  <2>3. RedisOK' BY <1>0, <1>1 DEF RecoverScan, RedisOK, StoreOK, ListsOK, SetsOK,
    OnlySettledExpire, redis, store, zsets, morgue
  <2>4. HistoryOK' BY <1>0, <1>1 DEF RecoverScan, HistoryOK, history
  <2> QED BY <2>2, <2>3, <2>4 DEF IInv
<1>2. ASSUME RecoverGet(w) PROVE IInv'
  <2>1. todo[w] # <<>> /\ Next1(w) \in Jobs BY <1>0, <1>2 DEF RecoverGet, Sweeping, Next1
  <2>2. {"recover_lrem", "recover_set"} \subseteq Pcs /\ "recover_get" \in Pcs \cap EmptyHanded
      BY DEF Pcs, WorkerPcs, EmptyHanded
  <2>3. LocalOK'
    <3>1. CASE Missing(Next1(w)) \/ (Finished(Next1(w)) /\ ~Foreign(w, Next1(w)))
        BY <1>0, <1>2, <2>1, <2>2, <3>1, HoldOK, AbsentBlob DEF RecoverGet, Missing, Finished,
          Terminal
    <3>2. CASE ~Missing(Next1(w)) /\ Foreign(w, Next1(w))
        BY <1>0, <1>2, <2>1, <2>2, <3>2, AdvanceOK, RestIsRest DEF RecoverGet
    <3>3. CASE ~Missing(Next1(w)) /\ ~Foreign(w, Next1(w)) /\ ~Finished(Next1(w))
      <4>1. [blob[Next1(w)] EXCEPT !.status = "pending", !.worker = NoWorker] \in Blob
          BY <1>0, <1>2, <2>1, <2>2 DEF Blob, Status
      <4> QED BY <1>0, <1>2, <2>1, <2>2, <3>3, <4>1, HoldOK DEF RecoverGet
    <3> QED BY <3>1, <3>2, <3>3
  <2>4. RedisOK' BY <1>0, <1>2, <2>1 DEF RecoverGet, RedisOK, StoreOK, ListsOK, SetsOK,
    OnlySettledExpire, redis, store, zsets, morgue
  <2>5. HistoryOK' BY <1>0, <1>2, <2>1 DEF RecoverGet, HistoryOK, history
  <2> QED BY <2>3, <2>4, <2>5 DEF IInv
<1>3. ASSUME RecoverSet(w) PROVE IInv'
  <2>1. cur[w] \in Jobs /\ todo[w] # <<>> BY <1>0, <1>3 DEF RecoverSet, EmptyHanded, Sweeping
  <2>2. "recover_push" \in Pcs BY DEF Pcs, WorkerPcs
  <2>3. LocalOK' BY <1>0, <1>3, <2>1, <2>2, GotoOK DEF RecoverSet
  <2>4. RedisOK' BY <1>0, <1>3, <2>1, SetOK DEF RecoverSet, RedisOK, ListsOK, SetsOK, zsets, morgue
  <2>5. HistoryOK' BY <1>0, <1>3, <2>1 DEF RecoverSet, HistoryOK, history
  <2> QED BY <2>3, <2>4, <2>5 DEF IInv
<1>4. ASSUME RecoverPush(w) PROVE IInv'
  <2>1. cur[w] \in Jobs /\ todo[w] # <<>> BY <1>0, <1>4 DEF RecoverPush, EmptyHanded, Sweeping
  <2>2. "recover_lrem" \in Pcs BY DEF Pcs, WorkerPcs
  <2>3. LocalOK' BY <1>0, <1>4, <2>1, <2>2, GotoOK DEF RecoverPush
  <2>4. RedisOK'
    <3>1. queue' \in [TypeSet -> Seq(Jobs)]
        BY <1>0, <1>4, <2>1, EnqueueOK DEF RecoverPush, RedisOK, ListsOK
    <3> QED BY <1>0, <1>4, <2>1, <3>1 DEF RecoverPush, RedisOK, StoreOK, ListsOK, SetsOK,
      OnlySettledExpire, store, zsets, morgue
  <2>5. HistoryOK' BY <1>0, <1>4, <2>1 DEF RecoverPush, HistoryOK, history
  <2> QED BY <2>3, <2>4, <2>5 DEF IInv
<1>5. ASSUME RecoverLrem(w) PROVE IInv'
  <2>1. cur[w] \in Jobs /\ todo[w] # <<>> BY <1>0, <1>5 DEF RecoverLrem, EmptyHanded, Sweeping
  <2>2. "recover_get" \in Pcs \cap EmptyHanded BY DEF Pcs, WorkerPcs, EmptyHanded
  <2>3. LocalOK' BY <1>0, <1>5, <2>1, <2>2, AdvanceOK, RestIsRest DEF RecoverLrem
  <2>4. RedisOK'
    <3>1. LRem(proc[w], cur[w]) \in Seq(Jobs)
        BY <1>0, <1>5, <2>1, LRemList, JobsAssumption DEF RedisOK, ListsOK
    <3>2. ListsOK' BY <1>0, <1>5, <2>1, <3>1 DEF RecoverLrem, RedisOK, ListsOK, morgue
    <3>3. StoreOK' /\ SetsOK' BY <1>0, <1>5, <2>1 DEF RecoverLrem, RedisOK, StoreOK, SetsOK,
      OnlySettledExpire, store, zsets, morgue
    <3> QED BY <3>2, <3>3 DEF RedisOK
  <2>5. HistoryOK' BY <1>0, <1>5, <2>1 DEF RecoverLrem, HistoryOK, history
  <2> QED BY <2>3, <2>4, <2>5 DEF IInv
<1>6. ASSUME Restart(w) PROVE IInv'
  <2>1. "recover" \in (Pcs \cap EmptyHanded) \ Sweeping BY DEF Pcs, WorkerPcs, EmptyHanded, Sweeping
  <2>2. LocalOK' BY <1>0, <1>6, <2>1, GotoOK DEF Restart
  <2>3. RedisOK' BY <1>0, <1>6 DEF Restart, RedisOK, StoreOK, ListsOK, SetsOK, OnlySettledExpire,
    redis, store, zsets, morgue
  <2>4. HistoryOK' BY <1>0, <1>6 DEF Restart, HistoryOK, history
  <2> QED BY <2>2, <2>3, <2>4 DEF IInv
<1> QED BY <1>1, <1>2, <1>3, <1>4, <1>5, <1>6

\* submit().
LEMMA SubmitSteps ==
    ASSUME IInv, NEW c \in Clients,
           Submit(c) \/ SubmitSet(c) \/ SubmitPush(c) \/ SubmitIndex(c)
    PROVE  IInv'
<1>0. /\ c \in Actors /\ LocalOK /\ RedisOK /\ HistoryOK
      /\ blob \in [Jobs -> Blob] /\ copy[c] \in Blob
      /\ pc[c] \notin EmptyHanded => cur[c] \in Jobs
      /\ pc[c] \in Sweeping => todo[c] # <<>> /\ Next1(c) \in Jobs
      /\ pc[c] = "complete_set" => copy[c].status = "completed"
    BY KnownOf DEF Actors
<1>1. ASSUME Submit(c) PROVE IInv'
  <2>1. "submit_set" \in Pcs \ Sweeping BY DEF Pcs, ClientPcs, Sweeping
  <2>2. LocalOK' BY <1>0, <1>1, <2>1, HoldOK, AbsentBlob DEF Submit
  <2>3. RedisOK' BY <1>0, <1>1 DEF Submit, RedisOK, StoreOK, ListsOK, SetsOK, OnlySettledExpire,
    redis, store, zsets, morgue
  <2>4. HistoryOK' BY <1>0, <1>1 DEF Submit, HistoryOK, redis
  <2> QED BY <2>2, <2>3, <2>4 DEF IInv
<1>2. ASSUME SubmitSet(c) PROVE IInv'
  <2>1. cur[c] \in Jobs BY <1>0, <1>2 DEF SubmitSet, EmptyHanded
  <2>2. "submit_push" \in Pcs \ Sweeping BY DEF Pcs, ClientPcs, Sweeping
  <2>3. LocalOK' BY <1>0, <1>2, <2>1, <2>2, GotoOK DEF SubmitSet
  <2>4. RedisOK' BY <1>0, <1>2, <2>1, SetOK DEF SubmitSet, RedisOK, ListsOK, SetsOK, zsets, morgue
  <2>5. HistoryOK' BY <1>0, <1>2, <2>1 DEF SubmitSet, HistoryOK, history
  <2> QED BY <2>3, <2>4, <2>5 DEF IInv
<1>3. ASSUME SubmitPush(c) PROVE IInv'
  <2>1. cur[c] \in Jobs BY <1>0, <1>3 DEF SubmitPush, EmptyHanded
  <2>2. "submit_index" \in Pcs \ Sweeping BY DEF Pcs, ClientPcs, Sweeping
  <2>3. LocalOK' BY <1>0, <1>3, <2>1, <2>2, GotoOK DEF SubmitPush
  <2>4. RedisOK'
    <3>1. queue' \in [TypeSet -> Seq(Jobs)]
        BY <1>0, <1>3, <2>1, EnqueueOK DEF SubmitPush, RedisOK, ListsOK
    <3> QED BY <1>0, <1>3, <2>1, <3>1 DEF SubmitPush, RedisOK, StoreOK, ListsOK, SetsOK,
      OnlySettledExpire, store, zsets, morgue
  <2>5. HistoryOK' BY <1>0, <1>3, <2>1 DEF SubmitPush, HistoryOK, history
  <2> QED BY <2>3, <2>4, <2>5 DEF IInv
<1>4. ASSUME SubmitIndex(c) PROVE IInv'
  <2>1. cur[c] \in Jobs BY <1>0, <1>4 DEF SubmitIndex, EmptyHanded
  <2>2. "submit_index_type" \in Pcs \ Sweeping BY DEF Pcs, ClientPcs, Sweeping
  <2>3. LocalOK' BY <1>0, <1>4, <2>1, <2>2, GotoOK, ReturnOK DEF SubmitIndex
  <2>4. RedisOK'
    <3>1. StoreOK' /\ ListsOK' BY <1>0, <1>4, <2>1 DEF SubmitIndex, RedisOK, StoreOK, ListsOK,
      OnlySettledExpire, store, morgue
    <3>2. index' \in [IndexKinds -> SUBSET Jobs]
        BY <1>0, <1>4, <2>1 DEF SubmitIndex, RedisOK, SetsOK, IndexKinds
    <3>3. SetsOK' BY <1>0, <1>4, <2>1, <3>2 DEF SubmitIndex, RedisOK, SetsOK, zsets, morgue
    <3> QED BY <3>1, <3>3 DEF RedisOK
  <2>5. HistoryOK' BY <1>0, <1>4, <2>1 DEF SubmitIndex, HistoryOK, history
  <2> QED BY <2>3, <2>4, <2>5 DEF IInv
<1> QED BY <1>1, <1>2, <1>3, <1>4

\* cancel().
LEMMA CancelSteps ==
    ASSUME IInv, NEW c \in Clients,
           \/ Cancel(c) \/ CancelSet(c) \/ CancelQueue(c) \/ CancelDelayed(c)
           \/ CancelProc(c) \/ CancelLease(c)
    PROVE  IInv'
<1>0. /\ c \in Actors /\ LocalOK /\ RedisOK /\ HistoryOK
      /\ blob \in [Jobs -> Blob] /\ copy[c] \in Blob
      /\ pc[c] \notin EmptyHanded => cur[c] \in Jobs
      /\ pc[c] \in Sweeping => todo[c] # <<>> /\ Next1(c) \in Jobs
      /\ pc[c] = "complete_set" => copy[c].status = "completed"
    BY KnownOf DEF Actors
<1>1. ASSUME Cancel(c) PROVE IInv'
  <2>1. "cancel_set" \in Pcs \ Sweeping BY DEF Pcs, ClientPcs, Sweeping
  <2>2. LocalOK'
    <3>1. PICK j \in born : Hold(c, "cancel_set", j, blob[j]) BY <1>0, <1>1, <2>1 DEF Cancel
    <3>2. j \in Jobs BY <1>0, <1>1, <2>1, <3>1 DEF HistoryOK
    <3> QED BY <1>0, <1>1, <2>1, <3>1, <3>2, HoldOK
  <2>3. RedisOK' BY <1>0, <1>1 DEF Cancel, RedisOK, StoreOK, ListsOK, SetsOK, OnlySettledExpire,
    redis, store, zsets, morgue
  <2>4. HistoryOK' BY <1>0, <1>1 DEF Cancel, HistoryOK, history
  <2> QED BY <2>2, <2>3, <2>4 DEF IInv
<1>2. ASSUME CancelSet(c) PROVE IInv'
  <2>1. cur[c] \in Jobs BY <1>0, <1>2 DEF CancelSet, EmptyHanded
  <2>2. "cancel_queue" \in Pcs \ Sweeping BY DEF Pcs, ClientPcs, Sweeping
  <2>3. LocalOK' BY <1>0, <1>2, <2>1, <2>2, GotoOK DEF CancelSet
  <2>4. RedisOK'
    <3>1. [copy[c] EXCEPT !.status = "failed"] \in Blob /\ [copy[c] EXCEPT !.status = "failed"].status = "failed"
        BY <1>0, <1>2, <2>1 DEF Blob, Status
    <3>2. StoreOK' BY <1>0, <1>2, <2>1, <3>1, SetExOK DEF CancelSet, RedisOK
    <3> QED BY <1>0, <1>2, <2>1, <3>2 DEF CancelSet, RedisOK, ListsOK, SetsOK, zsets, morgue
  <2>5. HistoryOK' BY <1>0, <1>2, <2>1 DEF CancelSet, HistoryOK, history
  <2> QED BY <2>3, <2>4, <2>5 DEF IInv
<1>3. ASSUME CancelQueue(c) PROVE IInv'
  <2>1. cur[c] \in Jobs BY <1>0, <1>3 DEF CancelQueue, EmptyHanded
  <2>2. "cancel_delayed" \in Pcs \ Sweeping BY DEF Pcs, ClientPcs, Sweeping
  <2>3. LocalOK' BY <1>0, <1>3, <2>1, <2>2, GotoOK DEF CancelQueue
  <2>4. RedisOK'
    <3>1. LRem(queue[TypeOf[cur[c]]], cur[c]) \in Seq(Jobs)
        BY <1>0, <1>3, <2>1, LRemList, JobsAssumption DEF RedisOK, ListsOK
    <3>2. ListsOK' BY <1>0, <1>3, <2>1, <3>1 DEF CancelQueue, RedisOK, ListsOK, morgue
    <3>3. StoreOK' /\ SetsOK' BY <1>0, <1>3, <2>1 DEF CancelQueue, RedisOK, StoreOK, SetsOK,
      OnlySettledExpire, store, zsets, morgue
    <3> QED BY <3>2, <3>3 DEF RedisOK
  <2>5. HistoryOK' BY <1>0, <1>3, <2>1 DEF CancelQueue, HistoryOK, history
  <2> QED BY <2>3, <2>4, <2>5 DEF IInv
<1>4. ASSUME CancelDelayed(c) PROVE IInv'
  <2>1. cur[c] \in Jobs BY <1>0, <1>4 DEF CancelDelayed, EmptyHanded
  <2>2. {"cancel_proc", "cancel_lease"} \subseteq Pcs \ Sweeping BY DEF Pcs, ClientPcs, Sweeping
  <2>3. LocalOK' BY <1>0, <1>4, <2>1, <2>2, GotoOK DEF CancelDelayed
  <2>4. RedisOK' BY <1>0, <1>4, <2>1 DEF CancelDelayed, RedisOK, SetsOK, StoreOK, OnlySettledExpire,
    ListsOK, store, zsets, morgue
  <2>5. HistoryOK' BY <1>0, <1>4, <2>1 DEF CancelDelayed, HistoryOK, history
  <2> QED BY <2>3, <2>4, <2>5 DEF IInv
<1>5. ASSUME CancelProc(c) PROVE IInv'
  <2>1. cur[c] \in Jobs BY <1>0, <1>5 DEF CancelProc, EmptyHanded
  <2>2. "cancel_lease" \in Pcs \ Sweeping BY DEF Pcs, ClientPcs, Sweeping
  <2>3. LocalOK' BY <1>0, <1>5, <2>1, <2>2, GotoOK DEF CancelProc
  <2>4. RedisOK'
    <3>1. proc' \in [Workers -> Seq(Jobs)] BY <1>0, <1>5, <2>1, UntrackOK DEF CancelProc, RedisOK
    <3> QED BY <1>0, <1>5, <2>1, <3>1 DEF CancelProc, RedisOK, StoreOK, ListsOK, SetsOK,
      OnlySettledExpire, store, zsets, morgue
  <2>5. HistoryOK' BY <1>0, <1>5, <2>1 DEF CancelProc, HistoryOK, history
  <2> QED BY <2>3, <2>4, <2>5 DEF IInv
<1>6. ASSUME CancelLease(c) PROVE IInv'
  <2>1. cur[c] \in Jobs BY <1>0, <1>6 DEF CancelLease, EmptyHanded
  <2>2. LocalOK' BY <1>0, <1>6, <2>1, ReturnOK DEF CancelLease
  <2>3. RedisOK'
    <3>1. lease' \in [Jobs -> {"none", "held", "expired"}]
        BY <1>0, <1>6, <2>1, ClearLeaseOK DEF CancelLease, RedisOK, SetsOK
    <3> QED BY <1>0, <1>6, <2>1, <3>1 DEF CancelLease, RedisOK, StoreOK, ListsOK, SetsOK,
      OnlySettledExpire, store, morgue
  <2>4. HistoryOK' BY <1>0, <1>6, <2>1 DEF CancelLease, HistoryOK, history
  <2> QED BY <2>2, <2>3, <2>4 DEF IInv
<1> QED BY <1>1, <1>2, <1>3, <1>4, <1>5, <1>6

\* requeue_from_dlq().
LEMMA RequeueSteps ==
    ASSUME IInv, NEW c \in Clients,
           \/ Requeue(c) \/ RequeueLrem(c) \/ RequeueSrem(c) \/ RequeueSet(c)
           \/ RequeuePush(c)
    PROVE  IInv'
<1>0. /\ c \in Actors /\ LocalOK /\ RedisOK /\ HistoryOK
      /\ blob \in [Jobs -> Blob] /\ copy[c] \in Blob
      /\ pc[c] \notin EmptyHanded => cur[c] \in Jobs
      /\ pc[c] \in Sweeping => todo[c] # <<>> /\ Next1(c) \in Jobs
      /\ pc[c] = "complete_set" => copy[c].status = "completed"
    BY KnownOf DEF Actors
<1>1. ASSUME Requeue(c) PROVE IInv'
  <2>1. "requeue_lrem" \in Pcs \ Sweeping BY DEF Pcs, ClientPcs, Sweeping
  <2>2. LocalOK'
    <3>1. PICK j \in born : Hold(c, "requeue_lrem", j, [blob[j] EXCEPT !.status = "pending", !.retries = 0])
        BY <1>0, <1>1, <2>1 DEF Requeue
    <3>2. j \in Jobs BY <1>0, <1>1, <2>1, <3>1 DEF HistoryOK
    <3>3. [blob[j] EXCEPT !.status = "pending", !.retries = 0] \in Blob
        BY <1>0, <1>1, <2>1, <3>2 DEF Blob, Status
    <3> QED BY <1>0, <1>1, <2>1, <3>1, <3>2, <3>3, HoldOK
  <2>3. RedisOK' BY <1>0, <1>1 DEF Requeue, RedisOK, StoreOK, ListsOK, SetsOK, OnlySettledExpire,
    redis, store, zsets, morgue
  <2>4. HistoryOK' BY <1>0, <1>1 DEF Requeue, HistoryOK, history
  <2> QED BY <2>2, <2>3, <2>4 DEF IInv
<1>2. ASSUME RequeueLrem(c) PROVE IInv'
  <2>1. cur[c] \in Jobs BY <1>0, <1>2 DEF RequeueLrem, EmptyHanded
  <2>2. "requeue_srem" \in Pcs \ Sweeping BY DEF Pcs, ClientPcs, Sweeping
  <2>3. LocalOK' BY <1>0, <1>2, <2>1, <2>2, GotoOK DEF RequeueLrem
  <2>4. RedisOK'
    <3>1. LRem(dlq[TypeOf[cur[c]]], cur[c]) \in Seq(Jobs)
        BY <1>0, <1>2, <2>1, LRemList, JobsAssumption DEF RedisOK, ListsOK
    <3>2. ListsOK' BY <1>0, <1>2, <2>1, <3>1 DEF RequeueLrem, RedisOK, ListsOK, morgue
    <3>3. StoreOK' /\ SetsOK' BY <1>0, <1>2, <2>1 DEF RequeueLrem, RedisOK, StoreOK, SetsOK,
      OnlySettledExpire, store, zsets, morgue
    <3> QED BY <3>2, <3>3 DEF RedisOK
  <2>5. HistoryOK' BY <1>0, <1>2, <2>1 DEF RequeueLrem, HistoryOK, history
  <2> QED BY <2>3, <2>4, <2>5 DEF IInv
<1>3. ASSUME RequeueSrem(c) PROVE IInv'
  <2>1. cur[c] \in Jobs BY <1>0, <1>3 DEF RequeueSrem, EmptyHanded
  <2>2. "requeue_set" \in Pcs \ Sweeping BY DEF Pcs, ClientPcs, Sweeping
  <2>3. LocalOK' BY <1>0, <1>3, <2>1, <2>2, GotoOK DEF RequeueSrem
  <2>4. RedisOK' BY <1>0, <1>3, <2>1 DEF RequeueSrem, RedisOK, SetsOK, StoreOK, OnlySettledExpire,
    ListsOK, store, zsets, morgue
  <2>5. HistoryOK' BY <1>0, <1>3, <2>1 DEF RequeueSrem, HistoryOK, history
  <2> QED BY <2>3, <2>4, <2>5 DEF IInv
<1>4. ASSUME RequeueSet(c) PROVE IInv'
  <2>1. cur[c] \in Jobs BY <1>0, <1>4 DEF RequeueSet, EmptyHanded
  <2>2. "requeue_push" \in Pcs \ Sweeping BY DEF Pcs, ClientPcs, Sweeping
  <2>3. LocalOK' BY <1>0, <1>4, <2>1, <2>2, GotoOK DEF RequeueSet
  <2>4. RedisOK' BY <1>0, <1>4, <2>1, SetOK DEF RequeueSet, RedisOK, ListsOK, SetsOK, zsets, morgue
  <2>5. HistoryOK' BY <1>0, <1>4, <2>1 DEF RequeueSet, HistoryOK, redis
  <2> QED BY <2>3, <2>4, <2>5 DEF IInv
<1>5. ASSUME RequeuePush(c) PROVE IInv'
  <2>1. cur[c] \in Jobs BY <1>0, <1>5 DEF RequeuePush, EmptyHanded
  <2>2. LocalOK' BY <1>0, <1>5, <2>1, ReturnOK DEF RequeuePush
  <2>3. RedisOK'
    <3>1. queue' \in [TypeSet -> Seq(Jobs)]
        BY <1>0, <1>5, <2>1, EnqueueOK DEF RequeuePush, RedisOK, ListsOK
    <3> QED BY <1>0, <1>5, <2>1, <3>1 DEF RequeuePush, RedisOK, StoreOK, ListsOK, SetsOK,
      OnlySettledExpire, store, zsets, morgue
  <2>4. HistoryOK' BY <1>0, <1>5, <2>1 DEF RequeuePush, HistoryOK, history
  <2> QED BY <2>2, <2>3, <2>4 DEF IInv
<1> QED BY <1>1, <1>2, <1>3, <1>4, <1>5

\* list_paged().
LEMMA ListSteps ==
    ASSUME IInv, NEW c \in Clients,
           ListRange(c) \/ ListMget(c) \/ ListHeal(c)
    PROVE  IInv'
<1>0. /\ c \in Actors /\ LocalOK /\ RedisOK /\ HistoryOK
      /\ blob \in [Jobs -> Blob] /\ copy[c] \in Blob
      /\ pc[c] \notin EmptyHanded => cur[c] \in Jobs
      /\ pc[c] \in Sweeping => todo[c] # <<>> /\ Next1(c) \in Jobs
      /\ pc[c] = "complete_set" => copy[c].status = "completed"
    BY KnownOf DEF Actors
<1>1. ASSUME ListRange(c) PROVE IInv'
  <2>1. {"mget_all", "mget_type"} \subseteq Pcs \cap EmptyHanded BY DEF Pcs, ClientPcs, EmptyHanded
  <2>2. LocalOK'
    <3>1. \A k \in IndexKinds : index[k] \subseteq Jobs BY <1>0, <1>1, <2>1 DEF RedisOK, SetsOK
    <3>2. CASE \E X \in SUBSET index["all"] : Scan(c, X, "mget_all", "idle")
        BY <1>0, <1>1, <2>1, <3>1, <3>2, ScanOK, RestIsRest DEF IndexKinds
    <3>3. CASE \E X \in SUBSET index["type"] : Scan(c, X, "mget_type", "idle")
        BY <1>0, <1>1, <2>1, <3>1, <3>3, ScanOK, RestIsRest DEF IndexKinds
    <3> QED BY <1>0, <1>1, <2>1, <3>2, <3>3 DEF ListRange
  <2>3. RedisOK' BY <1>0, <1>1 DEF ListRange, RedisOK, StoreOK, ListsOK, SetsOK, OnlySettledExpire,
    redis, store, zsets, morgue
  <2>4. HistoryOK' BY <1>0, <1>1 DEF ListRange, HistoryOK, history
  <2> QED BY <2>2, <2>3, <2>4 DEF IInv
<1>2. ASSUME ListMget(c) PROVE IInv'
  <2>1. {"heal_all", "heal_type"} \subseteq Pcs \cap EmptyHanded BY DEF Pcs, ClientPcs, EmptyHanded
  <2>2. LocalOK'
    <3> DEFINE stale == {j \in Elements(todo[c]) : Stale(j)}
    <3>1. stale \subseteq Jobs
      <4>1. todo[c] \in Seq(Jobs) BY <1>0, <1>2, <2>1 DEF LocalOK
      <4> QED BY <4>1 DEF Elements
    <3>2. Scan(c, stale, "heal_all", "idle") \/ Scan(c, stale, "heal_type", "idle")
        BY <1>0, <1>2, <2>1 DEF ListMget
    <3> HIDE DEF stale
    <3> QED BY <1>0, <1>2, <2>1, <3>1, <3>2, ScanOK, RestIsRest
  <2>3. RedisOK' BY <1>0, <1>2 DEF ListMget, RedisOK, StoreOK, ListsOK, SetsOK, OnlySettledExpire,
    redis, store, zsets, morgue
  <2>4. HistoryOK' BY <1>0, <1>2 DEF ListMget, HistoryOK, history
  <2> QED BY <2>2, <2>3, <2>4 DEF IInv
<1>3. ASSUME ListHeal(c) PROVE IInv'
  <2>1. todo[c] # <<>> /\ Next1(c) \in Jobs BY <1>0, <1>3 DEF ListHeal, Sweeping, Next1
  <2>2. {"heal_all", "heal_type_all", "heal_type"} \subseteq Pcs \cap EmptyHanded
      BY DEF Pcs, ClientPcs, EmptyHanded
  <2>3. LocalOK' BY <1>0, <1>3, <2>1, <2>2, GotoOK, AdvanceOK, RestIsRest DEF ListHeal
  <2>4. RedisOK'
    <3>1. StoreOK' /\ ListsOK' BY <1>0, <1>3, <2>1 DEF ListHeal, RedisOK, StoreOK, ListsOK,
      OnlySettledExpire, store, morgue
    <3>2. index' \in [IndexKinds -> SUBSET Jobs]
        BY <1>0, <1>3, <2>1 DEF ListHeal, RedisOK, SetsOK, IndexKinds
    <3>3. SetsOK' BY <1>0, <1>3, <2>1, <3>2 DEF ListHeal, RedisOK, SetsOK, zsets, morgue
    <3> QED BY <3>1, <3>3 DEF RedisOK
  <2>5. HistoryOK' BY <1>0, <1>3, <2>1 DEF ListHeal, HistoryOK, history
  <2> QED BY <2>3, <2>4, <2>5 DEF IInv
<1> QED BY <1>1, <1>2, <1>3

-----------------------------------------------------------------------------
(* Crashes, failing commands, the passing of time. *)

\* Whatever command throws, control goes to a place that needs no more than the
\* actor has: its job, and its scan where it is in one.
LEMMA CaughtOK ==
    ASSUME LocalOK, NEW a \in Actors, pc[a] \in Caught, Goto(a, CaughtAt(pc[a]))
    PROVE  LocalOK'
<1> DEFINE From == {"promote_zrem", "promote_get", "promote_push", "reap_zrem"}
<1>1. pc[a] \in From => todo[a] # <<>> BY DEF LocalOK, Sweeping
<1>2. pc[a] \in Caught \ (From \cup {"promote", "reap", "recover"}) => cur[a] \in Jobs
    BY DEF LocalOK, Caught, EmptyHanded
<1>3. CASE pc[a] \in {"promote_zrem", "promote_get", "promote_push"}
  <2>1. CaughtAt(pc[a]) = "promote_restore" BY <1>3 DEF CaughtAt
  <2>2. "promote_restore" \in Pcs \cap EmptyHanded BY DEF Pcs, WorkerPcs, EmptyHanded
  <2> QED BY <1>1, <1>3, <2>1, <2>2, GotoOK
<1>4. CASE pc[a] = "reap_zrem"
  <2>1. CaughtAt(pc[a]) = "reap_restore" BY <1>4 DEF CaughtAt
  <2>2. "reap_restore" \in Pcs \cap EmptyHanded BY DEF Pcs, WorkerPcs, EmptyHanded
  <2> QED BY <1>1, <1>4, <2>1, <2>2, GotoOK
<1>5. CASE pc[a] \in {"promote", "reap", "recover"}
  <2>1. CaughtAt(pc[a]) \in {AfterPromote, "pick", LoopHead} BY <1>5 DEF CaughtAt
  <2>2. "complete_set" \notin {AfterPromote, "pick", LoopHead} BY DEF AfterPromote, LoopHead
  <2> QED BY <2>1, <2>2, GotoOK, RestIsRest
<1>6. CASE pc[a] \in Caught \ (From \cup {"promote", "reap", "recover"})
  <2>1. CaughtAt(pc[a]) \in
            {"pick_untake", "trace_get", "run", "fail_get", "complete_unlease",
             "fail_unlease", "fail_set", "drop_unlease", "dead_unlease", "dead_push"}
      BY <1>6 DEF CaughtAt, Caught
  <2>2. {"pick_untake", "trace_get", "run", "fail_get", "complete_unlease",
         "fail_unlease", "fail_set", "drop_unlease", "dead_unlease", "dead_push"}
            \subseteq (Pcs \ Sweeping) \ {"complete_set"}
      BY DEF Pcs, WorkerPcs, Sweeping
  <2> QED BY <1>2, <1>6, <2>1, <2>2, GotoOK
<1> QED BY <1>3, <1>4, <1>5, <1>6

\* A command that fails writes nothing: only the actor's place changes.
LEMMA ThrowOK ==
    ASSUME IInv, NEW a \in Actors, Throw(a)
    PROVE  IInv'
<1>1. LocalOK BY DEF IInv
<1>2. pc[a] \in Sweeping => todo[a] # <<>> BY <1>1 DEF LocalOK
<1>3. LocalOK'
  <2>1. CASE pc[a] \in Caught /\ Goto(a, CaughtAt(pc[a])) BY <1>1, <2>1, CaughtOK
  <2>2. CASE pc[a] \in ThrownFromFail /\ FailThrows(a) BY <1>1, <2>2, FailThrowsOK
  <2>3. CASE pc[a] \in EndsIteration /\ Return(a) BY <1>1, <2>3, ReturnOK
  <2>4. CASE pc[a] = "promote_restore" /\ Advance(a, "promote_zrem", AfterPromote)
    <3>1. pc[a] \in Sweeping /\ "promote_zrem" \in Pcs \cap EmptyHanded
        BY <2>4 DEF Pcs, WorkerPcs, EmptyHanded, Sweeping
    <3> QED BY <1>1, <1>2, <2>4, <3>1, AdvanceOK, RestIsRest
  <2>5. CASE pc[a] = "reap_restore" /\ Advance(a, "reap_zrem", "pick")
    <3>1. pc[a] \in Sweeping /\ "reap_zrem" \in Pcs \cap EmptyHanded
        BY <2>5 DEF Pcs, WorkerPcs, EmptyHanded, Sweeping
    <3> QED BY <1>1, <1>2, <2>5, <3>1, AdvanceOK, RestIsRest
  <2>6. CASE /\ pc[a] \in {"recover_get", "recover_set", "recover_push", "recover_lrem"}
             /\ Advance(a, "recover_get", LoopHead)
    <3>1. pc[a] \in Sweeping /\ "recover_get" \in Pcs \cap EmptyHanded
        BY <2>6 DEF Pcs, WorkerPcs, EmptyHanded, Sweeping
    <3> QED BY <1>1, <1>2, <2>6, <3>1, AdvanceOK, RestIsRest
  <2>7. CASE pc[a] = "heal_all" /\ Advance(a, "heal_all", "idle")
    <3>1. pc[a] \in Sweeping /\ "heal_all" \in Pcs \cap EmptyHanded
        BY <2>7 DEF Pcs, ClientPcs, EmptyHanded, Sweeping
    <3> QED BY <1>1, <1>2, <2>7, <3>1, AdvanceOK, RestIsRest
  <2>8. CASE pc[a] \in {"heal_type", "heal_type_all"} /\ Advance(a, "heal_type", "idle")
    <3>1. pc[a] \in Sweeping /\ "heal_type" \in Pcs \cap EmptyHanded
        BY <2>8 DEF Pcs, ClientPcs, EmptyHanded, Sweeping
    <3> QED BY <1>1, <1>2, <2>8, <3>1, AdvanceOK, RestIsRest
  <2>9. CASE /\ pc' = [pc EXCEPT ![a] = "idle"]
             /\ cur' = [cur EXCEPT ![a] = NoJob]
             /\ copy' = [copy EXCEPT ![a] = Absent]
             /\ todo' = [todo EXCEPT ![a] = <<>>]
      BY <1>1, <2>9, ForgetOK
  <2> QED BY <2>1, <2>2, <2>3, <2>4, <2>5, <2>6, <2>7, <2>8, <2>9 DEF Throw
<1>4. RedisOK' BY DEF Throw, IInv, RedisOK, StoreOK, ListsOK, SetsOK, OnlySettledExpire, redis,
  store, zsets, morgue
<1>5. HistoryOK' BY SettingsAssumption DEF Throw, IInv, HistoryOK
<1> QED BY <1>3, <1>4, <1>5 DEF IInv

LEMMA CrashOK ==
    ASSUME IInv, NEW a \in Actors, Crash(a)
    PROVE  IInv'
<1>1. LocalOK' BY ForgetOK DEF Crash, IInv
<1>2. RedisOK' BY DEF Crash, IInv, RedisOK, StoreOK, ListsOK, SetsOK, OnlySettledExpire, redis,
  store, zsets, morgue
<1>3. HistoryOK' BY SettingsAssumption DEF Crash, IInv, HistoryOK
<1> QED BY <1>1, <1>2, <1>3 DEF IInv

LEMMA TimeOK ==
    ASSUME IInv, NEW j \in Jobs, BackoffElapses(j) \/ LeaseExpires(j) \/ Expire(j)
    PROVE  IInv'
<1>1. ASSUME BackoffElapses(j) PROVE IInv' BY <1>1 DEF BackoffElapses, IInv, LocalOK, local,
    RedisOK, StoreOK, ListsOK, SetsOK, OnlySettledExpire, store, morgue, HistoryOK, history
<1>2. ASSUME LeaseExpires(j) PROVE IInv'
  <2>1. LocalOK' /\ RedisOK' BY <1>2 DEF LeaseExpires, IInv, LocalOK, local, RedisOK, StoreOK,
      ListsOK, SetsOK, OnlySettledExpire, store, morgue
  <2>2. HistoryOK' BY <1>2, SettingsAssumption DEF LeaseExpires, IInv, HistoryOK
  <2> QED BY <2>1, <2>2 DEF IInv
<1>3. ASSUME Expire(j) PROVE IInv'
  <2>1. LocalOK' /\ HistoryOK' BY <1>3 DEF Expire, IInv, LocalOK, local, HistoryOK, history
  <2>2. StoreOK' BY <1>3, AbsentBlob DEF Expire, IInv, RedisOK, StoreOK, OnlySettledExpire
  <2>3. ListsOK' /\ SetsOK' BY <1>3 DEF Expire, IInv, RedisOK, ListsOK, SetsOK, zsets, morgue
  <2> QED BY <2>1, <2>2, <2>3 DEF IInv, RedisOK
<1> QED BY <1>1, <1>2, <1>3

-----------------------------------------------------------------------------
(* The invariant. *)

LEMMA InitOK == Init => IInv
<1> SUFFICES ASSUME Init PROVE IInv OBVIOUS
<1>1. LocalOK
  <2>1. "recover" \in (Pcs \cap EmptyHanded) \ Sweeping /\ "idle" \in (Pcs \cap EmptyHanded) \ Sweeping
      BY DEF Pcs, WorkerPcs, ClientPcs, EmptyHanded, Sweeping
  <2>2. <<>> \in Seq(Jobs) OBVIOUS
  <2> QED BY <2>1, <2>2, AbsentBlob DEF Init, LocalOK
<1>2. RedisOK BY AbsentBlob DEF Init, RedisOK, StoreOK, ListsOK, SetsOK, OnlySettledExpire
<1>3. HistoryOK BY SettingsAssumption DEF Init, HistoryOK
<1> QED BY <1>1, <1>2, <1>3 DEF IInv

LEMMA NextOK == IInv /\ [Next]_vars => IInv'
<1> SUFFICES ASSUME IInv, [Next]_vars PROVE IInv' OBVIOUS
<1>1. ASSUME NEW w \in Workers, WorkerStep(w) \/ Restart(w) PROVE IInv'
    BY <1>1, SweepSteps, PickSteps, RunSteps, FailSteps, DeadSteps, RecoverSteps DEF WorkerStep
<1>2. ASSUME NEW c \in Clients, ClientCall(c) \/ ClientStep(c) PROVE IInv'
    BY <1>2, SubmitSteps, CancelSteps, RequeueSteps, ListSteps DEF ClientCall, ClientStep
<1>3. ASSUME NEW a \in Actors, Crash(a) \/ Throw(a) PROVE IInv' BY <1>3, CrashOK, ThrowOK
<1>4. ASSUME NEW j \in Jobs, BackoffElapses(j) \/ LeaseExpires(j) \/ Expire(j) PROVE IInv'
    BY <1>4, TimeOK
<1>5. ASSUME UNCHANGED vars PROVE IInv' BY <1>5 DEF vars, redis, store, zsets, morgue, local,
    history, IInv, LocalOK, RedisOK, StoreOK, ListsOK, SetsOK, OnlySettledExpire, HistoryOK
<1> QED BY <1>1, <1>2, <1>3, <1>4, <1>5 DEF Next

LEMMA Inductive == Spec => []IInv
BY InitOK, NextOK, PTL DEF Spec

\* Every variable always holds a value of the shape the code stores there: no
\* list ever names anything but jobs, no blob has a status outside the
\* vocabulary of src/src/jobs/Job.hpp, and no sweep looks at the head of an empty reply.
THEOREM TypeCorrectness == Spec => []TypeOK
<1>1. IInv => TypeOK BY DEF IInv, LocalOK, RedisOK, StoreOK, ListsOK, SetsOK, HistoryOK, TypeOK, Pcs
<1> QED BY <1>1, Inductive, PTL

\* Whatever crashes, fails, is cancelled or is listed: a blob with a time to
\* live is completed or cancelled, so no job still to be run and no job of the
\* dead-letter queue ever expires (src/src/jobs/Jobs.hpp 298, 370-375, 411-413, 795).
THEOREM OnlySettledJobsExpire == Spec => []OnlySettledExpire
<1>1. IInv => OnlySettledExpire BY DEF IInv, RedisOK, StoreOK
<1> QED BY <1>1, Inductive, PTL

-----------------------------------------------------------------------------
(* Who may move a job on, and that the books stay in order.  In the          *)
(* deployments queue_crash is one of, for any number of jobs, types, workers *)
(* and clients, a job is in one place: in one queue, once; parked; in the    *)
(* hands of one actor, who alone writes its blob; or in the list of a worker *)
(* that died and will recover it (OneOwner).  From that the ledger: a live   *)
(* job has a place, a dead one its entries in the dead letter queue, every   *)
(* job its index entries, every run its retry.                               *)

(* Lists: what a command leaves in them, and how long a list without        *)
(* repetitions is.                                                          *)

LEMMA PushElements ==
    ASSUME NEW S, NEW list \in Seq(S), NEW x \in S
    PROVE  /\ LPush(list, x) \in Seq(S)
           /\ Elements(LPush(list, x)) = Elements(list) \cup {x}
           /\ x \notin Elements(list) /\ NoRepeats(list) => NoRepeats(LPush(list, x))
<1> DEFINE new == LPush(list, x)
<1>1. /\ new \in Seq(S) /\ Len(new) = Len(list) + 1 /\ Len(list) \in Nat
      /\ DOMAIN list = 1..Len(list) /\ DOMAIN new = 1..Len(new)
      /\ new[1] = x /\ \A i \in 2..Len(new) : new[i] = list[i - 1]
  BY DEF LPush
<1>2. \A i \in DOMAIN list : i + 1 \in DOMAIN new /\ new[i + 1] = list[i] BY <1>1
<1> HIDE DEF new
<1>3. Elements(new) = Elements(list) \cup {x}
  <2>1. \A i \in DOMAIN new : new[i] \in Elements(list) \cup {x}
    <3> SUFFICES ASSUME NEW i \in DOMAIN new, i # 1 PROVE new[i] \in Elements(list) BY <1>1
    <3>1. i \in 2..Len(new) /\ i - 1 \in DOMAIN list BY <1>1
    <3> QED BY <1>1, <3>1 DEF Elements
  <2>2. x \in Elements(new) /\ \A i \in DOMAIN list : list[i] \in Elements(new)
    BY <1>1, <1>2 DEF Elements
  <2> QED BY <2>1, <2>2 DEF Elements
<1>4. ASSUME x \notin Elements(list), NoRepeats(list) PROVE NoRepeats(new)
  <2> SUFFICES ASSUME NEW i \in DOMAIN new, NEW k \in DOMAIN new, new[i] = new[k] PROVE i = k
    BY DEF NoRepeats
  <2>1. \A m \in DOMAIN new : m # 1 => m - 1 \in DOMAIN list /\ new[m] = list[m - 1] /\ new[m] # x
    <3> SUFFICES ASSUME NEW m \in DOMAIN new, m # 1
                 PROVE  m - 1 \in DOMAIN list /\ new[m] = list[m - 1] /\ new[m] # x
      OBVIOUS
    <3>1. m \in 2..Len(new) /\ m - 1 \in DOMAIN list BY <1>1
    <3> QED BY <1>1, <1>4, <3>1 DEF Elements
  <2>2. CASE i = 1 \/ k = 1 BY <1>1, <2>1, <2>2
  <2>3. CASE i # 1 /\ k # 1
    <3>1. i - 1 = k - 1 BY <1>4, <2>1, <2>3 DEF NoRepeats
    <3> QED BY <1>1, <3>1
  <2> QED BY <2>2, <2>3
<1> QED BY <1>1, <1>3, <1>4 DEF new

LEMMA PopElements ==
    ASSUME NEW S, NEW list \in Seq(S), list # <<>>, NoRepeats(list)
    PROVE  /\ Oldest(list) \in Elements(list)
           /\ Elements(Older(list)) = Elements(list) \ {Oldest(list)}
           /\ NoRepeats(Older(list))
<1> DEFINE n == Len(list)
<1>1. /\ n \in Nat \ {0} /\ DOMAIN list = 1..n /\ Oldest(list) = list[n]
      /\ DOMAIN Older(list) = 1..(n - 1) /\ \A i \in 1..(n - 1) : Older(list)[i] = list[i]
  BY DEF Oldest, Older
<1> HIDE DEF n
<1>2. \A i \in 1..(n - 1) : i \in DOMAIN list /\ i # n BY <1>1
<1>3. n \in DOMAIN list BY <1>1
<1>4. Elements(Older(list)) = Elements(list) \ {Oldest(list)}
  <2>1. \A i \in 1..(n - 1) : list[i] # list[n] BY <1>2, <1>3 DEF NoRepeats
  <2>2. \A i \in DOMAIN list : i # n => i \in 1..(n - 1) BY <1>1
  <2> QED BY <1>1, <1>2, <2>1, <2>2 DEF Elements
<1>5. NoRepeats(Older(list)) BY <1>1, <1>2 DEF NoRepeats
<1> QED BY <1>1, <1>3, <1>4, <1>5 DEF Elements

\* LREM keeps every other element.
LEMMA LRemElements ==
    ASSUME NEW S, NEW list \in Seq(S), NEW x
    PROVE  Elements(LRem(list, x)) = Elements(list) \ {x}
<1> DEFINE K == Kept(list, x)
           U(i) == KeptUpTo(list, x, i)
           N == Cardinality(K)
           At(n) == CHOOSE i \in K : Cardinality(U(i)) = n
<1>0. Elements(LRem(list, x)) \subseteq Elements(list) \ {x} BY LRemList
<1> SUFFICES ASSUME NEW k \in K PROVE list[k] \in Elements(LRem(list, x)) BY <1>0 DEF Kept, Elements
<1>1. /\ IsFiniteSet(K) /\ N \in Nat /\ K \subseteq Nat /\ K \subseteq DOMAIN list
      /\ \A i \in K : U(i) \in SUBSET K /\ i \in U(i)
  <2>1. K \subseteq Nat /\ K \subseteq DOMAIN list BY DEF Kept
  <2>2. IsFiniteSet(K) BY KeptGrows
  <2>3. \A i \in K : U(i) \in SUBSET K /\ i \in U(i) BY <2>1 DEF KeptUpTo
  <2> HIDE DEF K, U
  <2> QED BY <2>1, <2>2, <2>3, FS_CardinalityType DEF N
<1>2. \A i \in K : IsFiniteSet(U(i)) /\ Cardinality(U(i)) \in Nat /\ Cardinality(U(i)) <= N
  BY <1>1, FS_Subset, FS_CardinalityType
<1>3. ASSUME NEW i \in K, NEW m \in K, i < m PROVE Cardinality(U(i)) # Cardinality(U(m))
  <2>1. U(i) \subseteq U(m) /\ m \notin U(i) /\ m \in U(m) BY <1>1, <1>3 DEF KeptUpTo
  <2> HIDE DEF U, K
  <2> QED BY <1>1, <1>2, <2>1, FS_Subset
<1>4. Cardinality(U(k)) \in 1..N
  <2>1. U(k) # {} BY <1>1
  <2>2. Cardinality(U(k)) # 0 BY <1>2, <2>1, FS_EmptySet
  <2> HIDE DEF U, N
  <2> QED BY <1>1, <1>2, <2>2
<1>5. At(Cardinality(U(k))) = k
  <2>1. PICK i \in K : i = At(Cardinality(U(k))) /\ Cardinality(U(i)) = Cardinality(U(k)) OBVIOUS
  <2>2. i \in Nat /\ k \in Nat BY <1>1
  <2>3. ~(i < k) /\ ~(k < i) BY <1>3, <2>1
  <2> HIDE DEF At
  <2> QED BY <2>1, <2>2, <2>3
<1>6. /\ LRem(list, x)[Cardinality(U(k))] = list[k]
      /\ Cardinality(U(k)) \in DOMAIN LRem(list, x)
  BY <1>4, <1>5 DEF LRem
<1> QED BY <1>6 DEF Elements

\* A list of one job, from which LREM takes it.
LEMMA OneElement ==
    ASSUME NEW x \in Jobs
    PROVE  /\ <<x>> \in Seq(Jobs) /\ Len(<<x>>) = 1 /\ <<x>> # <<>> /\ Elements(<<x>>) = {x}
           /\ LRem(<<x>>, x) = <<>> /\ Elements(<<>>) = {}
<1>1. <<x>> \in Seq(Jobs) /\ Len(<<x>>) = 1 /\ <<x>> # <<>> /\ Elements(<<x>>) = {x} BY DEF Elements
<1>2. Elements(<<>>) = {} BY DEF Elements
<1>3. LRem(<<x>>, x) \in Seq(Jobs) /\ Elements(LRem(<<x>>, x)) = {} BY <1>1, LRemList, LRemElements
<1>4. LRem(<<x>>, x) = <<>>
  <2>1. \A list \in Seq(Jobs) : list # <<>> => list[1] \in Elements(list) BY DEF Elements
  <2> QED BY <1>3, <2>1
<1> QED BY <1>1, <1>2, <1>4

-----------------------------------------------------------------------------
(* How a step of an actor disturbs the jobs. *)

LEMMA PlacesApart ==
    /\ OwnerPcs \cap EmptyHanded = {} /\ OwnerPcs \cap Sparing = {}
    /\ Leasing \subseteq OwnerPcs /\ Tracking \subseteq OwnerPcs
    /\ HasRun \subseteq OwnerPcs /\ "submit_set" \in OwnerPcs
    /\ Sparing \cap ClientPcs = {} /\ Sparing \subseteq EmptyHanded
  BY DEF OwnerPcs, Moving, Working, HasRun, Done, Raising, EmptyHanded, Sparing, Leasing, Tracking,
    ClientPcs

LEMMA ActorsApart ==
    ASSUME NEW a \in Actors
    PROVE  /\ a \in Workers <=> a \notin Clients
           /\ a \in Workers \/ a \in Clients
           /\ NoWorker \notin Workers /\ NoJob \notin Jobs
  BY ActorsAssumption, JobsAssumption DEF Actors

LEMMA MovesOK ==
    ASSUME IInv, NEW a \in Actors, NEW l, NEW j, NEW b, NEW s, Moves(a, l, j, b, s)
    PROVE  /\ pc'[a] = l /\ cur'[a] = j /\ copy'[a] = b /\ todo'[a] = s
           /\ \A c \in Actors \ {a} : /\ pc'[c] = pc[c] /\ cur'[c] = cur[c]
                                      /\ copy'[c] = copy[c] /\ todo'[c] = todo[c]
  BY DEF IInv, LocalOK, Moves

LEMMA GotoMoves ==
    ASSUME IInv, NEW a \in Actors, NEW l, Goto(a, l)
    PROVE  Moves(a, l, cur[a], copy[a], todo[a])
  BY DEF Goto, Moves, IInv, LocalOK

LEMMA HoldMoves ==
    ASSUME IInv, NEW a \in Actors, NEW l, NEW j, NEW b, Hold(a, l, j, b)
    PROVE  Moves(a, l, j, b, todo[a])
  BY DEF Hold, Moves, IInv, LocalOK

LEMMA ScanMoves ==
    ASSUME IInv, NEW a \in Actors, NEW S, NEW first, NEW done, Scan(a, S, first, done)
    PROVE  \E s \in Orders(S) :
               Moves(a, IF s = <<>> THEN done ELSE first, cur[a], copy[a], s)
  BY DEF Scan, Moves, IInv, LocalOK

LEMMA AdvanceMoves ==
    ASSUME IInv, NEW a \in Actors, NEW first, NEW done, Advance(a, first, done)
    PROVE  Moves(a, IF Len(todo[a]) > 1 THEN first ELSE done, NoJob, Absent, Tail(todo[a]))
  BY DEF Advance, Moves

\* Under these deployments no sweep of leases is under way when a call returns.
LEMMA ReturnMoves ==
    ASSUME IInv, NEW a \in Actors, a \in Workers => todo[a] = <<>>, Return(a)
    PROVE  Moves(a, Rest(a), NoJob, Absent, todo[a])
  BY HoldMoves DEF Return, Reaping

\* Who owns a job is its only owner and knows its blob.
LEMMA OwnerFacts ==
    ASSUME IInv, OneOwner, NEW a \in Actors, pc[a] \in OwnerPcs, NEW j, j = cur[a]
    PROVE  /\ j \in Jobs /\ j \in born /\ blob[j] \in Blob /\ copy[a] \in Blob
           /\ \A c \in Actors \ {a} : ~Owns(c, j)
           /\ ~Queued(j) /\ delayed[j] = "none" /\ blob[j].status # "failed"
           /\ BlobKnown(a, j) /\ CopyKnown(a, j)
           /\ lease[j] = "none" \/ (lease[j] = "held" /\ pc[a] \in Leasing /\ Visibility)
<1>1. j \in Jobs /\ blob[j] \in Blob /\ copy[a] \in Blob
  BY PlacesApart DEF IInv, LocalOK, RedisOK, StoreOK
<1>2. Owns(a, j) BY DEF Owns
<1>3. Owned(j) /\ Waits(j) BY <1>1 DEF OneOwner, Single
<1>4. (\A c \in Actors \ {a} : ~Owns(c, j)) /\ OwnerKnows(a, j) BY <1>2, <1>3 DEF Owned
<1>5. lease[j] = "none" \/ (lease[j] = "held" /\ pc[a] \in Leasing /\ Visibility)
  BY <1>3, <1>4, PlacesApart DEF Waits, Owns
<1> QED BY <1>1, <1>4, <1>5 DEF OwnerKnows

\* A job the step says nothing about, or that its actor does not own.
LEMMA Bystander ==
    ASSUME IInv, OneOwner, NEW a \in Actors, NEW i \in Jobs,
           NEW l, NEW y, NEW b, NEW s, Moves(a, l, y, b, s),
           Same(i), cur[a] = i => pc[a] \notin OwnerPcs,
           y = i => l \notin OwnerPcs /\ cur[a] = i,
           \A w \in Workers : Spare(w, i)' => Spare(w, i)
    PROVE  Single(i)'
<1>0. Owned(i) /\ Waits(i) /\ Unborn(i) BY DEF OneOwner, Single
<1>1. /\ pc'[a] = l /\ cur'[a] = y
      /\ \A c \in Actors \ {a} : pc'[c] = pc[c] /\ cur'[c] = cur[c] /\ copy'[c] = copy[c]
  BY MovesOK
<1>8. \A c \in Actors : Spare(c, i) => cur[c] # i
  BY PlacesApart, ActorsApart DEF Spare, OneOwner, PlacesOK, ActorOK
<1>9. \A c \in Actors : Spare(c, i)' => Spare(c, i) BY DEF Spare
<1>2. \A c \in Actors : Owns(c, i)' => Owns(c, i) /\ (cur'[c] = i <=> cur[c] = i)
  <2> SUFFICES ASSUME NEW c \in Actors, Owns(c, i)'
               PROVE  Owns(c, i) /\ (cur'[c] = i <=> cur[c] = i)
    OBVIOUS
  <2>1. CASE cur'[c] = i /\ pc'[c] \in OwnerPcs BY <1>1, <2>1 DEF Owns
  <2>2. CASE Spare(c, i)' BY <1>1, <1>8, <1>9, <2>2 DEF Owns
  <2> QED BY <2>1, <2>2 DEF Owns
<1>3. \A c \in Actors : Owns(c, i)' /\ cur'[c] = i => c # a /\ cur[c] = i
  <2> SUFFICES ASSUME NEW c \in Actors, Owns(c, i)', cur'[c] = i PROVE c # a /\ cur[c] = i OBVIOUS
  <2>1. ~Spare(c, i)' BY <1>2, <1>8, <1>9
  <2>2. pc'[c] \in OwnerPcs BY <2>1 DEF Owns
  <2> QED BY <1>1, <1>2, <2>2
<1>4. \A c \in Actors : Owns(c, i)' => OwnerKnows(c, i)'
  <2> SUFFICES ASSUME NEW c \in Actors, Owns(c, i)' PROVE OwnerKnows(c, i)' OBVIOUS
  <2>1. OwnerKnows(c, i) /\ (cur'[c] = i <=> cur[c] = i) /\ (cur'[c] = i => c # a)
    BY <1>0, <1>2, <1>3 DEF Owned
  <2> QED BY <1>1, <2>1 DEF OwnerKnows, Same, BlobKnown, CopyKnown
<1>5. Owned(i)' BY <1>0, <1>2, <1>4 DEF Owned
<1>6. Waits(i)'
  <2>1. ASSUME lease'[i] # "none"
        PROVE  /\ lease'[i] = "held" /\ Visibility
               /\ \E c \in Actors : cur'[c] = i /\ pc'[c] \in Leasing
    <3>1. PICK c \in Actors : lease[i] = "held" /\ Visibility /\ cur[c] = i /\ pc[c] \in Leasing
      BY <1>0, <2>1 DEF Waits, Same
    <3> QED BY <1>1, <3>1, PlacesApart DEF Same
  <2> QED BY <1>0, <2>1 DEF Waits, Same
<1>7. Unborn(i)'
  <2>1. ~Missing(i)' => i \in born' BY <1>0 DEF Unborn, Same, Missing
  <2>2. i \notin born' => runs'[i] = 0 /\ \A c \in Actors : cur'[c] # i
    BY <1>0, <1>1 DEF Unborn, Same
  <2>3. ASSUME NEW c \in Actors, cur'[c] = i, pc'[c] = "submit_set"
        PROVE  runs'[i] = 0 /\ \A d \in Actors : cur'[d] = i => d = c
    <3>1. c # a BY <1>1, <2>3, PlacesApart
    <3>2. cur[c] = i /\ pc[c] = "submit_set" BY <1>1, <2>3, <3>1
    <3> QED BY <1>0, <1>1, <3>2 DEF Unborn, Same
  <2> QED BY <2>1, <2>2, <2>3 DEF Unborn
<1> QED BY <1>5, <1>6, <1>7 DEF Single

LEMMA PlacesStep ==
    ASSUME IInv, PlacesOK, NEW a \in Actors, NEW l, NEW y, NEW b, NEW s, Moves(a, l, y, b, s),
           l \in (IF a \in Workers THEN UsedWorkerPcs ELSE UsedClientPcs),
           l \in EmptyHanded => y = NoJob, l = "pick_lease" => Visibility,
           \A w \in Workers \ {a} : proc'[w] = proc[w], crashes' = 0 => crashes = 0,
           a \in Workers => WorkerOK(a)'
    PROVE  PlacesOK'
<1>1. /\ pc'[a] = l /\ cur'[a] = y
      /\ \A c \in Actors \ {a} : pc'[c] = pc[c] /\ cur'[c] = cur[c] /\ todo'[c] = todo[c]
  BY MovesOK
<1>2. \A c \in Actors : ActorOK(c)' BY <1>1 DEF PlacesOK, ActorOK
<1>3. ASSUME NEW w \in Workers PROVE WorkerOK(w)'
  <2>1. CASE w = a BY <2>1
  <2>2. CASE w # a
    <3>1. w \in Actors /\ WorkerOK(w) BY DEF PlacesOK, Actors
    <3> QED BY <1>1, <2>2, <3>1 DEF WorkerOK
  <2> QED BY <2>1, <2>2
<1> QED BY <1>2, <1>3 DEF PlacesOK

\* No worker comes to spare a job by such a step.
LEMMA SpareOthers ==
    ASSUME IInv, NEW a \in Actors, NEW l, NEW y, NEW b, NEW s, Moves(a, l, y, b, s), NEW i,
           a \in Workers => l \notin Sparing \/ i \notin Elements(proc'[a])
                            \/ (pc[a] \in Sparing /\ proc'[a] = proc[a]),
           \A w \in Workers \ {a} : proc'[w] = proc[w]
    PROVE  \A w \in Workers : Spare(w, i)' => Spare(w, i)
<1> SUFFICES ASSUME NEW w \in Workers, Spare(w, i)' PROVE Spare(w, i) OBVIOUS
<1>1. pc'[a] = l /\ \A c \in Actors \ {a} : pc'[c] = pc[c] BY MovesOK
<1>2. CASE w = a BY <1>1, <1>2 DEF Spare
<1>3. CASE w # a BY <1>1, <1>3 DEF Spare, Actors
<1> QED BY <1>2, <1>3

\* The owner of a job goes on with it.
LEMMA Keep ==
    ASSUME IInv, OneOwner, NEW a \in Actors, pc[a] \in OwnerPcs, NEW j, j = cur[a],
           NEW l, l \in OwnerPcs, l # "submit_set", NEW b, NEW s, Moves(a, l, j, b, s),
           \A i \in Jobs \ {j} : blob'[i] = blob[i] /\ runs'[i] = runs[i] /\ lease'[i] = lease[i],
           UNCHANGED <<queue, delayed, born>>,
           lease'[j] = "none" \/ (lease'[j] = "held" /\ l \in Leasing /\ Visibility),
           \A w \in Workers \ {a} : proc'[w] = proc[w],
           blob'[j].status # "failed", BlobKnown(a, j)', CopyKnown(a, j)'
    PROVE  \A i \in Jobs : Single(i)'
<1>0. /\ j \in Jobs /\ j \in born /\ ~Queued(j) /\ delayed[j] = "none"
      /\ \A c \in Actors \ {a} : ~Owns(c, j)
  BY OwnerFacts
<1>1. l \notin Sparing /\ pc'[a] = l /\ cur'[a] = j BY PlacesApart, MovesOK
<1>2. \A c \in Actors \ {a} : pc'[c] = pc[c] /\ cur'[c] = cur[c] BY MovesOK
<1>3. \A i \in Jobs : \A w \in Workers : Spare(w, i)' => Spare(w, i) BY <1>1, SpareOthers
<1>4. ASSUME NEW i \in Jobs \ {j} PROVE Single(i)'
  <2>1. Same(i) BY DEF Same, Queued
  <2> QED BY <1>3, <2>1, Bystander
<1>5. Owned(j)'
  <2>1. \A c \in Actors \ {a} : ~Owns(c, j)'
    <3> SUFFICES ASSUME NEW c \in Actors \ {a}, Owns(c, j)' PROVE FALSE OBVIOUS
    <3>1. CASE Spare(c, j)' BY <1>0, <1>3, <3>1 DEF Owns, Spare
    <3>2. CASE cur'[c] = j /\ pc'[c] \in OwnerPcs BY <1>0, <1>2, <3>2 DEF Owns
    <3> QED BY <3>1, <3>2 DEF Owns
  <2>2. OwnerKnows(a, j)' BY <1>0, <1>1 DEF OwnerKnows, Queued
  <2> QED BY <2>1, <2>2 DEF Owned
<1>6. Waits(j)' BY <1>0, <1>1 DEF Waits, Queued
<1>7. Unborn(j)'
  <2>1. \A c \in Actors : ~(cur'[c] = j /\ pc'[c] = "submit_set")
    <3> SUFFICES ASSUME NEW c \in Actors, cur'[c] = j, pc'[c] = "submit_set" PROVE FALSE OBVIOUS
    <3>1. c # a BY <1>1
    <3> QED BY <1>0, <1>2, <3>1, PlacesApart DEF Owns
  <2> QED BY <1>0, <2>1 DEF Unborn
<1> QED BY <1>4, <1>5, <1>6, <1>7 DEF Single

\* The owner of a job lets it go: somewhere it waits, or for good.
LEMMA Release ==
    ASSUME IInv, OneOwner, NEW a \in Actors, pc[a] \in OwnerPcs, NEW j, j = cur[a],
           NEW l, l \notin Sparing, NEW y \in {j, NoJob}, y = j => l \notin OwnerPcs,
           NEW b, NEW s, Moves(a, l, y, b, s),
           \A i \in Jobs \ {j} : Same(i), born' = born,
           \A w \in Workers \ {a} : proc'[w] = proc[w],
           Waits(j)'
    PROVE  \A i \in Jobs : Single(i)'
<1>0. /\ j \in Jobs /\ j \in born
      /\ \A c \in Actors \ {a} : ~Owns(c, j)
  BY OwnerFacts
<1>1. /\ pc'[a] = l /\ cur'[a] = y /\ NoJob \notin Jobs
      /\ \A c \in Actors \ {a} : pc'[c] = pc[c] /\ cur'[c] = cur[c]
  BY MovesOK, ActorsApart
<1>3. \A i \in Jobs : \A w \in Workers : Spare(w, i)' => Spare(w, i) BY <1>1, SpareOthers
<1>4. ASSUME NEW i \in Jobs \ {j} PROVE Single(i)' BY <1>0, <1>1, <1>3, Bystander
<1>5. \A c \in Actors : ~Owns(c, j)'
  <2> SUFFICES ASSUME NEW c \in Actors, Owns(c, j)' PROVE FALSE OBVIOUS
  <2>1. CASE Spare(c, j)'
    <3>1. c # a BY <1>1, <2>1 DEF Spare
    <3> QED BY <1>0, <1>3, <2>1, <3>1 DEF Owns, Spare
  <2>2. CASE cur'[c] = j /\ pc'[c] \in OwnerPcs BY <1>0, <1>1, <2>2 DEF Owns
  <2> QED BY <2>1, <2>2 DEF Owns
<1>6. Unborn(j)'
  <2>1. \A c \in Actors : ~(cur'[c] = j /\ pc'[c] = "submit_set") BY <1>5, PlacesApart DEF Owns
  <2> QED BY <1>0, <2>1 DEF Unborn
<1>7. Owned(j)' BY <1>5 DEF Owned
<1> QED BY <1>4, <1>6, <1>7 DEF Single

\* Whoever has nothing in hand takes a job nobody else owns.
LEMMA Take ==
    ASSUME IInv, OneOwner, NEW a \in Actors, cur[a] = NoJob, NEW j \in Jobs, j \in born',
           \A c \in Actors \ {a} : ~Owns(c, j),
           NEW l, l \in OwnerPcs,
           NEW b, NEW s, Moves(a, l, j, b, s),
           \A i \in Jobs \ {j} : Same(i), UNCHANGED <<blob, lease>>,
           \A w \in Workers \ {a} : proc'[w] = proc[w],
           l = "submit_set" => runs'[j] = 0 /\ \A c \in Actors \ {a} : cur[c] # j,
           ~Queued(j)', delayed'[j] = "none", lease[j] = "none",
           blob[j].status # "failed", BlobKnown(a, j)', CopyKnown(a, j)'
    PROVE  \A i \in Jobs : Single(i)'
<1>1. /\ pc'[a] = l /\ cur'[a] = j /\ NoJob \notin Jobs /\ l \notin Sparing
      /\ \A c \in Actors \ {a} : pc'[c] = pc[c] /\ cur'[c] = cur[c]
  BY MovesOK, ActorsApart, PlacesApart
<1>3. \A i \in Jobs : \A w \in Workers : Spare(w, i)' => Spare(w, i) BY <1>1, SpareOthers
<1>4. ASSUME NEW i \in Jobs \ {j} PROVE Single(i)' BY <1>1, <1>3, Bystander
<1>5. \A c \in Actors \ {a} : ~Owns(c, j)'
  <2> SUFFICES ASSUME NEW c \in Actors \ {a}, Owns(c, j)' PROVE FALSE OBVIOUS
  <2>1. CASE Spare(c, j)' BY <1>3, <2>1 DEF Owns, Spare
  <2>2. CASE cur'[c] = j /\ pc'[c] \in OwnerPcs BY <1>1, <2>2 DEF Owns
  <2> QED BY <2>1, <2>2 DEF Owns
<1>6. Owned(j)'
  <2>1. OwnerKnows(a, j)' BY <1>1 DEF OwnerKnows
  <2> QED BY <1>5, <2>1 DEF Owned
<1>7. Unborn(j)'
  <2>1. \A c \in Actors : cur'[c] = j /\ pc'[c] = "submit_set" => c = a
    BY <1>1, <1>5, PlacesApart DEF Owns
  <2> QED BY <1>1, <2>1 DEF Unborn
<1>8. Waits(j)' BY DEF Waits
<1> QED BY <1>4, <1>6, <1>7, <1>8 DEF Single

\* A step of an actor that owns nothing and takes nothing.
LEMMA Idle ==
    ASSUME IInv, OneOwner, NEW a \in Actors, pc[a] \notin OwnerPcs,
           NEW l, NEW y \in {cur[a], NoJob}, y # NoJob => l \notin OwnerPcs,
           NEW b, NEW s, Moves(a, l, y, b, s),
           \A i \in Jobs : Same(i),
           \A i \in Jobs : a \in Workers => l \notin Sparing \/ i \notin Elements(proc'[a])
                                         \/ (pc[a] \in Sparing /\ proc'[a] = proc[a]),
           \A w \in Workers \ {a} : proc'[w] = proc[w]
    PROVE  \A i \in Jobs : Single(i)'
<1>1. NoJob \notin Jobs BY ActorsApart
<1>2. \A i \in Jobs : \A w \in Workers : Spare(w, i)' => Spare(w, i) BY SpareOthers
<1>3. \A i \in Jobs : y = i => l \notin OwnerPcs /\ cur[a] = i BY <1>1
<1> QED BY <1>2, <1>3, Bystander

-----------------------------------------------------------------------------
(* The steps of a worker on a job of its own, neither promoting nor          *)
(* recovering: its processing list follows.                                 *)

LEMMA PlainPlaces ==
    /\ Plain \subseteq OwnerPcs /\ Plain \subseteq UsedWorkerPcs
    /\ Plain \cap (Promoting \cup Recovering \cup Sparing) = {}
    /\ "submit_set" \notin Plain
    /\ {"promote", "reap", "pick", "fail_dlq", "fail_index"} \subseteq UsedWorkerPcs
    /\ {"promote", "reap", "pick", "fail_dlq", "fail_index"}
          \cap (Promoting \cup Recovering \cup Sparing \cup Tracking \cup OwnerPcs) = {}
  BY PlacesApart DEF Plain, UsedWorkerPcs, OwnerPcs, Moving, Working, HasRun, Done, Raising,
    Sparing, Promoting, Recovering, Tracking, WorkerPcs

LEMMA PlainIs ==
    /\ {"pick_get", "pick_set", "pick_lease", "trace_get", "trace_set", "run", "complete_get",
        "complete_set", "complete_untrack", "complete_unlease", "fail_get", "fail_untrack",
        "fail_unlease", "fail_set", "dead_get", "dead_untrack", "dead_unlease", "dead_push",
        "dead_index", "dead_set"} \subseteq Plain
    /\ Plain \subseteq OwnerPcs
  BY DEF Plain, UsedWorkerPcs, OwnerPcs, Moving, Working, HasRun, Done, Raising, Promoting, Recovering,
    WorkerPcs

LEMMA PlainWorker ==
    ASSUME IInv, OneOwner, NEW w \in Workers, pc[w] \notin Promoting \cup Recovering,
           NEW l, l \notin Promoting \cup Recovering \cup Sparing,
           NEW y, NEW b, Moves(w, l, y, b, todo[w]),
           crashes' = 0 => proc'[w] = IF l \in Tracking THEN <<y>> ELSE <<>>
    PROVE  WorkerOK(w)'
<1>1. todo[w] = <<>> /\ w \in Actors BY DEF OneOwner, PlacesOK, WorkerOK, Actors
<1>2. pc'[w] = l /\ cur'[w] = y /\ todo'[w] = <<>> BY <1>1, MovesOK
<1> QED BY <1>2 DEF WorkerOK, Sparing, Recovering

\* What the processing list of a worker holds until a process has died.
LEMMA Tracked ==
    ASSUME OneOwner, NEW w \in Workers
    PROVE  crashes = 0 => proc[w] = IF pc[w] \in Tracking THEN <<cur[w]>> ELSE <<>>
  BY DEF OneOwner, PlacesOK, WorkerOK

LEMMA KeepAt ==
    ASSUME IInv, OneOwner, NEW w \in Workers, pc[w] \in Plain, NEW j, j = cur[w],
           NEW l \in Plain, l = "pick_lease" => Visibility,
           NEW b, Moves(w, l, j, b, todo[w]),
           \A i \in Jobs \ {j} : blob'[i] = blob[i] /\ runs'[i] = runs[i] /\ lease'[i] = lease[i],
           UNCHANGED <<queue, delayed, born, crashes>>,
           lease'[j] = "none" \/ (lease'[j] = "held" /\ l \in Leasing /\ Visibility),
           \/ proc' = proc /\ (l \in Tracking <=> pc[w] \in Tracking)
           \/ l \notin Tracking /\ proc' = [proc EXCEPT ![w] = LRem(@, j)],
           blob'[j].status # "failed", BlobKnown(w, j)', CopyKnown(w, j)'
    PROVE  OneOwner'
<1>0. w \in Actors /\ j \in Jobs /\ proc \in [Workers -> Seq(Jobs)]
  BY OwnerFacts, PlainPlaces DEF Actors, IInv, RedisOK, ListsOK
<1>1. \A v \in Workers \ {w} : proc'[v] = proc[v] BY <1>0
<1>2. crashes' = 0 => proc'[w] = IF l \in Tracking THEN <<j>> ELSE <<>>
  <2> SUFFICES ASSUME crashes = 0 PROVE proc'[w] = IF l \in Tracking THEN <<j>> ELSE <<>> OBVIOUS
  <2>1. proc[w] = IF pc[w] \in Tracking THEN <<j>> ELSE <<>> BY Tracked
  <2>2. LRem(<<>>, j) = <<>> /\ LRem(<<j>>, j) = <<>>
    <3>1. \A list \in Seq(Jobs) : list # <<>> => list[1] \in Elements(list) BY DEF Elements
    <3>2. LRem(<<>>, j) \in Seq(Jobs) /\ Elements(LRem(<<>>, j)) = {}
      BY <1>0, LRemList, LRemElements, OneElement
    <3> QED BY <1>0, <3>1, <3>2, OneElement
  <2> QED BY <1>0, <2>1, <2>2
<1>3. WorkerOK(w)' BY <1>2, PlainPlaces, PlainWorker
<1>4. PlacesOK'
  <2>1. l \in UsedWorkerPcs /\ l \notin EmptyHanded BY PlainPlaces, PlacesApart
  <2>2. PlacesOK BY DEF OneOwner
  <2> QED BY <1>0, <1>1, <1>3, <2>1, <2>2, PlacesStep
<1>5. \A i \in Jobs : Single(i)' BY <1>0, <1>1, PlainPlaces, Keep
<1>6. QueuesOK' BY DEF OneOwner, QueuesOK
<1> QED BY <1>4, <1>5, <1>6 DEF OneOwner

\* It lets its job go; by then the job is in its processing list no more.
LEMMA ReleaseAt ==
    ASSUME IInv, OneOwner, NEW w \in Workers, pc[w] \in Plain \ Tracking, NEW j, j = cur[w],
           NEW l \in {"promote", "reap", "pick", "fail_dlq"}, NEW y \in {j, NoJob},
           l # "fail_dlq" => y = NoJob,
           NEW b, Moves(w, l, y, b, todo[w]),
           \A i \in Jobs \ {j} : Same(i), UNCHANGED <<proc, born, crashes>>,
           QueuesOK', Waits(j)'
    PROVE  OneOwner'
<1>0. w \in Actors /\ j \in Jobs BY OwnerFacts, PlainPlaces DEF Actors
<1>1. l \notin OwnerPcs \cup Sparing \cup Tracking \cup Promoting \cup Recovering /\ l \in UsedWorkerPcs
  BY PlainPlaces
<1>2. WorkerOK(w)' BY <1>1, PlainPlaces, PlainWorker, Tracked
<1>3. PlacesOK'
  <2>1. (l \in EmptyHanded => y = NoJob) /\ l # "pick_lease" BY DEF EmptyHanded
  <2>2. PlacesOK BY DEF OneOwner
  <2> QED BY <1>0, <1>1, <1>2, <2>1, <2>2, PlacesStep
<1>4. \A i \in Jobs : Single(i)' BY <1>0, <1>1, PlainPlaces, Release
<1> QED BY <1>3, <1>4 DEF OneOwner

(* A worker reads and writes the blob of the job it has. *)
LEMMA OneOwnerRun ==
    ASSUME Undisturbed, IInv, OneOwner, NEW w \in Workers, NEW j, j = cur[w],
           PickGet(w) \/ PickLease(w) \/ TraceGet(w) \/ TraceSet(w) \/ CompleteGet(w) \/ CompleteSet(w) \/ CompleteUntrack(w)
    PROVE  OneOwner'
<1>0. /\ w \in Actors /\ w # NoWorker /\ OneOwner
      /\ pc[w] = "pick_lease" => Visibility
      /\ proc \in [Workers -> Seq(Jobs)] /\ blob \in [Jobs -> Blob]
      /\ lease \in [Jobs -> {"none", "held", "expired"}]
  BY ActorsAssumption DEF Actors, IInv, RedisOK, ListsOK, StoreOK, SetsOK, OneOwner, PlacesOK, ActorOK
<1>p. pc[w] \in Plain /\ pc[w] \in OwnerPcs
  BY PlainIs DEF PickGet, PickLease, TraceGet, TraceSet, CompleteGet, CompleteSet, CompleteUntrack
<1>k. /\ j \in Jobs /\ j \in born /\ blob[j] \in Blob /\ blob[j].status # "failed"
      /\ lease[j] = "none" \/ (lease[j] = "held" /\ pc[w] \in Leasing /\ Visibility)
      /\ BlobKnown(w, j) /\ CopyKnown(w, j)
  BY <1>0, <1>p, OwnerFacts
<1>1. ASSUME PickGet(w) PROVE OneOwner'
  <2>1. pc[w] = "pick_get" BY <1>1 DEF PickGet
  <2>2. "pick_set" \in Plain /\ ("pick_set" \in Leasing \/ pc[w] \notin Leasing)
        /\ ("pick_set" \in Tracking <=> pc[w] \in Tracking)
    BY <2>1, PlainIs DEF Tracking, Leasing
  <2>3. blob[j].status = "pending"
    BY <1>0, <1>k, <2>1 DEF BlobKnown, CopyKnown, Moving, Working, HasRun, Done, Raising
  <2>4. Moves(w, "pick_set", j, [blob[j] EXCEPT !.status = "processing", !.worker = w], todo[w])
    BY <1>0, <1>1, <1>k, <2>3, HoldMoves DEF PickGet, Missing, Finished, Terminal
  <2>5. UNCHANGED <<queue, delayed, born, crashes, blob, runs, lease, proc>>
    BY <1>0, <1>1, <1>k, <2>3 DEF PickGet, redis, store, zsets, morgue, history
  <2>6. BlobKnown(w, j)' /\ CopyKnown(w, j)' /\ blob'[j].status # "failed"
    <3>1. pc'[w] = "pick_set" /\ copy'[w] = [blob[j] EXCEPT !.status = "processing", !.worker = w]
      BY <1>0, <2>4, MovesOK
    <3> QED
      BY <1>0, <1>k, <2>1, <2>3, <2>5, <3>1 DEF BlobKnown, CopyKnown, Moving, Working, HasRun, Done, Raising, Blob
  <2> QED BY <1>0, <1>p, <1>k, <2>2, <2>3, <2>4, <2>5, <2>6, KeepAt
<1>2. ASSUME PickLease(w) PROVE OneOwner'
  <2>1. pc[w] = "pick_lease" BY <1>2 DEF PickLease
  <2>2. "trace_get" \in Plain /\ "trace_get" \in Leasing
        /\ ("trace_get" \in Tracking <=> pc[w] \in Tracking)
    BY <2>1, PlainIs DEF Tracking, Leasing
  <2>3. blob[j].status = "processing" /\ blob[j].worker = w /\ Visibility
    BY <1>0, <1>k, <2>1 DEF BlobKnown, CopyKnown, Moving, Working, HasRun, Done, Raising
  <2>4. Moves(w, "trace_get", j, copy[w], todo[w])
    BY <1>0, <1>2, <1>k, <2>3, GotoMoves DEF PickLease, Missing, Finished, Terminal
  <2>5. /\ UNCHANGED <<queue, delayed, born, crashes, blob, runs, proc>>
        /\ lease' = [lease EXCEPT ![j] = "held"]
    BY <1>0, <1>2, <1>k, <2>3 DEF PickLease, redis, store, zsets, morgue, history
  <2>6. BlobKnown(w, j)' /\ CopyKnown(w, j)' /\ blob'[j].status # "failed"
    <3>1. pc'[w] = "trace_get" /\ copy'[w] = copy[w] BY <1>0, <2>4, MovesOK
    <3> QED
      BY <1>0, <1>k, <2>1, <2>3, <2>5, <3>1 DEF BlobKnown, CopyKnown, Moving, Working, HasRun, Done, Raising, Blob
  <2> QED BY <1>0, <1>p, <1>k, <2>2, <2>3, <2>4, <2>5, <2>6, KeepAt
<1>3. ASSUME TraceGet(w) PROVE OneOwner'
  <2>1. pc[w] = "trace_get" BY <1>3 DEF TraceGet
  <2>2. "trace_set" \in Plain /\ ("trace_set" \in Leasing \/ pc[w] \notin Leasing)
        /\ ("trace_set" \in Tracking <=> pc[w] \in Tracking)
    BY <2>1, PlainIs DEF Tracking, Leasing
  <2>3. blob[j].status = "processing" /\ blob[j].worker = w
    BY <1>0, <1>k, <2>1 DEF BlobKnown, CopyKnown, Moving, Working, HasRun, Done, Raising
  <2>4. Moves(w, "trace_set", j, blob[j], todo[w])
    BY <1>0, <1>3, <1>k, <2>3, HoldMoves DEF TraceGet, Missing, Finished, Terminal
  <2>5. UNCHANGED <<queue, delayed, born, crashes, blob, runs, lease, proc>>
    BY <1>0, <1>3, <1>k, <2>3 DEF TraceGet, redis, store, zsets, morgue, history
  <2>6. BlobKnown(w, j)' /\ CopyKnown(w, j)' /\ blob'[j].status # "failed"
    <3>1. pc'[w] = "trace_set" /\ copy'[w] = blob[j] BY <1>0, <2>4, MovesOK
    <3> QED
      BY <1>0, <1>k, <2>1, <2>3, <2>5, <3>1 DEF BlobKnown, CopyKnown, Moving, Working, HasRun, Done, Raising, Blob
  <2> QED BY <1>0, <1>p, <1>k, <2>2, <2>3, <2>4, <2>5, <2>6, KeepAt
<1>4. ASSUME TraceSet(w) PROVE OneOwner'
  <2>1. pc[w] = "trace_set" BY <1>4 DEF TraceSet
  <2>2. "run" \in Plain /\ ("run" \in Leasing \/ pc[w] \notin Leasing)
        /\ ("run" \in Tracking <=> pc[w] \in Tracking)
    BY <2>1, PlainIs DEF Tracking, Leasing
  <2>3. blob[j].status = "processing" /\ blob[j].worker = w /\ copy[w] = blob[j]
    BY <1>0, <1>k, <2>1 DEF BlobKnown, CopyKnown, Moving, Working, HasRun, Done, Raising
  <2>4. Moves(w, "run", j, Absent, todo[w])
    BY <1>0, <1>4, <1>k, <2>3, HoldMoves DEF TraceSet, Missing, Finished, Terminal
  <2>5. /\ UNCHANGED <<queue, delayed, born, crashes, runs, lease, proc>>
        /\ blob' = [blob EXCEPT ![j] = blob[j]]
    BY <1>0, <1>4, <1>k, <2>3 DEF TraceSet, redis, store, zsets, morgue, history, Set
  <2>6. BlobKnown(w, j)' /\ CopyKnown(w, j)' /\ blob'[j].status # "failed"
    <3>1. pc'[w] = "run" /\ copy'[w] = Absent BY <1>0, <2>4, MovesOK
    <3> QED
      BY <1>0, <1>k, <2>1, <2>3, <2>5, <3>1 DEF BlobKnown, CopyKnown, Moving, Working, HasRun, Done, Raising, Blob
  <2> QED BY <1>0, <1>p, <1>k, <2>2, <2>3, <2>4, <2>5, <2>6, KeepAt
<1>5. ASSUME CompleteGet(w) PROVE OneOwner'
  <2>1. pc[w] = "complete_get" BY <1>5 DEF CompleteGet
  <2>2. "complete_set" \in Plain /\ ("complete_set" \in Leasing \/ pc[w] \notin Leasing)
        /\ ("complete_set" \in Tracking <=> pc[w] \in Tracking)
    BY <2>1, PlainIs DEF Tracking, Leasing
  <2>3. blob[j].status = "processing" /\ blob[j].worker = w
    BY <1>0, <1>k, <2>1 DEF BlobKnown, CopyKnown, Moving, Working, HasRun, Done, Raising
  <2>4. Moves(w, "complete_set", j, [blob[j] EXCEPT !.status = "completed"], todo[w])
    BY <1>0, <1>5, <1>k, <2>3, HoldMoves DEF CompleteGet, Missing, Finished, Terminal
  <2>5. UNCHANGED <<queue, delayed, born, crashes, blob, runs, lease, proc>>
    BY <1>0, <1>5, <1>k, <2>3 DEF CompleteGet, redis, store, zsets, morgue, history
  <2>6. BlobKnown(w, j)' /\ CopyKnown(w, j)' /\ blob'[j].status # "failed"
    <3>1. pc'[w] = "complete_set" /\ copy'[w] = [blob[j] EXCEPT !.status = "completed"]
      BY <1>0, <2>4, MovesOK
    <3> QED
      BY <1>0, <1>k, <2>1, <2>3, <2>5, <3>1 DEF BlobKnown, CopyKnown, Moving, Working, HasRun, Done, Raising, Blob
  <2> QED BY <1>0, <1>p, <1>k, <2>2, <2>3, <2>4, <2>5, <2>6, KeepAt
<1>6. ASSUME CompleteSet(w) PROVE OneOwner'
  <2>1. pc[w] = "complete_set" BY <1>6 DEF CompleteSet
  <2>2. "complete_untrack" \in Plain /\ ("complete_untrack" \in Leasing \/ pc[w] \notin Leasing)
        /\ ("complete_untrack" \in Tracking <=> pc[w] \in Tracking)
    BY <2>1, PlainIs DEF Tracking, Leasing
  <2>3. /\ blob[j].status = "processing" /\ blob[j].worker = w
        /\ copy[w] = [blob[j] EXCEPT !.status = "completed"]
    BY <1>0, <1>k, <2>1 DEF BlobKnown, CopyKnown, Moving, Working, HasRun, Done, Raising
  <2>4. Moves(w, "complete_untrack", j, copy[w], todo[w])
    BY <1>0, <1>6, <1>k, <2>3, GotoMoves DEF CompleteSet, Missing, Finished, Terminal
  <2>5. /\ UNCHANGED <<queue, delayed, born, crashes, runs, lease, proc>>
        /\ blob' = [blob EXCEPT ![j] = copy[w]]
    BY <1>0, <1>6, <1>k, <2>3 DEF CompleteSet, redis, store, zsets, morgue, history, SetEx
  <2>6. BlobKnown(w, j)' /\ CopyKnown(w, j)' /\ blob'[j].status # "failed"
    <3>1. pc'[w] = "complete_untrack" /\ copy'[w] = copy[w] BY <1>0, <2>4, MovesOK
    <3> QED
      BY <1>0, <1>k, <2>1, <2>3, <2>5, <3>1 DEF BlobKnown, CopyKnown, Moving, Working, HasRun, Done, Raising, Blob
  <2> QED BY <1>0, <1>p, <1>k, <2>2, <2>3, <2>4, <2>5, <2>6, KeepAt
<1>7. ASSUME CompleteUntrack(w) PROVE OneOwner'
  <2>1. pc[w] = "complete_untrack" BY <1>7 DEF CompleteUntrack
  <2>2. "complete_unlease" \in Plain /\ ("complete_unlease" \in Leasing \/ pc[w] \notin Leasing)
        /\ "complete_unlease" \notin Tracking
    BY <2>1, PlainIs DEF Tracking, Leasing
  <2>3. blob[j].status = "completed" /\ copy[w].worker = w
    BY <1>0, <1>k, <2>1 DEF BlobKnown, CopyKnown, Moving, Working, HasRun, Done, Raising
  <2>4. Moves(w, "complete_unlease", j, copy[w], todo[w])
    BY <1>0, <1>7, <1>k, <2>3, GotoMoves DEF CompleteUntrack, Missing, Finished, Terminal
  <2>5. /\ UNCHANGED <<queue, delayed, born, crashes, blob, runs, lease>>
        /\ proc' = [proc EXCEPT ![w] = LRem(@, j)]
    BY <1>0, <1>7, <1>k, <2>3 DEF CompleteUntrack, redis, store, zsets, morgue, history, UntrackOwner
  <2>6. BlobKnown(w, j)' /\ CopyKnown(w, j)' /\ blob'[j].status # "failed"
    <3>1. pc'[w] = "complete_unlease" /\ copy'[w] = copy[w] BY <1>0, <2>4, MovesOK
    <3> QED
      BY <1>0, <1>k, <2>1, <2>3, <2>5, <3>1 DEF BlobKnown, CopyKnown, Moving, Working, HasRun, Done, Raising, Blob
  <2> QED BY <1>0, <1>p, <1>k, <2>2, <2>3, <2>4, <2>5, <2>6, KeepAt
<1> QED BY <1>1, <1>2, <1>3, <1>4, <1>5, <1>6, <1>7

(* The handler ends; fail() and dead_letter() up to the write of the blob. *)
LEMMA OneOwnerFail ==
    ASSUME Undisturbed, IInv, OneOwner, NEW w \in Workers, NEW j, j = cur[w],
           Handle(w) \/ FailGet(w) \/ FailUntrack(w) \/ FailUnlease(w) \/ (FailSet(w) /\ copy[w].status # "dead") \/ DeadGet(w) \/ DeadUntrack(w) \/ DeadUnlease(w) \/ DeadPush(w) \/ DeadIndex(w)
    PROVE  OneOwner'
<1>0. /\ w \in Actors /\ w # NoWorker /\ OneOwner
      /\ pc[w] = "pick_lease" => Visibility
      /\ proc \in [Workers -> Seq(Jobs)] /\ blob \in [Jobs -> Blob]
      /\ lease \in [Jobs -> {"none", "held", "expired"}]
  BY ActorsAssumption DEF Actors, IInv, RedisOK, ListsOK, StoreOK, SetsOK, OneOwner, PlacesOK, ActorOK
<1>p. pc[w] \in Plain /\ pc[w] \in OwnerPcs
  BY PlainIs DEF Handle, FailGet, FailUntrack, FailUnlease, FailSet, DeadGet, DeadUntrack, DeadUnlease,
    DeadPush, DeadIndex
<1>k. /\ j \in Jobs /\ j \in born /\ blob[j] \in Blob /\ blob[j].status # "failed"
      /\ lease[j] = "none" \/ (lease[j] = "held" /\ pc[w] \in Leasing /\ Visibility)
      /\ BlobKnown(w, j) /\ CopyKnown(w, j)
  BY <1>0, <1>p, OwnerFacts
<1>1. ASSUME Handle(w) PROVE OneOwner'
  <2>1. pc[w] = "run" BY <1>1 DEF Handle
  <2>2. PICK l \in {"complete_get", "dead_get", "fail_get"} : Goto(w, l) BY <1>1 DEF Handle
  <2>3. /\ pc[w] \in Plain /\ pc[w] \in OwnerPcs /\ l \in Plain /\ l \in Leasing
        /\ pc[w] \in Tracking /\ l \in Tracking /\ l \in HasRun
    BY <2>1 DEF Plain, UsedWorkerPcs, OwnerPcs, Moving, Working, HasRun, Done, Raising, Tracking,
      Leasing, Promoting, Recovering, WorkerPcs
  <2>4. /\ j \in Jobs /\ blob[j].status # "failed" /\ BlobKnown(w, j)
        /\ lease[j] = "none" \/ (lease[j] = "held" /\ Visibility)
    BY <1>0, <2>3, OwnerFacts
  <2>5. blob[j].status = "processing" /\ blob[j].worker = w
    BY <2>1, <2>4 DEF BlobKnown, CopyKnown, Moving, Working, HasRun, Done, Raising
  <2>6. Moves(w, l, j, copy[w], todo[w]) BY <1>0, <2>2, GotoMoves
  <2>7. /\ UNCHANGED <<queue, delayed, born, crashes, blob, lease, proc>>
        /\ \A i \in Jobs \ {j} : runs'[i] = runs[i]
    BY <1>1 DEF Handle, redis, store, zsets
  <2>8. BlobKnown(w, j)' /\ CopyKnown(w, j)'
    <3>1. pc'[w] = l BY <1>0, <2>6, MovesOK
    <3> QED
      BY <1>0, <2>2, <2>5, <2>7, <3>1 DEF BlobKnown, CopyKnown, Moving, Working, HasRun, Done, Raising
  <2> QED BY <1>0, <2>3, <2>4, <2>6, <2>7, <2>8, KeepAt
<1>2. ASSUME FailGet(w) PROVE OneOwner'
  <2>1. pc[w] = "fail_get" BY <1>2 DEF FailGet
  <2>2. "fail_untrack" \in Plain /\ ("fail_untrack" \in Leasing \/ pc[w] \notin Leasing)
        /\ ("fail_untrack" \in Tracking <=> pc[w] \in Tracking)
    BY <2>1, PlainIs DEF Tracking, Leasing
  <2>3. blob[j].status = "processing" /\ blob[j].worker = w
    BY <1>0, <1>k, <2>1 DEF BlobKnown, CopyKnown, Moving, Working, HasRun, Done, Raising
  <2>4. Moves(w, "fail_untrack", j, [blob[j] EXCEPT !.retries = @ + 1,
                          !.status = IF RetriesLeft(j, blob[j].retries + 1) THEN "pending" ELSE "dead"], todo[w])
    BY <1>0, <1>2, <1>k, <2>3, HoldMoves DEF FailGet, Missing, Finished, Terminal
  <2>5. UNCHANGED <<queue, delayed, born, crashes, blob, runs, lease, proc>>
    BY <1>0, <1>2, <1>k, <2>3 DEF FailGet, redis, store, zsets, morgue, history
  <2>6. BlobKnown(w, j)' /\ CopyKnown(w, j)' /\ blob'[j].status # "failed"
    <3>1. pc'[w] = "fail_untrack" /\ copy'[w] = [blob[j] EXCEPT !.retries = @ + 1,
                          !.status = IF RetriesLeft(j, blob[j].retries + 1) THEN "pending" ELSE "dead"]
      BY <1>0, <2>4, MovesOK
    <3> QED
      BY <1>0, <1>k, <2>1, <2>3, <2>5, <3>1 DEF BlobKnown, CopyKnown, Moving, Working, HasRun, Done, Raising, Blob
  <2> QED BY <1>0, <1>p, <1>k, <2>2, <2>3, <2>4, <2>5, <2>6, KeepAt
<1>3. ASSUME FailUntrack(w) PROVE OneOwner'
  <2>1. pc[w] = "fail_untrack" BY <1>3 DEF FailUntrack
  <2>2. "fail_unlease" \in Plain /\ ("fail_unlease" \in Leasing \/ pc[w] \notin Leasing)
        /\ "fail_unlease" \notin Tracking
    BY <2>1, PlainIs DEF Tracking, Leasing
  <2>3. /\ blob[j].status = "processing" /\ blob[j].worker = w /\ copy[w].worker = w
        /\ copy[w].retries = blob[j].retries + 1
        /\ copy[w].status = IF RetriesLeft(j, blob[j].retries + 1) THEN "pending" ELSE "dead"
    BY <1>0, <1>k, <2>1 DEF BlobKnown, CopyKnown, Moving, Working, HasRun, Done, Raising
  <2>4. Moves(w, "fail_unlease", j, copy[w], todo[w])
    BY <1>0, <1>3, <1>k, <2>3, GotoMoves DEF FailUntrack, Missing, Finished, Terminal
  <2>5. /\ UNCHANGED <<queue, delayed, born, crashes, blob, runs, lease>>
        /\ proc' = [proc EXCEPT ![w] = LRem(@, j)]
    BY <1>0, <1>3, <1>k, <2>3 DEF FailUntrack, redis, store, zsets, morgue, history, UntrackOwner
  <2>6. BlobKnown(w, j)' /\ CopyKnown(w, j)' /\ blob'[j].status # "failed"
    <3>1. pc'[w] = "fail_unlease" /\ copy'[w] = copy[w] BY <1>0, <2>4, MovesOK
    <3> QED
      BY <1>0, <1>k, <2>1, <2>3, <2>5, <3>1 DEF BlobKnown, CopyKnown, Moving, Working, HasRun, Done, Raising, Blob
  <2> QED BY <1>0, <1>p, <1>k, <2>2, <2>3, <2>4, <2>5, <2>6, KeepAt
<1>4. ASSUME FailUnlease(w) PROVE OneOwner'
  <2>1. pc[w] = "fail_unlease" BY <1>4 DEF FailUnlease
  <2>2. "fail_set" \in Plain
        /\ ("fail_set" \in Tracking <=> pc[w] \in Tracking)
    BY <2>1, PlainIs DEF Tracking, Leasing
  <2>3. /\ blob[j].status = "processing" /\ blob[j].worker = w /\ copy[w].worker = w
        /\ copy[w].retries = blob[j].retries + 1
        /\ copy[w].status = IF RetriesLeft(j, blob[j].retries + 1) THEN "pending" ELSE "dead"
    BY <1>0, <1>k, <2>1 DEF BlobKnown, CopyKnown, Moving, Working, HasRun, Done, Raising
  <2>4. Moves(w, "fail_set", j, copy[w], todo[w])
    BY <1>0, <1>4, <1>k, <2>3, GotoMoves DEF FailUnlease, Missing, Finished, Terminal
  <2>5. /\ UNCHANGED <<queue, delayed, born, crashes, blob, runs, proc>>
        /\ lease' = [lease EXCEPT ![j] = "none"]
    BY <1>0, <1>4, <1>k, <2>3 DEF FailUnlease, redis, store, zsets, morgue, history, ClearLease
  <2>6. BlobKnown(w, j)' /\ CopyKnown(w, j)' /\ blob'[j].status # "failed"
    <3>1. pc'[w] = "fail_set" /\ copy'[w] = copy[w] BY <1>0, <2>4, MovesOK
    <3> QED
      BY <1>0, <1>k, <2>1, <2>3, <2>5, <3>1 DEF BlobKnown, CopyKnown, Moving, Working, HasRun, Done, Raising, Blob
  <2> QED BY <1>0, <1>p, <1>k, <2>2, <2>3, <2>4, <2>5, <2>6, KeepAt
<1>5. ASSUME FailSet(w), copy[w].status # "dead" PROVE OneOwner'
  <2> DEFINE l == IF Backoff THEN "fail_park" ELSE "fail_push"
  <2>1. pc[w] = "fail_set" BY <1>5 DEF FailSet
  <2>2. /\ pc[w] \in Plain /\ pc[w] \in OwnerPcs /\ l \in Plain /\ l \in Moving /\ pc[w] \notin Leasing
        /\ pc[w] \notin Tracking /\ l \notin Tracking /\ l \notin Working \cup Done \cup Raising
    BY <2>1 DEF Plain, UsedWorkerPcs, OwnerPcs, Moving, Working, HasRun, Done, Raising, Tracking,
      Leasing, Promoting, Recovering, WorkerPcs
  <2>3. /\ j \in Jobs /\ lease[j] = "none" /\ CopyKnown(w, j) /\ blob[j] \in Blob
    BY <1>0, <2>2, OwnerFacts
  <2>4. copy[w].status = "pending" BY <1>5, <2>1, <2>3 DEF CopyKnown
  <2>5. Moves(w, l, j, copy[w], todo[w]) BY <1>0, <1>5, GotoMoves DEF FailSet
  <2>6. UNCHANGED <<queue, delayed, born, crashes, lease, proc, runs>>
        /\ blob' = [blob EXCEPT ![j] = copy[w]]
    BY <1>5 DEF FailSet, Set, zsets, history
  <2>7. pc'[w] = l /\ l \in {"fail_park", "fail_push"} /\ l \in Plain BY <1>0, <2>2, <2>5, MovesOK
  <2> HIDE DEF l
  <2>8. BlobKnown(w, j)' BY <1>0, <2>2, <2>3, <2>4, <2>6, <2>7 DEF BlobKnown
  <2>9. CopyKnown(w, j)' BY <2>2, <2>7 DEF CopyKnown
  <2> QED BY <1>0, <2>2, <2>3, <2>4, <2>5, <2>6, <2>7, <2>8, <2>9, KeepAt
<1>6. ASSUME DeadGet(w) PROVE OneOwner'
  <2>1. pc[w] = "dead_get" BY <1>6 DEF DeadGet
  <2>2. "dead_untrack" \in Plain /\ ("dead_untrack" \in Leasing \/ pc[w] \notin Leasing)
        /\ ("dead_untrack" \in Tracking <=> pc[w] \in Tracking)
    BY <2>1, PlainIs DEF Tracking, Leasing
  <2>3. blob[j].status = "processing" /\ blob[j].worker = w
    BY <1>0, <1>k, <2>1 DEF BlobKnown, CopyKnown, Moving, Working, HasRun, Done, Raising
  <2>4. Moves(w, "dead_untrack", j, [blob[j] EXCEPT !.status = "dead"], todo[w])
    BY <1>0, <1>6, <1>k, <2>3, HoldMoves DEF DeadGet, Missing, Finished, Terminal
  <2>5. UNCHANGED <<queue, delayed, born, crashes, blob, runs, lease, proc>>
    BY <1>0, <1>6, <1>k, <2>3 DEF DeadGet, redis, store, zsets, morgue, history
  <2>6. BlobKnown(w, j)' /\ CopyKnown(w, j)' /\ blob'[j].status # "failed"
    <3>1. pc'[w] = "dead_untrack" /\ copy'[w] = [blob[j] EXCEPT !.status = "dead"]
      BY <1>0, <2>4, MovesOK
    <3> QED
      BY <1>0, <1>k, <2>1, <2>3, <2>5, <3>1 DEF BlobKnown, CopyKnown, Moving, Working, HasRun, Done, Raising, Blob
  <2> QED BY <1>0, <1>p, <1>k, <2>2, <2>3, <2>4, <2>5, <2>6, KeepAt
<1>7. ASSUME DeadUntrack(w) PROVE OneOwner'
  <2>1. pc[w] = "dead_untrack" BY <1>7 DEF DeadUntrack
  <2>2. "dead_unlease" \in Plain /\ ("dead_unlease" \in Leasing \/ pc[w] \notin Leasing)
        /\ "dead_unlease" \notin Tracking
    BY <2>1, PlainIs DEF Tracking, Leasing
  <2>3. /\ blob[j].status = "processing" /\ blob[j].worker = w
        /\ copy[w] = [blob[j] EXCEPT !.status = "dead"]
    BY <1>0, <1>k, <2>1 DEF BlobKnown, CopyKnown, Moving, Working, HasRun, Done, Raising
  <2>4. Moves(w, "dead_unlease", j, copy[w], todo[w])
    BY <1>0, <1>7, <1>k, <2>3, GotoMoves DEF DeadUntrack, Missing, Finished, Terminal
  <2>5. /\ UNCHANGED <<queue, delayed, born, crashes, blob, runs, lease>>
        /\ proc' = [proc EXCEPT ![w] = LRem(@, j)]
    BY <1>0, <1>7, <1>k, <2>3 DEF DeadUntrack, redis, store, zsets, morgue, history, UntrackOwner
  <2>6. BlobKnown(w, j)' /\ CopyKnown(w, j)' /\ blob'[j].status # "failed"
    <3>1. pc'[w] = "dead_unlease" /\ copy'[w] = copy[w] BY <1>0, <2>4, MovesOK
    <3> QED
      BY <1>0, <1>k, <2>1, <2>3, <2>5, <3>1 DEF BlobKnown, CopyKnown, Moving, Working, HasRun, Done, Raising, Blob
  <2> QED BY <1>0, <1>p, <1>k, <2>2, <2>3, <2>4, <2>5, <2>6, KeepAt
<1>8. ASSUME DeadUnlease(w) PROVE OneOwner'
  <2>1. pc[w] = "dead_unlease" BY <1>8 DEF DeadUnlease
  <2>2. "dead_push" \in Plain
        /\ ("dead_push" \in Tracking <=> pc[w] \in Tracking)
    BY <2>1, PlainIs DEF Tracking, Leasing
  <2>3. /\ blob[j].status = "processing" /\ blob[j].worker = w
        /\ copy[w] = [blob[j] EXCEPT !.status = "dead"]
    BY <1>0, <1>k, <2>1 DEF BlobKnown, CopyKnown, Moving, Working, HasRun, Done, Raising
  <2>4. Moves(w, "dead_push", j, copy[w], todo[w])
    BY <1>0, <1>8, <1>k, <2>3, GotoMoves DEF DeadUnlease, Missing, Finished, Terminal
  <2>5. /\ UNCHANGED <<queue, delayed, born, crashes, blob, runs, proc>>
        /\ lease' = [lease EXCEPT ![j] = "none"]
    BY <1>0, <1>8, <1>k, <2>3 DEF DeadUnlease, redis, store, zsets, morgue, history, ClearLease
  <2>6. BlobKnown(w, j)' /\ CopyKnown(w, j)' /\ blob'[j].status # "failed"
    <3>1. pc'[w] = "dead_push" /\ copy'[w] = copy[w] BY <1>0, <2>4, MovesOK
    <3> QED
      BY <1>0, <1>k, <2>1, <2>3, <2>5, <3>1 DEF BlobKnown, CopyKnown, Moving, Working, HasRun, Done, Raising, Blob
  <2> QED BY <1>0, <1>p, <1>k, <2>2, <2>3, <2>4, <2>5, <2>6, KeepAt
<1>9. ASSUME DeadPush(w) PROVE OneOwner'
  <2>1. pc[w] = "dead_push" BY <1>9 DEF DeadPush
  <2>2. "dead_index" \in Plain /\ ("dead_index" \in Leasing \/ pc[w] \notin Leasing)
        /\ ("dead_index" \in Tracking <=> pc[w] \in Tracking)
    BY <2>1, PlainIs DEF Tracking, Leasing
  <2>3. /\ blob[j].status = "processing" /\ blob[j].worker = w
        /\ copy[w] = [blob[j] EXCEPT !.status = "dead"]
    BY <1>0, <1>k, <2>1 DEF BlobKnown, CopyKnown, Moving, Working, HasRun, Done, Raising
  <2>4. Moves(w, "dead_index", j, copy[w], todo[w])
    BY <1>0, <1>9, <1>k, <2>3, GotoMoves DEF DeadPush, Missing, Finished, Terminal
  <2>5. UNCHANGED <<queue, delayed, born, crashes, blob, runs, lease, proc>>
    BY <1>0, <1>9, <1>k, <2>3 DEF DeadPush, redis, store, zsets, morgue, history
  <2>6. BlobKnown(w, j)' /\ CopyKnown(w, j)' /\ blob'[j].status # "failed"
    <3>1. pc'[w] = "dead_index" /\ copy'[w] = copy[w] BY <1>0, <2>4, MovesOK
    <3> QED
      BY <1>0, <1>k, <2>1, <2>3, <2>5, <3>1 DEF BlobKnown, CopyKnown, Moving, Working, HasRun, Done, Raising, Blob
  <2> QED BY <1>0, <1>p, <1>k, <2>2, <2>3, <2>4, <2>5, <2>6, KeepAt
<1>10. ASSUME DeadIndex(w) PROVE OneOwner'
  <2>1. pc[w] = "dead_index" BY <1>10 DEF DeadIndex
  <2>2. "dead_set" \in Plain /\ ("dead_set" \in Leasing \/ pc[w] \notin Leasing)
        /\ ("dead_set" \in Tracking <=> pc[w] \in Tracking)
    BY <2>1, PlainIs DEF Tracking, Leasing
  <2>3. /\ blob[j].status = "processing" /\ blob[j].worker = w
        /\ copy[w] = [blob[j] EXCEPT !.status = "dead"]
    BY <1>0, <1>k, <2>1 DEF BlobKnown, CopyKnown, Moving, Working, HasRun, Done, Raising
  <2>4. Moves(w, "dead_set", j, copy[w], todo[w])
    BY <1>0, <1>10, <1>k, <2>3, GotoMoves DEF DeadIndex, Missing, Finished, Terminal
  <2>5. UNCHANGED <<queue, delayed, born, crashes, blob, runs, lease, proc>>
    BY <1>0, <1>10, <1>k, <2>3 DEF DeadIndex, redis, store, zsets, morgue, history
  <2>6. BlobKnown(w, j)' /\ CopyKnown(w, j)' /\ blob'[j].status # "failed"
    <3>1. pc'[w] = "dead_set" /\ copy'[w] = copy[w] BY <1>0, <2>4, MovesOK
    <3> QED
      BY <1>0, <1>k, <2>1, <2>3, <2>5, <3>1 DEF BlobKnown, CopyKnown, Moving, Working, HasRun, Done, Raising, Blob
  <2> QED BY <1>0, <1>p, <1>k, <2>2, <2>3, <2>4, <2>5, <2>6, KeepAt
<1> QED BY <1>1, <1>2, <1>3, <1>4, <1>5, <1>6, <1>7, <1>8, <1>9, <1>10

LEMMA BackToLoop ==
    ASSUME IInv, OneOwner, NEW w \in Workers, pc[w] \in Plain, Return(w)
    PROVE  Moves(w, LoopHead, NoJob, Absent, todo[w])
<1>1. w \in Actors /\ todo[w] = <<>> /\ Rest(w) = LoopHead
  BY PlainPlaces DEF OneOwner, PlacesOK, WorkerOK, Actors, Rest
<1> QED BY <1>1, ReturnMoves

LEMMA LoopPlaces ==
    LoopHead \in {"promote", "reap", "pick"} /\ AfterPromote \in {"promote", "reap", "pick"}
  BY DEF LoopHead, AfterPromote

\* LPUSH of a job that is not queued.
LEMMA EnqueueFacts ==
    ASSUME IInv, OneOwner, NEW j \in Jobs, ~Queued(j), Enqueue(j)
    PROVE  /\ QueuesOK' /\ Queued(j)'
           /\ \A i \in Jobs \ {j} : Queued(i)' <=> Queued(i)
<1> DEFINE t == TypeOf[j]
<1>1. t \in TypeSet /\ queue \in [TypeSet -> Seq(Jobs)] /\ QueuesOK
  BY JobsAssumption DEF IInv, RedisOK, ListsOK, OneOwner
<1>2. queue' = [queue EXCEPT ![t] = LPush(queue[t], j)] BY DEF Enqueue
<1>3. j \notin Elements(queue[t]) /\ NoRepeats(queue[t]) BY <1>1 DEF Queued, QueuesOK
<1>4. Elements(LPush(queue[t], j)) = Elements(queue[t]) \cup {j} /\ NoRepeats(LPush(queue[t], j))
  BY <1>1, <1>3, PushElements
<1>5. queue'[t] = LPush(queue[t], j) /\ \A u \in TypeSet \ {t} : queue'[u] = queue[u] BY <1>1, <1>2
<1>6. QueuesOK' BY <1>1, <1>4, <1>5 DEF QueuesOK
<1>7. \A i \in Jobs : i \in Elements(queue'[TypeOf[i]])
                      <=> i = j \/ i \in Elements(queue[TypeOf[i]])
  <2> SUFFICES ASSUME NEW i \in Jobs
               PROVE  i \in Elements(queue'[TypeOf[i]])
                      <=> i = j \/ i \in Elements(queue[TypeOf[i]])
    OBVIOUS
  <2>1. TypeOf[i] \in TypeSet BY JobsAssumption
  <2>2. CASE TypeOf[i] = t BY <1>4, <1>5, <2>2
  <2>3. CASE TypeOf[i] # t BY <1>5, <2>1, <2>3
  <2> QED BY <2>2, <2>3
<1> QED BY <1>6, <1>7 DEF Queued

(* The worker lets its job go: completed, parked, queued again, or dead. *)
LEMMA OneOwnerEnds ==
    ASSUME Undisturbed, IInv, OneOwner, NEW w \in Workers, NEW j, j = cur[w],
           CompleteUnlease(w) \/ FailPark(w) \/ FailPush(w) \/ DeadSet(w)
           \/ (FailSet(w) /\ copy[w].status = "dead")
    PROVE  OneOwner'
<1>0. /\ w \in Actors /\ QueuesOK /\ NoJob \notin Jobs
      /\ proc \in [Workers -> Seq(Jobs)] /\ blob \in [Jobs -> Blob]
      /\ lease \in [Jobs -> {"none", "held", "expired"}]
      /\ delayed \in [Jobs -> {"none", "parked", "due"}]
  BY ActorsAssumption, JobsAssumption DEF Actors, IInv, RedisOK, ListsOK, StoreOK, SetsOK, OneOwner
<1> DEFINE Facts ==
        /\ j \in Jobs /\ blob[j] \in Blob /\ BlobKnown(w, j) /\ CopyKnown(w, j)
        /\ ~Queued(j) /\ delayed[j] = "none"
        /\ lease[j] = "none" \/ (lease[j] = "held" /\ pc[w] \in Leasing /\ Visibility)
<1>f. ASSUME pc[w] \in Plain PROVE Facts BY <1>0, <1>f, PlainPlaces, OwnerFacts
<1> HIDE DEF Facts
<1>1. ASSUME CompleteUnlease(w) PROVE OneOwner'
  <2>1. pc[w] = "complete_unlease" /\ pc[w] \in Plain \ Tracking
    BY <1>1 DEF CompleteUnlease, Plain, UsedWorkerPcs, OwnerPcs, Moving, Working, HasRun, Done,
      Raising, Tracking, Leasing, Promoting, Recovering, WorkerPcs
  <2>2. Facts BY <1>f, <2>1
  <2>3. Moves(w, LoopHead, NoJob, Absent, todo[w])
    BY <1>0, <1>1, <2>1, BackToLoop DEF CompleteUnlease
  <2>4. /\ UNCHANGED <<blob, queue, proc, delayed, runs, born, crashes>>
        /\ lease'[j] = "none" /\ \A i \in Jobs \ {j} : lease'[i] = lease[i]
    BY <1>0, <1>1, <2>2 DEF CompleteUnlease, ClearLease, Facts, store, history
  <2>5. \A i \in Jobs \ {j} : Same(i) BY <2>4 DEF Same, Queued
  <2>6. Waits(j)' /\ QueuesOK' BY <1>0, <2>2, <2>4 DEF Waits, Queued, Facts, QueuesOK
  <2> QED BY <2>1, <2>3, <2>4, <2>5, <2>6, LoopPlaces, ReleaseAt
<1>2. ASSUME FailPark(w) PROVE OneOwner'
  <2>1. pc[w] = "fail_park" /\ pc[w] \in Plain \ Tracking /\ pc[w] \in Moving /\ pc[w] \notin Leasing
    BY <1>2 DEF FailPark, Plain, UsedWorkerPcs, OwnerPcs, Moving, Working, HasRun, Done, Raising,
      Tracking, Leasing, Promoting, Recovering, WorkerPcs
  <2>2. Facts BY <1>f, <2>1
  <2>3. Moves(w, LoopHead, NoJob, Absent, todo[w]) BY <1>0, <1>2, <2>1, BackToLoop DEF FailPark
  <2>4. /\ UNCHANGED <<blob, queue, proc, lease, runs, born, crashes>>
        /\ \A i \in Jobs \ {j} : delayed'[i] = delayed[i]
    BY <1>0, <1>2, <2>2 DEF FailPark, Facts, store, history
  <2>5. \A i \in Jobs \ {j} : Same(i) BY <2>4 DEF Same, Queued
  <2>6. Waits(j)' /\ QueuesOK'
    BY <1>0, <2>1, <2>2, <2>4 DEF Waits, Queued, Facts, QueuesOK, BlobKnown
  <2> QED BY <2>1, <2>3, <2>4, <2>5, <2>6, LoopPlaces, ReleaseAt
<1>3. ASSUME FailPush(w) PROVE OneOwner'
  <2>1. pc[w] = "fail_push" /\ pc[w] \in Plain \ Tracking /\ pc[w] \in Moving /\ pc[w] \notin Leasing
    BY <1>3 DEF FailPush, Plain, UsedWorkerPcs, OwnerPcs, Moving, Working, HasRun, Done, Raising,
      Tracking, Leasing, Promoting, Recovering, WorkerPcs
  <2>2. Facts BY <1>f, <2>1
  <2>3. Moves(w, LoopHead, NoJob, Absent, todo[w]) BY <1>0, <1>3, <2>1, BackToLoop DEF FailPush
  <2>4. UNCHANGED <<blob, delayed, proc, lease, runs, born, crashes>> /\ Enqueue(j)
    BY <1>0, <1>3, <2>2 DEF FailPush, store, history, zsets
  <2>5. QueuesOK' /\ Queued(j)' /\ \A i \in Jobs \ {j} : Queued(i)' <=> Queued(i)
    BY <2>2, <2>4, EnqueueFacts DEF Facts
  <2>6. (\A i \in Jobs \ {j} : Same(i)) /\ Waits(j)'
    BY <1>0, <2>1, <2>2, <2>4, <2>5 DEF Same, Waits, Facts, BlobKnown
  <2> QED BY <2>1, <2>3, <2>4, <2>5, <2>6, LoopPlaces, ReleaseAt
<1>4. ASSUME DeadSet(w) PROVE OneOwner'
  <2>1. pc[w] = "dead_set" /\ pc[w] \in Plain \ Tracking /\ pc[w] \notin Leasing
    BY <1>4 DEF DeadSet, Plain, UsedWorkerPcs, OwnerPcs, Moving, Working, HasRun, Done, Raising,
      Tracking, Leasing, Promoting, Recovering, WorkerPcs
  <2>2. Facts BY <1>f, <2>1
  <2>3. Moves(w, LoopHead, NoJob, Absent, todo[w]) BY <1>0, <1>4, <2>1, BackToLoop DEF DeadSet
  <2>4. /\ UNCHANGED <<delayed, queue, proc, lease, runs, born, crashes>>
        /\ blob' = [blob EXCEPT ![j] = copy[w]]
    BY <1>0, <1>4, <2>2 DEF DeadSet, Set, history, zsets
  <2>5. \A i \in Jobs \ {j} : Same(i) BY <1>0, <2>4 DEF Same, Queued
  <2>6. Waits(j)' /\ QueuesOK' BY <1>0, <2>1, <2>2, <2>4 DEF Waits, Queued, Facts, QueuesOK
  <2> QED BY <2>1, <2>3, <2>4, <2>5, <2>6, LoopPlaces, ReleaseAt
<1>5. ASSUME FailSet(w), copy[w].status = "dead" PROVE OneOwner'
  <2>1. pc[w] = "fail_set" /\ pc[w] \in Plain \ Tracking /\ pc[w] \notin Leasing
    BY <1>5 DEF FailSet, Plain, UsedWorkerPcs, OwnerPcs, Moving, Working, HasRun, Done, Raising,
      Tracking, Leasing, Promoting, Recovering, WorkerPcs
  <2>2. Facts BY <1>f, <2>1
  <2>3. Moves(w, "fail_dlq", j, copy[w], todo[w]) BY <1>0, <1>5, GotoMoves DEF FailSet
  <2>4. /\ UNCHANGED <<delayed, queue, proc, lease, runs, born, crashes>>
        /\ blob' = [blob EXCEPT ![j] = copy[w]]
    BY <1>0, <1>5, <2>2 DEF FailSet, Set, history, zsets
  <2>5. \A i \in Jobs \ {j} : Same(i) BY <1>0, <2>4 DEF Same, Queued
  <2>6. Waits(j)' /\ QueuesOK' BY <1>0, <2>1, <2>2, <2>4 DEF Waits, Queued, Facts, QueuesOK
  <2> QED BY <2>1, <2>3, <2>4, <2>5, <2>6, ReleaseAt
<1> QED BY <1>1, <1>2, <1>3, <1>4, <1>5

(* The worker takes the id off a queue. *)
\* RPOP takes a job that nobody owns.
LEMMA PopFacts ==
    ASSUME IInv, OneOwner, NEW t \in TypeSet, queue[t] # <<>>,
           NEW j, j = Oldest(queue[t]), queue' = [queue EXCEPT ![t] = Older(@)]
    PROVE  /\ QueuesOK' /\ j \in Jobs /\ Queued(j) /\ ~Queued(j)'
           /\ \A i \in Jobs \ {j} : Queued(i)' <=> Queued(i)
           /\ \A c \in Actors : ~Owns(c, j)
           /\ j \in born /\ blob[j].status = "pending" /\ delayed[j] = "none"
           /\ lease[j] = "none"
<1>1. queue \in [TypeSet -> Seq(Jobs)] /\ QueuesOK BY DEF IInv, RedisOK, ListsOK, OneOwner
<1>2. /\ j \in Elements(queue[t]) /\ Elements(Older(queue[t])) = Elements(queue[t]) \ {j}
      /\ NoRepeats(Older(queue[t])) /\ j \in Jobs
  BY <1>1, PopElements, PopOK DEF QueuesOK
<1>3. TypeOf[j] = t BY <1>1, <1>2 DEF QueuesOK
<1>4. queue'[t] = Older(queue[t]) /\ \A u \in TypeSet \ {t} : queue'[u] = queue[u] BY <1>1
<1>5. QueuesOK' BY <1>1, <1>2, <1>4 DEF QueuesOK
<1>6. \A i \in Jobs : i \in Elements(queue'[TypeOf[i]])
                      <=> i # j /\ i \in Elements(queue[TypeOf[i]])
  <2> SUFFICES ASSUME NEW i \in Jobs
               PROVE  i \in Elements(queue'[TypeOf[i]])
                      <=> i # j /\ i \in Elements(queue[TypeOf[i]])
    OBVIOUS
  <2>1. TypeOf[i] \in TypeSet BY JobsAssumption
  <2>2. CASE TypeOf[i] = t BY <1>2, <1>4, <2>2
  <2>3. CASE TypeOf[i] # t BY <1>3, <1>4, <2>1, <2>3
  <2> QED BY <2>2, <2>3
<1>7. Queued(j) BY <1>2, <1>3 DEF Queued
<1>8. Owned(j) /\ Waits(j) /\ Unborn(j) BY <1>2 DEF OneOwner, Single
<1>9. \A c \in Actors : ~Owns(c, j) BY <1>7, <1>8 DEF Owned, OwnerKnows
<1>10. blob[j].status = "pending" /\ delayed[j] = "none" /\ j \in born
  BY <1>7, <1>8 DEF Waits, Unborn, Missing
<1>11. lease[j] = "none" BY <1>8, <1>9, PlacesApart DEF Waits, Owns
<1> QED BY <1>2, <1>5, <1>6, <1>7, <1>9, <1>10, <1>11 DEF Queued

LEMMA OneOwnerPicks ==
    ASSUME Undisturbed, IInv, OneOwner, NEW w \in Workers,
           PickMove(w) \/ PickPop(w) \/ PickTrack(w) \/ PickTimeout(w) \/ PickSet(w)
    PROVE  OneOwner'
<1>0. /\ w \in Actors /\ QueuesOK /\ NoJob \notin Jobs /\ PlacesOK /\ w # NoWorker
      /\ proc \in [Workers -> Seq(Jobs)] /\ blob \in [Jobs -> Blob]
      /\ lease \in [Jobs -> {"none", "held", "expired"}]
  BY ActorsAssumption, JobsAssumption DEF Actors, IInv, RedisOK, ListsOK, StoreOK, SetsOK, OneOwner
<1>p. "pick" \notin Promoting \cup Recovering \cup Sparing \cup OwnerPcs \cup Tracking /\ "pick" \in EmptyHanded
  BY PlainPlaces DEF EmptyHanded
<1>c. ASSUME pc[w] = "pick" PROVE cur[w] = NoJob /\ todo[w] = <<>>
  BY <1>0, <1>p, <1>c DEF PlacesOK, ActorOK, WorkerOK
<1>1. ASSUME NEW l, NEW t \in TypeSet, l \in {"pick_get", "pick_track"}, pc[w] = "pick", Ready(t),
             queue' = [queue EXCEPT ![t] = Older(@)],
             Hold(w, l, Oldest(queue[t]), Absent),
             UNCHANGED <<store, zsets, history>>,
             proc' = IF l = "pick_get" THEN [proc EXCEPT ![w] = LPush(@, Oldest(queue[t]))] ELSE proc
      PROVE  OneOwner'
  <2>1. PICK j : j = Oldest(queue[t]) OBVIOUS
  <2>2. queue[t] # <<>> BY <1>1 DEF Ready
  <2>3. /\ QueuesOK' /\ j \in Jobs /\ Queued(j) /\ ~Queued(j)'
        /\ \A i \in Jobs \ {j} : Queued(i)' <=> Queued(i)
        /\ \A c \in Actors : ~Owns(c, j)
        /\ j \in born /\ blob[j].status = "pending" /\ delayed[j] = "none"
        /\ lease[j] = "none"
    BY <1>1, <2>1, <2>2, PopFacts
  <2>4. Moves(w, l, j, Absent, todo[w]) BY <1>0, <1>1, <2>1, HoldMoves
  <2>5. UNCHANGED <<blob, delayed, lease, born, runs, crashes>> BY <1>1 DEF store, zsets, history
  <2>6. /\ l \in OwnerPcs /\ l # "submit_set" /\ l \in Plain /\ l \in Moving /\ l \notin EmptyHanded
        /\ l \notin Working \cup Done \cup Raising
        /\ l \notin Promoting \cup Recovering \cup Sparing /\ l \in UsedWorkerPcs
        /\ (l \in Tracking <=> l = "pick_get")
    BY <1>1, PlacesApart, PlainPlaces DEF Plain, UsedWorkerPcs, OwnerPcs, Moving, Working, HasRun,
      Done, Raising, Tracking, Leasing, Promoting, Recovering, WorkerPcs
  <2>7. pc'[w] = l /\ copy'[w] = Absent BY <1>0, <2>4, MovesOK
  <2>8. \A v \in Workers \ {w} : proc'[v] = proc[v] BY <1>0, <1>1
  <2>9. BlobKnown(w, j)' /\ CopyKnown(w, j)'
    BY <1>1, <2>3, <2>5, <2>6, <2>7 DEF BlobKnown, CopyKnown
  <2>10. \A i \in Jobs : Single(i)'
    <3>1. \A i \in Jobs \ {j} : Same(i) BY <2>3, <2>5 DEF Same
    <3> QED BY <1>0, <1>1, <1>c, <2>3, <2>4, <2>5, <2>6, <2>8, <2>9, <3>1, Take
  <2>11. crashes' = 0 => proc'[w] = IF l \in Tracking THEN <<j>> ELSE <<>>
    <3> SUFFICES ASSUME crashes = 0 PROVE proc'[w] = IF l \in Tracking THEN <<j>> ELSE <<>> BY <2>5
    <3>1. proc[w] = <<>> BY <1>p, <1>1, Tracked
    <3>2. LPush(<<>>, j) = <<j>> BY DEF LPush
    <3> QED BY <1>0, <1>1, <2>1, <2>6, <3>1, <3>2
  <2>12. WorkerOK(w)' BY <1>p, <1>1, <2>4, <2>6, <2>11, PlainWorker
  <2>13. PlacesOK' BY <1>0, <1>1, <2>4, <2>5, <2>6, <2>8, <2>12, PlacesStep
  <2> QED BY <2>3, <2>10, <2>13 DEF OneOwner
<1>2. CASE PickMove(w)
  <2>1. PICK t \in TypeSet : /\ Ready(t)
                             /\ queue' = [queue EXCEPT ![t] = Older(@)]
                             /\ proc' = [proc EXCEPT ![w] = LPush(@, Oldest(queue[t]))]
                             /\ Hold(w, "pick_get", Oldest(queue[t]), Absent)
    BY <1>2 DEF PickMove
  <2> QED BY <1>1, <1>2, <2>1 DEF PickMove
<1>3. CASE PickPop(w)
  <2>1. PICK t \in TypeSet : /\ Ready(t)
                             /\ queue' = [queue EXCEPT ![t] = Older(@)]
                             /\ Hold(w, "pick_track", Oldest(queue[t]), Absent)
    BY <1>3 DEF PickPop
  <2> QED BY <1>1, <1>3, <2>1 DEF PickPop
<1>4. CASE PickTrack(w)
  <2>1. PICK j : j = cur[w] OBVIOUS
  <2>2. pc[w] = "pick_track" /\ pc[w] \in Plain /\ pc[w] \notin Leasing /\ pc[w] \in Moving
        /\ pc[w] \notin Tracking
    BY <1>4 DEF PickTrack, Plain, UsedWorkerPcs, OwnerPcs, Moving, Working, HasRun, Done, Raising,
      Tracking, Leasing, Promoting, Recovering, WorkerPcs
  <2>3. /\ "pick_get" \in OwnerPcs /\ "pick_get" \in Plain /\ "pick_get" \in Moving
        /\ "pick_get" \notin Working \cup Done \cup Raising
        /\ "pick_get" \in Tracking
    BY DEF Plain, UsedWorkerPcs, OwnerPcs, Moving, Working, HasRun, Done, Raising, Tracking,
      Leasing, Promoting, Recovering, WorkerPcs
  <2>4. /\ j \in Jobs /\ lease[j] = "none" /\ blob[j].status = "pending"
    BY <1>0, <2>1, <2>2, PlainPlaces, OwnerFacts DEF BlobKnown
  <2>5. Moves(w, "pick_get", j, copy[w], todo[w]) BY <1>0, <1>4, <2>1, GotoMoves DEF PickTrack
  <2>6. /\ UNCHANGED <<blob, delayed, lease, queue, born, runs, crashes>>
        /\ proc' = [proc EXCEPT ![w] = RPush(@, j)]
    BY <1>4, <2>1 DEF PickTrack, store, zsets, history
  <2>7. pc'[w] = "pick_get" /\ \A v \in Workers \ {w} : proc'[v] = proc[v]
    BY <1>0, <2>5, <2>6, MovesOK
  <2>8. BlobKnown(w, j)' /\ CopyKnown(w, j)' BY <2>3, <2>4, <2>6, <2>7 DEF BlobKnown, CopyKnown
  <2>9. \A i \in Jobs : Single(i)'
    BY <1>0, <2>1, <2>2, <2>3, <2>4, <2>5, <2>6, <2>7, <2>8, PlainPlaces, Keep
  <2>10. crashes' = 0 => proc'[w] = IF "pick_get" \in Tracking THEN <<j>> ELSE <<>>
    <3> SUFFICES ASSUME crashes = 0 PROVE proc'[w] = <<j>> BY <2>3, <2>6
    <3>1. proc[w] = <<>> BY <2>2, Tracked
    <3>2. RPush(<<>>, j) = <<j>> BY DEF RPush
    <3> QED BY <1>0, <2>6, <3>1, <3>2
  <2>11. WorkerOK(w)' BY <2>2, <2>3, <2>5, <2>10, PlainPlaces, PlainWorker
  <2>12. PlacesOK' BY <1>0, <2>3, <2>5, <2>6, <2>7, <2>11, PlainPlaces, PlacesApart, PlacesStep
  <2>13. QueuesOK' BY <1>0, <2>6 DEF QueuesOK
  <2> QED BY <2>9, <2>12, <2>13 DEF OneOwner
<1>5. CASE PickTimeout(w)
  <2>1. pc[w] = "pick" /\ UNCHANGED <<redis, history>> BY <1>5 DEF PickTimeout
  <2>2. Moves(w, LoopHead, NoJob, Absent, todo[w])
    BY <1>0, <1>5, <1>c, <2>1, ReturnMoves DEF PickTimeout, Rest
  <2>3. UNCHANGED <<blob, delayed, lease, queue, proc, born, runs, crashes>>
    BY <2>1 DEF redis, store, zsets, history
  <2>4. LoopHead \notin Sparing \cup OwnerPcs \cup Promoting \cup Recovering \cup Tracking
        /\ LoopHead \in UsedWorkerPcs /\ LoopHead # "pick_lease"
    BY LoopPlaces, PlainPlaces
  <2>5. \A i \in Jobs : Same(i) BY <2>3 DEF Same, Queued
  <2>6. \A i \in Jobs : Single(i)' BY <1>0, <1>p, <2>1, <2>2, <2>3, <2>4, <2>5, Idle
  <2>7. WorkerOK(w)' BY <1>p, <2>1, <2>2, <2>3, <2>4, PlainWorker, Tracked
  <2>8. PlacesOK' BY <1>0, <2>2, <2>3, <2>4, <2>7, PlacesStep
  <2>9. QueuesOK' BY <1>0, <2>3 DEF QueuesOK
  <2> QED BY <2>6, <2>8, <2>9 DEF OneOwner
<1>6. CASE PickSet(w)
  <2> DEFINE l == IF Visibility THEN "pick_lease" ELSE "trace_get"
  <2>1. PICK j : j = cur[w] OBVIOUS
  <2>2. /\ pc[w] = "pick_set" /\ pc[w] \in Plain /\ pc[w] \notin Leasing /\ pc[w] \in Tracking
        /\ l \in Plain /\ l \in Tracking /\ l \in Working /\ l \notin Moving \cup Done \cup Raising \cup HasRun
        /\ l \in {"pick_lease", "trace_get"} /\ (l = "pick_lease" => Visibility)
    BY <1>6 DEF PickSet, Plain, UsedWorkerPcs, OwnerPcs, Moving, Working, HasRun, Done, Raising,
      Tracking, Leasing, Promoting, Recovering, WorkerPcs
  <2>3. /\ j \in Jobs /\ lease[j] = "none" /\ blob[j] \in Blob
        /\ copy[w] = [blob[j] EXCEPT !.status = "processing", !.worker = w]
    <3>1. j \in Jobs /\ lease[j] = "none" /\ blob[j] \in Blob /\ CopyKnown(w, j)
      BY <1>0, <2>1, <2>2, PlainPlaces, OwnerFacts
    <3> QED BY <2>2, <3>1 DEF CopyKnown
  <2>4. Moves(w, l, j, Absent, todo[w]) BY <1>0, <1>6, <2>1, HoldMoves DEF PickSet
  <2>5. /\ UNCHANGED <<delayed, lease, queue, proc, born, runs, crashes>>
        /\ blob' = [blob EXCEPT ![j] = copy[w]]
    BY <1>6, <2>1 DEF PickSet, Set, zsets, history
  <2> HIDE DEF l
  <2>6. pc'[w] = l BY <1>0, <2>4, MovesOK
  <2>7. BlobKnown(w, j)' /\ CopyKnown(w, j)' /\ blob'[j].status # "failed"
    <3>1. blob'[j].status = "processing" /\ blob'[j].worker = w BY <1>0, <2>3, <2>5 DEF Blob
    <3> QED BY <2>2, <2>6, <3>1 DEF BlobKnown, CopyKnown
  <2> QED BY <1>0, <2>1, <2>2, <2>3, <2>4, <2>5, <2>7, KeepAt
<1> QED BY <1>2, <1>3, <1>4, <1>5, <1>6

-----------------------------------------------------------------------------
(* Promotion, the sweep of leases, the listing of the dead.                 *)

LEMMA SweepPlaces ==
    /\ {"promote_zrem", "promote_get", "promote_push"} \subseteq UsedWorkerPcs
    /\ Promoting = {"promote_zrem", "promote_get", "promote_push"}
    /\ Promoting \cap (Recovering \cup Sparing \cup Tracking) = {}
    /\ "promote_zrem" \notin OwnerPcs /\ "promote_get" \in OwnerPcs /\ "promote_push" \in OwnerPcs
    /\ "promote_get" \in Moving /\ "promote_push" \in Moving
    /\ Promoting \cap (Working \cup Done \cup Raising \cup Leasing) = {}
    /\ "promote_zrem" \in EmptyHanded
  BY DEF Plain, UsedWorkerPcs, OwnerPcs, Moving, Working, HasRun, Done, Raising, Tracking, Leasing,
    Promoting, Recovering, WorkerPcs, Sparing, EmptyHanded

LEMMA SweepWorker ==
    ASSUME IInv, OneOwner, NEW w \in Workers, pc[w] \notin Tracking,
           NEW l, l \notin Recovering \cup Sparing \cup Tracking,
           NEW y, NEW b, NEW s, Moves(w, l, y, b, s), l \in Promoting \/ s = <<>>,
           UNCHANGED <<proc, crashes>>
    PROVE  WorkerOK(w)'
<1>1. w \in Actors /\ (crashes = 0 => proc[w] = <<>>) BY Tracked DEF Actors
<1>2. pc'[w] = l /\ cur'[w] = y /\ todo'[w] = s BY <1>1, MovesOK
<1> QED BY <1>1, <1>2 DEF WorkerOK, Sparing, Recovering

\* After the last id of a reply none is left.
LEMMA LastOfReply ==
    ASSUME IInv, NEW a \in Actors, pc[a] \in Sweeping
    PROVE  /\ Next1(a) \in Jobs /\ todo[a] # <<>>
           /\ Len(todo[a]) <= 1 => Tail(todo[a]) = <<>>
<1>1. todo[a] \in Seq(Jobs) /\ todo[a] # <<>> BY DEF IInv, LocalOK
<1>2. Len(todo[a]) \in Nat /\ Tail(todo[a]) \in Seq(Jobs) /\ Len(Tail(todo[a])) = Len(todo[a]) - 1
      /\ Len(todo[a]) # 0
  BY <1>1
<1>3. Len(todo[a]) <= 1 => Len(Tail(todo[a])) = 0
  <2>1. \A n \in Nat : n # 0 /\ n <= 1 => n - 1 = 0 OBVIOUS
  <2> QED BY <1>2, <2>1
<1>4. \A list \in Seq(Jobs) : Len(list) = 0 => list = <<>> OBVIOUS
<1> QED BY <1>1, <1>2, <1>3, <1>4 DEF Next1

LEMMA NoLeaseExpired ==
    ASSUME OneOwner PROVE {j \in Jobs : lease[j] = "expired"} = {}
  BY DEF OneOwner, Single, Waits

LEMMA OneOwnerSweeps ==
    ASSUME Undisturbed, IInv, OneOwner, NEW w \in Workers,
           PromoteScan(w) \/ PromoteZrem(w) \/ PromoteGet(w) \/ PromotePush(w) \/ ReapScan(w)
           \/ FailDlq(w) \/ FailIndex(w)
    PROVE  OneOwner'
<1>0. /\ w \in Actors /\ QueuesOK /\ NoJob \notin Jobs /\ PlacesOK
      /\ proc \in [Workers -> Seq(Jobs)] /\ blob \in [Jobs -> Blob]
      /\ delayed \in [Jobs -> {"none", "parked", "due"}]
      /\ pc[w] \in EmptyHanded => cur[w] = NoJob
      /\ pc[w] \notin Promoting \cup Recovering => todo[w] = <<>>
  BY ActorsAssumption, JobsAssumption DEF Actors, IInv, RedisOK, ListsOK, StoreOK, SetsOK, OneOwner,
    PlacesOK, ActorOK, WorkerOK
<1>a. LoopHead \notin OwnerPcs \cup Sparing \cup Tracking \cup Promoting \cup Recovering
      /\ AfterPromote \notin OwnerPcs \cup Sparing \cup Tracking \cup Promoting \cup Recovering
      /\ LoopHead \in UsedWorkerPcs /\ AfterPromote \in UsedWorkerPcs
      /\ LoopHead # "pick_lease" /\ AfterPromote # "pick_lease"
      /\ "pick" \notin OwnerPcs \cup Sparing \cup Tracking \cup Promoting \cup Recovering
      /\ "pick" \in UsedWorkerPcs
  BY LoopPlaces, PlainPlaces
\* A step that leaves the queues, the jobs and their owners as they are.
<1>1. ASSUME pc[w] \notin OwnerPcs \cup Tracking, NEW l, l \notin OwnerPcs \cup Recovering \cup Sparing \cup Tracking,
             l \in UsedWorkerPcs, l # "pick_lease",
             NEW y \in {cur[w], NoJob}, l \in EmptyHanded => y = NoJob,
             NEW b, NEW s, Moves(w, l, y, b, s), l \in Promoting \/ s = <<>>,
             UNCHANGED <<blob, delayed, lease, queue, proc, born, runs, crashes>>
      PROVE  OneOwner'
  <2>1. \A i \in Jobs : Same(i) BY <1>1 DEF Same, Queued
  <2>2. \A i \in Jobs : Single(i)' BY <1>0, <1>1, <2>1, Idle
  <2>3. WorkerOK(w)' BY <1>1, SweepWorker
  <2>4. PlacesOK' BY <1>0, <1>1, <2>3, PlacesStep
  <2>5. QueuesOK' BY <1>0, <1>1 DEF QueuesOK
  <2> QED BY <2>2, <2>4, <2>5 DEF OneOwner
<1>2. ASSUME PromoteScan(w) PROVE OneOwner'
  <2>1. pc[w] = "promote" /\ UNCHANGED <<redis, history>> BY <1>2 DEF PromoteScan
  <2>2. PICK S : S = {j \in Jobs : delayed[j] = "due"} OBVIOUS
  <2>3. PICK s \in Orders(S) :
            Moves(w, IF s = <<>> THEN AfterPromote ELSE "promote_zrem", cur[w], copy[w], s)
    BY <1>0, <1>2, <2>2, ScanMoves DEF PromoteScan
  <2>4. PICK l : l = IF s = <<>> THEN AfterPromote ELSE "promote_zrem" OBVIOUS
  <2>5. /\ l \notin OwnerPcs \cup Recovering \cup Sparing \cup Tracking
        /\ l \in UsedWorkerPcs /\ l # "pick_lease" /\ (l \in Promoting \/ s = <<>>)
    BY <1>a, <2>4, SweepPlaces
  <2>6. pc[w] \notin OwnerPcs \cup Tracking /\ pc[w] \in EmptyHanded /\ Moves(w, l, cur[w], copy[w], s)
    BY <2>1, <2>3, <2>4, PlainPlaces DEF EmptyHanded
  <2>7. UNCHANGED <<blob, delayed, lease, queue, proc, born, runs, crashes>>
    BY <2>1 DEF redis, store, zsets, history
  <2> QED BY <1>0, <1>1, <2>5, <2>6, <2>7
<1>3. ASSUME PromoteZrem(w) PROVE OneOwner'
  <2>1. pc[w] = "promote_zrem" /\ UNCHANGED <<store, queue, proc, lease, history>>
    BY <1>3 DEF PromoteZrem
  <2>2. PICK j : j = Next1(w) OBVIOUS
  <2>3. pc[w] \in Sweeping /\ pc[w] \notin OwnerPcs \cup Tracking /\ cur[w] = NoJob
    BY <1>0, <2>1, SweepPlaces DEF Sweeping
  <2>4. j \in Jobs /\ todo[w] # <<>> /\ (Len(todo[w]) <= 1 => Tail(todo[w]) = <<>>)
    BY <1>0, <2>2, <2>3, LastOfReply
  <2>5. CASE delayed[j] = "none"
    <3>1. Advance(w, "promote_zrem", AfterPromote) /\ UNCHANGED delayed
      BY <1>3, <2>2, <2>5 DEF PromoteZrem
    <3>2. PICK l : l = IF Len(todo[w]) > 1 THEN "promote_zrem" ELSE AfterPromote OBVIOUS
    <3>3. Moves(w, l, NoJob, Absent, Tail(todo[w])) BY <1>0, <3>1, <3>2, AdvanceMoves
    <3>4. l \in Promoting \/ Tail(todo[w]) = <<>>
      <4>1. Len(todo[w]) \in Nat BY <1>0 DEF IInv, LocalOK
      <4> QED BY <2>4, <3>2, <4>1, SweepPlaces
    <3>5. /\ l \notin OwnerPcs \cup Recovering \cup Sparing \cup Tracking
          /\ l \in UsedWorkerPcs /\ l # "pick_lease"
      BY <1>a, <3>2, SweepPlaces
    <3>6. UNCHANGED <<blob, delayed, lease, queue, proc, born, runs, crashes>>
      BY <2>1, <3>1 DEF store, history
    <3> QED BY <1>1, <2>3, <3>3, <3>4, <3>5, <3>6
  <2>6. CASE delayed[j] # "none"
    <3>1. Hold(w, "promote_get", j, Absent) /\ delayed' = [delayed EXCEPT ![j] = "none"]
      BY <1>3, <2>2, <2>6 DEF PromoteZrem
    <3>2. Moves(w, "promote_get", j, Absent, todo[w]) BY <1>0, <3>1, HoldMoves
    <3>3. Owned(j) /\ Waits(j) /\ Unborn(j) BY <2>4 DEF OneOwner, Single
    <3>4. \A c \in Actors : ~Owns(c, j) BY <2>6, <3>3 DEF Owned, OwnerKnows
    <3>5. /\ ~Queued(j) /\ blob[j].status = "pending" /\ j \in born /\ lease[j] = "none"
      <4>1. ~Queued(j) /\ blob[j].status = "pending" /\ j \in born
        BY <2>6, <3>3 DEF Waits, Unborn, Missing
      <4>2. lease[j] = "none" BY <3>3, <3>4, PlacesApart DEF Waits, Owns
      <4> QED BY <4>1, <4>2
    <3>6. /\ UNCHANGED <<blob, lease, queue, proc, born, runs, crashes>> /\ delayed'[j] = "none"
          /\ \A i \in Jobs \ {j} : delayed'[i] = delayed[i]
      BY <1>0, <2>1, <2>4, <3>1 DEF store, history
    <3>7. (\A i \in Jobs \ {j} : Same(i)) /\ ~Queued(j)' BY <3>5, <3>6 DEF Same, Queued
    <3>8. pc'[w] = "promote_get" BY <1>0, <3>2, MovesOK
    <3>9. BlobKnown(w, j)' /\ CopyKnown(w, j)'
      BY <3>5, <3>6, <3>8, SweepPlaces DEF BlobKnown, CopyKnown
    <3>10. \A i \in Jobs : Single(i)'
      BY <1>0, <2>3, <2>4, <3>2, <3>4, <3>5, <3>6, <3>7, <3>9, SweepPlaces, Take
    <3>11. WorkerOK(w)' BY <2>3, <3>2, <3>6, SweepPlaces, SweepWorker
    <3>12. PlacesOK' BY <1>0, <3>2, <3>6, <3>11, SweepPlaces, PlacesApart, PlacesStep
    <3>13. QueuesOK' BY <1>0, <3>6 DEF QueuesOK
    <3> QED BY <3>10, <3>12, <3>13 DEF OneOwner
  <2> QED BY <2>5, <2>6
<1>4. ASSUME PromoteGet(w) PROVE OneOwner'
  <2>1. PICK j : j = cur[w] OBVIOUS
  <2>2. pc[w] = "promote_get" /\ UNCHANGED <<redis, history>> BY <1>4 DEF PromoteGet
  <2>3. /\ j \in Jobs /\ lease[j] = "none" /\ blob[j].status = "pending"
    BY <1>0, <2>1, <2>2, SweepPlaces, OwnerFacts DEF BlobKnown
  <2>4. Moves(w, "promote_push", j, copy[w], todo[w])
    BY <1>0, <1>4, <2>1, <2>3, GotoMoves DEF PromoteGet, Missing, Finished, Terminal
  <2>5. UNCHANGED <<blob, delayed, lease, queue, proc, born, runs, crashes>>
    BY <2>2 DEF redis, store, zsets, history
  <2>6. pc'[w] = "promote_push" BY <1>0, <2>4, MovesOK
  <2>7. BlobKnown(w, j)' /\ CopyKnown(w, j)'
    BY <2>3, <2>5, <2>6, SweepPlaces DEF BlobKnown, CopyKnown
  <2>8. \A i \in Jobs : Single(i)' BY <1>0, <2>1, <2>2, <2>3, <2>4, <2>5, <2>7, SweepPlaces, Keep
  <2>9. WorkerOK(w)' BY <2>2, <2>4, <2>5, SweepPlaces, SweepWorker
  <2>10. PlacesOK' BY <1>0, <2>4, <2>5, <2>9, SweepPlaces, PlacesApart, PlacesStep
  <2>11. QueuesOK' BY <1>0, <2>5 DEF QueuesOK
  <2> QED BY <2>8, <2>10, <2>11 DEF OneOwner
<1>5. ASSUME PromotePush(w) PROVE OneOwner'
  <2>1. PICK j : j = cur[w] OBVIOUS
  <2>2. pc[w] = "promote_push" /\ UNCHANGED <<store, proc, zsets, history>> /\ Enqueue(j)
    BY <1>5, <2>1 DEF PromotePush
  <2>3. /\ j \in Jobs /\ lease[j] = "none" /\ blob[j].status = "pending" /\ ~Queued(j)
        /\ delayed[j] = "none"
    BY <1>0, <2>1, <2>2, SweepPlaces, OwnerFacts DEF BlobKnown
  <2>4. PICK l : l = IF Len(todo[w]) > 1 THEN "promote_zrem" ELSE AfterPromote OBVIOUS
  <2>5. Moves(w, l, NoJob, Absent, Tail(todo[w])) BY <1>0, <1>5, <2>4, AdvanceMoves DEF PromotePush
  <2>6. l \in Promoting \/ Tail(todo[w]) = <<>>
    <3>1. Len(todo[w]) \in Nat /\ pc[w] \in Sweeping BY <1>0, <2>2 DEF IInv, LocalOK, Sweeping
    <3> QED BY <1>0, <2>4, <3>1, SweepPlaces, LastOfReply
  <2>7. /\ l \notin OwnerPcs \cup Recovering \cup Sparing \cup Tracking
        /\ l \in UsedWorkerPcs /\ l # "pick_lease"
    BY <1>a, <2>4, SweepPlaces
  <2>8. UNCHANGED <<blob, delayed, lease, proc, born, runs, crashes>>
    BY <2>2 DEF store, zsets, history
  <2>9. QueuesOK' /\ Queued(j)' /\ \A i \in Jobs \ {j} : Queued(i)' <=> Queued(i)
    BY <2>2, <2>3, EnqueueFacts
  <2>10. (\A i \in Jobs \ {j} : Same(i)) /\ Waits(j)' BY <2>3, <2>8, <2>9 DEF Same, Waits
  <2>11. \A i \in Jobs : Single(i)'
    BY <1>0, <2>1, <2>2, <2>5, <2>7, <2>8, <2>10, SweepPlaces, Release
  <2>12. WorkerOK(w)' BY <2>2, <2>5, <2>6, <2>7, <2>8, SweepPlaces, SweepWorker
  <2>13. PlacesOK' BY <1>0, <2>5, <2>7, <2>8, <2>12, PlacesStep
  <2> QED BY <2>9, <2>11, <2>13 DEF OneOwner
<1>6. ASSUME ReapScan(w) PROVE OneOwner'
  <2>1. pc[w] = "reap" /\ UNCHANGED <<redis, history>> BY <1>6 DEF ReapScan
  <2>2. Scan(w, {}, "reap_zrem", "pick") BY <1>6, NoLeaseExpired DEF ReapScan
  <2>3. PICK s \in Orders({}) :
            Moves(w, IF s = <<>> THEN "pick" ELSE "reap_zrem", cur[w], copy[w], s)
    BY <1>0, <2>2, ScanMoves
  <2>4. s = <<>>
    <3>1. Cardinality({}) = 0 BY FS_EmptySet
    <3>2. s \in [1..0 -> {}] BY <3>1 DEF Orders
    <3>3. s \in Seq({}) /\ Len(s) = 0 BY <3>2
    <3> QED BY <3>3
  <2>5. pc[w] \notin OwnerPcs \cup Tracking /\ pc[w] \in EmptyHanded
    BY <2>1, PlainPlaces DEF EmptyHanded
  <2>6. UNCHANGED <<blob, delayed, lease, queue, proc, born, runs, crashes>>
    BY <2>1 DEF redis, store, zsets, history
  <2> QED BY <1>0, <1>1, <1>a, <2>3, <2>4, <2>5, <2>6
<1>7. ASSUME FailDlq(w) PROVE OneOwner'
  <2>1. pc[w] = "fail_dlq" /\ Moves(w, "fail_index", cur[w], copy[w], todo[w])
    BY <1>0, <1>7, GotoMoves DEF FailDlq
  <2>2. UNCHANGED <<blob, delayed, lease, queue, proc, born, runs, crashes>>
    BY <1>7 DEF FailDlq, store, zsets, history
  <2>3. todo[w] = <<>> /\ "fail_index" \notin EmptyHanded BY <1>0, <2>1, PlainPlaces DEF EmptyHanded
  <2> QED BY <1>1, <2>1, <2>2, <2>3, PlainPlaces
<1>8. ASSUME FailIndex(w) PROVE OneOwner'
  <2>1. pc[w] = "fail_index" /\ todo[w] = <<>> BY <1>0, <1>8, PlainPlaces DEF FailIndex
  <2>2. Moves(w, LoopHead, NoJob, Absent, todo[w])
    BY <1>0, <1>8, <2>1, ReturnMoves DEF FailIndex, Rest
  <2>3. UNCHANGED <<blob, delayed, lease, queue, proc, born, runs, crashes>>
    BY <1>8 DEF FailIndex, store, zsets, history
  <2> QED BY <1>1, <1>a, <2>1, <2>2, <2>3, PlainPlaces
<1> QED BY <1>2, <1>3, <1>4, <1>5, <1>6, <1>7, <1>8

-----------------------------------------------------------------------------
(* A worker that was started again works through the list it left.          *)

LEMMA RecoverPlaces ==
    /\ Recovering = {"recover_get", "recover_set", "recover_push", "recover_lrem"}
    /\ Recovering \cup Sparing \subseteq UsedWorkerPcs
    /\ Recovering \cap (Tracking \cup Promoting \cup Leasing \cup Working \cup Done \cup Raising) = {}
    /\ Sparing = {"down", "recover", "recover_get"}
    /\ Sparing \cap (Tracking \cup Promoting \cup OwnerPcs) = {} /\ Sparing \subseteq EmptyHanded
    /\ {"recover_set", "recover_push"} \subseteq OwnerPcs
    /\ {"recover_set", "recover_push", "recover_lrem"} \cap (EmptyHanded \cup Sparing) = {}
    /\ "recover_lrem" \notin OwnerPcs
    /\ "recover_push" \in Moving /\ "recover_set" \notin Moving
    /\ "pick_lease" \notin Recovering \cup Sparing /\ "submit_set" \notin Recovering
  BY DEF Plain, UsedWorkerPcs, OwnerPcs, Moving, Working, HasRun, Done, Raising, Tracking, Leasing,
    Promoting, Recovering, WorkerPcs, Sparing, EmptyHanded

LEMMA RecoveryList ==
    ASSUME IInv, OneOwner, NEW w \in Workers, pc[w] \in Recovering
    PROVE  /\ \E x \in Jobs : /\ proc[w] = <<x>> /\ x = IF pc[w] = "recover_get" THEN Next1(w) ELSE cur[w]
                              /\ Elements(proc[w]) = {x}
           /\ todo[w] = proc[w] /\ ~(Len(todo[w]) > 1) /\ Tail(todo[w]) = <<>> /\ crashes # 0
<1>1. proc[w] \in Seq(Jobs) /\ WorkerOK(w) BY DEF IInv, RedisOK, ListsOK, OneOwner, PlacesOK
<1>2. /\ todo[w] = proc[w] /\ Len(proc[w]) = 1 /\ (pc[w] # "recover_get" => proc[w] = <<cur[w]>>)
      /\ (crashes = 0 => proc[w] = <<>>)
  BY <1>1, RecoverPlaces DEF WorkerOK
<1>3. crashes # 0 BY <1>2
<1>4. PICK x \in Jobs : proc[w] = <<x>>
  <2>1. \A list \in Seq(Jobs) : Len(list) = 1 => list[1] \in Jobs /\ list = <<list[1]>> OBVIOUS
  <2> QED BY <1>1, <1>2, <2>1
<1>5. Head(<<x>>) = x /\ Tail(<<x>>) = <<>> /\ Elements(<<x>>) = {x} /\ Len(<<x>>) = 1 BY OneElement
<1>6. Next1(w) = x BY <1>2, <1>4, <1>5 DEF Next1
<1>7. pc[w] # "recover_get" => cur[w] = x
  <2> SUFFICES ASSUME pc[w] # "recover_get" PROVE cur[w] = x OBVIOUS
  <2>1. <<cur[w]>> = <<x>> BY <1>2, <1>4
  <2> QED BY <2>1
<1> QED BY <1>2, <1>3, <1>4, <1>5, <1>6, <1>7

\* A worker that has died, or is working through the list it left.
LEMMA RecoverWorker ==
    ASSUME IInv, NEW w \in Workers, NEW l \in Recovering \cup Sparing,
           NEW y, NEW b, NEW s, Moves(w, l, y, b, s), crashes' # 0,
           l \in Recovering => s = proc'[w] /\ Len(proc'[w]) = 1,
           l \in Recovering \ {"recover_get"} => proc'[w] = <<y>>,
           l \notin Recovering => s = <<>> /\ Len(proc'[w]) <= 1
    PROVE  WorkerOK(w)'
<1>1. w \in Actors BY DEF Actors
<1>2. pc'[w] = l /\ cur'[w] = y /\ todo'[w] = s BY <1>1, MovesOK
<1> QED BY <1>2, RecoverPlaces DEF WorkerOK

\* It finds that a job it spared needs it no more.
LEMMA LetGo ==
    ASSUME IInv, OneOwner, NEW a \in Actors, NEW j \in Jobs, Owns(a, j), cur[a] = NoJob,
           NEW l, l \notin Sparing, l \notin OwnerPcs, NEW b, NEW s, Moves(a, l, j, b, s),
           \A i \in Jobs : Same(i), \A w \in Workers \ {a} : proc'[w] = proc[w]
    PROVE  \A i \in Jobs : Single(i)'
<1>0. Owned(j) /\ Waits(j) /\ Unborn(j) BY DEF OneOwner, Single
<1>1. /\ pc'[a] = l /\ cur'[a] = j /\ NoJob \notin Jobs
      /\ \A c \in Actors \ {a} : pc'[c] = pc[c] /\ cur'[c] = cur[c]
  BY MovesOK, ActorsApart
<1>2. j \in born /\ \A c \in Actors \ {a} : ~Owns(c, j) BY <1>0 DEF Owned, OwnerKnows
<1>3. \A i \in Jobs : \A w \in Workers : Spare(w, i)' => Spare(w, i) BY SpareOthers
<1>4. ASSUME NEW i \in Jobs \ {j} PROVE Single(i)' BY <1>1, <1>3, Bystander
<1>5. \A c \in Actors : ~Owns(c, j)'
  <2> SUFFICES ASSUME NEW c \in Actors, Owns(c, j)' PROVE FALSE OBVIOUS
  <2>1. CASE Spare(c, j)'
    <3>1. c # a BY <1>1, <2>1 DEF Spare
    <3> QED BY <1>2, <1>3, <2>1, <3>1 DEF Owns, Spare
  <2>2. CASE cur'[c] = j /\ pc'[c] \in OwnerPcs BY <1>1, <1>2, <2>2 DEF Owns
  <2> QED BY <2>1, <2>2 DEF Owns
<1>6. Owned(j)' BY <1>5 DEF Owned
<1>7. Waits(j)'
  <2>1. lease[j] = "none" BY <1>0, <1>1, <1>2, PlacesApart DEF Waits, Owns
  <2> QED BY <1>0, <2>1 DEF Waits, Same
<1>8. Unborn(j)'
  <2>1. \A c \in Actors : ~(cur'[c] = j /\ pc'[c] = "submit_set") BY <1>5, PlacesApart DEF Owns
  <2>2. j \in born' BY <1>2 DEF Same
  <2> QED BY <2>1, <2>2 DEF Unborn
<1> QED BY <1>4, <1>6, <1>7, <1>8 DEF Single

LEMMA OneOwnerRecovers ==
    ASSUME Undisturbed, IInv, OneOwner, NEW w \in Workers,
           RecoverScan(w) \/ RecoverGet(w) \/ RecoverSet(w) \/ RecoverPush(w) \/ RecoverLrem(w)
           \/ Restart(w)
    PROVE  OneOwner'
<1>0. /\ w \in Actors /\ QueuesOK /\ NoJob \notin Jobs /\ PlacesOK
      /\ proc \in [Workers -> Seq(Jobs)] /\ blob \in [Jobs -> Blob]
      /\ pc[w] \in EmptyHanded => cur[w] = NoJob
      /\ pc[w] \in {"down", "recover"} => todo[w] = <<>> /\ Len(proc[w]) <= 1
  <2>1. w \in Actors /\ NoJob \notin Jobs /\ QueuesOK /\ PlacesOK
    BY JobsAssumption DEF Actors, OneOwner
  <2>2. proc \in [Workers -> Seq(Jobs)] /\ blob \in [Jobs -> Blob]
    BY DEF IInv, RedisOK, ListsOK, StoreOK
  <2>3. ActorOK(w) /\ WorkerOK(w) BY <2>1 DEF PlacesOK
  <2>4. pc[w] \in {"down", "recover"} => pc[w] \notin Promoting \cup Recovering
    BY RecoverPlaces, SweepPlaces
  <2> QED BY <2>1, <2>2, <2>3, <2>4 DEF ActorOK, WorkerOK
<1>a. LoopHead \notin OwnerPcs \cup Sparing \cup Tracking \cup Promoting \cup Recovering
      /\ LoopHead \in UsedWorkerPcs /\ LoopHead # "pick_lease"
  BY LoopPlaces, PlainPlaces
<1>1. ASSUME RecoverScan(w) PROVE OneOwner'
  <2>1. pc[w] = "recover" /\ UNCHANGED <<redis, history>> BY <1>1 DEF RecoverScan
  <2>2. PICK l : l = IF proc[w] = <<>> THEN LoopHead ELSE "recover_get" OBVIOUS
  <2>3. Moves(w, l, cur[w], copy[w], proc[w]) BY <1>1, <2>2 DEF RecoverScan, Moves, IInv, LocalOK
  <2>4. UNCHANGED <<blob, delayed, lease, queue, proc, born, runs, crashes>>
    BY <2>1 DEF redis, store, zsets, history
  <2>5. \A i \in Jobs : Same(i) BY <2>4 DEF Same, Queued
  <2>6. pc[w] \in Sparing /\ pc[w] \notin OwnerPcs \cup Tracking /\ cur[w] = NoJob
    BY <1>0, <2>1, RecoverPlaces
  <2>7. \A i \in Jobs : Single(i)' BY <1>0, <2>3, <2>4, <2>5, <2>6, Idle
  <2>8. WorkerOK(w)'
    <3>1. CASE proc[w] = <<>>
      <4>1. l = LoopHead /\ pc'[w] = l /\ todo'[w] = <<>> BY <1>0, <2>2, <2>3, <3>1, MovesOK
      <4> QED BY <1>a, <2>4, <3>1, <4>1, RecoverPlaces DEF WorkerOK
    <3>2. CASE proc[w] # <<>>
      <4>1. proc[w] \in Seq(Jobs) BY <1>0
      <4>2. Len(proc[w]) # 0 /\ Len(proc[w]) \in Nat BY <3>2, <4>1
      <4>3. \A n \in Nat : n # 0 /\ n <= 1 => n = 1 OBVIOUS
      <4>4. Len(proc[w]) = 1 BY <1>0, <2>1, <4>2, <4>3
      <4>5. crashes # 0 BY <2>6, <3>2, Tracked
      <4> QED BY <2>2, <2>3, <2>4, <3>2, <4>4, <4>5, RecoverPlaces, RecoverWorker
    <3> QED BY <3>1, <3>2
  <2>9. PlacesOK' BY <1>0, <1>a, <2>2, <2>3, <2>4, <2>6, <2>8, RecoverPlaces, PlacesStep
  <2>10. QueuesOK' BY <1>0, <2>4 DEF QueuesOK
  <2> QED BY <2>7, <2>9, <2>10 DEF OneOwner
<1>2. ASSUME RecoverGet(w) PROVE OneOwner'
  <2>1. pc[w] = "recover_get" /\ pc[w] \in Recovering /\ pc[w] \in Sparing /\ cur[w] = NoJob
        /\ pc[w] \notin OwnerPcs /\ UNCHANGED <<redis, history>>
    BY <1>0, <1>2, RecoverPlaces DEF RecoverGet
  <2>2. PICK j \in Jobs : /\ j = Next1(w) /\ proc[w] = <<j>> /\ Elements(proc[w]) = {j}
                          /\ todo[w] = <<j>> /\ ~(Len(todo[w]) > 1) /\ Tail(todo[w]) = <<>> /\ crashes # 0
    BY <2>1, RecoveryList
  <2>3. UNCHANGED <<blob, delayed, lease, queue, proc, born, runs, crashes>>
    BY <2>1 DEF redis, store, zsets, history
  <2>4. \A i \in Jobs : Same(i) BY <2>3 DEF Same, Queued
  <2>5. QueuesOK' BY <1>0, <2>3 DEF QueuesOK
  <2>6. Owns(w, j) BY <2>1, <2>2 DEF Owns, Spare
  <2>7. Len(proc[w]) = 1 BY <2>2, OneElement
  <2>8. ASSUME Advance(w, "recover_get", LoopHead) PROVE OneOwner'
    <3>0. Moves(w, IF Len(todo[w]) > 1 THEN "recover_get" ELSE LoopHead, NoJob, Absent, Tail(todo[w]))
      BY <1>0, <2>8, AdvanceMoves
    <3>1. Moves(w, LoopHead, NoJob, Absent, <<>>) BY <2>2, <3>0
    <3>2. \A i \in Jobs : Single(i)' BY <1>0, <1>a, <2>1, <2>3, <2>4, <3>1, Idle
    <3>3. WorkerOK(w)'
      <4>1. pc'[w] = LoopHead /\ todo'[w] = <<>> /\ crashes' # 0 BY <1>0, <2>2, <2>3, <3>1, MovesOK
      <4> QED BY <1>a, <4>1, RecoverPlaces DEF WorkerOK
    <3>4. PlacesOK' BY <1>0, <1>a, <2>3, <3>1, <3>3, PlacesStep
    <3> QED BY <2>5, <3>2, <3>4 DEF OneOwner
  <2>9. ASSUME Hold(w, "recover_lrem", j, Absent) PROVE OneOwner'
    <3>1. Moves(w, "recover_lrem", j, Absent, todo[w]) BY <1>0, <2>9, HoldMoves
    <3>2. \A i \in Jobs : Single(i)' BY <1>0, <2>1, <2>3, <2>4, <2>6, <3>1, RecoverPlaces, LetGo
    <3>3. WorkerOK(w)' BY <2>2, <2>3, <2>7, <3>1, RecoverPlaces, RecoverWorker
    <3>4. PlacesOK' BY <1>0, <2>3, <3>1, <3>3, RecoverPlaces, PlacesStep
    <3> QED BY <2>5, <3>2, <3>4 DEF OneOwner
  <2>10. ASSUME ~Missing(j), ~Finished(j),
                Hold(w, "recover_set", j, [blob[j] EXCEPT !.status = "pending", !.worker = NoWorker])
         PROVE  OneOwner'
    <3>1. PICK b : b = [blob[j] EXCEPT !.status = "pending", !.worker = NoWorker] OBVIOUS
    <3>2. Moves(w, "recover_set", j, b, todo[w]) BY <1>0, <2>10, <3>1, HoldMoves
    <3>3. /\ \A c \in Actors \ {w} : ~Owns(c, j)
          /\ j \in born /\ ~Queued(j) /\ delayed[j] = "none" /\ lease[j] = "none"
      <4>1. Owned(j) /\ Waits(j) BY DEF OneOwner, Single
      <4>2. (\A c \in Actors \ {w} : ~Owns(c, j)) /\ OwnerKnows(w, j) BY <1>0, <2>6, <4>1 DEF Owned
      <4>3. lease[j] = "none" BY <1>0, <2>1, <4>1, <4>2, PlacesApart DEF Waits, Owns
      <4> QED BY <4>2, <4>3 DEF OwnerKnows
    <3>4. blob[j].status \in {"pending", "processing"}
      <4>1. blob[j] \in Blob BY <1>0
      <4>2. blob[j].status \in Status BY <4>1 DEF Blob
      <4> QED BY <2>10, <4>2 DEF Missing, Finished, Terminal, Status
    <3>5. pc'[w] = "recover_set" /\ copy'[w] = b BY <1>0, <3>2, MovesOK
    <3>6. BlobKnown(w, j)' /\ CopyKnown(w, j)'
      BY <2>3, <3>1, <3>4, <3>5, RecoverPlaces DEF BlobKnown, CopyKnown
    <3>7. ~Queued(j)' /\ delayed'[j] = "none" /\ j \in born' BY <2>3, <2>4, <3>3 DEF Same
    <3>8. \A i \in Jobs : Single(i)'
      BY <1>0, <2>1, <2>3, <2>4, <3>2, <3>3, <3>4, <3>6, <3>7, RecoverPlaces, Take
    <3>9. WorkerOK(w)' BY <2>2, <2>3, <2>7, <3>2, RecoverPlaces, RecoverWorker
    <3>10. PlacesOK' BY <1>0, <2>3, <3>2, <3>9, RecoverPlaces, PlacesStep
    <3> QED BY <2>5, <3>8, <3>10 DEF OneOwner
  <2> QED BY <1>2, <2>2, <2>8, <2>9, <2>10 DEF RecoverGet
<1>3. ASSUME RecoverSet(w) PROVE OneOwner'
  <2>1. /\ pc[w] = "recover_set" /\ pc[w] \in Recovering /\ pc[w] \in OwnerPcs
        /\ UNCHANGED <<queue, proc, zsets, history>>
    BY <1>3, RecoverPlaces DEF RecoverSet
  <2>2. PICK j \in Jobs : /\ j = cur[w] /\ proc[w] = <<j>> /\ todo[w] = proc[w] /\ crashes # 0
    BY <2>1, RecoveryList
  <2>3. blob[j] \in Blob /\ CopyKnown(w, j) /\ lease[j] = "none"
    BY <1>0, <2>1, <2>2, RecoverPlaces, OwnerFacts
  <2>4. copy[w].status = "pending" BY <2>1, <2>3 DEF CopyKnown, Blob
  <2>5. Moves(w, "recover_push", j, copy[w], todo[w]) BY <1>0, <1>3, <2>2, GotoMoves DEF RecoverSet
  <2>6. /\ UNCHANGED <<delayed, lease, queue, proc, born, runs, crashes>>
        /\ blob' = [blob EXCEPT ![j] = copy[w]]
    BY <1>3, <2>1, <2>2 DEF RecoverSet, Set, zsets, history
  <2>7. pc'[w] = "recover_push" /\ blob'[j].status = "pending"
    BY <1>0, <2>2, <2>4, <2>5, <2>6, MovesOK
  <2>8. BlobKnown(w, j)' /\ CopyKnown(w, j)' BY <2>7, RecoverPlaces DEF BlobKnown, CopyKnown
  <2>9. \A i \in Jobs : Single(i)'
    BY <1>0, <2>1, <2>2, <2>3, <2>5, <2>6, <2>7, <2>8, RecoverPlaces, Keep
  <2>10. WorkerOK(w)' BY <2>2, <2>5, <2>6, RecoverPlaces, OneElement, RecoverWorker
  <2>11. PlacesOK' BY <1>0, <2>5, <2>6, <2>10, RecoverPlaces, PlacesStep
  <2>12. QueuesOK' BY <1>0, <2>6 DEF QueuesOK
  <2> QED BY <2>9, <2>11, <2>12 DEF OneOwner
<1>4. ASSUME RecoverPush(w) PROVE OneOwner'
  <2>1. /\ pc[w] = "recover_push" /\ pc[w] \in Recovering /\ pc[w] \in OwnerPcs /\ pc[w] \in Moving
        /\ UNCHANGED <<store, proc, zsets, history>>
    BY <1>4, RecoverPlaces DEF RecoverPush
  <2>2. PICK j \in Jobs : /\ j = cur[w] /\ proc[w] = <<j>> /\ todo[w] = proc[w] /\ crashes # 0
    BY <2>1, RecoveryList
  <2>3. BlobKnown(w, j) /\ ~Queued(j) /\ delayed[j] = "none" /\ lease[j] = "none"
    BY <1>0, <2>1, <2>2, RecoverPlaces, OwnerFacts
  <2>4. blob[j].status = "pending" BY <2>1, <2>3 DEF BlobKnown
  <2>5. Moves(w, "recover_lrem", j, copy[w], todo[w]) BY <1>0, <1>4, <2>2, GotoMoves DEF RecoverPush
  <2>6. UNCHANGED <<blob, delayed, lease, proc, born, runs, crashes>> /\ Enqueue(j)
    BY <1>4, <2>1, <2>2 DEF RecoverPush, store, zsets, history
  <2>7. QueuesOK' /\ Queued(j)' /\ \A i \in Jobs \ {j} : Queued(i)' <=> Queued(i)
    BY <2>3, <2>6, EnqueueFacts
  <2>8. (\A i \in Jobs \ {j} : Same(i)) /\ Waits(j)' BY <2>3, <2>4, <2>6, <2>7 DEF Same, Waits
  <2>9. \A i \in Jobs : Single(i)' BY <1>0, <2>1, <2>2, <2>5, <2>6, <2>8, RecoverPlaces, Release
  <2>10. WorkerOK(w)' BY <2>2, <2>5, <2>6, RecoverPlaces, OneElement, RecoverWorker
  <2>11. PlacesOK' BY <1>0, <2>5, <2>6, <2>10, RecoverPlaces, PlacesStep
  <2> QED BY <2>7, <2>9, <2>11 DEF OneOwner
<1>5. ASSUME RecoverLrem(w) PROVE OneOwner'
  <2>1. /\ pc[w] = "recover_lrem" /\ pc[w] \in Recovering /\ pc[w] \notin OwnerPcs
        /\ UNCHANGED <<store, queue, zsets, history>>
    BY <1>5, RecoverPlaces DEF RecoverLrem
  <2>2. PICK j \in Jobs : /\ j = cur[w] /\ proc[w] = <<j>> /\ todo[w] = proc[w] /\ crashes # 0
                          /\ ~(Len(todo[w]) > 1) /\ Tail(todo[w]) = <<>>
    BY <2>1, RecoveryList
  <2>3. Moves(w, LoopHead, NoJob, Absent, <<>>)
    <3>1. Moves(w, IF Len(todo[w]) > 1 THEN "recover_get" ELSE LoopHead, NoJob, Absent, Tail(todo[w]))
      BY <1>0, <1>5, AdvanceMoves DEF RecoverLrem
    <3> QED BY <2>2, <3>1
  <2>4. /\ UNCHANGED <<blob, delayed, lease, queue, born, runs, crashes>>
        /\ proc' = [proc EXCEPT ![w] = LRem(@, j)]
    BY <1>5, <2>1, <2>2 DEF RecoverLrem, store, zsets, history
  <2>5. \A v \in Workers \ {w} : proc'[v] = proc[v] BY <1>0, <2>4
  <2>6. \A i \in Jobs : Same(i) BY <2>4 DEF Same, Queued
  <2>7. \A i \in Jobs : Single(i)' BY <1>0, <1>a, <2>1, <2>3, <2>5, <2>6, Idle
  <2>8. WorkerOK(w)'
    <3>1. pc'[w] = LoopHead /\ todo'[w] = <<>> /\ crashes' # 0 BY <1>0, <2>2, <2>3, <2>4, MovesOK
    <3> QED BY <1>a, <3>1, RecoverPlaces DEF WorkerOK
  <2>9. PlacesOK' BY <1>0, <1>a, <2>3, <2>4, <2>5, <2>8, PlacesStep
  <2>10. QueuesOK' BY <1>0, <2>4 DEF QueuesOK
  <2> QED BY <2>7, <2>9, <2>10 DEF OneOwner
<1>6. ASSUME Restart(w) PROVE OneOwner'
  <2>1. pc[w] = "down" /\ pc[w] \in Sparing /\ pc[w] \notin OwnerPcs \cup Tracking /\ cur[w] = NoJob
        /\ UNCHANGED <<redis, history>>
    BY <1>0, <1>6, RecoverPlaces DEF Restart
  <2>2. Moves(w, "recover", cur[w], copy[w], todo[w]) BY <1>0, <1>6, GotoMoves DEF Restart
  <2>3. UNCHANGED <<blob, delayed, lease, queue, proc, born, runs, crashes>>
    BY <2>1 DEF redis, store, zsets, history
  <2>4. \A i \in Jobs : Same(i) BY <2>3 DEF Same, Queued
  <2>5. \A i \in Jobs : Single(i)' BY <1>0, <2>1, <2>2, <2>3, <2>4, Idle
  <2>6. WorkerOK(w)'
    <3>1. pc'[w] = "recover" /\ todo'[w] = <<>> /\ crashes' = crashes /\ proc'[w] = proc[w]
      BY <1>0, <2>1, <2>2, <2>3, MovesOK
    <3>2. crashes = 0 => proc[w] = <<>> BY <2>1, Tracked
    <3> QED BY <1>0, <2>1, <3>1, <3>2, RecoverPlaces DEF WorkerOK
  <2>7. PlacesOK' BY <1>0, <2>1, <2>2, <2>3, <2>6, RecoverPlaces, PlacesStep
  <2>8. QueuesOK' BY <1>0, <2>3 DEF QueuesOK
  <2> QED BY <2>5, <2>7, <2>8 DEF OneOwner
<1> QED BY <1>1, <1>2, <1>3, <1>4, <1>5, <1>6

-----------------------------------------------------------------------------
(* The API process submits, requeues and lists.                             *)

LEMMA ClientPlaces ==
    /\ {"idle", "submit_set", "submit_push", "submit_index", "submit_index_type", "mget_all", "mget_type",
        "heal_all", "heal_type", "heal_type_all", "requeue_lrem", "requeue_srem", "requeue_set",
        "requeue_push"} = UsedClientPcs
    /\ {"idle", "mget_all", "mget_type", "heal_all", "heal_type", "heal_type_all"} \subseteq EmptyHanded
    /\ {"submit_index", "submit_index_type", "submit_set", "submit_push", "requeue_lrem",
        "requeue_srem", "requeue_set", "requeue_push"} \cap EmptyHanded = {}
    /\ {"idle", "submit_index", "submit_index_type", "mget_all", "mget_type", "heal_all", "heal_type",
        "heal_type_all"} \cap OwnerPcs = {}
    /\ {"submit_set", "submit_push", "requeue_lrem", "requeue_srem", "requeue_set", "requeue_push"}
          \subseteq OwnerPcs
    /\ UsedClientPcs \cap (Sparing \cup Leasing \cup Working \cup Done) = {} /\ "pick_lease" \notin UsedClientPcs
    /\ {"submit_push", "requeue_push"} \subseteq Moving
    /\ Raising \cap UsedWorkerPcs = {} /\ Raising \cap Moving = {}
    /\ Raising = {"requeue_lrem", "requeue_srem", "requeue_set"}
    /\ "submit_set" \notin Moving \cup Raising
  BY DEF UsedClientPcs, UsedWorkerPcs, ClientPcs, WorkerPcs, OwnerPcs, Moving, Working, HasRun,
    Done, Raising, Healing, EmptyHanded, Sparing, Leasing

\* A step of a client that leaves the queues as they are, or keeps them in order.
LEMMA ClientStays ==
    ASSUME IInv, OneOwner, NEW c \in Clients, NEW l \in UsedClientPcs, NEW y, NEW b, NEW s,
           Moves(c, l, y, b, s), l \in EmptyHanded => y = NoJob, UNCHANGED <<proc, crashes>>,
           queue' = queue \/ QueuesOK', \A i \in Jobs : Single(i)'
    PROVE  OneOwner'
<1>1. c \in Actors /\ c \notin Workers BY ActorsAssumption DEF Actors
<1>2. PlacesOK /\ QueuesOK BY DEF OneOwner
<1>3. PlacesOK' BY <1>1, <1>2, ClientPlaces, PlacesStep
<1>4. QueuesOK' BY <1>2 DEF QueuesOK
<1> QED BY <1>3, <1>4 DEF OneOwner

\* A dead job is in the hands of the operator who requeues it, or of nobody.
LEMMA DeadIsFree ==
    ASSUME IInv, OneOwner, NEW j \in Jobs, blob[j].status = "dead",
           NEW a \in Actors, Owns(a, j)
    PROVE  a \in Clients /\ cur[a] = j /\ pc[a] \in Raising
<1>1. Owned(j) /\ OwnerKnows(a, j) BY DEF OneOwner, Single, Owned
<1>2. cur[a] = j /\ pc[a] \in OwnerPcs
  BY <1>1, PlacesApart, ActorsApart DEF OwnerKnows, Owns, Spare, OneOwner, PlacesOK, ActorOK
<1>3. BlobKnown(a, j) BY <1>1, <1>2 DEF OwnerKnows
<1>4. pc[a] \in Raising BY <1>2, <1>3 DEF BlobKnown, OwnerPcs
<1>5. a \notin Workers BY <1>4, ClientPlaces DEF OneOwner, PlacesOK, ActorOK
<1> QED BY <1>2, <1>4, <1>5, ActorsApart

LEMMA OneOwnerSubmits ==
    ASSUME Undisturbed, IInv, OneOwner, NEW c \in Clients,
           Submit(c) \/ SubmitSet(c) \/ SubmitPush(c) \/ SubmitIndex(c)
    PROVE  OneOwner'
<1>0. /\ c \in Actors /\ c \notin Workers /\ NoJob \notin Jobs /\ blob \in [Jobs -> Blob]
      /\ pc[c] \in EmptyHanded => cur[c] = NoJob
  <2>1. c \in Actors /\ c \notin Workers /\ NoJob \notin Jobs
    BY ActorsAssumption, JobsAssumption DEF Actors
  <2>2. blob \in [Jobs -> Blob] BY DEF IInv, RedisOK, StoreOK
  <2> QED BY <2>1, <2>2 DEF OneOwner, PlacesOK, ActorOK
<1>1. ASSUME Submit(c) PROVE OneOwner'
  <2>1. PICK j \in Jobs \ born : born' = born \cup {j} /\ Hold(c, "submit_set", j, Fresh)
    BY <1>1 DEF Submit
  <2>2. pc[c] = "idle" /\ cur[c] = NoJob /\ UNCHANGED <<redis, runs, crashes>>
    BY <1>0, <1>1, ClientPlaces DEF Submit
  <2>3. Moves(c, "submit_set", j, Fresh, todo[c]) BY <1>0, <2>1, HoldMoves
  <2>4. UNCHANGED <<blob, delayed, lease, queue, proc, runs, crashes>>
    BY <2>2 DEF redis, store, zsets
  <2>5. Owned(j) /\ Waits(j) /\ Unborn(j) BY <2>1 DEF OneOwner, Single
  <2>6. /\ blob[j].status = "absent" /\ runs[j] = 0 /\ (\A a \in Actors : cur[a] # j)
        /\ \A a \in Actors : ~Owns(a, j)
    BY <2>1, <2>5 DEF Unborn, Owned, OwnerKnows, Missing
  <2>7. ~Queued(j) /\ delayed[j] = "none" /\ lease[j] = "none" BY <2>5, <2>6 DEF Waits
  <2>8. \A i \in Jobs \ {j} : Same(i) BY <2>1, <2>4 DEF Same, Queued
  <2>9. pc'[c] = "submit_set" /\ copy'[c] = Fresh BY <1>0, <2>3, MovesOK
  <2>10. BlobKnown(c, j)' /\ CopyKnown(c, j)'
    BY <2>4, <2>6, <2>9, ClientPlaces DEF BlobKnown, CopyKnown
  <2>11. ~Queued(j)' /\ j \in born' BY <2>1, <2>4, <2>7 DEF Queued
  <2>12. \A i \in Jobs : Single(i)'
    BY <1>0, <2>2, <2>3, <2>4, <2>6, <2>7, <2>8, <2>10, <2>11, ClientPlaces, Take
  <2> QED BY <2>3, <2>4, <2>12, ClientPlaces, ClientStays
<1>2. ASSUME SubmitSet(c) PROVE OneOwner'
  <2>1. PICK j : j = cur[c] OBVIOUS
  <2>2. pc[c] = "submit_set" /\ pc[c] \in OwnerPcs /\ pc[c] \notin Leasing
    BY <1>2, ClientPlaces DEF SubmitSet
  <2>3. j \in Jobs /\ lease[j] = "none" /\ CopyKnown(c, j) BY <1>0, <2>1, <2>2, OwnerFacts
  <2>4. copy[c].status = "pending" BY <2>2, <2>3 DEF CopyKnown, Fresh
  <2>5. Moves(c, "submit_push", j, copy[c], todo[c]) BY <1>0, <1>2, <2>1, GotoMoves DEF SubmitSet
  <2>6. /\ UNCHANGED <<delayed, lease, queue, proc, born, runs, crashes>>
        /\ blob' = [blob EXCEPT ![j] = copy[c]]
    BY <1>2, <2>1 DEF SubmitSet, Set, zsets, history
  <2>7. pc'[c] = "submit_push" /\ blob'[j].status = "pending"
    BY <1>0, <2>3, <2>4, <2>5, <2>6, MovesOK
  <2>8. BlobKnown(c, j)' /\ CopyKnown(c, j)' BY <2>7, ClientPlaces DEF BlobKnown, CopyKnown
  <2>9. \A i \in Jobs : Single(i)'
    BY <1>0, <2>1, <2>2, <2>3, <2>5, <2>6, <2>7, <2>8, ClientPlaces, Keep
  <2> QED BY <2>5, <2>6, <2>9, ClientPlaces, ClientStays
<1>3. ASSUME SubmitPush(c) PROVE OneOwner'
  <2>1. PICK j : j = cur[c] OBVIOUS
  <2>2. pc[c] = "submit_push" /\ pc[c] \in OwnerPcs /\ pc[c] \notin Leasing /\ pc[c] \in Moving
    BY <1>3, ClientPlaces DEF SubmitPush
  <2>3. /\ j \in Jobs /\ lease[j] = "none" /\ BlobKnown(c, j) /\ ~Queued(j) /\ delayed[j] = "none"
    BY <1>0, <2>1, <2>2, OwnerFacts
  <2>4. blob[j].status = "pending" BY <2>2, <2>3 DEF BlobKnown
  <2>5. Moves(c, "submit_index", j, copy[c], todo[c]) BY <1>0, <1>3, <2>1, GotoMoves DEF SubmitPush
  <2>6. UNCHANGED <<blob, delayed, lease, proc, born, runs, crashes>> /\ Enqueue(j)
    BY <1>3, <2>1 DEF SubmitPush, store, zsets, history
  <2>7. QueuesOK' /\ Queued(j)' /\ \A i \in Jobs \ {j} : Queued(i)' <=> Queued(i)
    BY <2>3, <2>6, EnqueueFacts
  <2>8. (\A i \in Jobs \ {j} : Same(i)) /\ Waits(j)' BY <2>3, <2>4, <2>6, <2>7 DEF Same, Waits
  <2>9. \A i \in Jobs : Single(i)' BY <1>0, <2>1, <2>2, <2>5, <2>6, <2>8, ClientPlaces, Release
  <2> QED BY <2>5, <2>6, <2>7, <2>9, ClientPlaces, ClientStays
<1>4. ASSUME SubmitIndex(c) PROVE OneOwner'
  <2>1. /\ pc[c] \in {"submit_index", "submit_index_type"} /\ pc[c] \notin OwnerPcs
        /\ UNCHANGED <<store, queue, proc, zsets, history>>
    BY <1>4, ClientPlaces DEF SubmitIndex
  <2>2. UNCHANGED <<blob, delayed, lease, queue, proc, born, runs, crashes>>
    BY <2>1 DEF store, zsets, history
  <2>3. \A i \in Jobs : Same(i) BY <2>2 DEF Same, Queued
  <2>4. \/ GoesTo(c, "submit_index_type", cur[c])
        \/ GoesTo(c, "idle", NoJob)
    <3>1. CASE Goto(c, "submit_index_type") BY <1>0, <3>1, GotoMoves DEF GoesTo
    <3>2. CASE Return(c) BY <1>0, <3>2, ReturnMoves DEF GoesTo, Rest
    <3> QED BY <1>4, <3>1, <3>2 DEF SubmitIndex
  <2>5. PICK l \in {"submit_index_type", "idle"}, y \in {cur[c], NoJob} :
            GoesTo(c, l, y) /\ (l = "idle" => y = NoJob)
    BY <2>4
  <2>6. PICK b, s : Moves(c, l, y, b, s) BY <2>5 DEF GoesTo
  <2>7. l \notin OwnerPcs /\ l \in UsedClientPcs /\ (l \in EmptyHanded => y = NoJob)
    BY <2>5, ClientPlaces
  <2>8. \A i \in Jobs : Single(i)' BY <1>0, <2>1, <2>2, <2>3, <2>6, <2>7, Idle
  <2> QED BY <2>2, <2>6, <2>7, <2>8, ClientStays
<1> QED BY <1>1, <1>2, <1>3, <1>4

LEMMA OneOwnerRequeues ==
    ASSUME Undisturbed, IInv, OneOwner, NEW c \in Clients,
           Requeue(c) \/ RequeueLrem(c) \/ RequeueSrem(c) \/ RequeueSet(c) \/ RequeuePush(c)
    PROVE  OneOwner'
<1>0. /\ c \in Actors /\ c \notin Workers /\ NoJob \notin Jobs /\ blob \in [Jobs -> Blob]
      /\ pc[c] \in EmptyHanded => cur[c] = NoJob
  <2>1. c \in Actors /\ c \notin Workers /\ NoJob \notin Jobs
    BY ActorsAssumption, JobsAssumption DEF Actors
  <2>2. blob \in [Jobs -> Blob] BY DEF IInv, RedisOK, StoreOK
  <2> QED BY <2>1, <2>2 DEF OneOwner, PlacesOK, ActorOK
<1>1. ASSUME Requeue(c) PROVE OneOwner'
  <2>1. PICK j \in born :
            /\ blob[j].status = "dead"
            /\ Hold(c, "requeue_lrem", j, [blob[j] EXCEPT !.status = "pending", !.retries = 0])
    BY <1>1 DEF Requeue
  <2>2. pc[c] = "idle" /\ cur[c] = NoJob /\ UNCHANGED <<redis, history>> /\ "requeue" \in Ops
    BY <1>0, <1>1, ClientPlaces DEF Requeue
  <2>3. PICK b : b = [blob[j] EXCEPT !.status = "pending", !.retries = 0] OBVIOUS
  <2>4. Moves(c, "requeue_lrem", j, b, todo[c]) BY <1>0, <2>1, <2>3, HoldMoves
  <2>5. UNCHANGED <<blob, delayed, lease, queue, proc, born, runs, crashes>>
    BY <2>2 DEF redis, store, zsets, history
  <2>6. j \in Jobs BY DEF IInv, HistoryOK
  <2>7. \A a \in Actors \ {c} : ~Owns(a, j) BY <2>1, <2>2, <2>6, DeadIsFree DEF Undisturbed, Fit
  <2>8. ~Queued(j) /\ delayed[j] = "none" /\ lease[j] = "none"
    <3>1. Waits(j) BY <2>6 DEF OneOwner, Single
    <3>2. \A a \in Actors : ~(cur[a] = j /\ pc[a] \in Leasing)
      BY <1>0, <2>2, <2>6, <2>7, PlacesApart DEF Owns
    <3> QED BY <2>1, <3>1, <3>2 DEF Waits
  <2>9. \A i \in Jobs : Same(i) BY <2>5 DEF Same, Queued
  <2>10. pc'[c] = "requeue_lrem" /\ copy'[c] = b BY <1>0, <2>4, MovesOK
  <2>11. BlobKnown(c, j)' /\ CopyKnown(c, j)'
    BY <2>1, <2>3, <2>5, <2>10, ClientPlaces DEF BlobKnown, CopyKnown
  <2>12. ~Queued(j)' /\ j \in born' BY <2>5, <2>8 DEF Queued
  <2>13. \A i \in Jobs : Single(i)'
    BY <1>0, <2>1, <2>2, <2>4, <2>5, <2>6, <2>7, <2>8, <2>9, <2>11, <2>12, ClientPlaces, Take
  <2> QED BY <2>4, <2>5, <2>13, ClientPlaces, ClientStays
<1>2. ASSUME NEW l \in {"requeue_srem", "requeue_set"}, pc[c] \in {"requeue_lrem", "requeue_srem"},
             Goto(c, l), UNCHANGED <<store, queue, proc, zsets, history>>
      PROVE  OneOwner'
  <2>1. PICK j : j = cur[c] OBVIOUS
  <2>2. pc[c] \in OwnerPcs /\ pc[c] \notin Leasing /\ pc[c] \in Raising BY <1>2, ClientPlaces
  <2>3. /\ j \in Jobs /\ lease[j] = "none" /\ BlobKnown(c, j) /\ CopyKnown(c, j)
    BY <1>0, <2>1, <2>2, OwnerFacts
  <2>4. blob[j].status = "dead" /\ copy[c] = [blob[j] EXCEPT !.status = "pending", !.retries = 0]
    BY <2>2, <2>3 DEF BlobKnown, CopyKnown
  <2>5. Moves(c, l, j, copy[c], todo[c]) BY <1>0, <1>2, <2>1, GotoMoves
  <2>6. UNCHANGED <<blob, delayed, lease, queue, proc, born, runs, crashes>>
    BY <1>2 DEF store, zsets, history
  <2>7. pc'[c] = l /\ copy'[c] = copy[c] BY <1>0, <2>5, MovesOK
  <2>8. BlobKnown(c, j)' /\ CopyKnown(c, j)'
    BY <2>4, <2>6, <2>7, ClientPlaces DEF BlobKnown, CopyKnown
  <2>9. \A i \in Jobs : Single(i)'
    BY <1>0, <2>1, <2>2, <2>3, <2>4, <2>5, <2>6, <2>8, ClientPlaces, Keep
  <2> QED BY <2>5, <2>6, <2>9, ClientPlaces, ClientStays
<1>3. ASSUME RequeueSet(c) PROVE OneOwner'
  <2>1. PICK j : j = cur[c] OBVIOUS
  <2>2. pc[c] = "requeue_set" /\ pc[c] \in OwnerPcs /\ pc[c] \notin Leasing /\ pc[c] \in Raising
    BY <1>3, ClientPlaces DEF RequeueSet
  <2>3. j \in Jobs /\ lease[j] = "none" /\ CopyKnown(c, j) /\ blob[j] \in Blob
    BY <1>0, <2>1, <2>2, OwnerFacts
  <2>4. copy[c].status = "pending" BY <2>2, <2>3 DEF CopyKnown, Blob
  <2>5. Moves(c, "requeue_push", j, copy[c], todo[c]) BY <1>0, <1>3, <2>1, GotoMoves DEF RequeueSet
  <2>6. /\ UNCHANGED <<delayed, lease, queue, proc, born, crashes>>
        /\ blob' = [blob EXCEPT ![j] = copy[c]] /\ \A i \in Jobs \ {j} : runs'[i] = runs[i]
    BY <1>3, <2>1 DEF RequeueSet, Set, zsets, IInv, HistoryOK
  <2>7. pc'[c] = "requeue_push" /\ blob'[j].status = "pending"
    BY <1>0, <2>3, <2>4, <2>5, <2>6, MovesOK
  <2>8. BlobKnown(c, j)' /\ CopyKnown(c, j)' BY <2>7, ClientPlaces DEF BlobKnown, CopyKnown
  <2>9. \A i \in Jobs : Single(i)'
    BY <1>0, <2>1, <2>2, <2>3, <2>5, <2>6, <2>7, <2>8, ClientPlaces, Keep
  <2> QED BY <2>5, <2>6, <2>9, ClientPlaces, ClientStays
<1>4. ASSUME RequeuePush(c) PROVE OneOwner'
  <2>1. PICK j : j = cur[c] OBVIOUS
  <2>2. pc[c] = "requeue_push" /\ pc[c] \in OwnerPcs /\ pc[c] \notin Leasing /\ pc[c] \in Moving
    BY <1>4, ClientPlaces DEF RequeuePush
  <2>3. /\ j \in Jobs /\ lease[j] = "none" /\ BlobKnown(c, j) /\ ~Queued(j) /\ delayed[j] = "none"
    BY <1>0, <2>1, <2>2, OwnerFacts
  <2>4. blob[j].status = "pending" BY <2>2, <2>3 DEF BlobKnown
  <2>5. Moves(c, "idle", NoJob, Absent, todo[c]) BY <1>0, <1>4, ReturnMoves DEF RequeuePush, Rest
  <2>6. UNCHANGED <<blob, delayed, lease, proc, born, runs, crashes>> /\ Enqueue(j)
    BY <1>4, <2>1 DEF RequeuePush, store, zsets, history
  <2>7. QueuesOK' /\ Queued(j)' /\ \A i \in Jobs \ {j} : Queued(i)' <=> Queued(i)
    BY <2>3, <2>6, EnqueueFacts
  <2>8. (\A i \in Jobs \ {j} : Same(i)) /\ Waits(j)' BY <2>3, <2>4, <2>6, <2>7 DEF Same, Waits
  <2>9. \A i \in Jobs : Single(i)' BY <1>0, <2>1, <2>2, <2>5, <2>6, <2>8, ClientPlaces, Release
  <2> QED BY <2>5, <2>6, <2>7, <2>9, ClientPlaces, ClientStays
<1>5. CASE RequeueLrem(c) BY <1>2, <1>5 DEF RequeueLrem
<1>6. CASE RequeueSrem(c) BY <1>2, <1>6 DEF RequeueSrem
<1> QED BY <1>1, <1>3, <1>4, <1>5, <1>6

LEMMA OneOwnerLists ==
    ASSUME IInv, OneOwner, NEW c \in Clients, ListRange(c) \/ ListMget(c) \/ ListHeal(c)
    PROVE  OneOwner'
<1>0. c \in Actors /\ c \notin Workers /\ NoJob \notin Jobs /\ ActorOK(c)
  BY ActorsAssumption, JobsAssumption DEF Actors, OneOwner, PlacesOK
<1>1. UNCHANGED <<blob, delayed, lease, queue, proc, born, runs, crashes>>
  BY DEF ListRange, ListMget, ListHeal, redis, store, zsets, history
<1>2. pc[c] \in {"idle", "mget_all", "mget_type", "heal_all", "heal_type", "heal_type_all"}
  BY DEF ListRange, ListMget, ListHeal
<1>3. cur[c] = NoJob /\ pc[c] \notin OwnerPcs BY <1>0, <1>2, ClientPlaces DEF ActorOK
<1>4. ASSUME NEW l \in {"mget_all", "mget_type", "heal_all", "heal_type", "heal_type_all"},
             NEW S, Scan(c, S, l, "idle")
      PROVE  GoesTo(c, l, NoJob) \/ GoesTo(c, "idle", NoJob)
  <2>1. PICK s \in Orders(S) : Moves(c, IF s = <<>> THEN "idle" ELSE l, cur[c], copy[c], s)
    BY <1>0, <1>4, ScanMoves
  <2> QED BY <1>3, <2>1 DEF GoesTo
<1>5. ASSUME NEW l, Advance(c, l, "idle")
      PROVE  GoesTo(c, l, NoJob) \/ GoesTo(c, "idle", NoJob)
  <2>1. Moves(c, IF Len(todo[c]) > 1 THEN l ELSE "idle", NoJob, Absent, Tail(todo[c]))
    BY <1>0, <1>5, AdvanceMoves
  <2> QED BY <2>1 DEF GoesTo
<1>6. \E l \in {"idle", "mget_all", "mget_type", "heal_all", "heal_type", "heal_type_all"} :
          GoesTo(c, l, NoJob)
  <2>1. CASE ListRange(c)
    <3>1. PICK S : Scan(c, S, "mget_all", "idle") \/ Scan(c, S, "mget_type", "idle")
      BY <2>1 DEF ListRange
    <3> QED BY <1>4, <3>1
  <2>2. CASE ListMget(c)
    <3>1. PICK S : Scan(c, S, "heal_all", "idle") \/ Scan(c, S, "heal_type", "idle")
      BY <2>2 DEF ListMget
    <3> QED BY <1>4, <3>1
  <2>3. CASE ListHeal(c)
    <3>1. CASE Goto(c, "heal_type_all")
      <4>1. Moves(c, "heal_type_all", NoJob, copy[c], todo[c]) BY <1>0, <1>3, <3>1, GotoMoves
      <4> QED BY <4>1 DEF GoesTo
    <3>2. Goto(c, "heal_type_all") \/ Advance(c, "heal_all", "idle") \/ Advance(c, "heal_type", "idle")
      BY <2>3 DEF ListHeal
    <3> QED BY <1>5, <3>1, <3>2
  <2> QED BY <2>1, <2>2, <2>3
<1>7. PICK l \in {"idle", "mget_all", "mget_type", "heal_all", "heal_type", "heal_type_all"} :
          GoesTo(c, l, NoJob)
  BY <1>6
<1>8. PICK b, s : Moves(c, l, NoJob, b, s) BY <1>7 DEF GoesTo
<1>9. \A i \in Jobs : Same(i) BY <1>1 DEF Same, Queued
<1>10. \A i \in Jobs : Single(i)' BY <1>0, <1>1, <1>3, <1>8, <1>9, ClientPlaces, Idle
<1> QED BY <1>1, <1>8, <1>10, ClientPlaces, ClientStays

-----------------------------------------------------------------------------
(* A process dies; time passes.                                             *)

LEMMA OneOwnerCrashes ==
    ASSUME Undisturbed, IInv, OneOwner, NEW a \in Actors, Crash(a)
    PROVE  OneOwner'
<1>0. /\ crashes = 0 /\ crashes' = 1 /\ ~Visibility
  <2>1. crashes \in 0..MaxCrashes /\ MaxCrashes \in Nat /\ crashes' = crashes + 1 /\ crashes' <= 1
    BY SettingsAssumption DEF IInv, HistoryOK, Crash, Undisturbed, Calm
  <2> QED BY <2>1 DEF Undisturbed, Calm
<1>1. PICK l : l = IF a \in Workers THEN "down" ELSE "idle" OBVIOUS
<1>2. Moves(a, l, NoJob, Absent, <<>>) BY <1>1 DEF Crash, Moves
<1>3. UNCHANGED <<blob, delayed, lease, queue, proc, born, runs>> BY DEF Crash, redis, store, zsets
<1>4. /\ pc'[a] = l /\ cur'[a] = NoJob /\ todo'[a] = <<>> /\ NoJob \notin Jobs
      /\ \A c \in Actors \ {a} : pc'[c] = pc[c] /\ cur'[c] = cur[c] /\ copy'[c] = copy[c]
  BY <1>2, MovesOK, ActorsApart
<1>5. /\ l \notin OwnerPcs \cup Recovering /\ l \in EmptyHanded /\ l # "pick_lease"
      /\ l \in (IF a \in Workers THEN UsedWorkerPcs ELSE UsedClientPcs)
  BY <1>1, RecoverPlaces, ClientPlaces
<1>6. a \in Workers => proc[a] = IF pc[a] \in Tracking THEN <<cur[a]>> ELSE <<>> BY <1>0, Tracked
<1>7. PlacesOK'
  <2>1. ASSUME a \in Workers PROVE WorkerOK(a)'
    <3>1. Len(<<cur[a]>>) <= 1 /\ Len(<<>>) <= 1 OBVIOUS
    <3>2. Len(proc[a]) <= 1 BY <1>6, <2>1, <3>1
    <3>3. l \in Recovering \cup Sparing BY <1>1, <2>1, RecoverPlaces
    <3> QED BY <1>0, <1>2, <1>3, <1>5, <2>1, <3>2, <3>3, RecoverWorker
  <2>2. PlacesOK /\ \A w \in Workers \ {a} : proc'[w] = proc[w] BY <1>3 DEF OneOwner
  <2> QED BY <1>0, <1>2, <1>5, <2>1, <2>2, PlacesStep
<1>8. QueuesOK' BY <1>3 DEF OneOwner, QueuesOK
<1>9. ASSUME NEW i \in Jobs PROVE Single(i)'
  <2>1. Owned(i) /\ Waits(i) /\ Unborn(i) BY DEF OneOwner, Single
  <2>2. ASSUME NEW c \in Actors, Owns(c, i)'
        PROVE  Owns(c, i) /\ OwnerKnows(c, i)'
    <3>1. CASE c # a
      <4>1. Owns(c, i) /\ (Spare(c, i)' <=> Spare(c, i)) BY <1>3, <1>4, <2>2, <3>1 DEF Owns, Spare
      <4>2. OwnerKnows(c, i) BY <2>1, <4>1 DEF Owned
      <4>3. OwnerKnows(c, i)' BY <1>3, <1>4, <3>1, <4>2 DEF OwnerKnows, BlobKnown, CopyKnown, Queued
      <4> QED BY <4>1, <4>3
    <3>2. CASE c = a
      <4>1. a \in Workers /\ i \in Elements(proc[a]) BY <1>3, <1>4, <1>5, <2>2, <3>2 DEF Owns, Spare
      <4>2. Elements(<<>>) = {} /\ Elements(<<cur[a]>>) = {cur[a]} BY DEF Elements
      <4>3. pc[a] \in Tracking /\ cur[a] = i BY <1>6, <4>1, <4>2
      <4>4. Owns(c, i) BY <3>2, <4>3, PlacesApart DEF Owns
      <4>5. OwnerKnows(c, i) /\ BlobKnown(a, i) BY <2>1, <3>2, <4>3, <4>4 DEF Owned, OwnerKnows
      <4>6. blob[i].status # "dead"
        <5>1. pc[a] \in Moving \cup Working \cup Done
          BY <4>3 DEF Tracking, Moving, Working, HasRun, Done
        <5> QED BY <4>5, <5>1 DEF BlobKnown
      <4>7. OwnerKnows(c, i)' BY <1>3, <1>4, <3>2, <4>5, <4>6 DEF OwnerKnows, Queued
      <4> QED BY <4>4, <4>7
    <3> QED BY <3>1, <3>2
  <2>3. Owned(i)' BY <2>1, <2>2 DEF Owned
  <2>4. Waits(i)' BY <1>0, <1>3, <2>1 DEF Waits, Queued
  <2>5. Unborn(i)'
    <3>1. \A c \in Actors : cur'[c] = i => cur[c] = i /\ pc'[c] = pc[c] BY <1>4
    <3> QED BY <1>3, <2>1, <3>1 DEF Unborn, Missing
  <2> QED BY <2>3, <2>4, <2>5 DEF Single
<1> QED BY <1>7, <1>8, <1>9 DEF OneOwner

LEMMA OneOwnerInTime ==
    ASSUME Undisturbed, IInv, OneOwner, NEW j \in Jobs,
           BackoffElapses(j) \/ LeaseExpires(j) \/ Expire(j)
    PROVE  OneOwner'
<1>0. /\ QueuesOK /\ PlacesOK /\ blob \in [Jobs -> Blob] /\ delayed \in [Jobs -> {"none", "parked", "due"}]
  BY DEF IInv, RedisOK, StoreOK, SetsOK, OneOwner
<1>1. ~LeaseExpires(j)
  <2> SUFFICES ASSUME LeaseExpires(j) PROVE FALSE OBVIOUS
  <2>1. Waits(j) /\ lease[j] = "held" BY DEF OneOwner, Single, LeaseExpires
  <2>2. Visibility /\ \E a \in Actors : cur[a] = j BY <2>1 DEF Waits
  <2>3. lapses = 0 /\ lapses' = 0 /\ lapses' = lapses + 1
    BY <2>2 DEF LeaseExpires, Undisturbed, Calm
  <2> QED BY <2>3
<1>2. UNCHANGED <<pc, cur, copy, todo, queue, proc, lease, born, runs, crashes>>
  BY <1>1 DEF BackoffElapses, Expire, local, history, zsets
<1>3. PlacesOK' /\ QueuesOK' BY <1>0, <1>2 DEF PlacesOK, ActorOK, WorkerOK, QueuesOK
<1>4. \A i \in Jobs : \A a \in Actors : Owns(a, i)' <=> Owns(a, i) BY <1>2 DEF Owns, Spare
<1>5. ASSUME NEW i \in Jobs PROVE Single(i)'
  <2>0. Owned(i) /\ Waits(i) /\ Unborn(i) BY DEF OneOwner, Single
  <2>1. CASE blob'[i] = blob[i] /\ delayed'[i] = delayed[i]
    <3>1. \A a \in Actors : OwnerKnows(a, i)' <=> OwnerKnows(a, i)
      BY <1>2, <2>1 DEF OwnerKnows, BlobKnown, CopyKnown, Queued
    <3>2. Owned(i)' BY <1>4, <2>0, <3>1 DEF Owned
    <3>3. Waits(i)' /\ Unborn(i)' BY <1>2, <2>0, <2>1 DEF Waits, Unborn, Queued, Missing
    <3> QED BY <3>2, <3>3 DEF Single
  <2>2. CASE i = j /\ BackoffElapses(j)
    <3>1. blob' = blob /\ delayed[i] = "parked" /\ delayed'[i] = "due"
      BY <1>0, <2>2 DEF BackoffElapses, store
    <3>2. \A a \in Actors : ~Owns(a, i) BY <2>0, <3>1 DEF Owned, OwnerKnows
    <3>3. Owned(i)' BY <1>4, <3>2 DEF Owned
    <3>4. Waits(i)' /\ Unborn(i)' BY <1>2, <2>0, <3>1 DEF Waits, Unborn, Queued, Missing
    <3> QED BY <3>3, <3>4 DEF Single
  <2>3. CASE i = j /\ Expire(j)
    <3>1. /\ i \in ttl /\ (\A a \in Actors : cur[a] = i => pc[a] = "run")
          /\ blob'[i].status = "absent" /\ delayed' = delayed
      BY <1>0, <2>3 DEF Expire, zsets, Absent
    <3>2. blob[i].status \in {"completed", "failed"}
      BY <3>1 DEF IInv, RedisOK, StoreOK, OnlySettledExpire
    <3>3. ~Queued(i) /\ delayed[i] = "none" BY <2>0, <3>2 DEF Waits
    <3>4. \A a \in Actors : cur[a] # i
      <4> SUFFICES ASSUME NEW a \in Actors, cur[a] = i PROVE FALSE OBVIOUS
      <4>1. pc[a] = "run" /\ pc[a] \in OwnerPcs /\ pc[a] \in Working BY <3>1 DEF OwnerPcs, Working
      <4>2. BlobKnown(a, i) BY <1>0, <4>1, OwnerFacts
      <4> QED BY <3>2, <4>1, <4>2 DEF BlobKnown
    <3>5. Owned(i)'
      <4>1. ASSUME NEW a \in Actors, Owns(a, i)' PROVE OwnerKnows(a, i)'
        <5>1. OwnerKnows(a, i) BY <1>4, <2>0, <4>1 DEF Owned
        <5> QED BY <1>2, <3>1, <3>4, <5>1 DEF OwnerKnows, Queued
      <4> QED BY <1>4, <2>0, <4>1 DEF Owned
    <3>6. Waits(i)' BY <1>2, <2>0, <3>1, <3>3, <3>4 DEF Waits, Queued
    <3>7. Unborn(i)' BY <1>2, <2>0, <3>1, <3>4 DEF Unborn, Missing
    <3> QED BY <3>5, <3>6, <3>7 DEF Single
  <2>4. i # j \/ BackoffElapses(j) \/ Expire(j) BY <1>1
  <2>5. CASE i # j BY <1>0, <1>1, <2>1, <2>5 DEF BackoffElapses, Expire, store, zsets
  <2> QED BY <2>2, <2>3, <2>4, <2>5
<1> QED BY <1>3, <1>5 DEF OneOwner

\* Where nothing is cancelled and no command fails, control never goes.
LEMMA NeverDone ==
    ASSUME Undisturbed, IInv, OneOwner
    PROVE  /\ \A w \in Workers : ~(PromoteRestore(w) \/ ReapZrem(w) \/ ReapRestore(w) \/ PickUntake(w)
                                   \/ PickDrop(w) \/ DropUntrack(w) \/ DropUnlease(w))
           /\ \A c \in Clients : ~(Cancel(c) \/ CancelSet(c) \/ CancelQueue(c) \/ CancelDelayed(c)
                                   \/ CancelProc(c) \/ CancelLease(c))
           /\ \A a \in Actors : ~Throw(a)
<1>1. ASSUME NEW w \in Workers
      PROVE  pc[w] \notin {"promote_restore", "reap_zrem", "reap_restore", "pick_untake", "pick_drop",
                           "drop_untrack", "drop_unlease"}
  <2>1. pc[w] \in UsedWorkerPcs BY DEF OneOwner, PlacesOK, ActorOK, Actors
  <2> QED BY <2>1 DEF UsedWorkerPcs, OwnerPcs, Moving, Working, HasRun, Done, Raising, Sparing
<1>2. ASSUME NEW c \in Clients
      PROVE  pc[c] \notin {"cancel_set", "cancel_queue", "cancel_delayed", "cancel_proc", "cancel_lease"}
  <2>1. pc[c] \in UsedClientPcs BY ActorsAssumption DEF OneOwner, PlacesOK, ActorOK, Actors
  <2> QED BY <2>1, ClientPlaces
<1>3. ASSUME NEW a \in Actors PROVE ~Throw(a) BY DEF Throw, Undisturbed, Calm
<1> QED BY <1>1, <1>2, <1>3 DEF PromoteRestore, ReapZrem, ReapRestore, PickUntake, PickDrop,
  DropUntrack, DropUnlease, Cancel, CancelSet, CancelQueue, CancelDelayed, CancelProc, CancelLease,
  Undisturbed, Fit

-----------------------------------------------------------------------------
(* The invariant. *)

LEMMA OneOwnerAtStart ==
    ASSUME Init PROVE OneOwner
<1>1. /\ \A t \in TypeSet : queue[t] = <<>>
      /\ \A w \in Workers : w \in Actors /\ pc[w] = "recover" /\ proc[w] = <<>> /\ todo[w] = <<>>
      /\ \A a \in Actors : cur[a] = NoJob /\ pc[a] = IF a \in Workers THEN "recover" ELSE "idle"
      /\ \A j \in Jobs : /\ blob[j] = Absent /\ delayed[j] = "none" /\ lease[j] = "none"
                         /\ runs[j] = 0
      /\ NoJob \notin Jobs /\ crashes = 0
  BY JobsAssumption DEF Init, Actors
<1>2. /\ "recover" \in UsedWorkerPcs /\ "idle" \in UsedClientPcs
      /\ "recover" \notin Promoting \cup Recovering \cup Tracking \cup OwnerPcs /\ "idle" \notin OwnerPcs
  BY RecoverPlaces, ClientPlaces
<1>3. Elements(<<>>) = {} /\ NoRepeats(<<>>) /\ Len(<<>>) <= 1 BY DEF Elements, NoRepeats
<1>4. PlacesOK BY <1>1, <1>2, <1>3 DEF PlacesOK, ActorOK, WorkerOK
<1>5. QueuesOK BY <1>1, <1>3 DEF QueuesOK
<1>6. ASSUME NEW j \in Jobs PROVE Single(j)
  <2>1. ~Queued(j) /\ Missing(j) BY <1>1, <1>3, JobsAssumption DEF Queued, Missing, Absent
  <2>2. \A a \in Actors : cur[a] # j BY <1>1
  <2>3. \A a \in Actors : ~Owns(a, j) BY <1>1, <1>3, <2>2 DEF Owns, Spare
  <2>4. Owned(j) BY <2>3 DEF Owned
  <2>5. Waits(j) BY <1>1, <2>1 DEF Waits
  <2>6. Unborn(j) BY <1>1, <2>1, <2>2 DEF Unborn
  <2> QED BY <2>4, <2>5, <2>6 DEF Single
<1> QED BY <1>4, <1>5, <1>6 DEF OneOwner

LEMMA OneOwnerStays ==
    ASSUME Undisturbed, IInv, OneOwner, [Next]_vars
    PROVE  OneOwner'
<1>1. ASSUME NEW w \in Workers, WorkerStep(w) \/ Restart(w) PROVE OneOwner'
  <2>1. CASE PromoteScan(w) \/ PromoteZrem(w) \/ PromoteGet(w) \/ PromotePush(w) \/ ReapScan(w)
             \/ FailDlq(w) \/ FailIndex(w)
    BY <2>1, OneOwnerSweeps
  <2>2. CASE PickMove(w) \/ PickPop(w) \/ PickTrack(w) \/ PickTimeout(w) \/ PickSet(w)
    BY <2>2, OneOwnerPicks
  <2>3. CASE PickGet(w) \/ PickLease(w) \/ TraceGet(w) \/ TraceSet(w) \/ CompleteGet(w)
             \/ CompleteSet(w) \/ CompleteUntrack(w)
    BY <2>3, OneOwnerRun
  <2>4. CASE Handle(w) \/ FailGet(w) \/ FailUntrack(w) \/ FailUnlease(w)
             \/ (FailSet(w) /\ copy[w].status # "dead") \/ DeadGet(w) \/ DeadUntrack(w)
             \/ DeadUnlease(w) \/ DeadPush(w) \/ DeadIndex(w)
    BY <2>4, OneOwnerFail
  <2>5. CASE CompleteUnlease(w) \/ FailPark(w) \/ FailPush(w) \/ DeadSet(w)
             \/ (FailSet(w) /\ copy[w].status = "dead")
    BY <2>5, OneOwnerEnds
  <2>6. CASE RecoverScan(w) \/ RecoverGet(w) \/ RecoverSet(w) \/ RecoverPush(w) \/ RecoverLrem(w)
             \/ Restart(w)
    BY <2>6, OneOwnerRecovers
  <2> QED BY <1>1, <2>1, <2>2, <2>3, <2>4, <2>5, <2>6, NeverDone DEF WorkerStep
<1>2. ASSUME NEW c \in Clients, ClientCall(c) \/ ClientStep(c) PROVE OneOwner'
  <2>1. CASE Submit(c) \/ SubmitSet(c) \/ SubmitPush(c) \/ SubmitIndex(c) BY <2>1, OneOwnerSubmits
  <2>2. CASE Requeue(c) \/ RequeueLrem(c) \/ RequeueSrem(c) \/ RequeueSet(c) \/ RequeuePush(c)
    BY <2>2, OneOwnerRequeues
  <2>3. CASE ListRange(c) \/ ListMget(c) \/ ListHeal(c) BY <2>3, OneOwnerLists
  <2> QED BY <1>2, <2>1, <2>2, <2>3, NeverDone DEF ClientCall, ClientStep
<1>3. ASSUME NEW a \in Actors, Crash(a) \/ Throw(a) PROVE OneOwner'
  BY <1>3, OneOwnerCrashes, NeverDone
<1>4. ASSUME NEW j \in Jobs, BackoffElapses(j) \/ LeaseExpires(j) \/ Expire(j) PROVE OneOwner'
  BY <1>4, OneOwnerInTime
<1>5. ASSUME UNCHANGED vars PROVE OneOwner'
  <2>1. UNCHANGED <<pc, cur, copy, todo, blob, queue, proc, delayed, lease, born, runs, crashes>>
    BY <1>5 DEF vars, redis, store, zsets, local, history
  <2>2. PlacesOK' /\ QueuesOK' BY <2>1 DEF OneOwner, PlacesOK, QueuesOK, ActorOK, WorkerOK
  <2>3. ASSUME NEW j \in Jobs PROVE Single(j)'
    <3>1. \A a \in Actors : /\ Owns(a, j)' <=> Owns(a, j)
                            /\ OwnerKnows(a, j)' <=> OwnerKnows(a, j)
      BY <2>1 DEF Owns, Spare, OwnerKnows, BlobKnown, CopyKnown, Queued
    <3>2. Owned(j)' BY <3>1 DEF OneOwner, Single, Owned
    <3>3. Waits(j)' /\ Unborn(j)' BY <2>1 DEF OneOwner, Single, Waits, Unborn, Queued, Missing
    <3> QED BY <3>2, <3>3 DEF Single
  <2> QED BY <2>2, <2>3 DEF OneOwner
<1> QED BY <1>1, <1>2, <1>3, <1>4, <1>5 DEF Next

\* The troubles a deployment meets are counted, and the count never falls.
LEMMA TroublesAdd ==
    ASSUME IInv, [Next]_vars
    PROVE  /\ {crashes, faults, lapses, crashes', faults', lapses'} \subseteq Nat
           /\ crashes <= crashes' /\ faults <= faults' /\ lapses <= lapses'
<1>1. {crashes, faults, lapses} \subseteq Nat BY SettingsAssumption DEF IInv, HistoryOK
<1>2. ASSUME NEW w \in Workers, WorkerStep(w) \/ Restart(w)
      PROVE  UNCHANGED <<crashes, faults, lapses>>
  <2>1. CASE \/ PromoteScan(w) \/ PromoteZrem(w) \/ PromoteGet(w) \/ PromotePush(w)
             \/ PromoteRestore(w) \/ ReapScan(w) \/ ReapZrem(w) \/ ReapRestore(w)
             \/ PickMove(w) \/ PickPop(w) \/ PickTrack(w) \/ PickUntake(w) \/ PickTimeout(w)
    BY <2>1 DEF history, PromoteScan, PromoteZrem, PromoteGet, PromotePush, PromoteRestore,
      ReapScan, ReapZrem, ReapRestore, PickMove, PickPop, PickTrack, PickUntake, PickTimeout
  <2>2. CASE \/ PickGet(w) \/ PickDrop(w) \/ PickSet(w) \/ PickLease(w) \/ TraceGet(w) \/ TraceSet(w)
             \/ Handle(w) \/ CompleteGet(w) \/ CompleteSet(w) \/ CompleteUntrack(w)
             \/ CompleteUnlease(w) \/ FailGet(w) \/ FailUntrack(w) \/ FailUnlease(w)
    BY <2>2 DEF history, PickGet, PickDrop, PickSet, PickLease, TraceGet, TraceSet, Handle,
      CompleteGet, CompleteSet, CompleteUntrack, CompleteUnlease, FailGet, FailUntrack, FailUnlease
  <2>3. CASE \/ FailSet(w) \/ FailPark(w) \/ FailPush(w) \/ FailDlq(w) \/ FailIndex(w)
             \/ DropUntrack(w) \/ DropUnlease(w) \/ DeadGet(w) \/ DeadUntrack(w)
    BY <2>3 DEF history, FailSet, FailPark, FailPush, FailDlq, FailIndex, DropUntrack, DropUnlease,
      DeadGet, DeadUntrack
  <2>4. CASE \/ DeadUnlease(w) \/ DeadPush(w) \/ DeadIndex(w) \/ DeadSet(w) \/ RecoverScan(w)
             \/ RecoverGet(w) \/ RecoverSet(w) \/ RecoverPush(w) \/ RecoverLrem(w) \/ Restart(w)
    BY <2>4 DEF history, DeadUnlease, DeadPush, DeadIndex, DeadSet, RecoverScan, RecoverGet,
      RecoverSet, RecoverPush, RecoverLrem, Restart
  <2> QED BY <1>2, <2>1, <2>2, <2>3, <2>4 DEF WorkerStep
<1>3. ASSUME NEW c \in Clients, ClientStep(c) \/ ClientCall(c)
      PROVE  UNCHANGED <<crashes, faults, lapses>>
  BY <1>3 DEF history, ClientStep, ClientCall, SubmitSet, SubmitPush, SubmitIndex, CancelSet,
    CancelQueue, CancelDelayed, CancelProc, CancelLease, RequeueLrem, RequeueSrem, RequeueSet,
    RequeuePush, ListMget, ListHeal, Submit, Cancel, Requeue, ListRange
<1>4. ASSUME NEW a \in Actors, Crash(a) \/ Throw(a)
      PROVE  /\ crashes' \in {crashes, crashes + 1} /\ faults' \in {faults, faults + 1}
             /\ lapses' = lapses
  BY <1>4 DEF Crash, Throw
<1>5. ASSUME NEW j \in Jobs, BackoffElapses(j) \/ LeaseExpires(j) \/ Expire(j)
      PROVE  crashes' = crashes /\ faults' = faults /\ lapses' \in {lapses, lapses + 1}
  BY <1>5 DEF history, BackoffElapses, LeaseExpires, Expire
<1>6. /\ crashes' \in {crashes, crashes + 1} /\ faults' \in {faults, faults + 1}
      /\ lapses' \in {lapses, lapses + 1}
  BY <1>2, <1>3, <1>4, <1>5 DEF Next, vars, history
<1> QED BY <1>1, <1>6

LEMMA CalmBefore ==
    ASSUME IInv, [Next]_vars, Calm' PROVE Calm
  BY TroublesAdd DEF Calm

LEMMA CalmThroughout == ASSUME AlwaysCalm, IInv PROVE Calm
  BY SettingsAssumption DEF AlwaysCalm, Calm, IInv, HistoryOK

LEMMA AlwaysOneOwner == ASSUME Fit PROVE Spec => [](Calm => OneOwner)
<1>1. Init => (Calm => OneOwner) BY OneOwnerAtStart
<1>2. IInv /\ (Calm => OneOwner) /\ [Next]_vars => (Calm => OneOwner)'
  BY OneOwnerStays, CalmBefore DEF Undisturbed
<1> QED BY <1>1, <1>2, Inductive, PTL DEF Spec

\* A handler runs at most once at a time for one job: the worker that runs it is
\* the job's only owner, so no other worker, sweep or recovery has it in hand
\* (src/src/jobs/Jobs.hpp 209-293, 544-552; src/src/worker_main.cpp).
THEOREM HandlersRunAlone == ASSUME Fit PROVE Spec => [](Calm => OneRunAtATime)
<1>1. IInv /\ OneOwner => OneRunAtATime
  <2> SUFFICES ASSUME IInv, OneOwner, NEW v \in Workers, NEW w \in Workers,
                      pc[v] = "run", pc[w] = "run", cur[v] = cur[w]
               PROVE  v = w
    BY DEF OneRunAtATime
  <2>1. v \in Actors /\ w \in Actors /\ "run" \in OwnerPcs BY DEF Actors, OwnerPcs, Working
  <2>2. Owns(v, cur[v]) /\ Owns(w, cur[v]) BY <2>1 DEF Owns
  <2> QED BY <2>1, <2>2, OwnerFacts
<1> QED BY <1>1, Inductive, AlwaysOneOwner, PTL

-----------------------------------------------------------------------------
(* Who writes the blob of a job. *)

LEMMA SetWrites ==
    ASSUME NEW a \in Actors, pc[a] \in Writing, NEW b, Set(cur[a], b) \/ SetEx(cur[a], b), IInv
    PROVE  WritesOwn(a)
  BY DEF WritesOwn, Set, SetEx, IInv, RedisOK, StoreOK

LEMMA WorkerWrites ==
    ASSUME IInv, NEW w \in Workers, WorkerStep(w) \/ Restart(w)
    PROVE  WritesOwn(w)
<1>0. w \in Actors BY DEF Actors
<1>1. CASE PickSet(w) BY <1>0, <1>1, SetWrites DEF PickSet, Writing
<1>2. CASE TraceSet(w) BY <1>0, <1>2, SetWrites DEF TraceSet, Writing
<1>3. CASE CompleteSet(w) BY <1>0, <1>3, SetWrites DEF CompleteSet, Writing
<1>4. CASE FailSet(w) BY <1>0, <1>4, SetWrites DEF FailSet, Writing
<1>5. CASE DeadSet(w) BY <1>0, <1>5, SetWrites DEF DeadSet, Writing
<1>6. CASE RecoverSet(w) BY <1>0, <1>6, SetWrites DEF RecoverSet, Writing
<1>7. CASE \/ PromoteScan(w) \/ PromoteZrem(w) \/ PromoteGet(w) \/ PromotePush(w)
           \/ PromoteRestore(w) \/ ReapScan(w) \/ ReapZrem(w) \/ ReapRestore(w)
           \/ PickMove(w) \/ PickPop(w) \/ PickTrack(w) \/ PickUntake(w) \/ PickTimeout(w)
  BY <1>7 DEF WritesOwn, redis, store, PromoteScan, PromoteZrem, PromoteGet, PromotePush,
    PromoteRestore, ReapScan, ReapZrem, ReapRestore, PickMove, PickPop, PickTrack, PickUntake,
    PickTimeout
<1>8. CASE \/ PickGet(w) \/ PickDrop(w) \/ PickLease(w) \/ TraceGet(w) \/ Handle(w)
           \/ CompleteGet(w) \/ CompleteUntrack(w) \/ CompleteUnlease(w)
           \/ FailGet(w) \/ FailUntrack(w) \/ FailUnlease(w) \/ FailPark(w) \/ FailPush(w)
  BY <1>8 DEF WritesOwn, redis, store, PickGet, PickDrop, PickLease, TraceGet, Handle, CompleteGet,
    CompleteUntrack, CompleteUnlease, FailGet, FailUntrack, FailUnlease, FailPark, FailPush
<1>9. CASE \/ FailDlq(w) \/ FailIndex(w) \/ DropUntrack(w) \/ DropUnlease(w)
           \/ DeadGet(w) \/ DeadUntrack(w) \/ DeadUnlease(w) \/ DeadPush(w) \/ DeadIndex(w)
           \/ RecoverScan(w) \/ RecoverGet(w) \/ RecoverPush(w) \/ RecoverLrem(w) \/ Restart(w)
  BY <1>9 DEF WritesOwn, redis, store, FailDlq, FailIndex, DropUntrack, DropUnlease, DeadGet,
    DeadUntrack, DeadUnlease, DeadPush, DeadIndex, RecoverScan, RecoverGet, RecoverPush,
    RecoverLrem, Restart
<1> QED BY <1>1, <1>2, <1>3, <1>4, <1>5, <1>6, <1>7, <1>8, <1>9 DEF WorkerStep

LEMMA ClientWrites ==
    ASSUME Undisturbed, IInv, OneOwner, NEW c \in Clients, ClientStep(c) \/ ClientCall(c)
    PROVE  WritesOwn(c)
<1>0. c \in Actors BY DEF Actors
<1>1. CASE SubmitSet(c) BY <1>0, <1>1, SetWrites DEF SubmitSet, Writing
<1>2. CASE RequeueSet(c) BY <1>0, <1>2, SetWrites DEF RequeueSet, Writing
<1>3. CASE \/ SubmitPush(c) \/ SubmitIndex(c) \/ RequeueLrem(c) \/ RequeueSrem(c) \/ RequeuePush(c)
           \/ ListMget(c) \/ ListHeal(c) \/ Submit(c) \/ Requeue(c) \/ ListRange(c)
  BY <1>3 DEF WritesOwn, redis, store, SubmitPush, SubmitIndex, RequeueLrem, RequeueSrem,
    RequeuePush, ListMget, ListHeal, Submit, Requeue, ListRange
<1> QED BY <1>1, <1>2, <1>3, NeverDone DEF ClientStep, ClientCall

\* What is finished stays finished with its status until it expires; only an
\* operator's requeue brings a dead job back.  Whoever else writes a blob has read
\* it and owns the job since, so what it writes back is never older than an
\* outcome (src/src/jobs/Jobs.hpp 230-268, 281-319, 362-424, 466-480).
THEOREM OutcomesAreFinal == ASSUME Fit, AlwaysCalm PROVE Spec => FinishedIsFinal
<1> DEFINE Final ==
        \A j \in Jobs : Finished(j) =>
            \/ blob'[j].status \in {blob[j].status, "absent"}
            \/ blob[j].status = "dead" /\ \E c \in Clients : pc[c] = "requeue_set" /\ cur[c] = j
<1>0. Spec => []OneOwner
  <2>1. IInv => Calm BY CalmThroughout
  <2> QED BY <2>1, Inductive, AlwaysOneOwner, PTL
<1>1. IInv /\ OneOwner /\ [Next]_vars => [Final]_vars
  <2> SUFFICES ASSUME IInv, OneOwner, Undisturbed, Next, NEW j \in Jobs, Finished(j)
               PROVE  \/ blob'[j].status \in {blob[j].status, "absent"}
                      \/ blob[j].status = "dead" /\ \E c \in Clients : pc[c] = "requeue_set" /\ cur[c] = j
    <3>1. IInv => Calm BY CalmThroughout
    <3>2. IInv /\ [Next]_vars => Undisturbed BY <3>1, NextOK, PTL DEF Undisturbed
    <3> QED BY <3>2
  <2>1. ASSUME NEW a \in Actors, WritesOwn(a)
        PROVE  \/ blob'[j] = blob[j]
               \/ blob[j].status = "dead" /\ \E c \in Clients : pc[c] = "requeue_set" /\ cur[c] = j
    <3> SUFFICES ASSUME pc[a] \in Writing, cur[a] = j
                 PROVE  blob[j].status = "dead" /\ \E c \in Clients : pc[c] = "requeue_set" /\ cur[c] = j
      BY <2>1 DEF WritesOwn
    <3>1. pc[a] \in OwnerPcs BY DEF Writing, OwnerPcs, Moving, Working, HasRun, Raising
    <3>2. BlobKnown(a, j) BY <3>1, OwnerFacts
    <3>3. pc[a] = "requeue_set" /\ blob[j].status = "dead"
      BY <3>2 DEF BlobKnown, Writing, Moving, Working, HasRun, Raising, Finished, Terminal
    <3>4. a \in Clients BY <3>3, ClientPlaces, ActorsApart DEF OneOwner, PlacesOK, ActorOK
    <3> QED BY <3>3, <3>4
  <2>2. ASSUME NEW w \in Workers, WorkerStep(w) \/ Restart(w)
        PROVE  \E a \in Actors : WritesOwn(a)
    BY <2>2, WorkerWrites DEF Actors
  <2>3. ASSUME NEW c \in Clients, ClientStep(c) \/ ClientCall(c)
        PROVE  \E a \in Actors : WritesOwn(a)
    BY <2>3, ClientWrites DEF Actors
  <2>4. ASSUME NEW a \in Actors, Crash(a) \/ Throw(a) PROVE WritesOwn(a)
    BY <2>4, NeverDone DEF Crash, WritesOwn, redis, store
  <2>5. ASSUME NEW i \in Jobs, BackoffElapses(i) \/ LeaseExpires(i) \/ Expire(i)
        PROVE  blob'[j].status \in {blob[j].status, "absent"}
    BY <2>5 DEF BackoffElapses, LeaseExpires, Expire, store, IInv, RedisOK, StoreOK, Absent
  <2> QED BY <2>1, <2>2, <2>3, <2>4, <2>5 DEF Next
<1> QED BY <1>0, <1>1, Inductive, PTL DEF Spec, FinishedIsFinal

-----------------------------------------------------------------------------
(* What the books of the queue say of each job, and how often it has run.   *)

LEMMA LedgerPlaces ==
    /\ HasRun \subseteq OwnerPcs /\ HasRun \subseteq Working
    /\ UsedWorkerPcs \cap (Indexing \cup Healing \cup {"requeue_srem", "requeue_set"}) = {}
    /\ Listing = {"dead_index", "dead_set", "requeue_srem", "requeue_set", "fail_dlq", "fail_index"}
    /\ {"fail_dlq", "fail_index", "run"} \cap HasRun = {} /\ Raising \cap HasRun = {}
  BY DEF UsedWorkerPcs, OwnerPcs, Moving, Working, HasRun, Done, Raising, Indexing, Listing,
    Healing, WorkerPcs, Sparing

\* A job that is to be run, or is running, is neither missing nor finished.
LEMMA OwnedLives ==
    ASSUME IInv, OneOwner, NEW a \in Actors, pc[a] \in Moving \cup Working
    PROVE  cur[a] \in Jobs /\ Live(cur[a])
<1>1. pc[a] \in OwnerPcs BY DEF OwnerPcs
<1>2. cur[a] \in Jobs /\ BlobKnown(a, cur[a]) BY <1>1, OwnerFacts
<1> QED BY <1>2 DEF BlobKnown, Live, Missing, Finished, Terminal

LEMMA CountedStays ==
    ASSUME IInv, OneOwner, NEW a \in Actors, Others(a), UNCHANGED <<runs, crashes>>,
           NEW j \in Jobs, Counted(j), Live(j)' => Live(j) /\ blob'[j].retries = blob[j].retries,
           pc[a] \in HasRun /\ cur[a] = j /\ Live(j)' => cur'[a] = j /\ pc'[a] \in HasRun
    PROVE  Counted(j)'
  BY DEF Counted, Others

LEMMA PlacedStays ==
    ASSUME IInv, OneOwner, NEW a \in Actors, Others(a), NEW j \in Jobs, Placed(j),
           \/ cur'[a] = j /\ pc'[a] \in OwnerPcs
           \/ ~Live(j)'
           \/ Queued(j)' \/ delayed'[j] # "none"
           \/ /\ Live(j) /\ (pc[a] \in OwnerPcs => cur[a] # j)
              /\ Queued(j) \/ delayed[j] # "none" => Queued(j)' \/ delayed'[j] # "none"
    PROVE  Placed(j)'
  BY DEF Placed, Others

LEMMA ListedStays ==
    ASSUME IInv, OneOwner, NEW a \in Actors, Others(a), NEW j \in Jobs, Listed(j),
           InDlq(j) => InDlq(j)', j \in dlqAll => j \in dlqAll',
           blob'[j].status = "dead" => blob[j].status = "dead",
           cur[a] = j => pc[a] \notin {"requeue_srem", "requeue_set", "fail_dlq", "fail_index"},
           cur'[a] = j => pc'[a] \notin {"dead_index", "dead_set"}
    PROVE  Listed(j)'
<1>1. ASSUME NEW c \in Actors, cur'[c] = j
      PROVE  /\ pc'[c] \in {"dead_index", "dead_set"} => InDlq(j)'
             /\ pc'[c] = "dead_set" => j \in dlqAll'
  <2>1. CASE c = a BY <1>1, <2>1
  <2>2. CASE c # a BY <1>1, <2>2 DEF Listed, Others
  <2> QED BY <2>1, <2>2
<1>2. ASSUME blob'[j].status = "dead"
      PROVE  \/ InDlq(j)' /\ j \in dlqAll'
             \/ \E c \in Actors : cur'[c] = j /\ pc'[c] \in {"requeue_srem", "requeue_set", "fail_dlq"}
             \/ InDlq(j)' /\ \E c \in Actors : cur'[c] = j /\ pc'[c] = "fail_index"
  <2>1. CASE InDlq(j) /\ j \in dlqAll BY <2>1
  <2>2. ASSUME NEW c \in Actors, cur[c] = j, pc[c] \in {"requeue_srem", "requeue_set", "fail_dlq"}
        PROVE  cur'[c] = j /\ pc'[c] \in {"requeue_srem", "requeue_set", "fail_dlq"}
    BY <2>2 DEF Others
  <2>3. ASSUME NEW c \in Actors, cur[c] = j, pc[c] = "fail_index"
        PROVE  cur'[c] = j /\ pc'[c] = "fail_index"
    BY <2>3 DEF Others
  <2> QED BY <1>2, <2>1, <2>2, <2>3 DEF Listed
<1> QED BY <1>1, <1>2 DEF Listed

\* A step of a worker leaves the indexes alone.
LEMMA IndexedStays ==
    ASSUME IInv, OneOwner, OneOwner', NEW w \in Workers, Others(w), NEW j \in Jobs, Indexed(j),
           UNCHANGED <<index, born>>, Missing(j)' <=> Missing(j)
    PROVE  Indexed(j)'
<1>0. /\ w \in Actors /\ pc[w] \notin Indexing /\ pc'[w] \notin Indexing
      /\ \A c \in Clients : c \in Actors \ {w}
  <2>1. w \in Actors /\ \A c \in Clients : c \in Actors \ {w} BY ActorsAssumption DEF Actors
  <2>2. ActorOK(w) /\ ActorOK(w)' BY <2>1 DEF OneOwner, PlacesOK
  <2> QED BY <2>1, <2>2, LedgerPlaces DEF ActorOK
<1>1. \A c \in Clients : pc'[c] = pc[c] /\ todo'[c] = todo[c] BY <1>0 DEF Others
<1>2. \A c \in Actors : pc'[c] \in Indexing \/ pc[c] \in Indexing
                        => pc'[c] = pc[c] /\ cur'[c] = cur[c]
  BY <1>0 DEF Others
<1> QED BY <1>1, <1>2 DEF Indexed, Indexing

\* A step of a worker on none of the blobs, queues and dead-letter lists, that
\* goes on with its job or has none.
LEMMA LedgerKept ==
    ASSUME IInv, OneOwner, OneOwner', Ledger, NEW w \in Workers, Others(w),
           UNCHANGED <<blob, queue, delayed, runs, crashes, index, born, dlq, dlqAll>>,
           pc[w] \notin {"fail_dlq", "fail_index"}, pc'[w] \notin {"dead_index", "dead_set"},
           \/ pc[w] \notin OwnerPcs
           \/ cur'[w] = cur[w] /\ pc'[w] \in OwnerPcs /\ (pc[w] \in HasRun => pc'[w] \in HasRun)
           \/ ~Live(cur[w])
    PROVE  Ledger'
<1>0. w \in Actors /\ pc[w] \in UsedWorkerPcs BY DEF Actors, OneOwner, PlacesOK, ActorOK
<1>1. \A j \in Jobs : /\ Live(j)' <=> Live(j)
                      /\ Missing(j)' <=> Missing(j)
                      /\ Queued(j)' <=> Queued(j)
                      /\ InDlq(j)' <=> InDlq(j)
  BY DEF Live, Missing, Finished, Queued, InDlq
<1>2. ASSUME NEW j \in Jobs PROVE Counted(j)' BY <1>0, <1>1, LedgerPlaces, CountedStays DEF Ledger
<1>3. ASSUME crashes' = 0, NEW j \in Jobs PROVE Placed(j)' /\ Listed(j)' /\ Indexed(j)'
  <2>0. Placed(j) /\ Listed(j) /\ Indexed(j) BY <1>3 DEF Ledger, BooksOK
  <2>1. Placed(j)'
    <3>1. CASE cur[w] = j /\ pc[w] \in OwnerPcs BY <1>0, <1>1, <2>0, <3>1, PlacedStays
    <3>2. CASE ~(cur[w] = j /\ pc[w] \in OwnerPcs)
      <4>1. CASE Live(j)
        <5>1. /\ Live(j) /\ (pc[w] \in OwnerPcs => cur[w] # j)
              /\ Queued(j) \/ delayed[j] # "none" => Queued(j)' \/ delayed'[j] # "none"
          BY <1>1, <3>2, <4>1
        <5> QED BY <1>0, <2>0, <5>1, PlacedStays
      <4> QED BY <1>1, <4>1 DEF Placed
    <3> QED BY <3>1, <3>2
  <2>2. Listed(j)'
    <3>1. /\ InDlq(j) => InDlq(j)'
          /\ j \in dlqAll => j \in dlqAll'
          /\ blob'[j].status = "dead" => blob[j].status = "dead"
      BY <1>1
    <3>2. pc[w] \notin {"requeue_srem", "requeue_set", "fail_dlq", "fail_index"}
      BY <1>0, LedgerPlaces
    <3> QED BY <1>0, <2>0, <3>1, <3>2, ListedStays
  <2>3. Indexed(j)'
    <3>1. Missing(j)' <=> Missing(j) BY <1>1
    <3> QED BY <2>0, <3>1, IndexedStays
  <2> QED BY <2>1, <2>2, <2>3
<1> QED BY <1>2, <1>3 DEF Ledger, BooksOK

LEMMA Alone ==
    ASSUME IInv, NEW a \in Actors
    PROVE  /\ \A l, y, b, s : Moves(a, l, y, b, s) => Others(a)
           /\ \A l : Goto(a, l) => Others(a)
           /\ \A l, j, b : Hold(a, l, j, b) => Others(a)
           /\ \A l, m : Advance(a, l, m) => Others(a)
           /\ \A S, l, m : Scan(a, S, l, m) => Others(a)
           /\ Return(a) => Others(a)
           /\ FailThrows(a) => Others(a)
<1>1. \A l, y, b, s : Moves(a, l, y, b, s) => Others(a) BY DEF Moves, Others, IInv, LocalOK
<1>2. \A l : Goto(a, l) => Others(a) BY <1>1, GotoMoves
<1>3. \A l, j, b : Hold(a, l, j, b) => Others(a) BY <1>1, HoldMoves
<1>4. \A l, m : Advance(a, l, m) => Others(a) BY <1>1, AdvanceMoves
<1>5. \A S, l, m : Scan(a, S, l, m) => Others(a) BY <1>1, ScanMoves
<1>6. Return(a) => Others(a) BY <1>3, <1>4 DEF Return
<1>7. FailThrows(a) => Others(a) BY <1>2, <1>6 DEF FailThrows
<1> QED BY <1>1, <1>2, <1>3, <1>4, <1>5, <1>6, <1>7

LEMMA WorkerAlone ==
    ASSUME IInv, NEW w \in Workers, WorkerStep(w) \/ Restart(w)
    PROVE  Others(w)
<1>0. w \in Actors BY DEF Actors
<1>1. CASE \/ PromoteScan(w) \/ PromoteZrem(w) \/ PromoteGet(w) \/ PromotePush(w)
           \/ PromoteRestore(w) \/ ReapScan(w) \/ ReapZrem(w) \/ ReapRestore(w)
  BY <1>0, <1>1, Alone DEF PromoteScan, PromoteZrem, PromoteGet, PromotePush, PromoteRestore,
    ReapScan, ReapZrem, ReapRestore
<1>2. CASE PickMove(w) \/ PickPop(w) \/ PickTrack(w) \/ PickUntake(w) \/ PickTimeout(w) \/ PickGet(w)
           \/ PickDrop(w) \/ PickSet(w) \/ PickLease(w)
  BY <1>0, <1>2, Alone DEF PickMove, PickPop, PickTrack, PickUntake, PickTimeout, PickGet, PickDrop,
    PickSet, PickLease
<1>3. CASE TraceGet(w) \/ TraceSet(w) \/ Handle(w) \/ CompleteGet(w) \/ CompleteSet(w)
           \/ CompleteUntrack(w) \/ CompleteUnlease(w)
  BY <1>0, <1>3, Alone DEF TraceGet, TraceSet, Handle, CompleteGet, CompleteSet, CompleteUntrack,
    CompleteUnlease
<1>4. CASE FailGet(w) \/ FailUntrack(w) \/ FailUnlease(w) \/ FailSet(w) \/ FailPark(w)
           \/ FailPush(w) \/ FailDlq(w) \/ FailIndex(w) \/ DropUntrack(w) \/ DropUnlease(w)
  BY <1>0, <1>4, Alone DEF FailGet, FailUntrack, FailUnlease, FailSet, FailPark, FailPush, FailDlq,
    FailIndex, DropUntrack, DropUnlease
<1>5. CASE DeadGet(w) \/ DeadUntrack(w) \/ DeadUnlease(w) \/ DeadPush(w) \/ DeadIndex(w) \/ DeadSet(w)
  BY <1>0, <1>5, Alone DEF DeadGet, DeadUntrack, DeadUnlease, DeadPush, DeadIndex, DeadSet
<1>6. CASE RecoverGet(w) \/ RecoverSet(w) \/ RecoverPush(w) \/ RecoverLrem(w) \/ Restart(w)
  BY <1>0, <1>6, Alone DEF RecoverGet, RecoverSet, RecoverPush, RecoverLrem, Restart
<1>7. CASE RecoverScan(w) BY <1>7 DEF RecoverScan, Others, IInv, LocalOK
<1> QED BY <1>1, <1>2, <1>3, <1>4, <1>5, <1>6, <1>7 DEF WorkerStep

\* A step of a worker that disturbs the books of one job.
LEMMA LedgerButOne ==
    ASSUME IInv, OneOwner, OneOwner', Ledger, NEW w \in Workers, Others(w), NEW x \in Jobs,
           UNCHANGED <<crashes, index, born>>,
           \A j \in Jobs \ {x} :
              /\ blob'[j] = blob[j] /\ runs'[j] = runs[j] /\ delayed'[j] = delayed[j]
              /\ Queued(j)' <=> Queued(j)
              /\ InDlq(j) => InDlq(j)'
              /\ j \in dlqAll => j \in dlqAll',
           cur[w] \in {x, NoJob}, cur'[w] \in {x, NoJob},
           Counted(x)', crashes = 0 => Placed(x)' /\ Listed(x)', Missing(x)' <=> Missing(x)
    PROVE  Ledger'
<1>0. w \in Actors /\ NoJob \notin Jobs BY JobsAssumption DEF Actors
<1>1. ASSUME NEW j \in Jobs PROVE Missing(j)' <=> Missing(j) BY DEF Missing
<1>2. ASSUME NEW j \in Jobs \ {x} PROVE Counted(j)'
  BY <1>0 DEF Counted, Live, Missing, Finished, Ledger, Others
<1>3. ASSUME crashes' = 0, NEW j \in Jobs \ {x} PROVE Placed(j)' /\ Listed(j)'
  <2>0. Placed(j) /\ Listed(j) BY <1>3 DEF Ledger, BooksOK
  <2>1. (Live(j)' <=> Live(j)) /\ cur[w] # j /\ cur'[w] # j BY <1>0 DEF Live, Missing, Finished
  <2>2. Placed(j)' BY <2>0, <2>1 DEF Placed, Others
  <2>3. Listed(j)' BY <1>0, <2>0, <2>1, ListedStays
  <2> QED BY <2>2, <2>3
<1>4. ASSUME crashes' = 0, NEW j \in Jobs PROVE Indexed(j)'
  <2>1. Indexed(j) BY <1>4 DEF Ledger, BooksOK
  <2> QED BY <1>1, <2>1, IndexedStays
<1> QED BY <1>2, <1>3, <1>4 DEF Ledger, BooksOK

LEMMA BuryFacts ==
    ASSUME IInv, NEW x \in Jobs, Bury(x)
    PROVE  InDlq(x)' /\ \A j \in Jobs : InDlq(j) => InDlq(j)'
<1>1. dlq \in [TypeSet -> Seq(Jobs)] /\ TypeOf[x] \in TypeSet
  BY JobsAssumption DEF IInv, RedisOK, ListsOK
<1>2. Elements(LPush(dlq[TypeOf[x]], x)) = Elements(dlq[TypeOf[x]]) \cup {x} BY <1>1, PushElements
<1>3. dlq'[TypeOf[x]] = LPush(dlq[TypeOf[x]], x) /\ \A t \in TypeSet \ {TypeOf[x]} : dlq'[t] = dlq[t]
  BY <1>1 DEF Bury
<1>4. InDlq(x)' BY <1>2, <1>3 DEF InDlq
<1>5. ASSUME NEW j \in Jobs, InDlq(j) PROVE InDlq(j)'
  <2>1. TypeOf[j] \in TypeSet BY JobsAssumption
  <2>2. CASE TypeOf[j] = TypeOf[x] BY <1>2, <1>3, <1>5, <2>2 DEF InDlq
  <2>3. CASE TypeOf[j] # TypeOf[x] BY <1>3, <1>5, <2>1, <2>3 DEF InDlq
  <2> QED BY <2>2, <2>3
<1> QED BY <1>4, <1>5

\* The steps of a worker that leave the books alone.
LEMMA LedgerQuiet ==
    ASSUME Undisturbed, IInv, OneOwner, OneOwner', Ledger, NEW w \in Workers,
           \/ PromoteScan(w) \/ ReapScan(w) \/ PickTimeout(w) \/ RecoverScan(w) \/ RecoverGet(w)
           \/ RecoverLrem(w) \/ Restart(w) \/ PickTrack(w) \/ PickGet(w) \/ PickLease(w)
           \/ TraceGet(w) \/ CompleteGet(w) \/ CompleteUntrack(w) \/ CompleteUnlease(w)
           \/ FailGet(w) \/ FailUntrack(w) \/ FailUnlease(w) \/ DeadGet(w) \/ DeadUntrack(w)
           \/ DeadUnlease(w) \/ PromoteGet(w)
    PROVE  Ledger'
<1>0. /\ w \in Actors /\ Others(w) /\ todo[w] \in Seq(Jobs)
      /\ pc \in [Actors -> Pcs] /\ cur \in [Actors -> Jobs \cup {NoJob}]
  BY WorkerAlone DEF WorkerStep, Actors, IInv, LocalOK
<1>u. UNCHANGED <<blob, queue, delayed, crashes, index, born, dlq, dlqAll, runs>>
  <2>1. CASE PromoteScan(w) \/ ReapScan(w) \/ PickTimeout(w) \/ RecoverScan(w) \/ RecoverGet(w)
             \/ RecoverLrem(w) \/ Restart(w)
    BY <2>1 DEF PromoteScan, ReapScan, PickTimeout, RecoverScan, RecoverGet, RecoverLrem, Restart,
      redis, store, zsets, morgue, history
  <2>2. CASE PickTrack(w) \/ PickGet(w) \/ PickLease(w) \/ TraceGet(w) \/ CompleteGet(w)
             \/ CompleteUntrack(w) \/ CompleteUnlease(w)
    BY <2>2 DEF PickTrack, PickGet, PickLease, TraceGet, CompleteGet, CompleteUntrack,
      CompleteUnlease, redis, store, zsets, morgue, history
  <2>3. CASE FailGet(w) \/ FailUntrack(w) \/ FailUnlease(w) \/ DeadGet(w) \/ DeadUntrack(w)
             \/ DeadUnlease(w) \/ PromoteGet(w)
    BY <2>3 DEF FailGet, FailUntrack, FailUnlease, DeadGet, DeadUntrack, DeadUnlease, PromoteGet,
      redis, store, zsets, morgue, history
  <2> QED BY <2>1, <2>2, <2>3
\* It has no job of its own, before and after; or comes to recover one.
<1>1. ASSUME NEW p, pc[w] = p, p \notin OwnerPcs, p \notin {"fail_dlq", "fail_index"},
             pc'[w] \in {"promote", "reap", "pick", "promote_zrem", "reap_zrem", "recover", "recover_get",
                         "recover_set", "recover_lrem"}
      PROVE  Ledger'
  BY <1>0, <1>u, <1>1, LedgerKept
\* It goes on with its job.
<1>2. ASSUME NEW p, pc[w] = p, NEW l, pc'[w] = l, l \in OwnerPcs, cur'[w] = cur[w],
             p \notin {"fail_dlq", "fail_index"}, l \notin {"dead_index", "dead_set"},
             p \in HasRun => l \in HasRun
      PROVE  Ledger'
  BY <1>0, <1>u, <1>2, LedgerKept
<1>3. ASSUME NEW l, Moves(w, l, cur[w], copy[w], todo[w]) PROVE pc'[w] = l /\ cur'[w] = cur[w]
  BY <1>0, <1>3, MovesOK
<1>4. ASSUME NEW l, NEW b, Hold(w, l, cur[w], b) PROVE pc'[w] = l /\ cur'[w] = cur[w]
  BY <1>0, <1>4 DEF Hold
<1>5. ASSUME NEW l, Goto(w, l) PROVE pc'[w] = l /\ cur'[w] = cur[w] BY <1>0, <1>5 DEF Goto
<1>6. LoopHead \in {"promote", "reap", "pick"} /\ AfterPromote \in {"promote", "reap", "pick"}
  BY LoopPlaces
<1>7. ASSUME Return(w) PROVE pc'[w] \in {"promote", "reap", "pick", "reap_zrem"}
  BY <1>0, <1>6, <1>7 DEF Return, Advance, Hold, Rest
<1>8. CASE PromoteScan(w)
  <2>1. pc[w] = "promote" /\ "promote" \notin OwnerPcs
    BY <1>8, PlainPlaces, RecoverPlaces DEF PromoteScan
  <2>2. pc'[w] \in {"promote", "reap", "pick", "promote_zrem", "reap_zrem", "recover", "recover_get",
                   "recover_set", "recover_lrem"}
    BY <1>0, <1>6, <1>8 DEF PromoteScan, Scan
  <2> QED BY <1>1, <2>1, <2>2
<1>9. CASE ReapScan(w)
  <2>1. pc[w] = "reap" /\ "reap" \notin OwnerPcs BY <1>9, PlainPlaces, RecoverPlaces DEF ReapScan
  <2>2. pc'[w] \in {"promote", "reap", "pick", "promote_zrem", "reap_zrem", "recover", "recover_get",
                   "recover_set", "recover_lrem"}
    BY <1>0, <1>6, <1>9 DEF ReapScan, Scan
  <2> QED BY <1>1, <2>1, <2>2
<1>10. CASE RecoverScan(w)
  <2>1. pc[w] = "recover" /\ "recover" \notin OwnerPcs
    BY <1>10, PlainPlaces, RecoverPlaces DEF RecoverScan
  <2>2. pc'[w] \in {"promote", "reap", "pick", "promote_zrem", "reap_zrem", "recover", "recover_get",
                   "recover_set", "recover_lrem"}
    BY <1>0, <1>6, <1>10 DEF RecoverScan
  <2> QED BY <1>1, <2>1, <2>2
<1>11. CASE RecoverGet(w)
  <2>1. pc[w] = "recover_get" /\ "recover_get" \notin OwnerPcs
    BY <1>11, PlainPlaces, RecoverPlaces DEF RecoverGet
  <2>2. pc'[w] \in {"promote", "reap", "pick", "promote_zrem", "reap_zrem", "recover", "recover_get",
                   "recover_set", "recover_lrem"}
    BY <1>0, <1>6, <1>11 DEF RecoverGet, Hold, Advance
  <2> QED BY <1>1, <2>1, <2>2
<1>12. CASE RecoverLrem(w)
  <2>1. pc[w] = "recover_lrem" /\ "recover_lrem" \notin OwnerPcs
    BY <1>12, PlainPlaces, RecoverPlaces DEF RecoverLrem
  <2>2. pc'[w] \in {"promote", "reap", "pick", "promote_zrem", "reap_zrem", "recover", "recover_get",
                   "recover_set", "recover_lrem"}
    BY <1>0, <1>6, <1>12 DEF RecoverLrem, Advance
  <2> QED BY <1>1, <2>1, <2>2
<1>13. CASE Restart(w)
  <2>1. pc[w] = "down" /\ "down" \notin OwnerPcs BY <1>13, PlainPlaces, RecoverPlaces DEF Restart
  <2>2. pc'[w] \in {"promote", "reap", "pick", "promote_zrem", "reap_zrem", "recover", "recover_get",
                   "recover_set", "recover_lrem"}
    BY <1>0, <1>6, <1>13 DEF Restart, Goto
  <2> QED BY <1>1, <2>1, <2>2
<1>14. CASE PickTimeout(w)
  <2>1. pc[w] = "pick" /\ "pick" \notin OwnerPcs BY <1>14, PlainPlaces DEF PickTimeout
  <2>2. pc'[w] \in {"promote", "reap", "pick", "reap_zrem"} BY <1>7, <1>14 DEF PickTimeout
  <2> QED BY <1>1, <2>1, <2>2
<1>15. CASE PickTrack(w)
  <2>1. /\ pc[w] = "pick_track" /\ "pick_get" \in OwnerPcs /\ ("pick_track" \in HasRun => "pick_get" \in HasRun)
    BY <1>15 DEF PickTrack, OwnerPcs, Moving, Working, HasRun, Done, Raising
  <2>3. pc'[w] = "pick_get" /\ cur'[w] = cur[w] BY <1>4, <1>5, <1>15 DEF PickTrack
  <2> QED BY <1>2, <2>1, <2>3
<1>16. CASE PickGet(w)
  <2>1. /\ pc[w] = "pick_get" /\ "pick_set" \in OwnerPcs /\ ("pick_get" \in HasRun => "pick_set" \in HasRun)
        /\ pc[w] \in Moving \cup Working
    BY <1>16 DEF PickGet, OwnerPcs, Moving, Working, HasRun, Done, Raising
  <2>2. Live(cur[w]) BY <1>0, <2>1, OwnedLives
  <2>3. pc'[w] = "pick_set" /\ cur'[w] = cur[w] BY <1>4, <1>5, <1>16, <2>2 DEF PickGet, Live
  <2> QED BY <1>2, <2>1, <2>3
<1>17. CASE PickLease(w)
  <2>1. /\ pc[w] = "pick_lease" /\ "trace_get" \in OwnerPcs /\ ("pick_lease" \in HasRun => "trace_get" \in HasRun)
    BY <1>17 DEF PickLease, OwnerPcs, Moving, Working, HasRun, Done, Raising
  <2>3. pc'[w] = "trace_get" /\ cur'[w] = cur[w] BY <1>4, <1>5, <1>17 DEF PickLease
  <2> QED BY <1>2, <2>1, <2>3
<1>18. CASE TraceGet(w)
  <2>1. /\ pc[w] = "trace_get" /\ "trace_set" \in OwnerPcs /\ ("trace_get" \in HasRun => "trace_set" \in HasRun)
        /\ pc[w] \in Moving \cup Working
    BY <1>18 DEF TraceGet, OwnerPcs, Moving, Working, HasRun, Done, Raising
  <2>2. Live(cur[w]) BY <1>0, <2>1, OwnedLives
  <2>3. pc'[w] = "trace_set" /\ cur'[w] = cur[w] BY <1>4, <1>5, <1>18, <2>2 DEF TraceGet, Live
  <2> QED BY <1>2, <2>1, <2>3
<1>19. CASE CompleteGet(w)
  <2>1. /\ pc[w] = "complete_get" /\ "complete_set" \in OwnerPcs /\ ("complete_get" \in HasRun => "complete_set" \in HasRun)
        /\ pc[w] \in Moving \cup Working
    BY <1>19 DEF CompleteGet, OwnerPcs, Moving, Working, HasRun, Done, Raising
  <2>2. Live(cur[w]) BY <1>0, <2>1, OwnedLives
  <2>3. pc'[w] = "complete_set" /\ cur'[w] = cur[w] BY <1>4, <1>5, <1>19, <2>2 DEF CompleteGet, Live
  <2> QED BY <1>2, <2>1, <2>3
<1>20. CASE CompleteUntrack(w)
  <2>1. /\ pc[w] = "complete_untrack" /\ "complete_unlease" \in OwnerPcs /\ ("complete_untrack" \in HasRun => "complete_unlease" \in HasRun)
    BY <1>20 DEF CompleteUntrack, OwnerPcs, Moving, Working, HasRun, Done, Raising
  <2>3. pc'[w] = "complete_unlease" /\ cur'[w] = cur[w] BY <1>4, <1>5, <1>20 DEF CompleteUntrack
  <2> QED BY <1>2, <2>1, <2>3
<1>21. CASE FailGet(w)
  <2>1. /\ pc[w] = "fail_get" /\ "fail_untrack" \in OwnerPcs /\ ("fail_get" \in HasRun => "fail_untrack" \in HasRun)
        /\ pc[w] \in Moving \cup Working
    BY <1>21 DEF FailGet, OwnerPcs, Moving, Working, HasRun, Done, Raising
  <2>2. Live(cur[w]) BY <1>0, <2>1, OwnedLives
  <2>3. pc'[w] = "fail_untrack" /\ cur'[w] = cur[w] BY <1>4, <1>5, <1>21, <2>2 DEF FailGet, Live
  <2> QED BY <1>2, <2>1, <2>3
<1>22. CASE FailUntrack(w)
  <2>1. /\ pc[w] = "fail_untrack" /\ "fail_unlease" \in OwnerPcs /\ ("fail_untrack" \in HasRun => "fail_unlease" \in HasRun)
    BY <1>22 DEF FailUntrack, OwnerPcs, Moving, Working, HasRun, Done, Raising
  <2>3. pc'[w] = "fail_unlease" /\ cur'[w] = cur[w] BY <1>4, <1>5, <1>22 DEF FailUntrack
  <2> QED BY <1>2, <2>1, <2>3
<1>23. CASE FailUnlease(w)
  <2>1. /\ pc[w] = "fail_unlease" /\ "fail_set" \in OwnerPcs /\ ("fail_unlease" \in HasRun => "fail_set" \in HasRun)
    BY <1>23 DEF FailUnlease, OwnerPcs, Moving, Working, HasRun, Done, Raising
  <2>3. pc'[w] = "fail_set" /\ cur'[w] = cur[w] BY <1>4, <1>5, <1>23 DEF FailUnlease
  <2> QED BY <1>2, <2>1, <2>3
<1>24. CASE DeadGet(w)
  <2>1. /\ pc[w] = "dead_get" /\ "dead_untrack" \in OwnerPcs /\ ("dead_get" \in HasRun => "dead_untrack" \in HasRun)
        /\ pc[w] \in Moving \cup Working
    BY <1>24 DEF DeadGet, OwnerPcs, Moving, Working, HasRun, Done, Raising
  <2>2. Live(cur[w]) BY <1>0, <2>1, OwnedLives
  <2>3. pc'[w] = "dead_untrack" /\ cur'[w] = cur[w] BY <1>4, <1>5, <1>24, <2>2 DEF DeadGet, Live
  <2> QED BY <1>2, <2>1, <2>3
<1>25. CASE DeadUntrack(w)
  <2>1. /\ pc[w] = "dead_untrack" /\ "dead_unlease" \in OwnerPcs /\ ("dead_untrack" \in HasRun => "dead_unlease" \in HasRun)
    BY <1>25 DEF DeadUntrack, OwnerPcs, Moving, Working, HasRun, Done, Raising
  <2>3. pc'[w] = "dead_unlease" /\ cur'[w] = cur[w] BY <1>4, <1>5, <1>25 DEF DeadUntrack
  <2> QED BY <1>2, <2>1, <2>3
<1>26. CASE DeadUnlease(w)
  <2>1. /\ pc[w] = "dead_unlease" /\ "dead_push" \in OwnerPcs /\ ("dead_unlease" \in HasRun => "dead_push" \in HasRun)
    BY <1>26 DEF DeadUnlease, OwnerPcs, Moving, Working, HasRun, Done, Raising
  <2>3. pc'[w] = "dead_push" /\ cur'[w] = cur[w] BY <1>4, <1>5, <1>26 DEF DeadUnlease
  <2> QED BY <1>2, <2>1, <2>3
<1>27. CASE PromoteGet(w)
  <2>1. /\ pc[w] = "promote_get" /\ "promote_push" \in OwnerPcs /\ ("promote_get" \in HasRun => "promote_push" \in HasRun)
        /\ pc[w] \in Moving \cup Working
    BY <1>27 DEF PromoteGet, OwnerPcs, Moving, Working, HasRun, Done, Raising
  <2>2. Live(cur[w]) BY <1>0, <2>1, OwnedLives
  <2>3. pc'[w] = "promote_push" /\ cur'[w] = cur[w] BY <1>4, <1>5, <1>27, <2>2 DEF PromoteGet, Live
  <2> QED BY <1>2, <2>1, <2>3
<1>28. CASE CompleteUnlease(w)
  <2>1. pc[w] = "complete_unlease" /\ pc[w] \in OwnerPcs /\ pc[w] \in Done
    BY <1>28 DEF CompleteUnlease, OwnerPcs, Done
  <2>2. BlobKnown(w, cur[w]) BY <1>0, <2>1, OwnerFacts
  <2>3. ~Live(cur[w]) BY <2>1, <2>2 DEF BlobKnown, Live, Finished, Terminal
  <2>4. pc'[w] \in {"promote", "reap", "pick", "reap_zrem"} BY <1>7, <1>28 DEF CompleteUnlease
  <2> QED BY <1>0, <1>u, <2>1, <2>3, <2>4, LedgerKept
<1> QED
  BY <1>8, <1>9, <1>10, <1>11, <1>12, <1>13, <1>14, <1>15, <1>16, <1>17, <1>18, <1>19, <1>20, <1>21, <1>22, <1>23, <1>24, <1>25, <1>26, <1>27, <1>28

\* The steps of a worker that move its job.
LEMMA LedgerMoves ==
    ASSUME Undisturbed, IInv, OneOwner, OneOwner', Ledger, NEW w \in Workers,
           \/ PromoteZrem(w) \/ PromotePush(w) \/ PickMove(w) \/ PickPop(w) \/ FailPark(w)
           \/ FailPush(w) \/ RecoverPush(w)
    PROVE  Ledger'
<1>0. /\ w \in Actors /\ Others(w) /\ NoJob \notin Jobs /\ todo[w] \in Seq(Jobs)
      /\ pc \in [Actors -> Pcs] /\ cur \in [Actors -> Jobs \cup {NoJob}]
      /\ delayed \in [Jobs -> {"none", "parked", "due"}] /\ dlqAll \subseteq Jobs
      /\ pc[w] \in EmptyHanded => cur[w] = NoJob
      /\ pc[w] \notin Promoting \cup Recovering => todo[w] = <<>>
  <2>1. /\ w \in Actors /\ Others(w) /\ NoJob \notin Jobs /\ todo[w] \in Seq(Jobs)
        /\ pc \in [Actors -> Pcs] /\ cur \in [Actors -> Jobs \cup {NoJob}]
        /\ delayed \in [Jobs -> {"none", "parked", "due"}] /\ dlqAll \subseteq Jobs
    BY WorkerAlone, JobsAssumption DEF WorkerStep, Actors, IInv, LocalOK, RedisOK, SetsOK
  <2>2. ActorOK(w) /\ WorkerOK(w) BY <2>1 DEF OneOwner, PlacesOK
  <2> QED BY <2>1, <2>2 DEF ActorOK, WorkerOK
<1>u. UNCHANGED <<blob, runs, crashes, index, born, dlq, dlqAll>>
  BY DEF PromoteZrem, PromotePush, PickMove, PickPop, FailPark, FailPush, RecoverPush, store, zsets,
    morgue, history
<1>6. LoopHead \in {"promote", "reap", "pick"} /\ AfterPromote \in {"promote", "reap", "pick"}
  BY LoopPlaces
<1>7. ASSUME Return(w), todo[w] = <<>> PROVE pc'[w] \in {"promote", "reap", "pick"} /\ cur'[w] = NoJob
  BY <1>0, <1>6, <1>7 DEF Return, Reaping, Hold, Rest
\* The job x comes into its hands, or leaves them for a queue or the backoff set.
<1>8. ASSUME NEW x \in Jobs, pc[w] \notin HasRun, pc[w] \notin {"fail_dlq", "fail_index"},
             pc'[w] \notin {"dead_index", "dead_set"},
             cur[w] \in {x, NoJob}, cur'[w] \in {x, NoJob},
             \A j \in Jobs \ {x} : delayed'[j] = delayed[j],
             \A j \in Jobs \ {x} : Queued(j)' <=> Queued(j),
             (cur'[w] = x /\ pc'[w] \in OwnerPcs) \/ Queued(x)' \/ delayed'[x] # "none"
      PROVE  Ledger'
  <2>1. Counted(x)'
    <3>1. Counted(x) /\ (Live(x)' => Live(x)) BY <1>u DEF Ledger, Live, Missing, Finished
    <3> QED BY <1>0, <1>u, <1>8, <3>1, CountedStays
  <2>2. ASSUME crashes = 0 PROVE Placed(x)' /\ Listed(x)'
    <3>1. Placed(x) /\ Listed(x) BY <2>2 DEF Ledger, BooksOK
    <3>2. Placed(x)' BY <1>0, <1>8, <3>1, PlacedStays
    <3>3. pc[w] \notin {"requeue_srem", "requeue_set"}
      BY <1>0, LedgerPlaces DEF OneOwner, PlacesOK, ActorOK
    <3>4. InDlq(x) => InDlq(x)' BY <1>u DEF InDlq
    <3>5. Listed(x)' BY <1>0, <1>u, <1>8, <3>1, <3>3, <3>4, ListedStays
    <3> QED BY <3>2, <3>5
  <2>3. Missing(x)' <=> Missing(x) BY <1>u DEF Missing
  <2>4. \A j \in Jobs \ {x} : InDlq(j) => InDlq(j)' BY <1>u DEF InDlq
  <2> QED BY <1>0, <1>u, <1>8, <2>1, <2>2, <2>3, <2>4, LedgerButOne
<1>9. CASE PromoteZrem(w)
  <2>1. /\ pc[w] = "promote_zrem" /\ pc[w] \in Sweeping /\ pc[w] \in EmptyHanded
        /\ pc[w] \notin OwnerPcs /\ queue' = queue
    BY <1>9 DEF PromoteZrem, Sweeping, EmptyHanded, OwnerPcs, Moving, Working, HasRun, Done, Raising
  <2>2. PICK x \in Jobs : x = Next1(w) BY <1>0, <2>1, LastOfReply
  <2>3. CASE delayed[x] = "none"
    <3>1. Advance(w, "promote_zrem", AfterPromote) /\ UNCHANGED delayed
      BY <1>9, <2>2, <2>3 DEF PromoteZrem
    <3>2. pc'[w] \in {"promote", "reap", "pick", "promote_zrem"} BY <1>0, <1>6, <3>1 DEF Advance
    <3> QED BY <1>0, <1>u, <2>1, <3>1, <3>2, LedgerKept
  <2>4. CASE delayed[x] # "none"
    <3>1. Hold(w, "promote_get", x, Absent) /\ delayed' = [delayed EXCEPT ![x] = "none"]
      BY <1>9, <2>2, <2>4 DEF PromoteZrem
    <3>2. pc'[w] = "promote_get" /\ cur'[w] = x BY <1>0, <3>1 DEF Hold
    <3>3. \A j \in Jobs \ {x} : delayed'[j] = delayed[j] BY <1>0, <3>1
    <3>4. \A j \in Jobs \ {x} : Queued(j)' <=> Queued(j) BY <2>1 DEF Queued
    <3>5. pc[w] \notin HasRun /\ "promote_get" \in OwnerPcs BY <2>1, LedgerPlaces, SweepPlaces
    <3> QED BY <1>0, <1>8, <2>1, <3>2, <3>3, <3>4, <3>5
  <2> QED BY <2>3, <2>4
<1>10. ASSUME PickMove(w) \/ PickPop(w) PROVE Ledger'
  <2>1. PICK t \in TypeSet, l \in {"pick_get", "pick_track"} :
            /\ Ready(t) /\ queue' = [queue EXCEPT ![t] = Older(@)]
            /\ Hold(w, l, Oldest(queue[t]), Absent)
    BY <1>10 DEF PickMove, PickPop
  <2>2. PICK x : x = Oldest(queue[t]) OBVIOUS
  <2>3. queue[t] # <<>> BY <2>1 DEF Ready
  <2>4. x \in Jobs /\ \A j \in Jobs \ {x} : Queued(j)' <=> Queued(j) BY <2>1, <2>2, <2>3, PopFacts
  <2>5. pc[w] = "pick" /\ pc[w] \in EmptyHanded /\ pc[w] \notin HasRun /\ delayed' = delayed
    BY <1>10 DEF PickMove, PickPop, EmptyHanded, HasRun, zsets
  <2>6. pc'[w] = l /\ cur'[w] = x /\ l \in OwnerPcs BY <1>0, <2>1, <2>2 DEF Hold, OwnerPcs, Moving
  <2> QED BY <1>0, <1>8, <2>4, <2>5, <2>6
<1>11. CASE PromotePush(w)
  <2>1. PICK x : x = cur[w] OBVIOUS
  <2>2. pc[w] = "promote_push" /\ pc[w] \in OwnerPcs /\ pc[w] \notin HasRun
    BY <1>11 DEF PromotePush, OwnerPcs, Moving, Working, HasRun, Done, Raising
  <2>3. x \in Jobs /\ ~Queued(x) BY <1>0, <2>1, <2>2, OwnerFacts
  <2>4. (\A j \in Jobs \ {x} : Queued(j)' <=> Queued(j)) /\ Queued(x)'
    BY <1>11, <2>1, <2>3, EnqueueFacts DEF PromotePush
  <2>5. \A j \in Jobs \ {x} : delayed'[j] = delayed[j] BY <1>11 DEF PromotePush, zsets
  <2>6. pc'[w] \notin {"dead_index", "dead_set"} /\ cur'[w] = NoJob
    BY <1>0, <1>6, <1>11 DEF PromotePush, Advance
  <2> QED BY <1>0, <1>8, <2>1, <2>2, <2>3, <2>4, <2>5, <2>6
<1>12. CASE FailPark(w)
  <2>1. PICK x : x = cur[w] OBVIOUS
  <2>2. pc[w] = "fail_park" /\ pc[w] \in OwnerPcs /\ pc[w] \notin HasRun
    BY <1>12 DEF FailPark, OwnerPcs, Moving, Working, HasRun, Done, Raising
  <2>3. x \in Jobs /\ ~Queued(x) BY <1>0, <2>1, <2>2, OwnerFacts
  <2>4. (\A j \in Jobs \ {x} : Queued(j)' <=> Queued(j)) /\ delayed'[x] # "none"
    BY <1>0, <1>12, <2>1, <2>3 DEF FailPark, Queued
  <2>5. \A j \in Jobs \ {x} : delayed'[j] = delayed[j] BY <1>0, <1>12, <2>1, <2>3 DEF FailPark
  <2>6. pc'[w] \notin {"dead_index", "dead_set"} /\ cur'[w] = NoJob
    <3>1. todo[w] = <<>> BY <1>0, <2>2 DEF Promoting, Recovering
    <3> QED BY <1>7, <1>12, <3>1 DEF FailPark
  <2> QED BY <1>0, <1>8, <2>1, <2>2, <2>3, <2>4, <2>5, <2>6
<1>13. CASE FailPush(w)
  <2>1. PICK x : x = cur[w] OBVIOUS
  <2>2. pc[w] = "fail_push" /\ pc[w] \in OwnerPcs /\ pc[w] \notin HasRun
    BY <1>13 DEF FailPush, OwnerPcs, Moving, Working, HasRun, Done, Raising
  <2>3. x \in Jobs /\ ~Queued(x) BY <1>0, <2>1, <2>2, OwnerFacts
  <2>4. (\A j \in Jobs \ {x} : Queued(j)' <=> Queued(j)) /\ Queued(x)'
    BY <1>13, <2>1, <2>3, EnqueueFacts DEF FailPush
  <2>5. \A j \in Jobs \ {x} : delayed'[j] = delayed[j] BY <1>13 DEF FailPush, zsets
  <2>6. pc'[w] \notin {"dead_index", "dead_set"} /\ cur'[w] = NoJob
    <3>1. todo[w] = <<>> BY <1>0, <2>2 DEF Promoting, Recovering
    <3> QED BY <1>7, <1>13, <3>1 DEF FailPush
  <2> QED BY <1>0, <1>8, <2>1, <2>2, <2>3, <2>4, <2>5, <2>6
<1>14. CASE RecoverPush(w)
  <2>1. PICK x : x = cur[w] OBVIOUS
  <2>2. pc[w] = "recover_push" /\ pc[w] \in OwnerPcs /\ pc[w] \notin HasRun
    BY <1>14 DEF RecoverPush, OwnerPcs, Moving, Working, HasRun, Done, Raising
  <2>3. x \in Jobs /\ ~Queued(x) BY <1>0, <2>1, <2>2, OwnerFacts
  <2>4. (\A j \in Jobs \ {x} : Queued(j)' <=> Queued(j)) /\ Queued(x)'
    BY <1>14, <2>1, <2>3, EnqueueFacts DEF RecoverPush
  <2>5. \A j \in Jobs \ {x} : delayed'[j] = delayed[j] BY <1>14 DEF RecoverPush, zsets
  <2>6. pc'[w] \notin {"dead_index", "dead_set"} /\ cur'[w] = x
    BY <1>0, <1>14, <2>1 DEF RecoverPush, Goto
  <2> QED BY <1>0, <1>8, <2>1, <2>2, <2>3, <2>4, <2>5, <2>6
<1> QED BY <1>9, <1>10, <1>11, <1>12, <1>13, <1>14

\* A step of a worker on its own job that leaves queues and backoff set alone.
LEMMA LedgerOwn ==
    ASSUME IInv, OneOwner, OneOwner', Ledger, NEW w \in Workers, Others(w), NEW x \in Jobs, x = cur[w],
           UNCHANGED <<queue, delayed, crashes, index, born>>, cur'[w] \in {x, NoJob},
           \A j \in Jobs \ {x} : /\ blob'[j] = blob[j] /\ runs'[j] = runs[j]
                                 /\ InDlq(j) => InDlq(j)'
                                 /\ j \in dlqAll => j \in dlqAll',
           Missing(x)' <=> Missing(x), Counted(x)', crashes = 0 => Placed(x)' /\ Listed(x)'
    PROVE  Ledger'
<1>1. \A j \in Jobs \ {x} : (Queued(j)' <=> Queued(j)) /\ delayed'[j] = delayed[j] BY DEF Queued
<1>2. cur[w] \in {x, NoJob} OBVIOUS
<1> QED BY <1>1, <1>2, LedgerButOne

\* The only actor whose handler has ended for a job that is owned is its owner.
LEMMA RunsBefore ==
    ASSUME IInv, OneOwner, Ledger, NEW a \in Actors, pc[a] \in Moving \cup Working, NEW x, x = cur[a]
    PROVE  /\ x \in Jobs /\ runs[x] \in Nat /\ crashes \in Nat /\ MaxRetries[x] \in Nat
           /\ blob[x].retries \in Nat
           /\ blob[x].retries = 0 \/ blob[x].retries < MaxRetries[x]
           /\ runs[x] <= crashes + blob[x].retries + (IF pc[a] \in HasRun THEN 1 ELSE 0)
           /\ runs[x] <= crashes + (IF MaxRetries[x] = 0 THEN 1 ELSE MaxRetries[x])
<1>1. pc[a] \in OwnerPcs /\ x \in Jobs /\ Live(x) BY OwnedLives DEF OwnerPcs
<1>2. blob[x] \in Blob /\ \A c \in Actors \ {a} : ~Owns(c, x) BY <1>1, OwnerFacts
<1>3. runs[x] \in Nat /\ crashes \in Nat /\ MaxRetries[x] \in Nat /\ blob[x].retries \in Nat
  BY <1>1, <1>2, JobsAssumption, SettingsAssumption DEF IInv, HistoryOK, Blob
<1>4. Counted(x) BY <1>1 DEF Ledger
<1>5. \A c \in Actors : cur[c] = x /\ pc[c] \in HasRun => c = a BY <1>2, LedgerPlaces DEF Owns
<1> QED BY <1>1, <1>3, <1>4, <1>5 DEF Counted

\* The steps of a worker that write to the blob or the dead-letter lists.
LEMMA LedgerWrites ==
    ASSUME Undisturbed, IInv, OneOwner, OneOwner', Ledger, NEW w \in Workers, NEW x, x = cur[w],
           \/ PickSet(w) \/ TraceSet(w) \/ CompleteSet(w) \/ RecoverSet(w) \/ Handle(w) \/ FailSet(w)
           \/ FailDlq(w) \/ FailIndex(w) \/ DeadPush(w) \/ DeadIndex(w) \/ DeadSet(w)
    PROVE  Ledger'
<1>0. /\ w \in Actors /\ Others(w) /\ NoJob \notin Jobs /\ w # NoWorker
      /\ pc \in [Actors -> Pcs] /\ cur \in [Actors -> Jobs \cup {NoJob}]
      /\ blob \in [Jobs -> Blob] /\ dlqAll \subseteq Jobs /\ runs \in [Jobs -> Nat] /\ MaxRuns \in Nat
      /\ LoopHead \in {"promote", "reap", "pick"}
      /\ pc[w] \notin EmptyHanded => x \in Jobs
      /\ pc[w] \notin Promoting \cup Recovering => todo[w] = <<>>
  <2>1. /\ w \in Actors /\ Others(w) /\ NoJob \notin Jobs /\ w # NoWorker
        /\ pc \in [Actors -> Pcs] /\ cur \in [Actors -> Jobs \cup {NoJob}]
        /\ blob \in [Jobs -> Blob] /\ dlqAll \subseteq Jobs /\ runs \in [Jobs -> Nat] /\ MaxRuns \in Nat
        /\ pc[w] \notin EmptyHanded => x \in Jobs
    BY WorkerAlone, JobsAssumption, ActorsAssumption, SettingsAssumption DEF WorkerStep, Actors,
      IInv, LocalOK, RedisOK, SetsOK, StoreOK, HistoryOK
  <2>2. WorkerOK(w) BY DEF OneOwner, PlacesOK
  <2> QED BY <2>1, <2>2, LoopPlaces DEF WorkerOK
<1>1. ASSUME NEW l, Goto(w, l) PROVE pc'[w] = l /\ cur'[w] = x BY <1>0, <1>1 DEF Goto
<1>2. ASSUME NEW l, NEW b, Hold(w, l, x, b) PROVE pc'[w] = l /\ cur'[w] = x BY <1>0, <1>2 DEF Hold
<1>3. ASSUME Return(w), todo[w] = <<>> PROVE pc'[w] \in {"promote", "reap", "pick"} /\ cur'[w] = NoJob
  BY <1>0, <1>3 DEF Return, Reaping, Hold, Rest
\* It writes a blob that is not dead, and no list.
<1>4. ASSUME pc[w] \in Moving \cup Working \cup {"recover_set"}, NEW b, blob' = [blob EXCEPT ![x] = b],
             b.status \notin {"absent", "dead"}, blob[x].status # "absent",
             UNCHANGED <<queue, delayed, crashes, index, born, dlq, dlqAll, runs>>,
             cur'[w] = x, NEW l, pc'[w] = l, l \in OwnerPcs, l \notin {"dead_index", "dead_set"}, Counted(x)'
      PROVE  Ledger'
  <2>1. pc[w] \in OwnerPcs /\ x \in Jobs
    <3>1. pc[w] \in OwnerPcs BY <1>4 DEF OwnerPcs
    <3> QED BY <1>0, <3>1, OwnerFacts
  <2>2. blob'[x] = b /\ \A j \in Jobs \ {x} : blob'[j] = blob[j] BY <1>0, <1>4, <2>1
  <2>3. \A j \in Jobs : /\ runs'[j] = runs[j]
                        /\ InDlq(j) => InDlq(j)'
                        /\ j \in dlqAll => j \in dlqAll'
    BY <1>4 DEF InDlq
  <2>4. Missing(x)' <=> Missing(x) BY <1>4, <2>2 DEF Missing
  <2>5. ASSUME crashes = 0 PROVE Placed(x)' /\ Listed(x)'
    <3>1. Placed(x) /\ Listed(x) BY <2>1, <2>5 DEF Ledger, BooksOK
    <3>2. Placed(x)' BY <1>0, <1>4, <2>1, <3>1, PlacedStays
    <3>3. pc[w] \notin {"requeue_srem", "requeue_set", "fail_dlq", "fail_index"}
      BY <1>4, LedgerPlaces DEF Moving, Working, HasRun
    <3>4. Listed(x)' BY <1>0, <1>4, <2>1, <2>2, <2>3, <3>1, <3>3, ListedStays
    <3> QED BY <3>2, <3>4
  <2> QED BY <1>0, <1>4, <2>1, <2>2, <2>3, <2>4, <2>5, LedgerOwn
<1>5. CASE PickSet(w)
  <2>1. /\ pc[w] = "pick_set" /\ pc[w] \in OwnerPcs
        /\ pc[w] \in Moving \cup Working \cup {"recover_set"}
    BY <1>5 DEF PickSet, OwnerPcs, Moving, Working, HasRun, Done, Raising
  <2>2. x \in Jobs /\ blob[x] \in Blob /\ BlobKnown(w, x) /\ CopyKnown(w, x)
    BY <1>0, <2>1, OwnerFacts
  <2>3. /\ blob[x].status \in {"pending", "processing"} /\ copy[w].status \in {"pending", "processing"}
        /\ copy[w].retries = blob[x].retries
    BY <1>0, <2>1, <2>2 DEF BlobKnown, CopyKnown, Moving, Working, Blob
  <2>4. /\ blob' = [blob EXCEPT ![x] = copy[w]]
        /\ UNCHANGED <<queue, delayed, crashes, index, born, dlq, dlqAll, runs>>
    BY <1>5 DEF PickSet, Set, zsets, morgue, history
  <2>5. PICK l : pc'[w] = l /\ cur'[w] = x /\ l \in {"pick_lease", "trace_get"}
    BY <1>5, <1>2 DEF PickSet
  <2>6. l \in OwnerPcs /\ l \notin {"dead_index", "dead_set"} /\ pc[w] \notin HasRun
    BY <2>1, <2>5 DEF OwnerPcs, Moving, Working, HasRun, Done, Raising
  <2>7. Counted(x)'
    <3>1. Counted(x) BY <2>2 DEF Ledger
    <3>2. blob'[x] = copy[w] BY <1>0, <2>2, <2>4
    <3>3. Live(x) /\ blob'[x].retries = blob[x].retries
      BY <2>3, <3>2 DEF Live, Missing, Finished, Terminal
    <3> QED BY <1>0, <2>2, <2>4, <2>6, <3>1, <3>3, CountedStays
  <2> QED BY <1>4, <2>1, <2>3, <2>4, <2>5, <2>6, <2>7
<1>6. CASE TraceSet(w)
  <2>1. /\ pc[w] = "trace_set" /\ pc[w] \in OwnerPcs
        /\ pc[w] \in Moving \cup Working \cup {"recover_set"}
    BY <1>6 DEF TraceSet, OwnerPcs, Moving, Working, HasRun, Done, Raising
  <2>2. x \in Jobs /\ blob[x] \in Blob /\ BlobKnown(w, x) /\ CopyKnown(w, x)
    BY <1>0, <2>1, OwnerFacts
  <2>3. /\ blob[x].status \in {"pending", "processing"} /\ copy[w].status \in {"pending", "processing"}
        /\ copy[w].retries = blob[x].retries
    BY <1>0, <2>1, <2>2 DEF BlobKnown, CopyKnown, Moving, Working, Blob
  <2>4. /\ blob' = [blob EXCEPT ![x] = copy[w]]
        /\ UNCHANGED <<queue, delayed, crashes, index, born, dlq, dlqAll, runs>>
    BY <1>6 DEF TraceSet, Set, zsets, morgue, history
  <2>5. PICK l : pc'[w] = l /\ cur'[w] = x /\ l \in {"run"} BY <1>6, <1>2 DEF TraceSet
  <2>6. l \in OwnerPcs /\ l \notin {"dead_index", "dead_set"} /\ pc[w] \notin HasRun
    BY <2>1, <2>5 DEF OwnerPcs, Moving, Working, HasRun, Done, Raising
  <2>7. Counted(x)'
    <3>1. Counted(x) BY <2>2 DEF Ledger
    <3>2. blob'[x] = copy[w] BY <1>0, <2>2, <2>4
    <3>3. Live(x) /\ blob'[x].retries = blob[x].retries
      BY <2>3, <3>2 DEF Live, Missing, Finished, Terminal
    <3> QED BY <1>0, <2>2, <2>4, <2>6, <3>1, <3>3, CountedStays
  <2> QED BY <1>4, <2>1, <2>3, <2>4, <2>5, <2>6, <2>7
<1>7. CASE RecoverSet(w)
  <2>1. /\ pc[w] = "recover_set" /\ pc[w] \in OwnerPcs
        /\ pc[w] \in Moving \cup Working \cup {"recover_set"}
    BY <1>7 DEF RecoverSet, OwnerPcs, Moving, Working, HasRun, Done, Raising
  <2>2. x \in Jobs /\ blob[x] \in Blob /\ BlobKnown(w, x) /\ CopyKnown(w, x)
    BY <1>0, <2>1, OwnerFacts
  <2>3. /\ blob[x].status \in {"pending", "processing"} /\ copy[w].status \in {"pending", "processing"}
        /\ copy[w].retries = blob[x].retries
    BY <1>0, <2>1, <2>2 DEF BlobKnown, CopyKnown, Moving, Working, Blob
  <2>4. /\ blob' = [blob EXCEPT ![x] = copy[w]]
        /\ UNCHANGED <<queue, delayed, crashes, index, born, dlq, dlqAll, runs>>
    BY <1>7 DEF RecoverSet, Set, zsets, morgue, history
  <2>5. PICK l : pc'[w] = l /\ cur'[w] = x /\ l \in {"recover_push"} BY <1>7, <1>1 DEF RecoverSet
  <2>6. l \in OwnerPcs /\ l \notin {"dead_index", "dead_set"} /\ pc[w] \notin HasRun
    BY <2>1, <2>5 DEF OwnerPcs, Moving, Working, HasRun, Done, Raising
  <2>7. Counted(x)'
    <3>1. Counted(x) BY <2>2 DEF Ledger
    <3>2. blob'[x] = copy[w] BY <1>0, <2>2, <2>4
    <3>3. Live(x) /\ blob'[x].retries = blob[x].retries
      BY <2>3, <3>2 DEF Live, Missing, Finished, Terminal
    <3> QED BY <1>0, <2>2, <2>4, <2>6, <3>1, <3>3, CountedStays
  <2> QED BY <1>4, <2>1, <2>3, <2>4, <2>5, <2>6, <2>7
<1>8. CASE CompleteSet(w)
  <2>1. /\ pc[w] = "complete_set" /\ pc[w] \in OwnerPcs
        /\ pc[w] \in Moving \cup Working \cup {"recover_set"}
    BY <1>8 DEF CompleteSet, OwnerPcs, Moving, Working, HasRun, Done, Raising
  <2>2. x \in Jobs /\ blob[x] \in Blob /\ BlobKnown(w, x) /\ CopyKnown(w, x)
    BY <1>0, <2>1, OwnerFacts
  <2>3. blob[x].status = "processing" /\ copy[w].status = "completed"
    BY <1>0, <2>1, <2>2 DEF BlobKnown, CopyKnown, Moving, Working, HasRun, Blob
  <2>4. /\ blob' = [blob EXCEPT ![x] = copy[w]]
        /\ UNCHANGED <<queue, delayed, crashes, index, born, dlq, dlqAll, runs>>
    BY <1>8 DEF CompleteSet, SetEx, zsets, morgue, history
  <2>5. PICK l : pc'[w] = l /\ cur'[w] = x /\ l = "complete_untrack" BY <1>8, <1>1 DEF CompleteSet
  <2>6. l \in OwnerPcs /\ l \notin {"dead_index", "dead_set"} BY <2>5 DEF OwnerPcs, Done
  <2>7. Counted(x)'
    <3>1. Counted(x) BY <2>2 DEF Ledger
    <3>2. blob'[x] = copy[w] BY <1>0, <2>2, <2>4
    <3>3. ~Live(x)' BY <2>3, <3>2 DEF Live, Missing, Finished, Terminal
    <3> QED BY <1>0, <2>2, <2>4, <3>1, <3>3, CountedStays
  <2> QED BY <1>4, <2>1, <2>3, <2>4, <2>5, <2>6, <2>7
<1>9. CASE Handle(w)
  <2>1. /\ pc[w] = "run" /\ pc[w] \in OwnerPcs
        /\ pc[w] \in Moving \cup Working \cup {"recover_set"}
    BY <1>9 DEF Handle, OwnerPcs, Moving, Working, HasRun, Done, Raising
  <2>2. x \in Jobs /\ blob[x] \in Blob /\ BlobKnown(w, x) /\ CopyKnown(w, x)
    BY <1>0, <2>1, OwnerFacts
  <2>3. blob[x].status = "processing" /\ pc[w] \notin HasRun
    BY <1>0, <2>1, <2>2, LedgerPlaces DEF BlobKnown, Working
  <2>4. UNCHANGED <<queue, delayed, crashes, index, born, dlq, dlqAll, blob>>
    BY <1>9 DEF Handle, redis, store, zsets, morgue
  <2>5. PICK l : pc'[w] = l /\ cur'[w] = x /\ l \in {"complete_get", "dead_get", "fail_get"}
    BY <1>9, <1>1 DEF Handle
  <2>6. l \in OwnerPcs /\ l \notin {"dead_index", "dead_set"} /\ l \in HasRun
    BY <2>5 DEF OwnerPcs, Working, HasRun
  <2>7. (\A j \in Jobs \ {x} : runs'[j] = runs[j]) /\ runs'[x] \in Nat /\ runs'[x] <= runs[x] + 1
    <3>1. PICK v : v = IF runs[x] < MaxRuns THEN runs[x] + 1 ELSE runs[x] OBVIOUS
    <3>2. runs' = [runs EXCEPT ![x] = v] BY <1>9, <3>1 DEF Handle
    <3> QED BY <1>0, <2>2, <3>1, <3>2
  <2>8. /\ runs[x] \in Nat /\ crashes \in Nat /\ MaxRetries[x] \in Nat
        /\ blob[x].retries \in Nat
        /\ blob[x].retries = 0 \/ blob[x].retries < MaxRetries[x]
        /\ runs[x] <= crashes + blob[x].retries
    <3>1. pc[w] \in Moving \cup Working BY <2>1 DEF Working
    <3> QED BY <1>0, <2>3, <3>1, RunsBefore
  <2>9. Counted(x)'
    <3>1. runs'[x] <= crashes + blob[x].retries + 1 BY <2>7, <2>8
    <3>2. runs'[x] <= crashes + (IF MaxRetries[x] = 0 THEN 1 ELSE MaxRetries[x])
      <4>1. \A m, b, c, r \in Nat : (b = 0 \/ b < m) /\ r <= c + b + 1
                                    => r <= c + (IF m = 0 THEN 1 ELSE m)
        OBVIOUS
      <4>2. PICK m \in Nat, b \in Nat, c \in Nat, r \in Nat :
                m = MaxRetries[x] /\ b = blob[x].retries /\ c = crashes /\ r = runs'[x]
        BY <2>7, <2>8
      <4>3. (b = 0 \/ b < m) /\ r <= c + b + 1 BY <2>8, <3>1, <4>2
      <4>4. r <= c + (IF m = 0 THEN 1 ELSE m) BY <4>1, <4>3
      <4> QED BY <4>2, <4>4
    <3> QED BY <1>0, <2>4, <2>5, <2>6, <2>8, <3>1, <3>2 DEF Counted
  <2>10. ASSUME crashes = 0 PROVE Placed(x)' /\ Listed(x)'
    <3>1. Placed(x) /\ Listed(x) BY <2>2, <2>10 DEF Ledger, BooksOK
    <3>2. Placed(x)' BY <1>0, <2>2, <2>5, <2>6, <3>1, PlacedStays
    <3>3. InDlq(x) => InDlq(x)' BY <2>4 DEF InDlq
    <3>4. Listed(x)' BY <1>0, <2>1, <2>2, <2>4, <2>5, <2>6, <3>1, <3>3, ListedStays
    <3> QED BY <3>2, <3>4
  <2>11. Missing(x)' <=> Missing(x) BY <2>4 DEF Missing
  <2>12. \A j \in Jobs : InDlq(j) => InDlq(j)' BY <2>4 DEF InDlq
  <2> QED BY <1>0, <2>2, <2>4, <2>5, <2>7, <2>9, <2>10, <2>11, <2>12, LedgerOwn
<1>10. CASE FailSet(w)
  <2>1. /\ pc[w] = "fail_set" /\ pc[w] \in OwnerPcs
        /\ pc[w] \in Moving \cup Working \cup {"recover_set"}
    BY <1>10 DEF FailSet, OwnerPcs, Moving, Working, HasRun, Done, Raising
  <2>2. x \in Jobs /\ blob[x] \in Blob /\ BlobKnown(w, x) /\ CopyKnown(w, x)
    BY <1>0, <2>1, OwnerFacts
  <2>3. /\ blob[x].status = "processing" /\ copy[w].retries = blob[x].retries + 1
        /\ copy[w].status = IF RetriesLeft(x, blob[x].retries + 1) THEN "pending" ELSE "dead"
    BY <1>0, <2>1, <2>2 DEF BlobKnown, CopyKnown, Working, HasRun
  <2>4. /\ blob' = [blob EXCEPT ![x] = copy[w]]
        /\ UNCHANGED <<queue, delayed, crashes, index, born, dlq, dlqAll, runs>>
    BY <1>10 DEF FailSet, Set, zsets, morgue, history
  <2>5. PICK l : /\ pc'[w] = l /\ cur'[w] = x
                 /\ l = IF copy[w].status = "dead" THEN "fail_dlq"
                         ELSE IF Backoff THEN "fail_park" ELSE "fail_push"
    BY <1>10, <1>1 DEF FailSet
  <2>6. blob'[x] = copy[w] /\ \A j \in Jobs \ {x} : blob'[j] = blob[j] BY <1>0, <2>2, <2>4
  <2>7. /\ runs[x] \in Nat /\ crashes \in Nat /\ MaxRetries[x] \in Nat
        /\ blob[x].retries \in Nat
        /\ runs[x] <= crashes + blob[x].retries + 1
        /\ runs[x] <= crashes + (IF MaxRetries[x] = 0 THEN 1 ELSE MaxRetries[x])
    <3>1. pc[w] \in Moving \cup Working /\ pc[w] \in HasRun BY <2>1 DEF Working, HasRun
    <3> QED BY <1>0, <3>1, RunsBefore
  <2>8. CASE copy[w].status = "pending"
    <3>1. l \in {"fail_park", "fail_push"} /\ l \in OwnerPcs BY <2>5, <2>8 DEF OwnerPcs, Moving
    <3>2. blob[x].retries + 1 < MaxRetries[x] BY <2>3, <2>8 DEF RetriesLeft
    <3>3. runs'[x] <= crashes' + blob'[x].retries BY <2>3, <2>4, <2>6, <2>7
    <3>4. runs'[x] <= crashes' + (IF MaxRetries[x] = 0 THEN 1 ELSE MaxRetries[x]) BY <2>4, <2>7
    <3>5. blob'[x].retries < MaxRetries[x] BY <2>3, <2>6, <3>2
    <3>6. Counted(x)' BY <3>3, <3>4, <3>5 DEF Counted
    <3> QED BY <1>4, <2>1, <2>3, <2>4, <2>5, <2>8, <3>1, <3>6
  <2>9. CASE copy[w].status = "dead"
    <3>1. ~Live(x)' BY <2>6, <2>9 DEF Live, Finished, Terminal
    <3>2. Counted(x)'
      <4>1. Counted(x) BY <2>2 DEF Ledger
      <4> QED BY <1>0, <2>2, <2>4, <3>1, <4>1, CountedStays
    <3>3. ASSUME crashes = 0 PROVE Placed(x)' /\ Listed(x)'
      <4>1. Listed(x) BY <2>2, <3>3 DEF Ledger, BooksOK
      <4>2. Placed(x)' BY <3>1 DEF Placed
      <4>3. InDlq(x)' <=> InDlq(x) BY <2>4 DEF InDlq
      <4>4. Listed(x)' BY <1>0, <2>4, <2>5, <2>9, <4>1, <4>3 DEF Listed, Others
      <4> QED BY <4>2, <4>4
    <3>4. Missing(x)' <=> Missing(x) BY <2>3, <2>6, <2>9 DEF Missing
    <3>5. \A j \in Jobs : InDlq(j) => InDlq(j)' BY <2>4 DEF InDlq
    <3> QED BY <1>0, <2>2, <2>4, <2>5, <2>6, <3>2, <3>3, <3>4, <3>5, LedgerOwn
  <2> QED BY <2>3, <2>8, <2>9
\* It lists its job among the dead.
<1>11. ASSUME pc[w] \notin EmptyHanded, UNCHANGED <<queue, delayed, crashes, index, born, runs, blob>>,
             \A j \in Jobs : InDlq(j) => InDlq(j)',
             \A j \in Jobs : j \in dlqAll => j \in dlqAll',
             NEW l, pc'[w] = l, cur'[w] \in {x, NoJob},
             \/ pc[w] \notin OwnerPcs
             \/ cur'[w] = x /\ l \in OwnerPcs /\ pc[w] \in HasRun /\ l \in HasRun,
             crashes = 0 => Listed(x)'
      PROVE  Ledger'
  <2>0. x \in Jobs BY <1>0, <1>11
  <2>1. (Live(x)' <=> Live(x)) /\ (Missing(x)' <=> Missing(x)) /\ (Queued(x)' <=> Queued(x))
    BY <1>11 DEF Live, Missing, Finished, Queued
  <2>2. Counted(x)'
    <3>1. Counted(x) /\ (pc[w] \notin OwnerPcs => pc[w] \notin HasRun)
      BY <2>0, LedgerPlaces DEF Ledger
    <3> QED BY <1>0, <1>11, <2>0, <2>1, <3>1, CountedStays
  <2>3. ASSUME crashes = 0 PROVE Placed(x)'
    <3>1. Placed(x) BY <2>0, <2>3 DEF Ledger, BooksOK
    <3>2. CASE pc[w] \notin OwnerPcs
      <4>1. CASE Live(x)
        <5>1. Queued(x) \/ delayed[x] # "none" => Queued(x)' \/ delayed'[x] # "none" BY <1>11, <2>1
        <5> QED BY <1>0, <2>0, <3>1, <3>2, <4>1, <5>1, PlacedStays
      <4> QED BY <2>1, <4>1 DEF Placed
    <3>3. CASE cur'[w] = x /\ l \in OwnerPcs BY <1>0, <1>11, <2>0, <3>1, <3>3, PlacedStays
    <3> QED BY <1>11, <3>2, <3>3
  <2> QED BY <1>0, <1>11, <2>0, <2>1, <2>2, <2>3, LedgerOwn
<1>12. CASE DeadPush(w)
  <2>1. /\ pc[w] = "dead_push" /\ pc[w] \notin EmptyHanded
        /\ pc[w] \in OwnerPcs /\ pc[w] \in HasRun
        /\ pc[w] \notin Promoting \cup Recovering
    BY <1>12 DEF DeadPush, EmptyHanded, Promoting, Recovering, OwnerPcs, Moving, Working, HasRun, Done, Raising
  <2>2. x \in Jobs BY <1>0, <2>1
  <2>3. UNCHANGED <<queue, delayed, crashes, index, born, runs, blob, dlqAll>>
    BY <1>12 DEF DeadPush, store, zsets, history
  <2>4. InDlq(x)' /\ \A j \in Jobs : InDlq(j) => InDlq(j)' BY <1>12, <2>2, BuryFacts DEF DeadPush
  <2>5. \A j \in Jobs : j \in dlqAll => j \in dlqAll' BY <2>3
  <2>6. PICK l : pc'[w] = l /\ l = "dead_index" /\ cur'[w] = x BY <1>1, <1>12 DEF DeadPush
  <2>7. l \in OwnerPcs /\ l \in HasRun /\ blob[x].status = "processing"
    <3>1. BlobKnown(w, x) BY <1>0, <2>1, OwnerFacts
    <3>2. l \in HasRun /\ pc[w] \in Working BY <2>1, <2>6 DEF HasRun, Working
    <3> QED BY <3>1, <3>2, LedgerPlaces DEF BlobKnown
  <2>8. ASSUME crashes = 0 PROVE Listed(x)'
    <3>1. Listed(x) BY <2>2, <2>8 DEF Ledger, BooksOK
    <3>2. \A c \in Actors : cur'[c] = x =>
            /\ pc'[c] \in {"dead_index", "dead_set"} => InDlq(x)'
            /\ pc'[c] = "dead_set" => x \in dlqAll'
      <4> SUFFICES ASSUME NEW c \in Actors, cur'[c] = x
                   PROVE  /\ pc'[c] \in {"dead_index", "dead_set"} => InDlq(x)'
                          /\ pc'[c] = "dead_set" => x \in dlqAll'
        OBVIOUS
      <4>1. CASE c = w BY <2>4, <2>6, <4>1
      <4>2. CASE c # w BY <1>0, <2>2, <2>4, <2>5, <3>1, <4>2 DEF Listed, Others
      <4> QED BY <4>1, <4>2
    <3> QED BY <2>3, <2>7, <3>2 DEF Listed
  <2> QED BY <1>0, <1>11, <2>1, <2>3, <2>4, <2>5, <2>6, <2>7, <2>8
<1>13. CASE DeadIndex(w)
  <2>1. /\ pc[w] = "dead_index" /\ pc[w] \notin EmptyHanded
        /\ pc[w] \in OwnerPcs /\ pc[w] \in HasRun
        /\ pc[w] \notin Promoting \cup Recovering
    BY <1>13 DEF DeadIndex, EmptyHanded, Promoting, Recovering, OwnerPcs, Moving, Working, HasRun, Done, Raising
  <2>2. x \in Jobs BY <1>0, <2>1
  <2>3. UNCHANGED <<queue, delayed, crashes, index, born, runs, blob, dlq>>
    BY <1>13 DEF DeadIndex, store, zsets, history
  <2>4. \A j \in Jobs : InDlq(j)' <=> InDlq(j) BY <2>3 DEF InDlq
  <2>5. x \in dlqAll' /\ \A j \in Jobs : j \in dlqAll => j \in dlqAll' BY <1>13 DEF DeadIndex
  <2>6. PICK l : pc'[w] = l /\ l = "dead_set" /\ cur'[w] = x BY <1>1, <1>13 DEF DeadIndex
  <2>7. l \in OwnerPcs /\ l \in HasRun /\ blob[x].status = "processing"
    <3>1. BlobKnown(w, x) BY <1>0, <2>1, OwnerFacts
    <3>2. l \in HasRun /\ pc[w] \in Working BY <2>1, <2>6 DEF HasRun, Working
    <3> QED BY <3>1, <3>2, LedgerPlaces DEF BlobKnown
  <2>8. ASSUME crashes = 0 PROVE Listed(x)'
    <3>1. Listed(x) BY <2>2, <2>8 DEF Ledger, BooksOK
    <3>2. \A c \in Actors : cur'[c] = x =>
            /\ pc'[c] \in {"dead_index", "dead_set"} => InDlq(x)'
            /\ pc'[c] = "dead_set" => x \in dlqAll'
      <4> SUFFICES ASSUME NEW c \in Actors, cur'[c] = x
                   PROVE  /\ pc'[c] \in {"dead_index", "dead_set"} => InDlq(x)'
                          /\ pc'[c] = "dead_set" => x \in dlqAll'
        OBVIOUS
      <4>1. CASE c = w BY <1>0, <2>1, <2>2, <2>4, <2>5, <2>6, <3>1, <4>1 DEF Listed
      <4>2. CASE c # w BY <1>0, <2>2, <2>4, <2>5, <3>1, <4>2 DEF Listed, Others
      <4> QED BY <4>1, <4>2
    <3> QED BY <2>3, <2>7, <3>2 DEF Listed
  <2> QED BY <1>0, <1>11, <2>1, <2>3, <2>4, <2>5, <2>6, <2>7, <2>8
<1>14. CASE FailDlq(w)
  <2>1. /\ pc[w] = "fail_dlq" /\ pc[w] \notin EmptyHanded
        /\ pc[w] \notin OwnerPcs
        /\ pc[w] \notin Promoting \cup Recovering
    BY <1>14 DEF FailDlq, EmptyHanded, Promoting, Recovering, OwnerPcs, Moving, Working, HasRun, Done, Raising
  <2>2. x \in Jobs BY <1>0, <2>1
  <2>3. UNCHANGED <<queue, delayed, crashes, index, born, runs, blob, dlqAll>>
    BY <1>14 DEF FailDlq, store, zsets, history
  <2>4. InDlq(x)' /\ \A j \in Jobs : InDlq(j) => InDlq(j)' BY <1>14, <2>2, BuryFacts DEF FailDlq
  <2>5. \A j \in Jobs : j \in dlqAll => j \in dlqAll' BY <2>3
  <2>6. PICK l : pc'[w] = l /\ l = "fail_index" /\ cur'[w] = x BY <1>1, <1>14 DEF FailDlq
  <2>8. ASSUME crashes = 0 PROVE Listed(x)'
    <3>1. Listed(x) BY <2>2, <2>8 DEF Ledger, BooksOK
    <3>2. \A c \in Actors : cur'[c] = x =>
            /\ pc'[c] \in {"dead_index", "dead_set"} => InDlq(x)'
            /\ pc'[c] = "dead_set" => x \in dlqAll'
      <4> SUFFICES ASSUME NEW c \in Actors, cur'[c] = x
                   PROVE  /\ pc'[c] \in {"dead_index", "dead_set"} => InDlq(x)'
                          /\ pc'[c] = "dead_set" => x \in dlqAll'
        OBVIOUS
      <4>1. CASE c = w BY <1>0, <2>2, <2>6, <4>1
      <4>2. CASE c # w BY <1>0, <2>2, <2>4, <2>5, <3>1, <4>2 DEF Listed, Others
      <4> QED BY <4>1, <4>2
    <3>3. ASSUME blob'[x].status = "dead"
          PROVE  \/ InDlq(x)' /\ x \in dlqAll'
                 \/ \E c \in Actors : cur'[c] = x /\ pc'[c] \in {"requeue_srem", "requeue_set", "fail_dlq"}
                 \/ InDlq(x)' /\ \E c \in Actors : cur'[c] = x /\ pc'[c] = "fail_index"
      BY <1>0, <2>4, <2>6
    <3> QED BY <3>2, <3>3 DEF Listed
  <2> QED BY <1>0, <1>11, <2>1, <2>3, <2>4, <2>5, <2>6, <2>8
<1>15. CASE FailIndex(w)
  <2>1. /\ pc[w] = "fail_index" /\ pc[w] \notin EmptyHanded
        /\ pc[w] \notin OwnerPcs
        /\ pc[w] \notin Promoting \cup Recovering
    BY <1>15 DEF FailIndex, EmptyHanded, Promoting, Recovering, OwnerPcs, Moving, Working, HasRun, Done, Raising
  <2>2. x \in Jobs BY <1>0, <2>1
  <2>3. UNCHANGED <<queue, delayed, crashes, index, born, runs, blob, dlq>>
    BY <1>15 DEF FailIndex, store, zsets, history
  <2>4. \A j \in Jobs : InDlq(j)' <=> InDlq(j) BY <2>3 DEF InDlq
  <2>5. x \in dlqAll' /\ \A j \in Jobs : j \in dlqAll => j \in dlqAll' BY <1>15 DEF FailIndex
  <2>6. PICK l : pc'[w] = l /\ l \in {"promote", "reap", "pick"} /\ cur'[w] = NoJob
    BY <1>0, <1>3, <1>15, <2>1 DEF FailIndex
  <2>8. ASSUME crashes = 0 PROVE Listed(x)'
    <3>1. Listed(x) BY <2>2, <2>8 DEF Ledger, BooksOK
    <3>2. \A c \in Actors : cur'[c] = x =>
            /\ pc'[c] \in {"dead_index", "dead_set"} => InDlq(x)'
            /\ pc'[c] = "dead_set" => x \in dlqAll'
      <4> SUFFICES ASSUME NEW c \in Actors, cur'[c] = x
                   PROVE  /\ pc'[c] \in {"dead_index", "dead_set"} => InDlq(x)'
                          /\ pc'[c] = "dead_set" => x \in dlqAll'
        OBVIOUS
      <4>1. CASE c = w BY <1>0, <2>2, <2>6, <4>1
      <4>2. CASE c # w BY <1>0, <2>2, <2>4, <2>5, <3>1, <4>2 DEF Listed, Others
      <4> QED BY <4>1, <4>2
    <3>3. ASSUME blob'[x].status = "dead"
          PROVE  \/ InDlq(x)' /\ x \in dlqAll'
                 \/ \E c \in Actors : cur'[c] = x /\ pc'[c] \in {"requeue_srem", "requeue_set", "fail_dlq"}
                 \/ InDlq(x)' /\ \E c \in Actors : cur'[c] = x /\ pc'[c] = "fail_index"
      <4>1. blob[x].status = "dead" BY <2>3, <3>3
      <4>2. CASE InDlq(x) BY <2>2, <2>4, <2>5, <4>2
      <4>3. ASSUME NEW c \in Actors, cur[c] = x, pc[c] \in {"requeue_srem", "requeue_set", "fail_dlq"}
            PROVE  cur'[c] = x /\ pc'[c] \in {"requeue_srem", "requeue_set", "fail_dlq"}
        <5>1. c # w BY <2>1, <4>3
        <5> QED BY <1>0, <4>3, <5>1 DEF Others
      <4> QED BY <3>1, <4>1, <4>2, <4>3 DEF Listed
    <3> QED BY <3>2, <3>3 DEF Listed
  <2> QED BY <1>0, <1>11, <2>1, <2>3, <2>4, <2>5, <2>6, <2>8
<1>16. CASE DeadSet(w)
  <2>1. /\ pc[w] = "dead_set" /\ pc[w] \in OwnerPcs
        /\ pc[w] \in Moving \cup Working \cup {"recover_set"}
    BY <1>16 DEF DeadSet, OwnerPcs, Moving, Working, HasRun, Done, Raising
  <2>2. x \in Jobs /\ blob[x] \in Blob /\ BlobKnown(w, x) /\ CopyKnown(w, x)
    BY <1>0, <2>1, OwnerFacts
  <2>3. blob[x].status = "processing" /\ copy[w].status = "dead"
    BY <1>0, <2>1, <2>2 DEF BlobKnown, CopyKnown, Working, HasRun, Blob
  <2>4. /\ blob' = [blob EXCEPT ![x] = copy[w]]
        /\ UNCHANGED <<queue, delayed, crashes, index, born, dlq, dlqAll, runs>>
    BY <1>16 DEF DeadSet, Set, zsets, morgue, history
  <2>5. cur'[w] = NoJob
    <3>1. pc[w] \notin Promoting \cup Recovering BY <2>1 DEF Promoting, Recovering
    <3> QED BY <1>0, <1>3, <1>16, <3>1 DEF DeadSet
  <2>6. blob'[x] = copy[w] /\ \A j \in Jobs \ {x} : blob'[j] = blob[j] BY <1>0, <2>2, <2>4
  <2>7. ~Live(x)' /\ (Missing(x)' <=> Missing(x))
    BY <2>3, <2>6 DEF Live, Missing, Finished, Terminal
  <2>8. Counted(x)'
    <3>1. Counted(x) BY <2>2 DEF Ledger
    <3> QED BY <1>0, <2>2, <2>4, <2>7, <3>1, CountedStays
  <2>9. \A j \in Jobs : InDlq(j)' <=> InDlq(j) BY <2>4 DEF InDlq
  <2>10. ASSUME crashes = 0 PROVE Placed(x)' /\ Listed(x)'
    <3>1. Placed(x)' BY <2>7 DEF Placed
    <3>2. Listed(x) BY <2>2, <2>10 DEF Ledger, BooksOK
    <3>3. InDlq(x)' /\ x \in dlqAll' BY <1>0, <2>1, <2>2, <2>4, <2>9, <3>2 DEF Listed
    <3>4. Listed(x)' BY <3>3 DEF Listed
    <3> QED BY <3>1, <3>4
  <2> QED BY <1>0, <2>2, <2>4, <2>5, <2>6, <2>7, <2>8, <2>9, <2>10, LedgerOwn
<1> QED BY <1>5, <1>6, <1>7, <1>8, <1>9, <1>10, <1>12, <1>13, <1>14, <1>15, <1>16

-----------------------------------------------------------------------------
(* The API process and the books. *)

\* A step of a client after which it owes no index an entry it owed before,
\* unless the entry is there.
LEMMA IndexedByClient ==
    ASSUME NEW c \in Clients, Others(c), NEW j \in Jobs, Indexed(j), Missing(j)' <=> Missing(j),
           Unseen(j)' => Unseen(j),
           \A k \in IndexKinds : j \in index'[k] => j \in index[k] \/ ~Unseen(j),
           j \in Elements(todo'[c]) => j \in Elements(todo[c]) \/ \E k \in IndexKinds : j \in index[k],
           pc'[c] \in Healing /\ j \in Elements(todo'[c]) => Missing(j),
           ~Missing(j) => \A k \in IndexKinds : j \in index[k] => j \in index'[k],
           cur[c] = j /\ pc[c] \in Pushing =>
              j \in index'["all"] \/ (cur'[c] = j /\ pc'[c] \in Pushing),
           cur[c] = j /\ pc[c] \in Pushing \cup {"submit_index_type"} =>
              j \in index'["type"] \/ (cur'[c] = j /\ pc'[c] \in Pushing \cup {"submit_index_type"})
    PROVE  Indexed(j)'
<1>0. /\ c \in Actors /\ \A d \in Clients \ {c} : d \in Actors \ {c}
      /\ "all" \in IndexKinds /\ "type" \in IndexKinds
  BY DEF Actors, IndexKinds
<1>1. ASSUME Unseen(j)'
      PROVE  /\ \A k \in IndexKinds : j \notin index'[k]
             /\ \A d \in Clients : j \notin Elements(todo'[d])
  <2>1. /\ \A k \in IndexKinds : j \notin index[k]
        /\ \A d \in Clients : j \notin Elements(todo[d])
    BY <1>1 DEF Indexed, Unseen
  <2>2. \A d \in Clients \ {c} : todo'[d] = todo[d] BY <1>0 DEF Others
  <2> QED BY <1>1, <2>1, <2>2
<1>2. ASSUME NEW d \in Clients, pc'[d] \in Healing, j \in Elements(todo'[d]) PROVE Missing(j)'
  <2>1. CASE d = c BY <1>2, <2>1
  <2>2. CASE d # c BY <1>0, <1>2, <2>2 DEF Indexed, Others
  <2> QED BY <2>1, <2>2
<1>3. ASSUME ~Missing(j)'
      PROVE  j \in index'["all"] \/ \E a \in Actors : cur'[a] = j /\ pc'[a] \in Pushing
  <2>1. CASE j \in index["all"] BY <1>0, <1>3, <2>1
  <2>2. ASSUME NEW a \in Actors, cur[a] = j, pc[a] \in Pushing
        PROVE  j \in index'["all"] \/ \E b \in Actors : cur'[b] = j /\ pc'[b] \in Pushing
    <3>1. CASE a = c BY <1>0, <2>2, <3>1
    <3>2. CASE a # c BY <2>2, <3>2 DEF Others
    <3> QED BY <3>1, <3>2
  <2> QED BY <1>3, <2>1, <2>2 DEF Indexed, Pushing
<1>4. ASSUME ~Missing(j)'
      PROVE  j \in index'["type"] \/ \E a \in Actors : cur'[a] = j /\ pc'[a] \in Pushing \cup {"submit_index_type"}
  <2>1. CASE j \in index["type"] BY <1>0, <1>4, <2>1
  <2>2. ASSUME NEW a \in Actors, cur[a] = j, pc[a] \in Pushing \cup {"submit_index_type"}
        PROVE  j \in index'["type"]
               \/ \E b \in Actors : cur'[b] = j /\ pc'[b] \in Pushing \cup {"submit_index_type"}
    <3>1. CASE a = c BY <1>0, <2>2, <3>1
    <3>2. CASE a # c BY <2>2, <3>2 DEF Others
    <3> QED BY <3>1, <3>2
  <2>3. Pushing \cup {"submit_index_type"} = {"submit_push", "submit_index", "submit_index_type"}
    BY DEF Pushing
  <2> QED BY <1>4, <2>1, <2>2, <2>3 DEF Indexed
<1>5. Pushing \cup {"submit_index_type"} = {"submit_push", "submit_index", "submit_index_type"}
  BY DEF Pushing
<1> QED BY <1>1, <1>2, <1>3, <1>4, <1>5 DEF Indexed, Unseen, Pushing

\* A step of a client that disturbs the books of at most one job.
LEMMA ClientButOne ==
    ASSUME IInv, OneOwner, Ledger, NEW c \in Clients, Others(c), NEW x, UNCHANGED crashes,
           \A j \in Jobs \ {x} :
              /\ blob'[j] = blob[j] /\ runs'[j] = runs[j] /\ delayed'[j] = delayed[j]
              /\ Queued(j)' <=> Queued(j)
              /\ InDlq(j) => InDlq(j)'
              /\ j \in dlqAll => j \in dlqAll',
           cur[c] \in {x, NoJob}, cur'[c] \in {x, NoJob},
           x \in Jobs => Counted(x)' /\ (crashes = 0 => Placed(x)' /\ Listed(x)'),
           crashes = 0 => \A j \in Jobs : Indexed(j)'
    PROVE  Ledger'
<1>0. c \in Actors /\ NoJob \notin Jobs BY JobsAssumption DEF Actors
<1>2. ASSUME NEW j \in Jobs \ {x} PROVE Counted(j)'
  BY <1>0 DEF Counted, Live, Missing, Finished, Ledger, Others
<1>3. ASSUME crashes' = 0, NEW j \in Jobs \ {x} PROVE Placed(j)' /\ Listed(j)'
  <2>0. Placed(j) /\ Listed(j) BY <1>3 DEF Ledger, BooksOK
  <2>1. (Live(j)' <=> Live(j)) /\ cur[c] # j /\ cur'[c] # j BY <1>0 DEF Live, Missing, Finished
  <2>2. Placed(j)' BY <2>0, <2>1 DEF Placed, Others
  <2>3. Listed(j)' BY <1>0, <2>0, <2>1, ListedStays
  <2> QED BY <2>2, <2>3
<1> QED BY <1>2, <1>3 DEF Ledger, BooksOK

LEMMA ClientAlone ==
    ASSUME Undisturbed, IInv, OneOwner, NEW c \in Clients, ClientStep(c) \/ ClientCall(c)
    PROVE  c \in Actors /\ Others(c)
<1>0. c \in Actors BY DEF Actors
<1>1. CASE \/ SubmitSet(c) \/ SubmitPush(c) \/ SubmitIndex(c) \/ RequeueLrem(c) \/ RequeueSrem(c)
           \/ RequeueSet(c) \/ RequeuePush(c)
  BY <1>0, <1>1, Alone DEF SubmitSet, SubmitPush, SubmitIndex, RequeueLrem, RequeueSrem, RequeueSet,
    RequeuePush
<1>2. CASE ListMget(c) \/ ListHeal(c) \/ Submit(c) \/ Requeue(c) \/ ListRange(c)
  BY <1>0, <1>2, Alone DEF ListMget, ListHeal, Submit, Requeue, ListRange
<1> QED BY <1>0, <1>1, <1>2, NeverDone DEF ClientStep, ClientCall

LEMMA TailElements ==
    ASSUME NEW S, NEW list \in Seq(S), list # <<>>
    PROVE  Tail(list) \in Seq(S) /\ Elements(Tail(list)) \subseteq Elements(list)
<1>1. /\ Len(list) \in Nat \ {0} /\ Tail(list) \in Seq(S)
      /\ DOMAIN list = 1..Len(list) /\ DOMAIN Tail(list) = 1..(Len(list) - 1)
      /\ \A i \in 1..(Len(list) - 1) : Tail(list)[i] = list[i + 1]
  OBVIOUS
<1>2. \A i \in DOMAIN Tail(list) : i + 1 \in DOMAIN list BY <1>1
<1> QED BY <1>1, <1>2 DEF Elements

\* list_paged() removes from the indexes only what has no blob.
LEMMA LedgerLists ==
    ASSUME Undisturbed, IInv, OneOwner, Ledger, NEW c \in Clients,
           ListRange(c) \/ ListMget(c) \/ ListHeal(c)
    PROVE  Ledger'
<1>0. /\ c \in Actors /\ Others(c) /\ todo[c] \in Seq(Jobs)
      /\ pc \in [Actors -> Pcs] /\ cur \in [Actors -> Jobs \cup {NoJob}]
      /\ todo \in [Actors -> Seq(Jobs)] /\ index \in [IndexKinds -> SUBSET Jobs]
      /\ "all" \in IndexKinds /\ "type" \in IndexKinds
      /\ pc[c] \in EmptyHanded => cur[c] = NoJob
  <2>1. /\ c \in Actors /\ Others(c) /\ todo[c] \in Seq(Jobs)
        /\ pc \in [Actors -> Pcs] /\ cur \in [Actors -> Jobs \cup {NoJob}]
        /\ todo \in [Actors -> Seq(Jobs)] /\ index \in [IndexKinds -> SUBSET Jobs]
        /\ "all" \in IndexKinds /\ "type" \in IndexKinds
    BY ClientAlone DEF ClientStep, ClientCall, IInv, LocalOK, RedisOK, SetsOK, IndexKinds
  <2>2. ActorOK(c) BY <2>1 DEF OneOwner, PlacesOK
  <2> QED BY <2>1, <2>2 DEF ActorOK
<1>1. UNCHANGED <<blob, queue, delayed, crashes, born, dlq, dlqAll, runs>>
  BY DEF ListRange, ListMget, ListHeal, redis, store, zsets, morgue, history
<1>2. /\ pc[c] \in {"idle", "mget_all", "mget_type", "heal_all", "heal_type", "heal_type_all"}
      /\ cur[c] = NoJob /\ pc[c] \notin Pushing \cup {"submit_index_type"}
  <2>1. pc[c] \in {"idle", "mget_all", "mget_type", "heal_all", "heal_type", "heal_type_all"}
    BY DEF ListRange, ListMget, ListHeal
  <2> QED BY <1>0, <2>1, ClientPlaces DEF Pushing
<1>3. ASSUME NEW l, NEW S, Scan(c, S, l, "idle")
      PROVE  pc'[c] \in {l, "idle"} /\ cur'[c] = NoJob /\ Elements(todo'[c]) = S
  BY <1>0, <1>2, <1>3 DEF Scan, Orders
<1>4. ASSUME NEW l, Advance(c, l, "idle"), pc[c] \in Healing
      PROVE  pc'[c] \in {l, "idle"} /\ cur'[c] = NoJob /\ Elements(todo'[c]) \subseteq Elements(todo[c])
  <2>1. todo[c] # <<>> BY <1>0, <1>4, LastOfReply DEF Sweeping, Healing
  <2>2. Elements(Tail(todo[c])) \subseteq Elements(todo[c]) BY <1>0, <2>1, TailElements
  <2> QED BY <1>0, <1>4, <2>2 DEF Advance
\* What it changes: the page it works through, and what the indexes list.
<1>5. ASSUME NEW l, pc'[c] = l, l # "submit_set", cur'[c] = NoJob,
             crashes = 0 => \A j \in Jobs :
                /\ \A k \in IndexKinds : j \in index'[k] => j \in index[k]
                /\ j \in Elements(todo'[c]) => j \in Elements(todo[c]) \/ \E k \in IndexKinds : j \in index[k]
                /\ l \in Healing /\ j \in Elements(todo'[c]) => Missing(j)
                /\ ~Missing(j) => \A k \in IndexKinds : j \in index[k] => j \in index'[k]
      PROVE  Ledger'
  <2>1. ASSUME crashes = 0, NEW j \in Jobs PROVE Indexed(j)'
    <3>1. Indexed(j) /\ (Missing(j)' <=> Missing(j)) BY <1>1, <2>1 DEF Ledger, BooksOK, Missing
    <3>2. Unseen(j)' => Unseen(j) BY <1>0, <1>1, <1>5 DEF Unseen, Others
    <3>3. pc'[c] \in Healing /\ j \in Elements(todo'[c]) => Missing(j) BY <1>5, <2>1
    <3>4. /\ ~(cur[c] = j /\ pc[c] \in Pushing)
          /\ ~(cur[c] = j /\ pc[c] \in Pushing \cup {"submit_index_type"})
      BY <1>2
    <3>5. /\ \A k \in IndexKinds : j \in index'[k] => j \in index[k]
          /\ j \in Elements(todo'[c]) => j \in Elements(todo[c]) \/ \E k \in IndexKinds : j \in index[k]
          /\ ~Missing(j) => \A k \in IndexKinds : j \in index[k] => j \in index'[k]
      BY <1>5, <2>1
    <3> QED BY <1>0, <3>1, <3>2, <3>3, <3>4, <3>5, IndexedByClient
  <2>2. \A j \in Jobs : (Queued(j)' <=> Queued(j)) /\ (InDlq(j) => InDlq(j)')
    BY <1>1 DEF Queued, InDlq
  <2>3. NoJob \notin Jobs BY JobsAssumption
  <2> QED BY <1>0, <1>1, <1>2, <1>5, <2>1, <2>2, <2>3, ClientButOne
<1>6. CASE ListRange(c)
  <2>1. PICK l, S :
            /\ l \in {"mget_all", "mget_type"}
            /\ \E k \in IndexKinds : S \subseteq index[k]
            /\ Scan(c, S, l, "idle")
    <3>1. CASE \E S \in SUBSET index["all"] : Scan(c, S, "mget_all", "idle") BY <1>0, <3>1
    <3>2. CASE \E S \in SUBSET index["type"] : Scan(c, S, "mget_type", "idle") BY <1>0, <3>2
    <3> QED BY <1>6, <3>1, <3>2 DEF ListRange
  <2>2. PICK p : pc'[c] = p /\ p \in {l, "idle"} /\ cur'[c] = NoJob /\ Elements(todo'[c]) = S
    BY <1>3, <2>1
  <2>3. p \notin Healing /\ p # "submit_set" BY <2>1, <2>2 DEF Healing
  <2>4. index' = index BY <1>6 DEF ListRange, redis
  <2> QED BY <1>5, <2>1, <2>2, <2>3, <2>4
<1>7. CASE ListMget(c)
  <2>1. PICK S : S = {j \in Elements(todo[c]) : Missing(j)} OBVIOUS
  <2>2. PICK l \in {"heal_all", "heal_type"} : Scan(c, S, l, "idle")
    BY <1>7, <2>1 DEF ListMget, Stale
  <2>3. PICK p : pc'[c] = p /\ p \in {l, "idle"} /\ cur'[c] = NoJob /\ Elements(todo'[c]) = S
    BY <1>3, <2>2
  <2>4. index' = index BY <1>7 DEF ListMget, redis
  <2> QED BY <1>5, <2>1, <2>3, <2>4
<1>8. CASE ListHeal(c)
  <2>1. pc[c] \in Healing /\ pc[c] \in Sweeping BY <1>8 DEF ListHeal, Healing, Sweeping
  <2>2. PICK x \in Jobs : x = Next1(c) /\ x \in Elements(todo[c])
    <3>1. todo[c] # <<>> /\ Next1(c) \in Jobs BY <1>0, <2>1, LastOfReply
    <3>2. 1 \in DOMAIN todo[c] /\ Next1(c) = todo[c][1] BY <1>0, <3>1 DEF Next1
    <3> QED BY <3>1, <3>2 DEF Elements
  <2>3. crashes = 0 => Missing(x) BY <2>1, <2>2 DEF Ledger, BooksOK, Indexed
  <2>4. \A k \in IndexKinds : index'[k] \subseteq index[k] /\ index[k] \ {x} \subseteq index'[k]
    BY <1>0, <1>8, <2>2 DEF ListHeal
  <2>5. PICK p : /\ pc'[c] = p /\ p \in Healing \cup {"idle"} /\ cur'[c] = NoJob
                 /\ Elements(todo'[c]) \subseteq Elements(todo[c])
    <3>1. CASE Goto(c, "heal_type_all") BY <1>0, <1>2, <3>1 DEF Goto, Healing
    <3>2. CASE Advance(c, "heal_all", "idle") BY <1>4, <2>1, <3>2 DEF Healing
    <3>3. CASE Advance(c, "heal_type", "idle") BY <1>4, <2>1, <3>3 DEF Healing
    <3> QED BY <1>8, <3>1, <3>2, <3>3 DEF ListHeal
  <2>6. \A j \in Jobs : crashes = 0 /\ j \in Elements(todo[c]) => Missing(j)
    BY <2>1 DEF Ledger, BooksOK, Indexed
  <2>7. p # "submit_set" BY <2>5 DEF Healing
  <2> QED BY <1>5, <2>3, <2>4, <2>5, <2>6, <2>7
<1> QED BY <1>6, <1>7, <1>8

LEMMA LedgerSubmits ==
    ASSUME Undisturbed, IInv, OneOwner, OneOwner', Ledger, NEW c \in Clients,
           Submit(c) \/ SubmitSet(c) \/ SubmitPush(c) \/ SubmitIndex(c)
    PROVE  Ledger'
<1>0. /\ c \in Actors /\ Others(c) /\ c \notin Workers /\ NoJob \notin Jobs /\ blob \in [Jobs -> Blob]
      /\ pc \in [Actors -> Pcs] /\ cur \in [Actors -> Jobs \cup {NoJob}]
      /\ runs \in [Jobs -> Nat] /\ index \in [IndexKinds -> SUBSET Jobs]
      /\ dlq \in [TypeSet -> Seq(Jobs)] /\ crashes \in Nat
      /\ "all" \in IndexKinds /\ "type" \in IndexKinds
      /\ pc[c] \in EmptyHanded => cur[c] = NoJob
      /\ pc[c] \notin EmptyHanded => cur[c] \in Jobs
  <2>1. /\ c \in Actors /\ Others(c) /\ c \notin Workers /\ NoJob \notin Jobs /\ blob \in [Jobs -> Blob]
        /\ pc \in [Actors -> Pcs] /\ cur \in [Actors -> Jobs \cup {NoJob}]
        /\ runs \in [Jobs -> Nat] /\ index \in [IndexKinds -> SUBSET Jobs]
        /\ dlq \in [TypeSet -> Seq(Jobs)] /\ "all" \in IndexKinds /\ "type" \in IndexKinds
        /\ pc[c] \notin EmptyHanded => cur[c] \in Jobs
    BY ClientAlone, JobsAssumption, ActorsAssumption DEF ClientStep, ClientCall, IInv, LocalOK,
      RedisOK, SetsOK, StoreOK, ListsOK, HistoryOK, IndexKinds
  <2>2. ActorOK(c) /\ crashes \in Nat
    BY <2>1, SettingsAssumption DEF OneOwner, PlacesOK, IInv, HistoryOK
  <2> QED BY <2>1, <2>2 DEF ActorOK
<1>1. ASSUME NEW l, Goto(c, l) PROVE pc'[c] = l /\ cur'[c] = cur[c] /\ todo' = todo
  BY <1>0, <1>1 DEF Goto
<1>2. ASSUME NEW l, NEW j, NEW b, Hold(c, l, j, b) PROVE pc'[c] = l /\ cur'[c] = j /\ todo' = todo
  BY <1>0, <1>2 DEF Hold
<1>3. ASSUME Return(c) PROVE pc'[c] = "idle" /\ cur'[c] = NoJob /\ todo' = todo
  BY <1>0, <1>2, <1>3 DEF Return, Reaping, Rest
\* It goes on with the entries it owes.
<1>5. ASSUME UNCHANGED <<born, todo, blob>>, NEW l, pc'[c] = l, l \notin Healing \cup {"submit_set"},
             NEW x, x = cur[c], pc[c] \in Pushing \cup {"submit_index_type"},
             \A k \in IndexKinds : index[k] \subseteq index'[k] /\ index'[k] \subseteq index[k] \cup {x},
             pc[c] \in Pushing => x \in index'["all"] \/ (cur'[c] = x /\ l \in Pushing),
             x \in index'["type"] \/ (cur'[c] = x /\ l \in Pushing \cup {"submit_index_type"}),
             crashes = 0, NEW j \in Jobs
      PROVE  Indexed(j)'
  <2>1. Indexed(j) /\ (Missing(j)' <=> Missing(j)) BY <1>5 DEF Ledger, BooksOK, Missing
  <2>2. Unseen(j)' => Unseen(j) BY <1>0, <1>5 DEF Unseen, Others
  <2>3. ~(pc'[c] \in Healing /\ j \in Elements(todo'[c])) BY <1>5
  <2>4. x = j => ~Unseen(j)
    <3> SUFFICES ASSUME x = j, Unseen(j) PROVE FALSE OBVIOUS
    <3>1. Unborn(j) BY DEF OneOwner, Single
    <3>2. PICK a \in Actors : cur[a] = j /\ pc[a] = "submit_set"
      BY <1>0, <1>5, <3>1 DEF Unseen, Unborn
    <3>3. c = a BY <1>0, <1>5, <3>1, <3>2 DEF Unborn
    <3> QED BY <1>5, <3>2, <3>3 DEF Pushing
  <2>5. /\ \A k \in IndexKinds : j \in index'[k] => j \in index[k] \/ ~Unseen(j)
        /\ j \in Elements(todo'[c]) => j \in Elements(todo[c])
        /\ \A k \in IndexKinds : j \in index[k] => j \in index'[k]
    BY <1>5, <2>4
  <2>6. /\ cur[c] = j /\ pc[c] \in Pushing =>
              j \in index'["all"] \/ (cur'[c] = j /\ pc'[c] \in Pushing)
        /\ cur[c] = j /\ pc[c] \in Pushing \cup {"submit_index_type"} =>
              j \in index'["type"] \/ (cur'[c] = j /\ pc'[c] \in Pushing \cup {"submit_index_type"})
    BY <1>5
  <2> QED BY <1>0, <2>1, <2>2, <2>3, <2>5, <2>6, IndexedByClient
<1>6. CASE Submit(c)
  <2>1. PICK x \in Jobs \ born : born' = born \cup {x} /\ Hold(c, "submit_set", x, Fresh)
    BY <1>6 DEF Submit
  <2>2. /\ pc[c] = "idle" /\ pc[c] \notin HasRun /\ cur[c] = NoJob
        /\ UNCHANGED <<blob, queue, delayed, crashes, index, dlq, dlqAll, runs>>
    <3>1. pc[c] = "idle" /\ UNCHANGED <<redis, runs, crashes>> BY <1>6 DEF Submit
    <3> QED BY <1>0, <3>1, ClientPlaces DEF redis, store, zsets, morgue, HasRun
  <2>3. PICK l : l = "submit_set" /\ pc'[c] = l /\ cur'[c] = x /\ todo' = todo BY <1>2, <2>1
  <2>4. \A j \in Jobs : /\ Queued(j)' <=> Queued(j)
                        /\ InDlq(j) => InDlq(j)'
                        /\ Live(j)' <=> Live(j)
                        /\ Missing(j)' <=> Missing(j)
    BY <2>2 DEF Queued, InDlq, Live, Missing, Finished
  <2>5. Missing(x) BY <2>1 DEF OneOwner, Single, Unborn
  <2>6. Counted(x)'
    <3>1. Counted(x) BY <2>1 DEF Ledger
    <3> QED BY <1>0, <2>1, <2>2, <2>4, <3>1, CountedStays
  <2>7. ASSUME crashes = 0 PROVE Placed(x)' /\ Listed(x)'
    <3>1. Placed(x)' BY <2>4, <2>5 DEF Placed, Live
    <3>2. Listed(x) BY <2>1, <2>7 DEF Ledger, BooksOK
    <3>3. Listed(x)' BY <1>0, <2>1, <2>2, <2>3, <2>4, <3>2, ListedStays
    <3> QED BY <3>1, <3>3
  <2>8. ASSUME crashes = 0, NEW j \in Jobs PROVE Indexed(j)'
    <3>1. Indexed(j) BY <2>8 DEF Ledger, BooksOK
    <3>2. Unseen(j)' => Unseen(j)
      <4>1. CASE j = x BY <2>1, <4>1 DEF Unseen
      <4>2. CASE j # x BY <1>0, <2>1, <2>3, <4>2 DEF Unseen, Others
      <4> QED BY <4>1, <4>2
    <3>3. ~(pc'[c] \in Healing /\ j \in Elements(todo'[c])) BY <2>3 DEF Healing
    <3>4. /\ ~(cur[c] = j /\ pc[c] \in Pushing)
          /\ ~(cur[c] = j /\ pc[c] \in Pushing \cup {"submit_index_type"})
      BY <1>0, <2>2
    <3>5. /\ \A k \in IndexKinds : j \in index'[k] => j \in index[k]
          /\ j \in Elements(todo'[c]) => j \in Elements(todo[c])
          /\ \A k \in IndexKinds : j \in index[k] => j \in index'[k]
      BY <2>2, <2>3
    <3> QED BY <1>0, <2>4, <3>1, <3>2, <3>3, <3>4, <3>5, IndexedByClient
  <2> QED BY <1>0, <2>2, <2>3, <2>4, <2>6, <2>7, <2>8, ClientButOne
<1>7. CASE SubmitSet(c)
  <2>1. PICK x : x = cur[c] OBVIOUS
  <2>2. pc[c] = "submit_set" /\ pc[c] \in OwnerPcs BY <1>7, ClientPlaces DEF SubmitSet
  <2>3. x \in Jobs /\ CopyKnown(c, x) /\ BlobKnown(c, x) /\ Unborn(x) /\ x \in born
    BY <1>0, <2>1, <2>2, OwnerFacts DEF OneOwner, Single
  <2>4. /\ UNCHANGED <<queue, delayed, crashes, index, born, dlq, dlqAll, runs, todo>>
        /\ blob' = [blob EXCEPT ![x] = copy[c]] /\ copy[c] = Fresh
    BY <1>1, <1>7, <2>1, <2>2, <2>3 DEF SubmitSet, Set, zsets, morgue, history, CopyKnown
  <2>5. PICK l : l = "submit_push" /\ pc'[c] = l /\ cur'[c] = x BY <1>1, <1>7, <2>1 DEF SubmitSet
  <2>6. /\ blob'[x].status = "pending" /\ blob'[x].retries = 0
        /\ \A j \in Jobs \ {x} : blob'[j] = blob[j]
    BY <1>0, <2>3, <2>4 DEF Fresh
  <2>7. \A j \in Jobs : (Queued(j)' <=> Queued(j)) /\ (InDlq(j) => InDlq(j)')
    BY <2>4 DEF Queued, InDlq
  <2>8. runs'[x] = 0 /\ \A b \in Actors : cur[b] = x => b = c
    BY <1>0, <2>1, <2>2, <2>3, <2>4 DEF Unborn
  <2>9. Counted(x)'
    <3>1. MaxRetries[x] \in Nat BY <2>3, JobsAssumption
    <3>2. runs'[x] <= crashes' + (IF MaxRetries[x] = 0 THEN 1 ELSE MaxRetries[x])
      BY <1>0, <2>4, <2>8, <3>1
    <3>3. runs'[x] <= crashes' + blob'[x].retries BY <1>0, <2>4, <2>6, <2>8
    <3> QED BY <2>6, <3>2, <3>3 DEF Counted
  <2>10. ASSUME crashes = 0 PROVE Placed(x)' /\ Listed(x)'
    <3>1. Placed(x) /\ Listed(x) BY <2>3, <2>10 DEF Ledger, BooksOK
    <3>2. Placed(x)'
      <4>1. l \in OwnerPcs BY <2>5, ClientPlaces
      <4> QED BY <1>0, <2>3, <2>5, <3>1, <4>1, PlacedStays
    <3>3. Listed(x)' BY <1>0, <2>2, <2>3, <2>4, <2>5, <2>6, <2>7, <3>1, ListedStays
    <3> QED BY <3>2, <3>3
  <2>11. ASSUME crashes = 0, NEW j \in Jobs PROVE Indexed(j)'
    <3>1. Indexed(j) BY <2>11 DEF Ledger, BooksOK
    <3>2. CASE j # x
      <4>1. Missing(j)' <=> Missing(j) BY <2>6, <3>2 DEF Missing
      <4>2. Unseen(j)' => Unseen(j) BY <1>0, <2>4, <2>5 DEF Unseen, Others
      <4>3. ~(pc'[c] \in Healing /\ j \in Elements(todo'[c])) BY <2>5 DEF Healing
      <4>4. cur[c] # j BY <2>1, <3>2
      <4>5. /\ \A k \in IndexKinds : j \in index'[k] => j \in index[k]
            /\ j \in Elements(todo'[c]) => j \in Elements(todo[c])
            /\ \A k \in IndexKinds : j \in index[k] => j \in index'[k]
        BY <2>4
      <4> QED BY <1>0, <3>1, <4>1, <4>2, <4>3, <4>4, <4>5, IndexedByClient
    <3>3. CASE j = x
      <4>1. \A d \in Clients : j \notin Elements(todo'[d])
        BY <1>0, <2>1, <2>2, <2>4, <3>1, <3>3 DEF Indexed
      <4>2. j \in born' /\ \A a \in Actors : ~(cur'[a] = j /\ pc'[a] = "submit_set")
        BY <1>0, <2>3, <2>4, <2>5, <2>8, <3>3 DEF Others
      <4> QED BY <1>0, <2>5, <3>3, <4>1, <4>2 DEF Indexed
    <3> QED BY <3>2, <3>3
  <2>12. cur[c] \in {x, NoJob} /\ cur'[c] \in {x, NoJob} BY <2>1, <2>5
  <2> QED BY <1>0, <2>4, <2>6, <2>7, <2>9, <2>10, <2>11, <2>12, ClientButOne
<1>8. CASE SubmitPush(c)
  <2>1. PICK x : x = cur[c] OBVIOUS
  <2>2. pc[c] = "submit_push" /\ pc[c] \in OwnerPcs /\ pc[c] \notin HasRun
    BY <1>8, ClientPlaces DEF SubmitPush, HasRun
  <2>3. x \in Jobs /\ ~Queued(x) BY <1>0, <2>1, <2>2, OwnerFacts
  <2>4. UNCHANGED <<blob, delayed, crashes, index, born, dlq, dlqAll, runs, todo>>
    BY <1>1, <1>8 DEF SubmitPush, store, zsets, morgue, history
  <2>5. PICK l : l = "submit_index" /\ pc'[c] = l /\ cur'[c] = x BY <1>1, <1>8, <2>1 DEF SubmitPush
  <2>6. (\A j \in Jobs \ {x} : Queued(j)' <=> Queued(j)) /\ Queued(x)'
    BY <1>8, <2>1, <2>3, EnqueueFacts DEF SubmitPush
  <2>7. Counted(x)'
    <3>1. Counted(x) /\ (Live(x)' => Live(x)) BY <2>3, <2>4 DEF Ledger, Live, Missing, Finished
    <3> QED BY <1>0, <2>2, <2>3, <2>4, <3>1, CountedStays
  <2>8. \A j \in Jobs : InDlq(j)' <=> InDlq(j) BY <2>4 DEF InDlq
  <2>9. ASSUME crashes = 0 PROVE Placed(x)' /\ Listed(x)'
    <3>1. Placed(x) /\ Listed(x) BY <2>3, <2>9 DEF Ledger, BooksOK
    <3>2. Placed(x)' BY <2>6 DEF Placed
    <3>3. Listed(x)' BY <1>0, <2>2, <2>3, <2>4, <2>5, <2>8, <3>1, ListedStays
    <3> QED BY <3>2, <3>3
  <2>10. ASSUME crashes = 0, NEW j \in Jobs PROVE Indexed(j)'
    <3>1. l \notin Healing \cup {"submit_set"} /\ l \in Pushing /\ pc[c] \in Pushing
      BY <2>2, <2>5 DEF Healing, Pushing
    <3>2. \A k \in IndexKinds : index[k] \subseteq index'[k] /\ index'[k] \subseteq index[k] \cup {x}
      BY <2>4
    <3> QED BY <1>5, <2>1, <2>4, <2>5, <2>10, <3>1, <3>2
  <2>11. cur[c] \in {x, NoJob} /\ cur'[c] \in {x, NoJob} BY <2>1, <2>5
  <2> QED BY <1>0, <2>4, <2>6, <2>7, <2>8, <2>9, <2>10, <2>11, ClientButOne
<1>9. CASE SubmitIndex(c)
  <2>1. PICK x : x = cur[c] OBVIOUS
  <2>2. pc[c] \in {"submit_index", "submit_index_type"} /\ pc[c] \notin OwnerPcs /\ pc[c] \notin HasRun
    BY <1>9, ClientPlaces DEF SubmitIndex, HasRun
  <2>3. x \in Jobs BY <1>0, <2>1, <2>2, ClientPlaces
  <2>4. UNCHANGED <<blob, queue, delayed, crashes, born, dlq, dlqAll, runs>>
    BY <1>9 DEF SubmitIndex, store, zsets, morgue, history
  <2>5. PICK l : /\ pc'[c] = l /\ todo' = todo /\ cur'[c] \in {x, NoJob}
                 /\ l \in {"submit_index_type", "idle"}
                 /\ pc[c] = "submit_index" => l = "submit_index_type" /\ cur'[c] = x
    BY <1>1, <1>3, <1>9, <2>1 DEF SubmitIndex
  <2>6. /\ \A k \in IndexKinds : index[k] \subseteq index'[k] /\ index'[k] \subseteq index[k] \cup {x}
        /\ pc[c] = "submit_index" => x \in index'["all"]
        /\ pc[c] = "submit_index_type" => x \in index'["type"]
    BY <1>0, <1>9, <2>1 DEF SubmitIndex
  <2>7. \A j \in Jobs : /\ Queued(j)' <=> Queued(j)
                        /\ InDlq(j) => InDlq(j)'
                        /\ Live(j)' <=> Live(j)
    BY <2>4 DEF Queued, InDlq, Live, Missing, Finished
  <2>8. Counted(x)'
    <3>1. Counted(x) BY <2>3 DEF Ledger
    <3> QED BY <1>0, <2>2, <2>3, <2>4, <2>7, <3>1, CountedStays
  <2>9. ASSUME crashes = 0 PROVE Placed(x)' /\ Listed(x)'
    <3>1. Placed(x) /\ Listed(x) BY <2>3, <2>9 DEF Ledger, BooksOK
    <3>2. Placed(x)'
      <4>1. CASE Live(x)
        <5>1. Queued(x) \/ delayed[x] # "none" => Queued(x)' \/ delayed'[x] # "none"
          BY <2>3, <2>4, <2>7
        <5> QED BY <1>0, <2>2, <2>3, <3>1, <4>1, <5>1, PlacedStays
      <4> QED BY <2>3, <2>7, <4>1 DEF Placed
    <3>3. Listed(x)' BY <1>0, <2>2, <2>3, <2>4, <2>5, <2>7, <3>1, ListedStays
    <3> QED BY <3>2, <3>3
  <2>10. ASSUME crashes = 0, NEW j \in Jobs PROVE Indexed(j)'
    <3>1. /\ l \notin Healing \cup {"submit_set"} /\ pc[c] \in Pushing \cup {"submit_index_type"}
          /\ pc[c] \in Pushing => pc[c] = "submit_index"
      BY <2>2, <2>5 DEF Healing, Pushing
    <3> QED BY <1>5, <2>1, <2>2, <2>4, <2>5, <2>6, <2>10, <3>1
  <2>11. cur[c] \in {x, NoJob} /\ cur'[c] \in {x, NoJob} BY <2>1, <2>5
  <2> QED BY <1>0, <2>4, <2>7, <2>8, <2>9, <2>10, <2>11, ClientButOne
<1> QED BY <1>6, <1>7, <1>8, <1>9

LEMMA LedgerRequeues ==
    ASSUME Undisturbed, IInv, OneOwner, OneOwner', Ledger, NEW c \in Clients,
           Requeue(c) \/ RequeueLrem(c) \/ RequeueSrem(c) \/ RequeueSet(c) \/ RequeuePush(c)
    PROVE  Ledger'
<1>0. /\ c \in Actors /\ Others(c) /\ c \notin Workers /\ NoJob \notin Jobs /\ blob \in [Jobs -> Blob]
      /\ pc \in [Actors -> Pcs] /\ cur \in [Actors -> Jobs \cup {NoJob}]
      /\ runs \in [Jobs -> Nat] /\ index \in [IndexKinds -> SUBSET Jobs]
      /\ dlq \in [TypeSet -> Seq(Jobs)] /\ crashes \in Nat
      /\ "all" \in IndexKinds /\ "type" \in IndexKinds
      /\ pc[c] \in EmptyHanded => cur[c] = NoJob
      /\ pc[c] \notin EmptyHanded => cur[c] \in Jobs
  <2>1. /\ c \in Actors /\ Others(c) /\ c \notin Workers /\ NoJob \notin Jobs /\ blob \in [Jobs -> Blob]
        /\ pc \in [Actors -> Pcs] /\ cur \in [Actors -> Jobs \cup {NoJob}]
        /\ runs \in [Jobs -> Nat] /\ index \in [IndexKinds -> SUBSET Jobs]
        /\ dlq \in [TypeSet -> Seq(Jobs)] /\ "all" \in IndexKinds /\ "type" \in IndexKinds
        /\ pc[c] \notin EmptyHanded => cur[c] \in Jobs
    BY ClientAlone, JobsAssumption, ActorsAssumption DEF ClientStep, ClientCall, IInv, LocalOK,
      RedisOK, SetsOK, StoreOK, ListsOK, HistoryOK, IndexKinds
  <2>2. ActorOK(c) /\ crashes \in Nat
    BY <2>1, SettingsAssumption DEF OneOwner, PlacesOK, IInv, HistoryOK
  <2> QED BY <2>1, <2>2 DEF ActorOK
<1>1. ASSUME NEW l, Goto(c, l) PROVE pc'[c] = l /\ cur'[c] = cur[c] /\ todo' = todo
  BY <1>0, <1>1 DEF Goto
<1>2. ASSUME NEW l, NEW j, NEW b, Hold(c, l, j, b) PROVE pc'[c] = l /\ cur'[c] = j /\ todo' = todo
  BY <1>0, <1>2 DEF Hold
<1>3. ASSUME Return(c) PROVE pc'[c] = "idle" /\ cur'[c] = NoJob /\ todo' = todo
  BY <1>0, <1>2, <1>3 DEF Return, Reaping, Rest
\* It owes no index an entry.
<1>4. ASSUME UNCHANGED <<index, born, todo>>, NEW l, pc'[c] = l, l \notin Healing \cup {"submit_set"},
             pc[c] \notin Pushing \cup {"submit_index_type"}, crashes = 0, NEW j \in Jobs,
             Missing(j)' <=> Missing(j)
      PROVE  Indexed(j)'
  <2>1. Indexed(j) BY <1>4 DEF Ledger, BooksOK
  <2>2. Unseen(j)' => Unseen(j) BY <1>0, <1>4 DEF Unseen, Others
  <2>3. ~(pc'[c] \in Healing /\ j \in Elements(todo'[c])) BY <1>4
  <2>4. /\ ~(cur[c] = j /\ pc[c] \in Pushing)
        /\ ~(cur[c] = j /\ pc[c] \in Pushing \cup {"submit_index_type"})
    BY <1>4
  <2>5. /\ \A k \in IndexKinds : j \in index'[k] => j \in index[k]
        /\ j \in Elements(todo'[c]) => j \in Elements(todo[c])
        /\ \A k \in IndexKinds : j \in index[k] => j \in index'[k]
    BY <1>4
  <2> QED BY <1>0, <1>4, <2>1, <2>2, <2>3, <2>4, <2>5, IndexedByClient
<1>5. pc[c] \notin Pushing \cup {"submit_index_type"}
  BY DEF Requeue, RequeueLrem, RequeueSrem, RequeueSet, RequeuePush, Pushing
<1>6. CASE Requeue(c)
  <2>1. PICK x, b : x \in born /\ blob[x].status = "dead" /\ Hold(c, "requeue_lrem", x, b)
    BY <1>6 DEF Requeue
  <2>2. /\ pc[c] = "idle" /\ pc[c] \notin HasRun /\ cur[c] = NoJob
        /\ UNCHANGED <<blob, queue, delayed, crashes, index, born, dlq, dlqAll, runs>>
    <3>1. pc[c] = "idle" /\ UNCHANGED <<redis, history>> BY <1>6 DEF Requeue
    <3> QED BY <1>0, <3>1, ClientPlaces DEF redis, store, zsets, morgue, history, HasRun
  <2>3. PICK l : l = "requeue_lrem" /\ pc'[c] = l /\ cur'[c] = x /\ todo' = todo BY <1>2, <2>1
  <2>4. x \in Jobs BY <2>1 DEF IInv, HistoryOK
  <2>5. \A j \in Jobs : /\ Queued(j)' <=> Queued(j)
                        /\ InDlq(j) => InDlq(j)'
                        /\ Live(j)' <=> Live(j)
                        /\ Missing(j)' <=> Missing(j)
    BY <2>2 DEF Queued, InDlq, Live, Missing, Finished
  <2>6. Counted(x)'
    <3>1. Counted(x) BY <2>4 DEF Ledger
    <3> QED BY <1>0, <2>2, <2>4, <2>5, <3>1, CountedStays
  <2>7. ASSUME crashes = 0 PROVE Placed(x)' /\ Listed(x)'
    <3>1. ~Live(x) BY <2>1 DEF Live, Finished, Terminal
    <3>2. Placed(x)' BY <2>4, <2>5, <3>1 DEF Placed
    <3>3. Listed(x) BY <2>4, <2>7 DEF Ledger, BooksOK
    <3>4. Listed(x)' BY <1>0, <2>2, <2>3, <2>4, <2>5, <3>3, ListedStays
    <3> QED BY <3>2, <3>4
  <2>8. ASSUME crashes = 0, NEW j \in Jobs PROVE Indexed(j)'
    <3>1. l \notin Healing \cup {"submit_set"} BY <2>3 DEF Healing
    <3> QED BY <1>4, <1>5, <2>2, <2>3, <2>5, <2>8, <3>1
  <2> QED BY <1>0, <2>2, <2>3, <2>5, <2>6, <2>7, <2>8, ClientButOne
\* It takes the dead job off the lists.
<1>7. ASSUME pc[c] \in {"requeue_lrem", "requeue_srem"}, NEW l \in {"requeue_srem", "requeue_set"}, Goto(c, l),
             UNCHANGED <<blob, queue, delayed, crashes, index, born, runs>>,
             NEW x, x = cur[c],
             \A j \in Jobs \ {x} : /\ InDlq(j) => InDlq(j)'
                                   /\ j \in dlqAll => j \in dlqAll'
      PROVE  Ledger'
  <2>1. pc[c] \in OwnerPcs /\ pc[c] \in Raising /\ pc[c] \notin HasRun
    BY <1>7, ClientPlaces DEF HasRun
  <2>2. x \in Jobs /\ BlobKnown(c, x) /\ \A a \in Actors \ {c} : ~Owns(a, x)
    BY <1>0, <1>7, <2>1, OwnerFacts
  <2>3. pc'[c] = l /\ cur'[c] = x /\ todo' = todo BY <1>1, <1>7
  <2>4. \A j \in Jobs : /\ Queued(j)' <=> Queued(j)
                        /\ Live(j)' <=> Live(j)
                        /\ Missing(j)' <=> Missing(j)
    BY <1>7 DEF Queued, Live, Missing, Finished
  <2>5. Counted(x)'
    <3>1. Counted(x) BY <2>2 DEF Ledger
    <3> QED BY <1>0, <1>7, <2>1, <2>2, <2>4, <3>1, CountedStays
  <2>6. ASSUME crashes = 0 PROVE Placed(x)' /\ Listed(x)'
    <3>1. ~Live(x) BY <2>1, <2>2 DEF Live, Finished, Terminal, BlobKnown
    <3>2. Placed(x)' BY <2>2, <2>4, <3>1 DEF Placed
    <3>3. \A a \in Actors : cur'[a] = x => pc'[a] \notin {"dead_index", "dead_set"}
      <4> SUFFICES ASSUME NEW a \in Actors, cur'[a] = x, pc'[a] \in {"dead_index", "dead_set"} PROVE FALSE
        OBVIOUS
      <4>1. a # c BY <1>7, <2>3
      <4>2. cur[a] = x /\ pc[a] \in OwnerPcs BY <1>0, <4>1 DEF Others, OwnerPcs, Working, HasRun
      <4> QED BY <2>2, <4>1, <4>2 DEF Owns
    <3>4. Listed(x)' BY <1>0, <1>7, <2>3, <3>3 DEF Listed
    <3> QED BY <3>2, <3>4
  <2>7. ASSUME crashes = 0, NEW j \in Jobs PROVE Indexed(j)'
    <3>1. l \notin Healing \cup {"submit_set"} BY <1>7 DEF Healing
    <3> QED BY <1>4, <1>5, <1>7, <2>3, <2>4, <2>7, <3>1
  <2>8. cur[c] \in {x, NoJob} /\ cur'[c] \in {x, NoJob} BY <1>7, <2>3
  <2> QED BY <1>0, <1>7, <2>2, <2>3, <2>4, <2>5, <2>6, <2>7, <2>8, ClientButOne
<1>8. CASE RequeueLrem(c)
  <2>1. PICK x : x = cur[c] OBVIOUS
  <2>2. pc[c] = "requeue_lrem" /\ x \in Jobs BY <1>0, <1>8, <2>1, ClientPlaces DEF RequeueLrem
  <2>3. TypeOf[x] \in TypeSet /\ dlq[TypeOf[x]] \in Seq(Jobs) BY <1>0, <2>2, JobsAssumption
  <2>4. /\ dlq'[TypeOf[x]] = LRem(dlq[TypeOf[x]], x)
        /\ \A t \in TypeSet \ {TypeOf[x]} : dlq'[t] = dlq[t]
    BY <1>0, <1>8, <2>1, <2>3 DEF RequeueLrem
  <2>5. Elements(LRem(dlq[TypeOf[x]], x)) = Elements(dlq[TypeOf[x]]) \ {x} BY <2>3, LRemElements
  <2>6. ASSUME NEW j \in Jobs \ {x}, InDlq(j) PROVE InDlq(j)'
    <3>1. TypeOf[j] \in TypeSet BY JobsAssumption
    <3>2. CASE TypeOf[j] = TypeOf[x] BY <2>4, <2>5, <2>6, <3>2 DEF InDlq
    <3>3. CASE TypeOf[j] # TypeOf[x] BY <2>4, <2>6, <3>1, <3>3 DEF InDlq
    <3> QED BY <3>2, <3>3
  <2>7. /\ UNCHANGED <<blob, queue, delayed, crashes, index, born, runs, dlqAll>>
        /\ Goto(c, "requeue_srem")
    BY <1>8 DEF RequeueLrem, store, zsets, history
  <2> QED BY <1>7, <2>1, <2>2, <2>6, <2>7
<1>9. CASE RequeueSrem(c)
  <2>1. PICK x : x = cur[c] OBVIOUS
  <2>2. /\ UNCHANGED <<blob, queue, delayed, crashes, index, born, runs, dlq>>
        /\ Goto(c, "requeue_set") /\ pc[c] = "requeue_srem" /\ dlqAll' = dlqAll \ {x}
    BY <1>9, <2>1 DEF RequeueSrem, store, zsets, history
  <2>3. \A j \in Jobs : InDlq(j) => InDlq(j)' BY <2>2 DEF InDlq
  <2> QED BY <1>7, <2>1, <2>2, <2>3
<1>10. CASE RequeueSet(c)
  <2>1. PICK x : x = cur[c] OBVIOUS
  <2>2. pc[c] = "requeue_set" /\ pc[c] \in OwnerPcs /\ pc[c] \in Raising
    BY <1>10, ClientPlaces DEF RequeueSet
  <2>3. x \in Jobs /\ CopyKnown(c, x) /\ BlobKnown(c, x) /\ blob[x] \in Blob
    BY <1>0, <2>1, <2>2, OwnerFacts
  <2>4. /\ UNCHANGED <<queue, delayed, crashes, index, born, dlq, dlqAll, todo>>
        /\ blob' = [blob EXCEPT ![x] = copy[c]] /\ runs' = [runs EXCEPT ![x] = 0]
    BY <1>1, <1>10, <2>1 DEF RequeueSet, Set, zsets, morgue
  <2>5. PICK l : l = "requeue_push" /\ pc'[c] = l /\ cur'[c] = x BY <1>1, <1>10, <2>1 DEF RequeueSet
  <2>6. /\ blob[x].status = "dead" /\ copy[c].status = "pending" /\ copy[c].retries = 0
    BY <2>2, <2>3 DEF BlobKnown, CopyKnown, Blob
  <2>7. /\ blob'[x].status = "pending" /\ blob'[x].retries = 0 /\ runs'[x] = 0
        /\ \A j \in Jobs \ {x} : blob'[j] = blob[j] /\ runs'[j] = runs[j]
    BY <1>0, <2>3, <2>4, <2>6
  <2>8. \A j \in Jobs : /\ Queued(j)' <=> Queued(j)
                        /\ InDlq(j)' <=> InDlq(j)
                        /\ Missing(j)' <=> Missing(j)
    BY <2>4, <2>6, <2>7 DEF Queued, InDlq, Missing
  <2>9. Counted(x)'
    <3>1. MaxRetries[x] \in Nat BY <2>3, JobsAssumption
    <3>2. runs'[x] <= crashes' + (IF MaxRetries[x] = 0 THEN 1 ELSE MaxRetries[x])
      BY <1>0, <2>4, <2>7, <3>1
    <3>3. runs'[x] <= crashes' + blob'[x].retries BY <1>0, <2>4, <2>7
    <3> QED BY <2>7, <3>2, <3>3 DEF Counted
  <2>10. ASSUME crashes = 0 PROVE Placed(x)' /\ Listed(x)'
    <3>1. Placed(x) /\ Listed(x) BY <2>3, <2>10 DEF Ledger, BooksOK
    <3>2. Placed(x)'
      <4>1. l \in OwnerPcs BY <2>5, ClientPlaces
      <4> QED BY <1>0, <2>3, <2>5, <3>1, <4>1, PlacedStays
    <3>3. Listed(x)'
      <4>1. ASSUME NEW a \in Actors, cur'[a] = x
            PROVE  /\ pc'[a] \in {"dead_index", "dead_set"} => InDlq(x)'
                   /\ pc'[a] = "dead_set" => x \in dlqAll'
        <5>1. CASE a = c BY <2>5, <5>1
        <5>2. CASE a # c BY <1>0, <2>3, <2>4, <2>8, <3>1, <4>1, <5>2 DEF Listed, Others
        <5> QED BY <5>1, <5>2
      <4> QED BY <2>7, <4>1 DEF Listed
    <3> QED BY <3>2, <3>3
  <2>11. ASSUME crashes = 0, NEW j \in Jobs PROVE Indexed(j)'
    <3>1. l \notin Healing \cup {"submit_set"} BY <2>5 DEF Healing
    <3> QED BY <1>4, <1>5, <2>4, <2>5, <2>8, <2>11, <3>1
  <2>12. cur[c] \in {x, NoJob} /\ cur'[c] \in {x, NoJob} BY <2>1, <2>5
  <2> QED BY <1>0, <2>4, <2>7, <2>8, <2>9, <2>10, <2>11, <2>12, ClientButOne
<1>11. CASE RequeuePush(c)
  <2>1. PICK x : x = cur[c] OBVIOUS
  <2>2. pc[c] = "requeue_push" /\ pc[c] \in OwnerPcs /\ pc[c] \notin HasRun
    BY <1>11, ClientPlaces DEF RequeuePush, HasRun
  <2>3. x \in Jobs /\ ~Queued(x) BY <1>0, <2>1, <2>2, OwnerFacts
  <2>4. UNCHANGED <<blob, delayed, crashes, index, born, dlq, dlqAll, runs, todo>>
    BY <1>3, <1>11 DEF RequeuePush, store, zsets, morgue, history
  <2>5. PICK l : l = "idle" /\ pc'[c] = l /\ cur'[c] = NoJob BY <1>3, <1>11 DEF RequeuePush
  <2>6. (\A j \in Jobs \ {x} : Queued(j)' <=> Queued(j)) /\ Queued(x)'
    BY <1>11, <2>1, <2>3, EnqueueFacts DEF RequeuePush
  <2>7. Counted(x)'
    <3>1. Counted(x) /\ (Live(x)' => Live(x)) BY <2>3, <2>4 DEF Ledger, Live, Missing, Finished
    <3> QED BY <1>0, <2>2, <2>3, <2>4, <3>1, CountedStays
  <2>8. \A j \in Jobs : (InDlq(j)' <=> InDlq(j)) /\ (Missing(j)' <=> Missing(j))
    BY <2>4 DEF InDlq, Missing
  <2>9. ASSUME crashes = 0 PROVE Placed(x)' /\ Listed(x)'
    <3>1. Placed(x) /\ Listed(x) BY <2>3, <2>9 DEF Ledger, BooksOK
    <3>2. Placed(x)' BY <2>6 DEF Placed
    <3>3. Listed(x)' BY <1>0, <2>2, <2>3, <2>4, <2>5, <2>8, <3>1, ListedStays
    <3> QED BY <3>2, <3>3
  <2>10. ASSUME crashes = 0, NEW j \in Jobs PROVE Indexed(j)'
    <3>1. l \notin Healing \cup {"submit_set"} BY <2>5 DEF Healing
    <3> QED BY <1>4, <1>5, <2>4, <2>5, <2>8, <2>10, <3>1
  <2>11. cur[c] \in {x, NoJob} /\ cur'[c] \in {x, NoJob} BY <2>1, <2>5
  <2> QED BY <1>0, <2>4, <2>6, <2>7, <2>8, <2>9, <2>10, <2>11, ClientButOne
<1> QED BY <1>6, <1>8, <1>9, <1>10, <1>11

\* A crash may cost one more run of a job in hand, and settles nothing else.
LEMMA LedgerCrashes ==
    ASSUME Undisturbed, IInv, Ledger, NEW a \in Actors, Crash(a)
    PROVE  Ledger'
<1>1. /\ crashes = 0 /\ crashes' = 1
  <2>1. crashes \in 0..MaxCrashes /\ MaxCrashes \in Nat /\ crashes' = crashes + 1 /\ crashes' <= 1
    BY SettingsAssumption DEF IInv, HistoryOK, Crash, Undisturbed, Calm
  <2> QED BY <2>1 DEF Undisturbed, Calm
<1>2. UNCHANGED <<blob, runs>> BY DEF Crash, redis, store
<1>3. ASSUME NEW j \in Jobs PROVE Counted(j)'
  <2>1. /\ runs[j] \in Nat /\ MaxRetries[j] \in Nat /\ blob[j].retries \in Nat
    BY JobsAssumption DEF IInv, HistoryOK, RedisOK, StoreOK, Blob
  <2>2. Counted(j) BY DEF Ledger
  <2>3. runs'[j] <= crashes' + (IF MaxRetries[j] = 0 THEN 1 ELSE MaxRetries[j])
    BY <1>1, <1>2, <2>1, <2>2 DEF Counted
  <2>4. Live(j)' => Live(j) BY <1>2 DEF Live, Missing, Finished
  <2>5. Live(j) => /\ blob'[j].retries = 0 \/ blob'[j].retries < MaxRetries[j]
                   /\ runs'[j] <= crashes' + blob'[j].retries
    BY <1>1, <1>2, <2>1, <2>2 DEF Counted
  <2> QED BY <2>3, <2>4, <2>5 DEF Counted
<1> QED BY <1>1, <1>3 DEF Ledger

LEMMA LedgerInTime ==
    ASSUME Undisturbed, IInv, OneOwner, Ledger, NEW i \in Jobs,
           BackoffElapses(i) \/ LeaseExpires(i) \/ Expire(i)
    PROVE  Ledger'
<1>0. /\ UNCHANGED <<pc, cur, todo, queue, runs, crashes, born, dlq, dlqAll, index>>
      /\ blob \in [Jobs -> Blob] /\ delayed \in [Jobs -> {"none", "parked", "due"}]
  BY DEF BackoffElapses, LeaseExpires, Expire, local, history, zsets, morgue, IInv, RedisOK, StoreOK, SetsOK
<1>1. \A j \in Jobs : /\ Queued(j)' <=> Queued(j)
                      /\ InDlq(j)' <=> InDlq(j)
                      /\ delayed[j] # "none" => delayed'[j] # "none"
  BY <1>0 DEF Queued, InDlq, BackoffElapses, LeaseExpires, Expire, zsets
<1>2. ASSUME NEW j \in Jobs, blob'[j] = blob[j]
      PROVE  Counted(j)' /\ (crashes = 0 => Placed(j)' /\ Listed(j)' /\ Indexed(j)')
  <2>1. /\ Live(j)' <=> Live(j)
        /\ Missing(j)' <=> Missing(j)
    BY <1>2 DEF Live, Missing, Finished
  <2>2. Counted(j)' BY <1>0, <1>2, <2>1 DEF Ledger, Counted
  <2>3. ASSUME crashes = 0 PROVE Placed(j)' /\ Listed(j)' /\ Indexed(j)'
    <3>0. Placed(j) /\ Listed(j) /\ Indexed(j) BY <2>3 DEF Ledger, BooksOK
    <3>1. Placed(j)' BY <1>0, <1>1, <2>1, <3>0 DEF Placed
    <3>2. Listed(j)' BY <1>0, <1>1, <1>2, <3>0 DEF Listed
    <3>3. Indexed(j)' BY <1>0, <2>1, <3>0 DEF Indexed
    <3> QED BY <3>1, <3>2, <3>3
  <2> QED BY <2>2, <2>3
<1>3. ASSUME NEW j \in Jobs, blob'[j] # blob[j]
      PROVE  Counted(j)' /\ (crashes = 0 => Placed(j)' /\ Listed(j)' /\ Indexed(j)')
  <2>1. Expire(i) /\ i = j BY <1>0, <1>3 DEF BackoffElapses, LeaseExpires, Expire, store
  <2>2. blob'[j].status = "absent" BY <1>0, <2>1 DEF Expire, Absent
  <2>3. blob[j].status \in {"completed", "failed"}
    BY <2>1 DEF Expire, IInv, RedisOK, StoreOK, OnlySettledExpire
  <2>4. Missing(j)' /\ ~Live(j)' /\ ~Live(j) BY <2>2, <2>3 DEF Missing, Live, Finished, Terminal
  <2>5. Counted(j)' BY <1>0, <2>4 DEF Ledger, Counted
  <2>6. ASSUME crashes = 0 PROVE Placed(j)' /\ Listed(j)' /\ Indexed(j)'
    <3>0. Listed(j) /\ Indexed(j) BY <2>6 DEF Ledger, BooksOK
    <3>1. Placed(j)' BY <2>4 DEF Placed
    <3>2. Listed(j)' BY <1>0, <1>1, <2>2, <3>0 DEF Listed
    <3>3. Indexed(j)' BY <1>0, <2>4, <3>0 DEF Indexed
    <3> QED BY <3>1, <3>2, <3>3
  <2> QED BY <2>5, <2>6
<1> QED BY <1>0, <1>2, <1>3 DEF Ledger, BooksOK

LEMMA LedgerAtStart ==
    ASSUME Init PROVE Ledger
<1>1. /\ \A a \in Actors : cur[a] = NoJob /\ todo[a] = <<>>
      /\ \A j \in Jobs : blob[j].status = "absent" /\ runs[j] = 0
      /\ \A k \in IndexKinds : index[k] = {}
      /\ NoJob \notin Jobs /\ crashes = 0 /\ Elements(<<>>) = {}
  BY JobsAssumption DEF Init, Absent, Elements
<1>2. ASSUME NEW j \in Jobs PROVE Counted(j) /\ Placed(j) /\ Listed(j) /\ Indexed(j)
  <2>1. Missing(j) /\ ~Live(j) BY <1>1 DEF Missing, Live
  <2>2. Counted(j)
    <3>1. MaxRetries[j] \in Nat BY JobsAssumption
    <3> QED BY <1>1, <2>1, <3>1 DEF Counted
  <2>3. Placed(j) BY <2>1 DEF Placed
  <2>4. Listed(j) BY <1>1 DEF Listed
  <2>5. Indexed(j) BY <1>1, <2>1 DEF Indexed, Actors
  <2> QED BY <2>2, <2>3, <2>4, <2>5
<1> QED BY <1>1, <1>2 DEF Ledger, BooksOK

LEMMA LedgerStays ==
    ASSUME Undisturbed, IInv, OneOwner, OneOwner', Ledger, [Next]_vars
    PROVE  Ledger'
<1>1. ASSUME NEW w \in Workers, WorkerStep(w) \/ Restart(w) PROVE Ledger'
  <2>1. CASE \/ PromoteScan(w) \/ ReapScan(w) \/ PickTimeout(w) \/ RecoverScan(w) \/ RecoverGet(w)
             \/ RecoverLrem(w) \/ Restart(w) \/ PickTrack(w) \/ PickGet(w) \/ PickLease(w)
             \/ TraceGet(w) \/ CompleteGet(w) \/ CompleteUntrack(w) \/ CompleteUnlease(w)
             \/ FailGet(w) \/ FailUntrack(w) \/ FailUnlease(w) \/ DeadGet(w) \/ DeadUntrack(w)
             \/ DeadUnlease(w) \/ PromoteGet(w)
    BY <2>1, LedgerQuiet
  <2>2. CASE \/ PromoteZrem(w) \/ PromotePush(w) \/ PickMove(w) \/ PickPop(w) \/ FailPark(w)
             \/ FailPush(w) \/ RecoverPush(w)
    BY <2>2, LedgerMoves
  <2>3. CASE \/ PickSet(w) \/ TraceSet(w) \/ CompleteSet(w) \/ RecoverSet(w) \/ Handle(w) \/ FailSet(w)
             \/ FailDlq(w) \/ FailIndex(w) \/ DeadPush(w) \/ DeadIndex(w) \/ DeadSet(w)
    BY <2>3, LedgerWrites
  <2> QED BY <1>1, <2>1, <2>2, <2>3, NeverDone DEF WorkerStep
<1>2. ASSUME NEW c \in Clients, ClientCall(c) \/ ClientStep(c) PROVE Ledger'
  <2>1. CASE Submit(c) \/ SubmitSet(c) \/ SubmitPush(c) \/ SubmitIndex(c) BY <2>1, LedgerSubmits
  <2>2. CASE Requeue(c) \/ RequeueLrem(c) \/ RequeueSrem(c) \/ RequeueSet(c) \/ RequeuePush(c)
    BY <2>2, LedgerRequeues
  <2>3. CASE ListRange(c) \/ ListMget(c) \/ ListHeal(c) BY <2>3, LedgerLists
  <2> QED BY <1>2, <2>1, <2>2, <2>3, NeverDone DEF ClientCall, ClientStep
<1>3. ASSUME NEW a \in Actors, Crash(a) \/ Throw(a) PROVE Ledger' BY <1>3, LedgerCrashes, NeverDone
<1>4. ASSUME NEW j \in Jobs, BackoffElapses(j) \/ LeaseExpires(j) \/ Expire(j) PROVE Ledger'
  BY <1>4, LedgerInTime
<1>5. ASSUME UNCHANGED vars PROVE Ledger'
  <2>1. UNCHANGED <<pc, cur, todo, blob, queue, delayed, born, runs, crashes, dlq, dlqAll, index>>
    BY <1>5 DEF vars, redis, store, zsets, morgue, local, history
  <2>2. \A j \in Jobs : /\ Queued(j)' <=> Queued(j)
                        /\ InDlq(j)' <=> InDlq(j)
                        /\ Live(j)' <=> Live(j)
                        /\ Missing(j)' <=> Missing(j)
    BY <2>1 DEF Queued, InDlq, Live, Missing, Finished
  <2>3. ASSUME NEW j \in Jobs PROVE Counted(j)' BY <2>1, <2>2 DEF Ledger, Counted
  <2>4. ASSUME crashes = 0, NEW j \in Jobs PROVE Placed(j)' /\ Listed(j)' /\ Indexed(j)'
    <3>0. Placed(j) /\ Listed(j) /\ Indexed(j) BY <2>4 DEF Ledger, BooksOK
    <3>1. Placed(j)' BY <2>1, <2>2, <3>0 DEF Placed
    <3>2. Listed(j)' BY <2>1, <2>2, <3>0 DEF Listed
    <3>3. Indexed(j)' BY <2>1, <2>2, <3>0 DEF Indexed
    <3> QED BY <3>1, <3>2, <3>3
  <2> QED BY <2>1, <2>3, <2>4 DEF Ledger, BooksOK
<1> QED BY <1>1, <1>2, <1>3, <1>4, <1>5 DEF Next

LEMMA AlwaysLedger == ASSUME Fit PROVE Spec => [](Calm => Ledger)
<1>1. Init => (Calm => Ledger) BY LedgerAtStart
<1>2. IInv /\ (Calm => OneOwner) /\ (Calm => OneOwner)' /\ (Calm => Ledger) /\ [Next]_vars
          => (Calm => Ledger)'
  BY LedgerStays, CalmBefore DEF Undisturbed
<1> QED BY <1>1, <1>2, Inductive, AlwaysOneOwner, PTL DEF Spec

-----------------------------------------------------------------------------
(* What follows from the books. *)

\* A list counts each of its elements at least once, and without repetitions once.
LEMMA ElementsCounted ==
    ASSUME NEW S, NEW list \in Seq(S)
    PROVE  /\ IsFiniteSet(Elements(list)) /\ Cardinality(Elements(list)) \in Nat
           /\ Cardinality(Elements(list)) <= Len(list)
           /\ NoRepeats(list) => Cardinality(Elements(list)) = Len(list)
<1> DEFINE n == Len(list)
           T == Elements(list)
<1>1. n \in Nat /\ DOMAIN list = 1..n /\ list \in [1..n -> T] BY DEF Elements
<1>2. IsFiniteSet(1..n) /\ Cardinality(1..n) = n
  <2>1. IsFiniteSet(1..n) /\ Cardinality(1..n) = IF 1 > n THEN 0 ELSE n - 1 + 1 BY <1>1, FS_Interval
  <2> QED BY <1>1, <2>1
<1>3. \A x \in T : \E i \in 1..n : list[i] = x BY <1>1 DEF Elements
<1>4. NoRepeats(list) => \A i, k \in 1..n : list[i] = list[k] => i = k BY <1>1 DEF NoRepeats
<1> HIDE DEF n, T
<1>5. list \in Surjection(1..n, T) BY <1>1, <1>3 DEF Surjection
<1>6. NoRepeats(list) => list \in Injection(1..n, T) BY <1>1, <1>4 DEF Injection, IsInjective
<1>7. IsFiniteSet(T) /\ Cardinality(T) <= n BY <1>2, <1>5, FS_Surjection
<1>8. list \in Injection(1..n, T) => Cardinality(T) = n BY <1>2, <1>5, FS_Surjection
<1>9. Cardinality(T) \in Nat BY <1>7, FS_CardinalityType
<1> QED BY <1>6, <1>7, <1>8, <1>9 DEF n, T

LEMMA OccursOnce ==
    ASSUME NEW list, NoRepeats(list), NEW x
    PROVE  Occurrences(list, x) <= 1
<1>1. PICK P : P = {i \in DOMAIN list : list[i] = x} OBVIOUS
<1>2. CASE P = {} BY <1>1, <1>2, FS_EmptySet DEF Occurrences
<1>3. ASSUME NEW i \in P PROVE Cardinality(P) <= 1
  <2>1. P = {i} BY <1>1, <1>3 DEF NoRepeats
  <2>2. Cardinality({i}) = 1 BY FS_Singleton
  <2> QED BY <2>1, <2>2
<1> QED BY <1>1, <1>2, <1>3 DEF Occurrences

\* One submission costs at most max_retries handler runs that end, and one more for
\* a crash: fail() counts a retry for every run it answers and gives up at
\* max_retries, and only recovery starts a run without counting one
\* (src/src/jobs/Jobs.hpp 362-424, 544-635).
THEOREM RunsAreBudgeted == ASSUME Fit PROVE Spec => [](Calm => RunsWithinBudget)
<1>1. Ledger => RunsWithinBudget BY DEF Ledger, Counted, RunsWithinBudget
<1> QED BY <1>1, AlwaysLedger, PTL

\* The gauges, when nobody has a job in hand.
LEMMA GaugesAgree ==
    ASSUME IInv, OneOwner, Ledger, crashes = 0 PROVE GaugesCount
<1> DEFINE Dead == {j \in Jobs : blob[j].status = "dead"}
           Waiting == {j \in Jobs : blob[j].status = "pending" /\ delayed[j] = "none"}
           Of(t, set) == {j \in set : TypeOf[j] = t}
<1> SUFFICES ASSUME \A j \in Jobs : ~InHand(j)
             PROVE  /\ \A t \in TypeSet : /\ QueueDepthByType[t] = Cardinality(Of(t, Waiting))
                                          /\ DlqDepthByType[t] >= Cardinality(Of(t, Dead))
                                          /\ Of(t, Dead) \subseteq ListDlq(t)
                    /\ DlqDepth >= Cardinality(Dead) /\ Dead \subseteq ListDlq(AllTypes)
  BY DEF GaugesCount
<1>0. /\ queue \in [TypeSet -> Seq(Jobs)] /\ dlq \in [TypeSet -> Seq(Jobs)] /\ dlqAll \subseteq Jobs
      /\ IsFiniteSet(Jobs) /\ \A j \in Jobs : TypeOf[j] \in TypeSet
  BY JobsAssumption DEF IInv, RedisOK, ListsOK, SetsOK
<1>1. \A j \in Jobs, a \in Actors : cur[a] # j BY DEF InHand
<1>2. \A j \in Dead : InDlq(j) /\ j \in dlqAll /\ ~Missing(j)
  BY <1>1 DEF Ledger, BooksOK, Listed, Missing
<1>3. \A j \in Jobs : j \in Waiting <=> Queued(j)
  <2> SUFFICES ASSUME NEW j \in Jobs PROVE j \in Waiting <=> Queued(j) OBVIOUS
  <2>1. Queued(j) => blob[j].status = "pending" /\ delayed[j] = "none"
    BY DEF OneOwner, Single, Waits
  <2>2. blob[j].status = "pending" => Queued(j) \/ delayed[j] # "none"
    BY <1>1 DEF Ledger, BooksOK, Placed, Live, Missing, Finished, Terminal
  <2> QED BY <2>1, <2>2
<1>4. ASSUME NEW t \in TypeSet PROVE QueueDepthByType[t] = Cardinality(Of(t, Waiting))
  <2>1. NoRepeats(queue[t]) /\ \A j \in Elements(queue[t]) : TypeOf[j] = t BY DEF OneOwner, QueuesOK
  <2>2. Elements(queue[t]) \subseteq Jobs BY <1>0 DEF Elements
  <2>3. Elements(queue[t]) = Of(t, Waiting) BY <1>3, <2>1, <2>2 DEF Queued
  <2>4. Cardinality(Elements(queue[t])) = Len(queue[t]) BY <1>0, <2>1, ElementsCounted
  <2> QED BY <2>3, <2>4 DEF QueueDepthByType
<1>5. ASSUME NEW t \in TypeSet
      PROVE  /\ DlqDepthByType[t] >= Cardinality(Of(t, Dead))
             /\ Of(t, Dead) \subseteq ListDlq(t)
  <2>1. Of(t, Dead) \subseteq Elements(dlq[t]) BY <1>2 DEF InDlq
  <2>2. PICK D, E : D = Of(t, Dead) /\ E = Elements(dlq[t]) OBVIOUS
  <2>3. /\ IsFiniteSet(E) /\ Cardinality(E) \in Nat /\ Cardinality(E) <= Len(dlq[t])
        /\ Len(dlq[t]) \in Nat
    BY <1>0, <2>2, ElementsCounted
  <2>4. Cardinality(D) <= Cardinality(E) /\ Cardinality(D) \in Nat
    BY <2>1, <2>2, <2>3, FS_Subset, FS_CardinalityType
  <2>5. DlqDepthByType[t] >= Cardinality(D) BY <2>3, <2>4 DEF DlqDepthByType
  <2>6. Of(t, Dead) \subseteq ListDlq(t) BY <1>2, <2>1 DEF ListDlq
  <2> QED BY <2>2, <2>5, <2>6
<1>6. DlqDepth >= Cardinality(Dead) /\ Dead \subseteq ListDlq(AllTypes)
  <2>1. Dead \subseteq dlqAll BY <1>2
  <2>2. IsFiniteSet(dlqAll) BY <1>0, FS_Subset
  <2>3. Cardinality(Dead) <= Cardinality(dlqAll) /\ Cardinality(Dead) \in Nat /\ Cardinality(dlqAll) \in Nat
    BY <2>1, <2>2, FS_Subset, FS_CardinalityType
  <2>4. Dead \subseteq ListDlq(AllTypes) BY <1>2, <2>1 DEF ListDlq
  <2> QED BY <2>3, <2>4 DEF DlqDepth
<1> QED BY <1>4, <1>5, <1>6

\* While no process has died the books of the queue agree, whatever the workers,
\* clients and operators interleave: a job to be run waits in one place, once, or
\* is in somebody's hands; a finished one is in no list any more; a dead one is
\* listed for the operator; the indexes know every job and the gauges count them
\* (src/src/jobs/Jobs.hpp 79-168, 170-437, 452-540, 637-715, 797-842).
THEOREM BooksStayInOrder == ASSUME Fit PROVE Spec => [](Calm => BooksAgree)
<1>1. IInv /\ OneOwner /\ Ledger => BooksAgree
  <2> SUFFICES ASSUME IInv, OneOwner, Ledger, crashes = 0
               PROVE  /\ NothingLost /\ WaitsOnce /\ FinishedIsForgotten
                      /\ DeadIsListed /\ IndexIsComplete /\ GaugesCount
    BY DEF BooksAgree
  <2>0. \A j \in Jobs : Placed(j) /\ Listed(j) /\ Indexed(j) /\ Waits(j)
    BY DEF Ledger, BooksOK, OneOwner, Single
  <2>1. NothingLost BY <2>0 DEF NothingLost, Placed, InHand
  <2>2. WaitsOnce
    <3> SUFFICES ASSUME NEW j \in Jobs
                 PROVE  Occurrences(queue[TypeOf[j]], j) <= 1 /\ (Queued(j) => delayed[j] = "none")
      BY DEF WaitsOnce
    <3>1. NoRepeats(queue[TypeOf[j]]) BY JobsAssumption DEF OneOwner, QueuesOK
    <3> QED BY <2>0, <3>1, OccursOnce DEF Waits
  <2>3. FinishedIsForgotten
    <3> SUFFICES ASSUME NEW j \in Jobs, Finished(j), ~InHand(j)
                 PROVE  /\ ~Queued(j) /\ delayed[j] = "none" /\ lease[j] = "none"
                        /\ \A w \in Workers : j \notin Elements(proc[w])
      BY DEF FinishedIsForgotten
    <3>1. ~Queued(j) /\ delayed[j] = "none" /\ lease[j] = "none"
      BY <2>0 DEF Waits, InHand, Finished, Terminal
    <3>2. ASSUME NEW w \in Workers PROVE j \notin Elements(proc[w])
      <4>1. proc[w] \in {<<cur[w]>>, <<>>} /\ w \in Actors
        BY DEF OneOwner, PlacesOK, WorkerOK, Actors
      <4>2. Elements(<<cur[w]>>) = {cur[w]} /\ Elements(<<>>) = {} BY DEF Elements
      <4> QED BY <4>1, <4>2 DEF InHand
    <3> QED BY <3>1, <3>2
  <2>4. DeadIsListed BY <2>0 DEF DeadIsListed, Listed, InHand, InDlq
  <2>5. IndexIsComplete
    <3>1. born \subseteq Jobs BY DEF IInv, HistoryOK
    <3> QED BY <2>0, <3>1 DEF IndexIsComplete, Indexed, InHand, IndexKinds
  <2>6. GaugesCount BY GaugesAgree
  <2> QED BY <2>1, <2>2, <2>3, <2>4, <2>5, <2>6
<1> QED BY <1>1, Inductive, AlwaysOneOwner, AlwaysLedger, PTL

-----------------------------------------------------------------------------
(* One trouble.  A process dies, a command fails or a handler outlasts its   *)
(* lease: from then on a job may be in several hands at once, so OneOwner is *)
(* lost.  What remains is that a live job is waiting, or in the hands of an  *)
(* actor that will place it or write its outcome, or has a lease that nobody *)
(* is about to drop (Secured).                                               *)

LEMMA SecuredStays ==
    ASSUME IInv, NEW a \in Actors, NEW l, NEW y, NEW b, NEW s, Moves(a, l, y, b, s),
           NEW i \in Jobs, Stays(a, i, l, y), Live(i) => Secured(i), Live(i)'
    PROVE  Secured(i)'
<1>1. /\ pc'[a] = l /\ cur'[a] = y
      /\ \A c \in Actors \ {a} : pc'[c] = pc[c] /\ cur'[c] = cur[c]
  BY MovesOK
<1>2. CASE Taken(i, l, y) BY <1>1, <1>2 DEF Taken, Secured
<1>3. ASSUME ~Taken(i, l, y), Secured(i) PROVE Secured(i)'
  <2>1. CASE Queued(i) \/ delayed[i] # "none" BY <1>3, <2>1 DEF Stays, Secured
  <2>2. ASSUME NEW c \in Actors, cur[c] = i, pc[c] \in Placing PROVE Secured(i)'
    <3>1. CASE c = a BY <1>3, <2>2, <3>1 DEF Stays, Secured
    <3>2. CASE c # a BY <1>1, <2>2, <3>2 DEF Secured
    <3> QED BY <3>1, <3>2
  <2>3. ASSUME lease[i] # "none", \A c \in Actors : cur[c] = i => pc[c] \notin Unleasing
        PROVE  Secured(i)'
    <3>1. lease'[i] # "none" BY <1>3, <2>3 DEF Stays
    <3>2. \A c \in Actors : cur'[c] = i => pc'[c] \notin Unleasing BY <1>1, <2>3 DEF Stays
    <3> QED BY <3>1, <3>2 DEF Secured
  <2> QED BY <1>3, <2>1, <2>2, <2>3 DEF Secured
<1>4. Live(i) \/ Taken(i, l, y) BY DEF Stays
<1> QED BY <1>2, <1>3, <1>4

-----------------------------------------------------------------------------
(* Lists again, this time with repetitions.                                  *)

LEMMA RPushElements ==
    ASSUME NEW S, NEW list \in Seq(S), NEW x \in S
    PROVE  Elements(RPush(list, x)) = Elements(list) \cup {x}
<1> DEFINE new == RPush(list, x)
<1>1. /\ new \in Seq(S) /\ Len(new) = Len(list) + 1 /\ Len(list) \in Nat
      /\ DOMAIN list = 1..Len(list) /\ DOMAIN new = 1..Len(new)
      /\ new[Len(new)] = x /\ \A i \in 1..Len(list) : new[i] = list[i]
  BY DEF RPush
<1> HIDE DEF new
<1>2. Len(new) \in DOMAIN new /\ \A i \in DOMAIN list : i \in DOMAIN new BY <1>1
<1>3. \A i \in DOMAIN new : i = Len(new) \/ i \in DOMAIN list BY <1>1
<1>4. Elements(new) = Elements(list) \cup {x} BY <1>1, <1>2, <1>3 DEF Elements
<1> QED BY <1>4 DEF new

LEMMA PopKeeps ==
    ASSUME NEW S, NEW list \in Seq(S), list # <<>>
    PROVE  /\ Oldest(list) \in Elements(list) /\ Oldest(list) \in S
           /\ \A x \in Elements(list) : x = Oldest(list) \/ x \in Elements(Older(list))
<1> DEFINE n == Len(list)
<1>1. /\ n \in Nat \ {0} /\ DOMAIN list = 1..n /\ Oldest(list) = list[n]
      /\ DOMAIN Older(list) = 1..(n - 1) /\ \A i \in 1..(n - 1) : Older(list)[i] = list[i]
  BY DEF Oldest, Older
<1> HIDE DEF n
<1>2. n \in DOMAIN list /\ \A i \in DOMAIN list : i = n \/ i \in 1..(n - 1) BY <1>1
<1> QED BY <1>1, <1>2 DEF Elements

LEMMA EnqueueKeeps ==
    ASSUME IInv, NEW j \in Jobs, Enqueue(j)
    PROVE  \A i \in Jobs : i = j \/ Queued(i) => Queued(i)'
<1>1. queue \in [TypeSet -> Seq(Jobs)] /\ TypeOf \in [Jobs -> TypeSet]
  BY JobsAssumption DEF IInv, RedisOK, ListsOK
<1>2. Elements(LPush(queue[TypeOf[j]], j)) = Elements(queue[TypeOf[j]]) \cup {j}
  BY <1>1, PushElements
<1> QED BY <1>1, <1>2 DEF Enqueue, Queued

\* The places the steps above speak of, apart from each other.
LEMMA PlacingPlaces ==
    /\ Placing \cap Unleasing = {} /\ Placing \cap Cancelling = {}
    /\ Burying \subseteq Placing /\ Leasing \subseteq Placing \cup Unleasing
    /\ EmptyHanded \cap (Unleasing \cup Leasing \cup Cancelling \cup Burying) = {}
    /\ EmptyHanded \cap Placing = {"promote_restore"}
  BY DEF Placing, Unleasing, Cancelling, Burying, Leasing, EmptyHanded

\* A step that changes nothing in Redis that a job hangs on.
LEMMA KeepsQuietly ==
    ASSUME IInv, NEW a \in Actors, NEW l, NEW y, NEW b, NEW s, Moves(a, l, y, b, s),
           InOrder(a, l, y, b, s), UNCHANGED <<blob, queue, delayed, lease>>,
           l \in Leasing => pc[a] \in Leasing /\ y = cur[a],
           pc[a] \in Placing => Taken(cur[a], l, y) \/ ~Live(cur[a]),
           l \in Unleasing => ~Live(y) \/ (pc[a] \in Unleasing /\ y = cur[a])
    PROVE  Keeps(a)
<1>1. LeasesKept(a, l, y) BY DEF LeasesKept
<1>2. ASSUME NEW i \in Jobs PROVE Stays(a, i, l, y)
  <2>1. (Queued(i)' <=> Queued(i)) /\ (Live(i)' <=> Live(i)) BY DEF Queued, Live, Missing, Finished
  <2> QED BY <2>1 DEF Stays
<1> QED BY <1>1, <1>2 DEF Keeps

\* An actor writes the blob of the job it has in hand.
LEMMA KeepsWriting ==
    ASSUME IInv, NEW a \in Actors, NEW l, NEW y, NEW b, NEW s, Moves(a, l, y, b, s),
           InOrder(a, l, y, b, s), UNCHANGED <<queue, delayed, lease>>, cur[a] \in Jobs,
           NEW c \in Blob, blob' = [blob EXCEPT ![cur[a]] = c],
           Taken(cur[a], l, y) \/ c.status \in Terminal,
           l \in Leasing => ~Visibility \/ (pc[a] \in Leasing /\ y = cur[a]),
           l \in Unleasing => y = cur[a] /\ c.status \in Terminal
    PROVE  Keeps(a)
<1>1. LeasesKept(a, l, y) BY DEF LeasesKept
<1>2. /\ blob'[cur[a]] = c /\ \A i \in Jobs \ {cur[a]} : blob'[i] = blob[i]
  BY DEF IInv, RedisOK, StoreOK
<1>3. ASSUME NEW i \in Jobs PROVE Stays(a, i, l, y)
  <2>1. Queued(i)' <=> Queued(i) BY DEF Queued
  <2>2. CASE i = cur[a]
    <3>1. c.status \in Terminal => ~Live(i)' BY <1>2, <2>2 DEF Live, Finished
    <3> QED BY <2>1, <2>2, <3>1 DEF Stays
  <2>3. CASE i # cur[a]
    <3>1. Live(i)' <=> Live(i) BY <1>2, <2>3 DEF Live, Missing, Finished
    <3> QED BY <2>1, <2>3, <3>1 DEF Stays
  <2> QED BY <2>2, <2>3
<1> QED BY <1>1, <1>3 DEF Keeps

\* An actor queues or parks what it has in hand.
LEMMA KeepsPlacing ==
    ASSUME IInv, NEW a \in Actors, NEW l, NEW y, NEW b, NEW s, Moves(a, l, y, b, s),
           InOrder(a, l, y, b, s), UNCHANGED <<blob, lease>>, l \notin Leasing \cup Unleasing,
           \A i \in Jobs : Queued(i) => Queued(i)',
           \A i \in Jobs : delayed[i] # "none" => delayed'[i] # "none",
           \A i \in Jobs : cur[a] = i => Queued(i)' \/ delayed'[i] # "none"
    PROVE  Keeps(a)
<1>1. LeasesKept(a, l, y) BY DEF LeasesKept
<1>2. ASSUME NEW i \in Jobs PROVE Stays(a, i, l, y)
  <2>1. Live(i)' <=> Live(i) BY DEF Live, Missing, Finished
  <2> QED BY <2>1 DEF Stays
<1> QED BY <1>1, <1>2 DEF Keeps

\* An actor takes a job from a queue, from the backoff set or from its lease.
LEMMA KeepsTaking ==
    ASSUME IInv, NEW a \in Actors, NEW l, NEW y, NEW b, NEW s, Moves(a, l, y, b, s),
           InOrder(a, l, y, b, s), UNCHANGED blob, pc[a] \notin Placing, l \in Placing,
           l \in Leasing \/ (\E i \in Jobs : lease'[i] # lease[i]) => pc[a] = "reap_zrem",
           \A i \in Jobs \ {y} : /\ Queued(i) => Queued(i)'
                                 /\ delayed[i] # "none" => delayed'[i] # "none"
                                 /\ lease[i] # "none" => lease'[i] # "none"
    PROVE  Keeps(a)
<1>1. LeasesKept(a, l, y) BY DEF LeasesKept
<1>2. ASSUME NEW i \in Jobs PROVE Stays(a, i, l, y)
  <2>1. Live(i)' <=> Live(i) BY DEF Live, Missing, Finished
  <2>2. l \notin Unleasing BY PlacingPlaces
  <2>3. i = y => Taken(i, l, y) BY DEF Taken
  <2> QED BY <2>1, <2>2, <2>3 DEF Stays
<1> QED BY <1>1, <1>2 DEF Keeps

\* An actor drops the lease of the job it has in hand, and goes on with it or has
\* seen it finished.
LEMMA KeepsUnleasing ==
    ASSUME IInv, NEW a \in Actors, NEW l, NEW y, NEW b, NEW s, Moves(a, l, y, b, s),
           InOrder(a, l, y, b, s), UNCHANGED <<blob, queue, delayed>>,
           lease' = [lease EXCEPT ![cur[a]] = "none"] \/ lease' = lease,
           pc[a] \in Leasing \cup Unleasing, l \notin Leasing \cup Unleasing,
           pc[a] \in Unleasing \/ Taken(cur[a], l, y)
    PROVE  Keeps(a)
<1>1. \A i \in Jobs : i # cur[a] => lease'[i] = lease[i] BY DEF IInv, RedisOK, SetsOK
<1>2. LeasesKept(a, l, y) BY <1>1 DEF LeasesKept
<1>3. ASSUME NEW i \in Jobs PROVE Stays(a, i, l, y)
  <2>1. (Queued(i)' <=> Queued(i)) /\ (Live(i)' <=> Live(i)) BY DEF Queued, Live, Missing, Finished
  <2>2. pc[a] \in Unleasing => pc[a] \notin Placing BY PlacingPlaces
  <2> QED BY <1>1, <2>1, <2>2 DEF Stays
<1> QED BY <1>2, <1>3 DEF Keeps

LEMMA FreePlaces ==
    /\ Free \cap (Placing \cup Unleasing \cup Leasing \cup Cancelling \cup Burying) = {}
    /\ {"promote_get", "promote_push", "promote_restore"} \cap Free = {}
    /\ {"down", "recover", "recover_get", "promote", "promote_zrem", "reap", "reap_zrem",
        "reap_restore", "pick", "idle", "mget_all", "mget_type", "heal_all", "heal_type",
        "heal_type_all", LoopHead, AfterPromote} \subseteq Free
    /\ \A a \in Actors : Rest(a) \in Free
  BY DEF Free, EmptyHanded, Placing, Unleasing, Leasing, Cancelling, Burying, LoopHead, AfterPromote, Rest

LEMMA LeavesHow ==
    ASSUME IInv, NEW a \in Actors
    PROVE  /\ \A l \in Free : Goto(a, l) /\ (l = "reap_restore" \/ pc[a] \in Resting) => Leaves(a, cur[a])
           /\ \A first, done \in Free : Advance(a, first, done) => Leaves(a, NoJob)
           /\ \A first, done \in Free : \A S :
                 Scan(a, S, first, done) /\ pc[a] \in Resting => Leaves(a, cur[a])
           /\ Return(a) => Leaves(a, NoJob)
           /\ FailThrows(a) => \E y : Leaves(a, y)
<1>1. \A l \in Free : Goto(a, l) /\ (l = "reap_restore" \/ pc[a] \in Resting) => Leaves(a, cur[a])
  BY GotoMoves DEF Leaves, Rests
<1>2. \A first, done \in Free : Advance(a, first, done) => Leaves(a, NoJob)
  BY AdvanceMoves DEF Leaves, Rests
<1>3. ASSUME NEW first \in Free, NEW done \in Free, NEW S, Scan(a, S, first, done), pc[a] \in Resting
      PROVE  Leaves(a, cur[a])
  BY <1>3, ScanMoves DEF Leaves, Rests
<1>4. ASSUME Return(a) PROVE Leaves(a, NoJob)
  <2>1. CASE Reaping(a) BY <1>2, <1>4, <2>1, FreePlaces DEF Return
  <2>2. CASE ~Reaping(a)
    <3>1. Moves(a, Rest(a), NoJob, Absent, todo[a]) BY <1>4, <2>2, HoldMoves DEF Return
    <3> QED BY <3>1, FreePlaces DEF Leaves, Rests
  <2> QED BY <2>1, <2>2
<1>5. FailThrows(a) => \E y : Leaves(a, y) BY <1>1, <1>4, FreePlaces DEF FailThrows
<1> QED BY <1>1, <1>2, <1>3, <1>4, <1>5

LEMMA FreeInOrder ==
    ASSUME NEW a, NEW l \in Free, NEW y, NEW b, NEW s,
           Rests(a, l, y)
    PROVE  InOrder(a, l, y, b, s)
  BY FreePlaces DEF InOrder, Resting, Rests

\* An actor is done with a job and leaves Redis alone.
LEMMA KeepsLeaving ==
    ASSUME IInv, NEW a \in Actors, NEW y, Leaves(a, y), UNCHANGED <<blob, queue, delayed, lease>>,
           pc[a] \in Placing => ~Live(cur[a])
    PROVE  Keeps(a)
<1>1. PICK l \in Free : \E b, s : Moves(a, l, y, b, s) /\ Rests(a, l, y) BY DEF Leaves
<1>2. PICK b, s : Moves(a, l, y, b, s) /\ Rests(a, l, y) BY <1>1
<1>3. InOrder(a, l, y, b, s) /\ l \notin Leasing \cup Unleasing BY <1>2, FreeInOrder, FreePlaces
<1> QED BY <1>2, <1>3, KeepsQuietly

LEMMA KeepsPlacingLast ==
    ASSUME IInv, NEW a \in Actors, NEW y, Leaves(a, y), UNCHANGED <<blob, lease>>,
           \A i \in Jobs : Queued(i) => Queued(i)',
           \A i \in Jobs : delayed[i] # "none" => delayed'[i] # "none",
           \A i \in Jobs : cur[a] = i => Queued(i)' \/ delayed'[i] # "none"
    PROVE  Keeps(a)
<1>1. PICK l \in Free : \E b, s : Moves(a, l, y, b, s) /\ Rests(a, l, y) BY DEF Leaves
<1>2. PICK b, s : Moves(a, l, y, b, s) /\ Rests(a, l, y) BY <1>1
<1>3. InOrder(a, l, y, b, s) /\ l \notin Leasing \cup Unleasing BY <1>2, FreeInOrder, FreePlaces
<1> QED BY <1>2, <1>3, KeepsPlacing

-----------------------------------------------------------------------------
(* The steps of a worker.                                                    *)

LEMMA KeepsSweeping ==
    ASSUME IInv, InStep, NEW w \in Workers,
           \/ PromoteScan(w) \/ PromoteZrem(w) \/ PromoteGet(w) \/ PromotePush(w)
           \/ PromoteRestore(w) \/ ReapScan(w) \/ ReapZrem(w) \/ ReapRestore(w)
    PROVE  Keeps(w)
<1>0. /\ w \in Actors /\ cur[w] \in Jobs \cup {NoJob}
      /\ delayed \in [Jobs -> {"none", "parked", "due"}]
      /\ lease \in [Jobs -> {"none", "held", "expired"}]
      /\ pc[w] \notin EmptyHanded => cur[w] \in Jobs
  BY DEF Actors, IInv, LocalOK, RedisOK, SetsOK
<1>1. CASE PromoteScan(w)
  <2>1. Leaves(w, cur[w]) /\ pc[w] \notin Placing
    BY <1>0, <1>1, LeavesHow, FreePlaces DEF PromoteScan, Placing, Resting, EmptyHanded
  <2>2. UNCHANGED <<blob, queue, delayed, lease>> BY <1>1 DEF PromoteScan, redis, store, zsets
  <2> QED BY <1>0, <2>1, <2>2, KeepsLeaving
<1>2. CASE PromoteZrem(w)
  <2>1. pc[w] = "promote_zrem" /\ pc[w] \notin Placing /\ UNCHANGED <<blob, queue, lease>>
    BY <1>2 DEF PromoteZrem, Placing, store
  <2>2. CASE Advance(w, "promote_zrem", AfterPromote) /\ UNCHANGED delayed
    <3>1. Leaves(w, NoJob) BY <1>0, <2>2, LeavesHow, FreePlaces
    <3> QED BY <1>0, <2>1, <2>2, <3>1, KeepsLeaving
  <2>3. CASE /\ delayed' = [delayed EXCEPT ![Next1(w)] = "none"]
             /\ Hold(w, "promote_get", Next1(w), Absent)
    <3>1. Moves(w, "promote_get", Next1(w), Absent, todo[w]) BY <1>0, <2>3, HoldMoves
    <3>2. /\ "promote_get" \in Placing /\ "promote_get" \notin Leasing
          /\ InOrder(w, "promote_get", Next1(w), Absent, todo[w])
      BY DEF Placing, Leasing, Burying, Cancelling, Resting, EmptyHanded, InOrder, Next1
    <3>3. \A i \in Jobs \ {Next1(w)} : delayed'[i] = delayed[i] BY <1>0, <2>3
    <3>4. \A i \in Jobs : Queued(i)' <=> Queued(i) BY <2>1 DEF Queued
    <3> QED BY <1>0, <2>1, <3>1, <3>2, <3>3, <3>4, KeepsTaking
  <2> QED BY <1>2, <2>2, <2>3 DEF PromoteZrem
<1>3. CASE PromoteGet(w)
  <2>1. pc[w] = "promote_get" /\ UNCHANGED <<blob, queue, delayed, lease>>
    BY <1>3 DEF PromoteGet, redis, store, zsets
  <2>2. CASE (Missing(cur[w]) \/ Finished(cur[w])) /\ Advance(w, "promote_zrem", AfterPromote)
    <3>1. Leaves(w, NoJob) /\ ~Live(cur[w]) BY <1>0, <2>2, LeavesHow, FreePlaces DEF Live
    <3> QED BY <1>0, <2>1, <3>1, KeepsLeaving
  <2>3. CASE Goto(w, "promote_push")
    <3>1. Moves(w, "promote_push", cur[w], copy[w], todo[w]) BY <1>0, <2>3, GotoMoves
    <3>2. /\ InOrder(w, "promote_push", cur[w], copy[w], todo[w])
          /\ "promote_push" \notin Leasing \cup Unleasing /\ Taken(cur[w], "promote_push", cur[w])
      BY <2>1 DEF InOrder, Burying, Cancelling, Resting, EmptyHanded, Leasing, Unleasing, Taken, Placing
    <3> QED BY <1>0, <2>1, <3>1, <3>2, KeepsQuietly
  <2> QED BY <1>3, <2>2, <2>3 DEF PromoteGet
<1>4. CASE PromotePush(w)
  <2>1. pc[w] \notin EmptyHanded /\ Leaves(w, NoJob) /\ Enqueue(cur[w]) /\ UNCHANGED <<blob, delayed, lease>>
    BY <1>0, <1>4, LeavesHow, FreePlaces DEF PromotePush, EmptyHanded, store, zsets
  <2>2. \A i \in Jobs : i = cur[w] \/ Queued(i) => Queued(i)' BY <1>0, <2>1, EnqueueKeeps
  <2> QED BY <1>0, <2>1, <2>2, KeepsPlacingLast
<1>5. CASE PromoteRestore(w)
  <2>1. Leaves(w, NoJob) /\ UNCHANGED <<blob, queue, lease>> /\ pc[w] = "promote_restore"
    BY <1>0, <1>5, LeavesHow, FreePlaces DEF PromoteRestore, store
  <2>2. delayed' = [delayed EXCEPT ![Next1(w)] = "due"] BY <1>5 DEF PromoteRestore
  <2>3. \A i \in Jobs : /\ Queued(i) => Queued(i)'
                        /\ delayed[i] # "none" => delayed'[i] # "none"
    BY <1>0, <2>1, <2>2 DEF Queued
  <2>4. \A i \in Jobs : cur[w] = i => delayed'[i] # "none"
    BY <1>0, <2>1, <2>2, JobsAssumption DEF InStep
  <2> QED BY <1>0, <2>1, <2>3, <2>4, KeepsPlacingLast
<1>6. CASE ReapScan(w)
  <2>1. Leaves(w, cur[w]) /\ pc[w] \notin Placing
    BY <1>0, <1>6, LeavesHow, FreePlaces DEF ReapScan, Placing, Resting, EmptyHanded
  <2>2. UNCHANGED <<blob, queue, delayed, lease>> BY <1>6 DEF ReapScan, redis, store, zsets
  <2> QED BY <1>0, <2>1, <2>2, KeepsLeaving
<1>7. CASE ReapZrem(w)
  <2>1. pc[w] = "reap_zrem" /\ pc[w] \notin Placing /\ UNCHANGED <<blob, queue, delayed>>
    BY <1>7 DEF ReapZrem, Placing, store
  <2>2. CASE Advance(w, "reap_zrem", "pick") /\ UNCHANGED lease
    <3>1. Leaves(w, NoJob) BY <1>0, <2>2, LeavesHow, FreePlaces
    <3> QED BY <1>0, <2>1, <2>2, <3>1, KeepsLeaving
  <2>3. CASE /\ lease' = [lease EXCEPT ![Next1(w)] = "none"]
             /\ Hold(w, "fail_get", Next1(w), Absent)
    <3>1. Moves(w, "fail_get", Next1(w), Absent, todo[w]) BY <1>0, <2>3, HoldMoves
    <3>2. /\ "fail_get" \in Placing /\ InOrder(w, "fail_get", Next1(w), Absent, todo[w])
      BY DEF Placing, Burying, Cancelling, Resting, EmptyHanded, InOrder
    <3>3. \A i \in Jobs \ {Next1(w)} : lease'[i] = lease[i] BY <1>0, <2>3
    <3>4. \A i \in Jobs : Queued(i)' <=> Queued(i) BY <2>1 DEF Queued
    <3> QED BY <1>0, <2>1, <3>1, <3>2, <3>3, <3>4, KeepsTaking
  <2> QED BY <1>7, <2>2, <2>3 DEF ReapZrem
<1>8. CASE ReapRestore(w)
  <2>1. Leaves(w, NoJob) /\ UNCHANGED <<blob, queue, delayed>> /\ pc[w] \notin Placing
    BY <1>0, <1>8, LeavesHow, FreePlaces DEF ReapRestore, store, Placing
  <2>2. \A i \in Jobs : lease'[i] \in {lease[i], "held"} BY <1>0, <1>8 DEF ReapRestore
  <2>3. PICK l \in Free : \E b, s : Moves(w, l, NoJob, b, s) /\ Rests(w, l, NoJob)
    BY <2>1 DEF Leaves
  <2>4. PICK b, s : Moves(w, l, NoJob, b, s) /\ Rests(w, l, NoJob) BY <2>3
  <2>5. InOrder(w, l, NoJob, b, s) /\ l \notin Leasing \cup Unleasing
    BY <2>4, FreeInOrder, FreePlaces
  <2>6. LeasesKept(w, l, NoJob) BY <2>2, <2>5 DEF LeasesKept
  <2>7. ASSUME NEW i \in Jobs PROVE Stays(w, i, l, NoJob)
    <3>1. (Queued(i)' <=> Queued(i)) /\ (Live(i)' <=> Live(i))
      BY <2>1 DEF Queued, Live, Missing, Finished
    <3>2. delayed'[i] = delayed[i] /\ lease'[i] \in {lease[i], "held"} BY <2>1, <2>2
    <3> QED BY <2>1, <2>5, <3>1, <3>2 DEF Stays
  <2> QED BY <2>4, <2>5, <2>6, <2>7 DEF Keeps
<1> QED BY <1>1, <1>2, <1>3, <1>4, <1>5, <1>6, <1>7, <1>8

LEMMA PlainOrder ==
    ASSUME NEW a, NEW l, NEW y, NEW b, NEW s,
           l \notin {"promote_get", "promote_push", "promote_restore"} \cup Burying \cup Cancelling \cup Resting
    PROVE  InOrder(a, l, y, b, s)
  BY DEF InOrder

LEMMA KeepsPicking ==
    ASSUME IInv, NEW w \in Workers,
           \/ PickMove(w) \/ PickPop(w) \/ PickTrack(w) \/ PickUntake(w) \/ PickTimeout(w)
           \/ PickGet(w) \/ PickDrop(w) \/ PickSet(w) \/ PickLease(w)
    PROVE  Keeps(w)
<1>0. /\ w \in Actors /\ queue \in [TypeSet -> Seq(Jobs)] /\ blob \in [Jobs -> Blob]
      /\ pc[w] \notin EmptyHanded => cur[w] \in Jobs
      /\ copy[w] \in Blob /\ lease \in [Jobs -> {"none", "held", "expired"}]
  BY DEF Actors, IInv, LocalOK, RedisOK, SetsOK, ListsOK, StoreOK
<1>1. ASSUME NEW l \in {"pick_get", "pick_track"}, NEW t \in TypeSet, Ready(t), pc[w] = "pick",
             queue' = [queue EXCEPT ![t] = Older(@)], Hold(w, l, Oldest(queue[t]), Absent),
             UNCHANGED <<blob, delayed, lease>>
      PROVE  Keeps(w)
  <2>1. Moves(w, l, Oldest(queue[t]), Absent, todo[w]) BY <1>0, <1>1, HoldMoves
  <2>2. /\ pc[w] \notin Placing /\ l \in Placing /\ l \notin Leasing
        /\ InOrder(w, l, Oldest(queue[t]), Absent, todo[w])
    BY <1>1, PlainOrder DEF Placing, Leasing, Burying, Cancelling, Resting, EmptyHanded
  <2>3. queue[t] \in Seq(Jobs) /\ queue[t] # <<>> BY <1>0, <1>1 DEF Ready
  <2>4. \A x \in Elements(queue[t]) : x = Oldest(queue[t]) \/ x \in Elements(Older(queue[t]))
    BY <2>3, PopKeeps
  <2>5. \A i \in Jobs \ {Oldest(queue[t])} : Queued(i) => Queued(i)'
    BY <1>0, <1>1, <2>4, JobsAssumption DEF Queued
  <2> QED BY <1>0, <1>1, <2>1, <2>2, <2>5, KeepsTaking
<1>2. CASE PickMove(w) BY <1>1, <1>2 DEF PickMove, store, zsets
<1>3. CASE PickPop(w) BY <1>1, <1>3 DEF PickPop, store, zsets
<1>4. CASE PickTrack(w)
  <2>1. Moves(w, "pick_get", cur[w], copy[w], todo[w]) BY <1>0, <1>4, GotoMoves DEF PickTrack
  <2>2. /\ InOrder(w, "pick_get", cur[w], copy[w], todo[w]) /\ Taken(cur[w], "pick_get", cur[w])
        /\ "pick_get" \notin Leasing \cup Unleasing
    BY PlainOrder DEF Placing, Leasing, Unleasing, Burying, Cancelling, Resting, EmptyHanded, Taken
  <2>3. UNCHANGED <<blob, queue, delayed, lease>> BY <1>4 DEF PickTrack, store, zsets
  <2> QED BY <1>0, <2>1, <2>2, <2>3, KeepsQuietly
<1>5. CASE PickUntake(w)
  <2>1. Leaves(w, NoJob) /\ UNCHANGED <<blob, delayed, lease>> /\ cur[w] \in Jobs
    BY <1>0, <1>5, LeavesHow DEF PickUntake, store, zsets, EmptyHanded
  <2>2. queue' = [queue EXCEPT ![TypeOf[cur[w]]] = RPush(@, cur[w])] BY <1>5 DEF PickUntake
  <2>3. TypeOf \in [Jobs -> TypeSet] /\ queue[TypeOf[cur[w]]] \in Seq(Jobs)
    BY <1>0, <2>1, JobsAssumption
  <2>4. Elements(RPush(queue[TypeOf[cur[w]]], cur[w])) = Elements(queue[TypeOf[cur[w]]]) \cup {cur[w]}
    BY <2>1, <2>3, RPushElements
  <2>5. \A i \in Jobs : i = cur[w] \/ Queued(i) => Queued(i)'
    BY <1>0, <2>1, <2>2, <2>3, <2>4 DEF Queued
  <2> QED BY <1>0, <2>1, <2>5, KeepsPlacingLast
<1>6. CASE PickTimeout(w)
  <2>1. Leaves(w, NoJob) /\ pc[w] \notin Placing /\ UNCHANGED <<blob, queue, delayed, lease>>
    BY <1>0, <1>6, LeavesHow DEF PickTimeout, Placing, redis, store, zsets
  <2> QED BY <1>0, <2>1, KeepsLeaving
<1>7. CASE PickGet(w)
  <2>1. pc[w] = "pick_get" /\ UNCHANGED <<blob, queue, delayed, lease>>
    BY <1>7 DEF PickGet, redis, store, zsets
  <2>2. CASE (Missing(cur[w]) \/ Finished(cur[w])) /\ Goto(w, "pick_drop")
    <3>1. Moves(w, "pick_drop", cur[w], copy[w], todo[w]) /\ ~Live(cur[w])
      BY <1>0, <2>2, GotoMoves DEF Live
    <3>2. InOrder(w, "pick_drop", cur[w], copy[w], todo[w]) /\ "pick_drop" \notin Leasing \cup Unleasing
      BY PlainOrder DEF Leasing, Unleasing, Burying, Cancelling, Resting, EmptyHanded
    <3> QED BY <1>0, <2>1, <3>1, <3>2, KeepsQuietly
  <2>3. ASSUME NEW b, Hold(w, "pick_set", cur[w], b) PROVE Keeps(w)
    <3>1. Moves(w, "pick_set", cur[w], b, todo[w]) BY <1>0, <2>3, HoldMoves
    <3>2. /\ InOrder(w, "pick_set", cur[w], b, todo[w]) /\ "pick_set" \notin Leasing \cup Unleasing
          /\ Taken(cur[w], "pick_set", cur[w])
      BY PlainOrder DEF Leasing, Unleasing, Burying, Cancelling, Resting, EmptyHanded, Placing, Taken
    <3> QED BY <1>0, <2>1, <3>1, <3>2, KeepsQuietly
  <2> QED BY <1>7, <2>2, <2>3 DEF PickGet
<1>8. CASE PickDrop(w)
  <2>1. Leaves(w, NoJob) /\ pc[w] \notin Placing /\ UNCHANGED <<blob, queue, delayed, lease>>
    BY <1>0, <1>8, LeavesHow DEF PickDrop, Placing, store, zsets
  <2> QED BY <1>0, <2>1, KeepsLeaving
<1>9. CASE PickSet(w)
  <2>1. /\ cur[w] \in Jobs /\ UNCHANGED <<queue, delayed, lease>>
        /\ blob' = [blob EXCEPT ![cur[w]] = copy[w]]
    BY <1>0, <1>9 DEF PickSet, zsets, Set, EmptyHanded
  <2>2. PICK l : l = IF Visibility THEN "pick_lease" ELSE "trace_get" OBVIOUS
  <2>3. Moves(w, l, cur[w], Absent, todo[w]) BY <1>0, <1>9, <2>2, HoldMoves DEF PickSet
  <2>4. /\ InOrder(w, l, cur[w], Absent, todo[w]) /\ Taken(cur[w], l, cur[w]) /\ l \notin Unleasing
        /\ l \in Leasing => ~Visibility
    BY <2>2, PlainOrder DEF Leasing, Unleasing, Burying, Cancelling, Resting, EmptyHanded, Placing, Taken
  <2> QED BY <1>0, <2>1, <2>3, <2>4, KeepsWriting
<1>10. CASE PickLease(w)
  <2>1. /\ cur[w] \in Jobs /\ UNCHANGED <<blob, queue, delayed>> /\ lease' = [lease EXCEPT ![cur[w]] = "held"]
        /\ pc[w] = "pick_lease"
    BY <1>0, <1>10 DEF PickLease, store, EmptyHanded
  <2>2. Moves(w, "trace_get", cur[w], copy[w], todo[w]) BY <1>0, <1>10, GotoMoves DEF PickLease
  <2>3. /\ InOrder(w, "trace_get", cur[w], copy[w], todo[w]) /\ Taken(cur[w], "trace_get", cur[w])
        /\ "trace_get" \notin Unleasing
    BY PlainOrder DEF Unleasing, Burying, Cancelling, Resting, EmptyHanded, Placing, Taken
  <2>4. lease'[cur[w]] = "held" /\ \A i \in Jobs : lease'[i] \in {lease[i], "held"} BY <1>0, <2>1
  <2>5. LeasesKept(w, "trace_get", cur[w]) BY <2>4 DEF LeasesKept
  <2>6. ASSUME NEW i \in Jobs PROVE Stays(w, i, "trace_get", cur[w])
    <3>1. (Queued(i)' <=> Queued(i)) /\ (Live(i)' <=> Live(i))
      BY <2>1 DEF Queued, Live, Missing, Finished
    <3>2. delayed'[i] = delayed[i] /\ lease'[i] \in {lease[i], "held"} BY <2>1, <2>4
    <3> QED BY <2>3, <3>1, <3>2 DEF Stays, Taken
  <2> QED BY <2>2, <2>3, <2>5, <2>6 DEF Keeps
<1> QED BY <1>2, <1>3, <1>4, <1>5, <1>6, <1>7, <1>8, <1>9, <1>10

LEMMA KeepsRunning ==
    ASSUME IInv, NEW w \in Workers,
           \/ TraceGet(w) \/ TraceSet(w) \/ Handle(w)
           \/ CompleteGet(w) \/ CompleteSet(w) \/ CompleteUntrack(w) \/ CompleteUnlease(w)
    PROVE  Keeps(w)
<1>0. /\ w \in Actors /\ blob \in [Jobs -> Blob]
      /\ pc[w] \notin EmptyHanded => cur[w] \in Jobs
      /\ copy[w] \in Blob /\ (pc[w] = "complete_set" => copy[w].status = "completed")
  BY DEF Actors, IInv, LocalOK, RedisOK, StoreOK
\* From one command of the run to the next.
<1>1. ASSUME NEW l \in {"run", "trace_set", "complete_get", "dead_get", "fail_get", "complete_set"},
             NEW b, Hold(w, l, cur[w], b) \/ Goto(w, l), pc[w] \in {"trace_get", "run", "complete_get"},
             UNCHANGED <<blob, queue, delayed, lease>>
      PROVE  Keeps(w)
  <2>1. \E c : Moves(w, l, cur[w], c, todo[w]) BY <1>0, <1>1, GotoMoves, HoldMoves
  <2>2. PICK c : Moves(w, l, cur[w], c, todo[w]) BY <2>1
  <2>3. InOrder(w, l, cur[w], c, todo[w])
    BY <1>1, PlainOrder DEF Burying, Cancelling, Resting, EmptyHanded
  <2>4. /\ Taken(cur[w], l, cur[w]) /\ l \notin Unleasing
        /\ l \in Leasing => pc[w] \in Leasing
    BY <1>1 DEF Leasing, Unleasing, Placing, Taken
  <2> QED BY <1>0, <1>1, <2>2, <2>3, <2>4, KeepsQuietly
<1>2. CASE TraceGet(w) BY <1>1, <1>2 DEF TraceGet, redis, store, zsets
<1>3. CASE Handle(w) BY <1>1, <1>3 DEF Handle, redis, store, zsets
<1>4. CASE CompleteGet(w) BY <1>1, <1>4 DEF CompleteGet, redis, store, zsets
<1>5. CASE TraceSet(w)
  <2>1. /\ cur[w] \in Jobs /\ UNCHANGED <<queue, delayed, lease>> /\ pc[w] = "trace_set"
        /\ blob' = [blob EXCEPT ![cur[w]] = copy[w]]
    BY <1>0, <1>5 DEF TraceSet, zsets, Set, EmptyHanded
  <2>2. Moves(w, "run", cur[w], Absent, todo[w]) BY <1>0, <1>5, HoldMoves DEF TraceSet
  <2>3. /\ InOrder(w, "run", cur[w], Absent, todo[w]) /\ Taken(cur[w], "run", cur[w])
        /\ "run" \notin Unleasing /\ pc[w] \in Leasing
    BY <2>1, PlainOrder DEF Leasing, Unleasing, Burying, Cancelling, Resting, EmptyHanded, Placing, Taken
  <2> QED BY <1>0, <2>1, <2>2, <2>3, KeepsWriting
<1>6. CASE CompleteSet(w)
  <2>1. /\ cur[w] \in Jobs /\ UNCHANGED <<queue, delayed, lease>> /\ pc[w] = "complete_set"
        /\ blob' = [blob EXCEPT ![cur[w]] = copy[w]]
    BY <1>0, <1>6 DEF CompleteSet, zsets, SetEx, EmptyHanded
  <2>2. Moves(w, "complete_untrack", cur[w], copy[w], todo[w])
    BY <1>0, <1>6, GotoMoves DEF CompleteSet
  <2>3. /\ InOrder(w, "complete_untrack", cur[w], copy[w], todo[w])
        /\ copy[w].status \in Terminal /\ pc[w] \in Leasing
    BY <1>0, <2>1, PlainOrder DEF Leasing, Burying, Cancelling, Resting, EmptyHanded, Terminal
  <2> QED BY <1>0, <2>1, <2>2, <2>3, KeepsWriting
<1>7. CASE CompleteUntrack(w)
  <2>1. pc[w] = "complete_untrack" /\ UNCHANGED <<blob, queue, delayed, lease>>
    BY <1>7 DEF CompleteUntrack, store, zsets
  <2>2. Moves(w, "complete_unlease", cur[w], copy[w], todo[w])
    BY <1>0, <1>7, GotoMoves DEF CompleteUntrack
  <2>3. /\ InOrder(w, "complete_unlease", cur[w], copy[w], todo[w])
        /\ pc[w] \in Leasing /\ pc[w] \in Unleasing /\ pc[w] \notin Placing
    BY <2>1, PlainOrder DEF Leasing, Unleasing, Burying, Cancelling, Resting, EmptyHanded, Placing
  <2> QED BY <1>0, <2>1, <2>2, <2>3, KeepsQuietly
<1>8. CASE CompleteUnlease(w)
  <2>1. /\ Leaves(w, NoJob) /\ UNCHANGED <<blob, queue, delayed>> /\ pc[w] \in Unleasing
        /\ lease' = [lease EXCEPT ![cur[w]] = "none"] \/ lease' = lease
    BY <1>0, <1>8, LeavesHow DEF CompleteUnlease, ClearLease, store, Unleasing
  <2>2. PICK l \in Free : \E b, s : Moves(w, l, NoJob, b, s) /\ Rests(w, l, NoJob)
    BY <2>1 DEF Leaves
  <2>3. PICK b, s : Moves(w, l, NoJob, b, s) /\ Rests(w, l, NoJob) BY <2>2
  <2>4. InOrder(w, l, NoJob, b, s) /\ l \notin Leasing \cup Unleasing
    BY <2>3, FreeInOrder, FreePlaces
  <2> QED BY <1>0, <2>1, <2>3, <2>4, KeepsUnleasing
<1> QED BY <1>2, <1>3, <1>4, <1>5, <1>6, <1>7, <1>8

LEMMA KeepsFailing ==
    ASSUME IInv, NEW w \in Workers,
           \/ FailGet(w) \/ FailUntrack(w) \/ FailUnlease(w) \/ FailSet(w) \/ FailPark(w)
           \/ FailPush(w) \/ FailDlq(w) \/ FailIndex(w) \/ DropUntrack(w) \/ DropUnlease(w)
    PROVE  Keeps(w)
<1>0. /\ w \in Actors /\ blob \in [Jobs -> Blob] /\ delayed \in [Jobs -> {"none", "parked", "due"}]
      /\ pc[w] \notin EmptyHanded => cur[w] \in Jobs
      /\ copy[w] \in Blob
  BY DEF Actors, IInv, LocalOK, RedisOK, StoreOK, SetsOK
<1>1. CASE FailGet(w)
  <2>1. pc[w] = "fail_get" /\ UNCHANGED <<blob, queue, delayed, lease>>
    BY <1>1 DEF FailGet, redis, store, zsets
  <2>2. CASE Missing(cur[w]) /\ FailThrows(w)
    <3>1. PICK y : Leaves(w, y) BY <1>0, <2>2, LeavesHow
    <3> QED BY <1>0, <2>1, <2>2, <3>1, KeepsLeaving DEF Live
  <2>3. ASSUME NEW b, Finished(cur[w]), Hold(w, "drop_untrack", cur[w], b) PROVE Keeps(w)
    <3>1. Moves(w, "drop_untrack", cur[w], b, todo[w]) /\ ~Live(cur[w])
      BY <1>0, <2>3, HoldMoves DEF Live
    <3>2. InOrder(w, "drop_untrack", cur[w], b, todo[w]) /\ "drop_untrack" \notin Leasing
      BY PlainOrder DEF Leasing, Burying, Cancelling, Resting, EmptyHanded
    <3> QED BY <1>0, <2>1, <3>1, <3>2, KeepsQuietly
  <2>4. ASSUME NEW b, Hold(w, "fail_untrack", cur[w], b) PROVE Keeps(w)
    <3>1. Moves(w, "fail_untrack", cur[w], b, todo[w]) BY <1>0, <2>4, HoldMoves
    <3>2. /\ InOrder(w, "fail_untrack", cur[w], b, todo[w]) /\ "fail_untrack" \notin Unleasing
          /\ pc[w] \in Leasing /\ Taken(cur[w], "fail_untrack", cur[w])
      BY <2>1, PlainOrder DEF Leasing, Unleasing, Burying, Cancelling, Resting, EmptyHanded, Placing, Taken
    <3> QED BY <1>0, <2>1, <3>1, <3>2, KeepsQuietly
  <2> QED BY <1>1, <2>2, <2>3, <2>4 DEF FailGet
<1>2. CASE FailUntrack(w)
  <2>1. pc[w] = "fail_untrack" /\ UNCHANGED <<blob, queue, delayed, lease>>
    BY <1>2 DEF FailUntrack, store, zsets
  <2>2. Moves(w, "fail_unlease", cur[w], copy[w], todo[w]) BY <1>0, <1>2, GotoMoves DEF FailUntrack
  <2>3. /\ InOrder(w, "fail_unlease", cur[w], copy[w], todo[w]) /\ "fail_unlease" \notin Unleasing
        /\ pc[w] \in Leasing /\ Taken(cur[w], "fail_unlease", cur[w])
    BY <2>1, PlainOrder DEF Leasing, Unleasing, Burying, Cancelling, Resting, EmptyHanded, Placing, Taken
  <2> QED BY <1>0, <2>1, <2>2, <2>3, KeepsQuietly
<1>3. CASE FailUnlease(w)
  <2>1. /\ UNCHANGED <<blob, queue, delayed>> /\ pc[w] = "fail_unlease"
        /\ lease' = [lease EXCEPT ![cur[w]] = "none"] \/ lease' = lease
    BY <1>3 DEF FailUnlease, ClearLease, store
  <2>2. Moves(w, "fail_set", cur[w], copy[w], todo[w]) BY <1>0, <1>3, GotoMoves DEF FailUnlease
  <2>3. /\ InOrder(w, "fail_set", cur[w], copy[w], todo[w]) /\ "fail_set" \notin Leasing \cup Unleasing
        /\ pc[w] \in Leasing /\ Taken(cur[w], "fail_set", cur[w])
    BY <2>1, PlainOrder DEF Leasing, Unleasing, Burying, Cancelling, Resting, EmptyHanded, Placing, Taken
  <2> QED BY <1>0, <2>1, <2>2, <2>3, KeepsUnleasing
<1>4. CASE FailSet(w)
  <2>1. /\ cur[w] \in Jobs /\ UNCHANGED <<queue, delayed, lease>>
        /\ blob' = [blob EXCEPT ![cur[w]] = copy[w]]
    BY <1>0, <1>4 DEF FailSet, zsets, Set, EmptyHanded
  <2>2. PICK l : l = IF copy[w].status = "dead" THEN "fail_dlq"
                     ELSE IF Backoff THEN "fail_park" ELSE "fail_push"
    OBVIOUS
  <2>3. Moves(w, l, cur[w], copy[w], todo[w]) BY <1>0, <1>4, <2>2, GotoMoves DEF FailSet
  <2>4. /\ InOrder(w, l, cur[w], copy[w], todo[w]) /\ l \notin Leasing \cup Unleasing
        /\ Taken(cur[w], l, cur[w]) \/ copy[w].status \in Terminal
    BY <2>2, PlainOrder DEF Leasing, Unleasing, Burying, Cancelling, Resting, EmptyHanded, Placing, Taken, Terminal
  <2> QED BY <1>0, <2>1, <2>3, <2>4, KeepsWriting
<1>5. CASE FailPark(w)
  <2>1. Leaves(w, NoJob) /\ UNCHANGED <<blob, queue, lease>>
    BY <1>0, <1>5, LeavesHow DEF FailPark, store
  <2>2. delayed' = [delayed EXCEPT ![cur[w]] = "parked"] BY <1>5 DEF FailPark
  <2>3. \A i \in Jobs : /\ Queued(i) => Queued(i)'
                        /\ delayed[i] # "none" => delayed'[i] # "none"
                        /\ cur[w] = i => delayed'[i] # "none"
    BY <1>0, <2>1, <2>2 DEF Queued
  <2> QED BY <1>0, <2>1, <2>3, KeepsPlacingLast
<1>6. CASE FailPush(w)
  <2>1. cur[w] \in Jobs /\ Leaves(w, NoJob) /\ Enqueue(cur[w]) /\ UNCHANGED <<blob, delayed, lease>>
    BY <1>0, <1>6, LeavesHow DEF FailPush, EmptyHanded, store, zsets
  <2>2. \A i \in Jobs : i = cur[w] \/ Queued(i) => Queued(i)' BY <1>0, <2>1, EnqueueKeeps
  <2> QED BY <1>0, <2>1, <2>2, KeepsPlacingLast
<1>7. CASE FailDlq(w)
  <2>1. pc[w] \notin Placing /\ UNCHANGED <<blob, queue, delayed, lease>>
    BY <1>7 DEF FailDlq, store, zsets, Placing
  <2>2. Moves(w, "fail_index", cur[w], copy[w], todo[w]) BY <1>0, <1>7, GotoMoves DEF FailDlq
  <2>3. InOrder(w, "fail_index", cur[w], copy[w], todo[w]) /\ "fail_index" \notin Leasing \cup Unleasing
    BY PlainOrder DEF Leasing, Unleasing, Burying, Cancelling, Resting, EmptyHanded
  <2> QED BY <1>0, <2>1, <2>2, <2>3, KeepsQuietly
<1>8. CASE FailIndex(w)
  <2>1. Leaves(w, NoJob) /\ pc[w] \notin Placing /\ UNCHANGED <<blob, queue, delayed, lease>>
    BY <1>0, <1>8, LeavesHow DEF FailIndex, Placing, store, zsets
  <2> QED BY <1>0, <2>1, KeepsLeaving
<1>9. CASE DropUntrack(w)
  <2>1. pc[w] = "drop_untrack" /\ UNCHANGED <<blob, queue, delayed, lease>>
    BY <1>9 DEF DropUntrack, store, zsets
  <2>2. Moves(w, "drop_unlease", cur[w], copy[w], todo[w]) BY <1>0, <1>9, GotoMoves DEF DropUntrack
  <2>3. /\ InOrder(w, "drop_unlease", cur[w], copy[w], todo[w])
        /\ "drop_unlease" \notin Leasing /\ pc[w] \in Unleasing /\ pc[w] \notin Placing
    BY <2>1, PlainOrder DEF Leasing, Unleasing, Burying, Cancelling, Resting, EmptyHanded, Placing
  <2> QED BY <1>0, <2>1, <2>2, <2>3, KeepsQuietly
<1>10. CASE DropUnlease(w)
  <2>1. /\ Leaves(w, NoJob) /\ UNCHANGED <<blob, queue, delayed>> /\ pc[w] \in Unleasing
        /\ lease' = [lease EXCEPT ![cur[w]] = "none"] \/ lease' = lease
    BY <1>0, <1>10, LeavesHow DEF DropUnlease, ClearLease, store, Unleasing
  <2>2. PICK l \in Free : \E b, s : Moves(w, l, NoJob, b, s) /\ Rests(w, l, NoJob)
    BY <2>1 DEF Leaves
  <2>3. PICK b, s : Moves(w, l, NoJob, b, s) /\ Rests(w, l, NoJob) BY <2>2
  <2>4. InOrder(w, l, NoJob, b, s) /\ l \notin Leasing \cup Unleasing
    BY <2>3, FreeInOrder, FreePlaces
  <2> QED BY <1>0, <2>1, <2>3, <2>4, KeepsUnleasing
<1> QED BY <1>1, <1>2, <1>3, <1>4, <1>5, <1>6, <1>7, <1>8, <1>9, <1>10

LEMMA KeepsBurying ==
    ASSUME IInv, InStep, NEW w \in Workers,
           \/ DeadGet(w) \/ DeadUntrack(w) \/ DeadUnlease(w) \/ DeadPush(w) \/ DeadIndex(w)
           \/ DeadSet(w)
    PROVE  Keeps(w)
<1>0. /\ w \in Actors /\ blob \in [Jobs -> Blob]
      /\ pc[w] \notin EmptyHanded => cur[w] \in Jobs
      /\ copy[w] \in Blob
  BY DEF Actors, IInv, LocalOK, RedisOK, StoreOK
<1>1. CASE DeadGet(w)
  <2>1. pc[w] = "dead_get" /\ UNCHANGED <<blob, queue, delayed, lease>> /\ cur[w] \in Jobs
    BY <1>0, <1>1 DEF DeadGet, redis, store, zsets, EmptyHanded
  <2>2. CASE Missing(cur[w]) /\ Return(w)
    <3>1. Leaves(w, NoJob) BY <1>0, <2>2, LeavesHow
    <3> QED BY <1>0, <2>1, <2>2, <3>1, KeepsLeaving DEF Live
  <2>3. CASE Hold(w, "dead_untrack", cur[w], [blob[cur[w]] EXCEPT !.status = "dead"])
    <3>1. PICK b : b = [blob[cur[w]] EXCEPT !.status = "dead"] OBVIOUS
    <3>2. Moves(w, "dead_untrack", cur[w], b, todo[w]) BY <1>0, <2>3, <3>1, HoldMoves
    <3>3. b.status = "dead" BY <1>0, <2>1, <3>1 DEF Blob
    <3>4. InOrder(w, "dead_untrack", cur[w], b, todo[w])
      BY <3>3 DEF InOrder, Cancelling, Resting, EmptyHanded
    <3>5. "dead_untrack" \notin Unleasing /\ pc[w] \in Leasing /\ Taken(cur[w], "dead_untrack", cur[w])
      BY <2>1 DEF Leasing, Unleasing, Placing, Taken
    <3> QED BY <1>0, <2>1, <3>2, <3>4, <3>5, KeepsQuietly
  <2> QED BY <1>1, <2>2, <2>3 DEF DeadGet
\* From one command of dead_letter() to the next.
<1>2. ASSUME NEW l \in {"dead_unlease", "dead_push", "dead_index", "dead_set"}, pc[w] \in Burying, Goto(w, l)
      PROVE  /\ Moves(w, l, cur[w], copy[w], todo[w])
             /\ InOrder(w, l, cur[w], copy[w], todo[w])
             /\ l \notin Unleasing /\ Taken(cur[w], l, cur[w])
             /\ l \in Leasing => l = "dead_unlease"
  BY <1>0, <1>2, GotoMoves DEF InOrder, Cancelling, Resting, EmptyHanded, Unleasing, Leasing, Placing, Taken
<1>3. CASE DeadUntrack(w) \/ DeadPush(w) \/ DeadIndex(w)
  <2>1. UNCHANGED <<blob, queue, delayed, lease>>
    BY <1>3 DEF DeadUntrack, DeadPush, DeadIndex, store, zsets
  <2>2. /\ pc[w] \in Burying
        /\ \/ pc[w] \in Leasing /\ Goto(w, "dead_unlease")
           \/ Goto(w, "dead_index") \/ Goto(w, "dead_set")
    BY <1>3 DEF DeadUntrack, DeadPush, DeadIndex, Burying, Leasing
  <2>3. PICK l \in {"dead_unlease", "dead_index", "dead_set"} :
            Goto(w, l) /\ (l = "dead_unlease" => pc[w] \in Leasing)
    BY <2>2
  <2> QED BY <1>0, <1>2, <2>1, <2>2, <2>3, KeepsQuietly
<1>4. CASE DeadUnlease(w)
  <2>1. /\ UNCHANGED <<blob, queue, delayed>> /\ pc[w] \in Burying /\ pc[w] \in Leasing
        /\ lease' = [lease EXCEPT ![cur[w]] = "none"] \/ lease' = lease
        /\ Goto(w, "dead_push")
    BY <1>4 DEF DeadUnlease, ClearLease, store, Burying, Leasing
  <2>2. "dead_push" \notin Leasing BY DEF Leasing
  <2> QED BY <1>0, <1>2, <2>1, <2>2, KeepsUnleasing
<1>5. CASE DeadSet(w)
  <2>1. /\ cur[w] \in Jobs /\ UNCHANGED <<queue, delayed, lease>> /\ pc[w] = "dead_set"
        /\ blob' = [blob EXCEPT ![cur[w]] = copy[w]] /\ Leaves(w, NoJob)
    BY <1>0, <1>5, LeavesHow DEF DeadSet, zsets, Set, EmptyHanded
  <2>2. copy[w].status \in Terminal BY <1>0, <2>1 DEF InStep, Burying, Terminal
  <2>3. PICK l \in Free : \E b, s : Moves(w, l, NoJob, b, s) /\ Rests(w, l, NoJob)
    BY <2>1 DEF Leaves
  <2>4. PICK b, s : Moves(w, l, NoJob, b, s) /\ Rests(w, l, NoJob) BY <2>3
  <2>5. InOrder(w, l, NoJob, b, s) /\ l \notin Leasing \cup Unleasing
    BY <2>4, FreeInOrder, FreePlaces
  <2> QED BY <1>0, <2>1, <2>2, <2>4, <2>5, KeepsWriting
<1> QED BY <1>1, <1>3, <1>4, <1>5

LEMMA KeepsRecovering ==
    ASSUME IInv, NEW w \in Workers,
           \/ RecoverScan(w) \/ RecoverGet(w) \/ RecoverSet(w) \/ RecoverPush(w) \/ RecoverLrem(w)
           \/ Restart(w)
    PROVE  Keeps(w)
<1>0. /\ w \in Actors /\ blob \in [Jobs -> Blob]
      /\ pc[w] \notin EmptyHanded => cur[w] \in Jobs
      /\ copy[w] \in Blob
  BY DEF Actors, IInv, LocalOK, RedisOK, StoreOK
<1>1. CASE RecoverScan(w)
  <2>1. UNCHANGED <<blob, queue, delayed, lease>> /\ pc[w] \notin Placing
    BY <1>1 DEF RecoverScan, redis, store, zsets, Placing
  <2>2. PICK l : l = IF proc[w] = <<>> THEN LoopHead ELSE "recover_get" OBVIOUS
  <2>3. Moves(w, l, cur[w], copy[w], proc[w]) /\ l \in Free /\ Rests(w, l, cur[w])
    BY <1>0, <1>1, <2>2, FreePlaces DEF RecoverScan, Moves, IInv, LocalOK, Rests, Resting, EmptyHanded
  <2>4. Leaves(w, cur[w]) BY <2>3 DEF Leaves
  <2> QED BY <1>0, <2>1, <2>4, KeepsLeaving
<1>2. CASE RecoverGet(w)
  <2>1. UNCHANGED <<blob, queue, delayed, lease>> /\ pc[w] \notin Placing
    BY <1>2 DEF RecoverGet, redis, store, zsets, Placing
  <2>2. CASE Advance(w, "recover_get", LoopHead)
    <3>1. Leaves(w, NoJob) BY <1>0, <2>2, LeavesHow, FreePlaces
    <3> QED BY <1>0, <2>1, <3>1, KeepsLeaving
  <2>3. ASSUME NEW l \in {"recover_lrem", "recover_set"}, NEW b, Hold(w, l, Next1(w), b)
        PROVE  Keeps(w)
    <3>1. Moves(w, l, Next1(w), b, todo[w]) BY <1>0, <2>3, HoldMoves
    <3>2. InOrder(w, l, Next1(w), b, todo[w]) /\ l \notin Leasing \cup Unleasing
      BY <2>3, PlainOrder DEF Leasing, Unleasing, Burying, Cancelling, Resting, EmptyHanded
    <3> QED BY <1>0, <2>1, <3>1, <3>2, KeepsQuietly
  <2> QED BY <1>2, <2>2, <2>3 DEF RecoverGet
<1>3. CASE RecoverSet(w)
  <2>1. /\ cur[w] \in Jobs /\ UNCHANGED <<queue, delayed, lease>>
        /\ blob' = [blob EXCEPT ![cur[w]] = copy[w]]
    BY <1>0, <1>3 DEF RecoverSet, zsets, Set, EmptyHanded
  <2>2. Moves(w, "recover_push", cur[w], copy[w], todo[w]) BY <1>0, <1>3, GotoMoves DEF RecoverSet
  <2>3. /\ InOrder(w, "recover_push", cur[w], copy[w], todo[w])
        /\ "recover_push" \notin Leasing \cup Unleasing /\ Taken(cur[w], "recover_push", cur[w])
    BY PlainOrder DEF Leasing, Unleasing, Burying, Cancelling, Resting, EmptyHanded, Placing, Taken
  <2> QED BY <1>0, <2>1, <2>2, <2>3, KeepsWriting
<1>4. CASE RecoverPush(w)
  <2>1. cur[w] \in Jobs /\ Enqueue(cur[w]) /\ UNCHANGED <<blob, delayed, lease>>
    BY <1>0, <1>4 DEF RecoverPush, EmptyHanded, store, zsets
  <2>2. Moves(w, "recover_lrem", cur[w], copy[w], todo[w]) BY <1>0, <1>4, GotoMoves DEF RecoverPush
  <2>3. InOrder(w, "recover_lrem", cur[w], copy[w], todo[w]) /\ "recover_lrem" \notin Leasing \cup Unleasing
    BY PlainOrder DEF Leasing, Unleasing, Burying, Cancelling, Resting, EmptyHanded
  <2>4. \A i \in Jobs : i = cur[w] \/ Queued(i) => Queued(i)' BY <1>0, <2>1, EnqueueKeeps
  <2> QED BY <1>0, <2>1, <2>2, <2>3, <2>4, KeepsPlacing
<1>5. CASE RecoverLrem(w)
  <2>1. Leaves(w, NoJob) /\ pc[w] \notin Placing /\ UNCHANGED <<blob, queue, delayed, lease>>
    BY <1>0, <1>5, LeavesHow, FreePlaces DEF RecoverLrem, Placing, store, zsets
  <2> QED BY <1>0, <2>1, KeepsLeaving
<1>6. CASE Restart(w)
  <2>1. Leaves(w, cur[w]) /\ pc[w] \notin Placing /\ UNCHANGED <<blob, queue, delayed, lease>>
    BY <1>0, <1>6, LeavesHow, FreePlaces DEF Restart, Placing, Resting, EmptyHanded, redis, store, zsets
  <2> QED BY <1>0, <2>1, KeepsLeaving
<1> QED BY <1>1, <1>2, <1>3, <1>4, <1>5, <1>6

LEMMA KeepsSubmitting ==
    ASSUME IInv, NEW c \in Clients,
           Submit(c) \/ SubmitSet(c) \/ SubmitPush(c) \/ SubmitIndex(c)
    PROVE  Keeps(c)
<1>0. /\ c \in Actors /\ (pc[c] \notin EmptyHanded => cur[c] \in Jobs) /\ copy[c] \in Blob
  BY DEF Actors, IInv, LocalOK
<1>1. CASE Submit(c)
  <2>1. UNCHANGED <<blob, queue, delayed, lease>> /\ pc[c] \notin Placing
    BY <1>1 DEF Submit, redis, store, zsets, Placing
  <2>2. PICK j \in Jobs \ born : Hold(c, "submit_set", j, Fresh) BY <1>1 DEF Submit
  <2>3. Moves(c, "submit_set", j, Fresh, todo[c]) BY <1>0, <2>2, HoldMoves
  <2>4. InOrder(c, "submit_set", j, Fresh, todo[c]) /\ "submit_set" \notin Leasing \cup Unleasing
    BY PlainOrder DEF Leasing, Unleasing, Burying, Cancelling, Resting, EmptyHanded
  <2> QED BY <1>0, <2>1, <2>3, <2>4, KeepsQuietly
<1>2. CASE SubmitSet(c)
  <2>1. /\ cur[c] \in Jobs /\ UNCHANGED <<queue, delayed, lease>>
        /\ blob' = [blob EXCEPT ![cur[c]] = copy[c]]
    BY <1>0, <1>2 DEF SubmitSet, zsets, Set, EmptyHanded
  <2>2. Moves(c, "submit_push", cur[c], copy[c], todo[c]) BY <1>0, <1>2, GotoMoves DEF SubmitSet
  <2>3. /\ InOrder(c, "submit_push", cur[c], copy[c], todo[c])
        /\ "submit_push" \notin Leasing \cup Unleasing /\ Taken(cur[c], "submit_push", cur[c])
    BY PlainOrder DEF Leasing, Unleasing, Burying, Cancelling, Resting, EmptyHanded, Placing, Taken
  <2> QED BY <1>0, <2>1, <2>2, <2>3, KeepsWriting
<1>3. CASE SubmitPush(c)
  <2>1. cur[c] \in Jobs /\ Enqueue(cur[c]) /\ UNCHANGED <<blob, delayed, lease>>
    BY <1>0, <1>3 DEF SubmitPush, EmptyHanded, store, zsets
  <2>2. Moves(c, "submit_index", cur[c], copy[c], todo[c]) BY <1>0, <1>3, GotoMoves DEF SubmitPush
  <2>3. InOrder(c, "submit_index", cur[c], copy[c], todo[c]) /\ "submit_index" \notin Leasing \cup Unleasing
    BY PlainOrder DEF Leasing, Unleasing, Burying, Cancelling, Resting, EmptyHanded
  <2>4. \A i \in Jobs : i = cur[c] \/ Queued(i) => Queued(i)' BY <1>0, <2>1, EnqueueKeeps
  <2> QED BY <1>0, <2>1, <2>2, <2>3, <2>4, KeepsPlacing
<1>4. CASE SubmitIndex(c)
  <2>1. UNCHANGED <<blob, queue, delayed, lease>> /\ pc[c] \notin Placing
    BY <1>4 DEF SubmitIndex, store, zsets, Placing
  <2>2. CASE Return(c)
    <3>1. Leaves(c, NoJob) BY <1>0, <2>2, LeavesHow
    <3> QED BY <1>0, <2>1, <3>1, KeepsLeaving
  <2>3. CASE Goto(c, "submit_index_type")
    <3>1. Moves(c, "submit_index_type", cur[c], copy[c], todo[c]) BY <1>0, <2>3, GotoMoves
    <3>2. /\ InOrder(c, "submit_index_type", cur[c], copy[c], todo[c])
          /\ "submit_index_type" \notin Leasing \cup Unleasing
      BY PlainOrder DEF Leasing, Unleasing, Burying, Cancelling, Resting, EmptyHanded
    <3> QED BY <1>0, <2>1, <3>1, <3>2, KeepsQuietly
  <2> QED BY <1>4, <2>2, <2>3 DEF SubmitIndex
<1> QED BY <1>1, <1>2, <1>3, <1>4

LEMMA KeepsRequeueing ==
    ASSUME IInv, NEW c \in Clients,
           Requeue(c) \/ RequeueLrem(c) \/ RequeueSrem(c) \/ RequeueSet(c) \/ RequeuePush(c)
    PROVE  Keeps(c)
<1>0. /\ c \in Actors /\ (pc[c] \notin EmptyHanded => cur[c] \in Jobs) /\ copy[c] \in Blob
  BY DEF Actors, IInv, LocalOK
<1>1. ASSUME NEW l \in {"requeue_lrem", "requeue_srem", "requeue_set"}, NEW y, NEW b,
             Moves(c, l, y, b, todo[c]), pc[c] \notin Placing, UNCHANGED <<blob, queue, delayed, lease>>
      PROVE  Keeps(c)
  <2>1. InOrder(c, l, y, b, todo[c]) /\ l \notin Leasing \cup Unleasing
    BY <1>1, PlainOrder DEF Leasing, Unleasing, Burying, Cancelling, Resting, EmptyHanded
  <2> QED BY <1>0, <1>1, <2>1, KeepsQuietly
<1>2. CASE Requeue(c)
  <2>1. pc[c] \notin Placing /\ UNCHANGED <<blob, queue, delayed, lease>>
    BY <1>2 DEF Requeue, redis, store, zsets, Placing
  <2>2. PICK j \in born : Hold(c, "requeue_lrem", j, [blob[j] EXCEPT !.status = "pending", !.retries = 0])
    BY <1>2 DEF Requeue
  <2>3. PICK b : b = [blob[j] EXCEPT !.status = "pending", !.retries = 0] OBVIOUS
  <2>4. Moves(c, "requeue_lrem", j, b, todo[c]) BY <1>0, <2>2, <2>3, HoldMoves
  <2> QED BY <1>1, <2>1, <2>4
<1>3. CASE RequeueLrem(c) \/ RequeueSrem(c)
  <2>1. pc[c] \notin Placing /\ UNCHANGED <<blob, queue, delayed, lease>>
    BY <1>3 DEF RequeueLrem, RequeueSrem, store, zsets, Placing
  <2>2. PICK l \in {"requeue_srem", "requeue_set"} : Goto(c, l) BY <1>3 DEF RequeueLrem, RequeueSrem
  <2>3. Moves(c, l, cur[c], copy[c], todo[c]) BY <1>0, <2>2, GotoMoves
  <2> QED BY <1>1, <2>1, <2>2, <2>3
<1>4. CASE RequeueSet(c)
  <2>1. /\ cur[c] \in Jobs /\ UNCHANGED <<queue, delayed, lease>>
        /\ blob' = [blob EXCEPT ![cur[c]] = copy[c]]
    BY <1>0, <1>4 DEF RequeueSet, zsets, Set, EmptyHanded
  <2>2. Moves(c, "requeue_push", cur[c], copy[c], todo[c]) BY <1>0, <1>4, GotoMoves DEF RequeueSet
  <2>3. /\ InOrder(c, "requeue_push", cur[c], copy[c], todo[c])
        /\ "requeue_push" \notin Leasing \cup Unleasing /\ Taken(cur[c], "requeue_push", cur[c])
    BY PlainOrder DEF Leasing, Unleasing, Burying, Cancelling, Resting, EmptyHanded, Placing, Taken
  <2> QED BY <1>0, <2>1, <2>2, <2>3, KeepsWriting
<1>5. CASE RequeuePush(c)
  <2>1. cur[c] \in Jobs /\ Leaves(c, NoJob) /\ Enqueue(cur[c]) /\ UNCHANGED <<blob, delayed, lease>>
    BY <1>0, <1>5, LeavesHow DEF RequeuePush, EmptyHanded, store, zsets
  <2>2. \A i \in Jobs : i = cur[c] \/ Queued(i) => Queued(i)' BY <1>0, <2>1, EnqueueKeeps
  <2> QED BY <1>0, <2>1, <2>2, KeepsPlacingLast
<1> QED BY <1>2, <1>3, <1>4, <1>5

LEMMA KeepsListing ==
    ASSUME IInv, NEW c \in Clients, ListRange(c) \/ ListMget(c) \/ ListHeal(c)
    PROVE  Keeps(c)
<1>0. c \in Actors BY DEF Actors
<1>1. UNCHANGED <<blob, queue, delayed, lease>> /\ pc[c] \notin Placing
  BY DEF ListRange, ListMget, ListHeal, redis, store, zsets, Placing
<1>2. \E y : Leaves(c, y)
  <2>1. CASE ListRange(c) BY <1>0, <2>1, LeavesHow, FreePlaces DEF ListRange, Resting, EmptyHanded
  <2>2. CASE ListMget(c) BY <1>0, <2>2, LeavesHow, FreePlaces DEF ListMget, Resting, EmptyHanded
  <2>3. CASE ListHeal(c) BY <1>0, <2>3, LeavesHow, FreePlaces DEF ListHeal, Resting, EmptyHanded
  <2> QED BY <2>1, <2>2, <2>3
<1> QED BY <1>0, <1>1, <1>2, KeepsLeaving

\* Every step of an actor, in a deployment without cancellations.
LEMMA KeepsAlways ==
    ASSUME "cancel" \notin Ops, IInv, InStep, NEW a \in Actors,
           \/ a \in Workers /\ (WorkerStep(a) \/ Restart(a))
           \/ a \in Clients /\ (ClientStep(a) \/ ClientCall(a))
    PROVE  Keeps(a)
<1>1. CASE a \in Workers /\ (WorkerStep(a) \/ Restart(a)) BY <1>1, KeepsSweeping, KeepsPicking,
    KeepsRunning, KeepsFailing, KeepsBurying, KeepsRecovering DEF WorkerStep
<1>2. CASE a \in Clients /\ (ClientStep(a) \/ ClientCall(a))
  <2>1. ~(\/ Cancel(a) \/ CancelSet(a) \/ CancelQueue(a) \/ CancelDelayed(a) \/ CancelProc(a)
          \/ CancelLease(a))
    BY DEF InStep, Cancelling, Cancel, CancelSet, CancelQueue, CancelDelayed, CancelProc, CancelLease
  <2> QED BY <1>2, <2>1, KeepsSubmitting, KeepsRequeueing, KeepsListing DEF ClientStep, ClientCall
<1> QED BY <1>1, <1>2

-----------------------------------------------------------------------------
(* Exceptions.                                                               *)

\* An exception is caught in the function, which goes on with the same job, or
\* the actor is done with it.
LEMMA CaughtWhere ==
    ASSUME NEW l \in Caught
    PROVE  /\ l \in Placing => CaughtAt(l) \in Placing
           /\ l \notin Placing => CaughtAt(l) \in Free \cup Unleasing \cup {"promote_restore"}
           /\ CaughtAt(l) \in Unleasing => l \in Unleasing
           /\ CaughtAt(l) \in Burying => l \in Burying
           /\ CaughtAt(l) = "promote_restore" => l \in {"promote_zrem", "promote_get", "promote_push"}
           /\ CaughtAt(l) \notin Cancelling \cup {"promote_get", "promote_push"}
           /\ CaughtAt(l) \in Resting => l \in Resting
<1>1. CASE l \in {"promote", "reap", "recover"}
  <2>1. CaughtAt(l) \in Free BY <1>1, FreePlaces DEF CaughtAt
  <2>2. l \notin Placing /\ l \in Resting BY <1>1 DEF Placing, Resting, EmptyHanded
  <2> QED BY <2>1, <2>2, FreePlaces
<1>2. CASE l \in {"promote_zrem", "promote_get", "promote_push"}
  <2>1. CaughtAt(l) = "promote_restore" BY <1>2 DEF CaughtAt
  <2> QED BY <1>2, <2>1 DEF Placing, Unleasing, Burying, Cancelling, Resting, EmptyHanded
<1>3. CASE l = "reap_zrem"
  <2>1. CaughtAt(l) \in Free /\ l \notin Placing /\ l \in Resting
    BY <1>3, FreePlaces DEF CaughtAt, Placing, Resting, EmptyHanded
  <2> QED BY <2>1, FreePlaces
<1>4. CASE l \in {"pick_track", "pick_lease", "trace_get", "trace_set", "complete_get", "complete_set"}
  <2>1. CaughtAt(l) \in {"pick_untake", "trace_get", "run", "fail_get"} BY <1>4 DEF CaughtAt
  <2> QED BY <1>4, <2>1 DEF Placing, Unleasing, Burying, Cancelling, Resting, EmptyHanded
<1>5. CASE l \in {"fail_untrack", "fail_unlease"}
  <2>1. CaughtAt(l) \in {"fail_unlease", "fail_set"} BY <1>5 DEF CaughtAt
  <2> QED BY <1>5, <2>1 DEF Placing, Unleasing, Burying, Cancelling, Resting, EmptyHanded
<1>6. CASE l \in {"complete_untrack", "drop_untrack"}
  <2>1. CaughtAt(l) \in {"complete_unlease", "drop_unlease"} BY <1>6 DEF CaughtAt
  <2> QED BY <1>6, <2>1 DEF Placing, Unleasing, Burying, Cancelling, Resting, EmptyHanded
<1>7. CASE l \in {"dead_untrack", "dead_unlease"}
  <2>1. CaughtAt(l) \in {"dead_unlease", "dead_push"} BY <1>7 DEF CaughtAt
  <2> QED BY <1>7, <2>1 DEF Placing, Unleasing, Burying, Cancelling, Resting, EmptyHanded
<1> QED BY <1>1, <1>2, <1>3, <1>4, <1>5, <1>6, <1>7 DEF Caught

LEMMA ThrowLeads ==
    ASSUME IInv, NEW a \in Actors, Throw(a)
    PROVE  \/ pc[a] \in Caught /\ Moves(a, CaughtAt(pc[a]), cur[a], copy[a], todo[a])
           \/ pc[a] \notin Caught /\ \E y : Leaves(a, y)
<1>1. CASE pc[a] \in Caught /\ Goto(a, CaughtAt(pc[a])) BY <1>1, GotoMoves
<1>2. CASE pc[a] \in ThrownFromFail /\ FailThrows(a) BY <1>2, LeavesHow DEF Caught, ThrownFromFail
<1>3. CASE pc[a] \in EndsIteration /\ Return(a) BY <1>3, LeavesHow DEF Caught, EndsIteration
<1>4. ASSUME NEW first \in {"promote_zrem", "reap_zrem", "recover_get", "heal_all", "heal_type"},
             NEW done \in {AfterPromote, "pick", LoopHead, "idle"}, Advance(a, first, done)
      PROVE  \E y : Leaves(a, y)
  <2>1. first \in Free /\ done \in Free BY FreePlaces
  <2> QED BY <1>4, <2>1, LeavesHow
<1>5. CASE /\ pc[a] \in {"promote_restore", "reap_restore", "recover_get", "recover_set", "recover_push",
                          "recover_lrem", "heal_all", "heal_type", "heal_type_all"}
           /\ \E first \in {"promote_zrem", "reap_zrem", "recover_get", "heal_all", "heal_type"} :
                  \E done \in {AfterPromote, "pick", LoopHead, "idle"} : Advance(a, first, done)
  BY <1>4, <1>5 DEF Caught
<1>6. CASE /\ pc[a] \in ClientPcs
           /\ pc' = [pc EXCEPT ![a] = "idle"] /\ cur' = [cur EXCEPT ![a] = NoJob]
           /\ copy' = [copy EXCEPT ![a] = Absent] /\ todo' = [todo EXCEPT ![a] = <<>>]
  <2>1. Moves(a, "idle", NoJob, Absent, <<>>) /\ "idle" \in Free /\ pc[a] \notin Caught
    BY <1>6, FreePlaces DEF Moves, ClientPcs, Caught
  <2> QED BY <2>1 DEF Leaves, Rests
<1> QED BY <1>1, <1>2, <1>3, <1>5, <1>6 DEF Throw

LEMMA CrashLeads ==
    ASSUME IInv, NEW a \in Actors, Crash(a) PROVE Leaves(a, NoJob)
<1>1. PICK l : l = IF a \in Workers THEN "down" ELSE "idle" OBVIOUS
<1>2. Moves(a, l, NoJob, Absent, <<>>) /\ l \in Free BY <1>1, FreePlaces DEF Crash, Moves
<1> QED BY <1>2 DEF Leaves, Rests

-----------------------------------------------------------------------------
(* The sweeps stay in step, whatever fails.                                  *)

LEMMA InStepAt ==
    ASSUME IInv, InStep, NEW a \in Actors, NEW l, NEW y, NEW b, NEW s, Moves(a, l, y, b, s),
           /\ l \in Resting => y = NoJob
           /\ l \in {"promote_get", "promote_push"} => y = Head(s)
           /\ l = "promote_restore" => y = NoJob \/ y = Head(s)
           /\ l \in Burying => b.status = "dead"
           /\ l \notin Cancelling
    PROVE  InStep'
<1>1. /\ pc'[a] = l /\ cur'[a] = y /\ copy'[a] = b /\ todo'[a] = s
      /\ \A c \in Actors \ {a} : /\ pc'[c] = pc[c] /\ cur'[c] = cur[c]
                                 /\ copy'[c] = copy[c] /\ todo'[c] = todo[c]
  BY MovesOK
<1>2. ASSUME NEW c \in Actors
      PROVE  /\ pc'[c] \in Resting => cur'[c] = NoJob
             /\ pc'[c] \in {"promote_get", "promote_push"} => cur'[c] = Head(todo'[c])
             /\ pc'[c] = "promote_restore" => cur'[c] = NoJob \/ cur'[c] = Head(todo'[c])
             /\ pc'[c] \in Burying => copy'[c].status = "dead"
             /\ pc'[c] \notin Cancelling
  <2>1. CASE c = a BY <1>1, <2>1
  <2>2. CASE c # a BY <1>1, <2>2 DEF InStep, Next1
  <2> QED BY <2>1, <2>2
<1> QED BY <1>2 DEF InStep, Next1

LEMMA InStepKept ==
    ASSUME IInv, InStep, NEW a \in Actors,
           NEW l, NEW y, NEW b, NEW s, Moves(a, l, y, b, s), InOrder(a, l, y, b, s)
    PROVE  InStep'
<1>1. /\ l \in Resting => y = NoJob
      /\ l \in {"promote_get", "promote_push"} => y = Head(s)
      /\ l \in Burying => b.status = "dead"
      /\ l \notin Cancelling /\ l # "promote_restore"
  BY DEF InOrder, InStep, Next1
<1> QED BY <1>1, InStepAt

LEMMA InStepLeft ==
    ASSUME IInv, InStep, NEW a \in Actors, NEW y, Leaves(a, y)
    PROVE  InStep'
<1>1. PICK l \in Free : \E b, s : Moves(a, l, y, b, s) /\ Rests(a, l, y) BY DEF Leaves
<1>2. PICK b, s : Moves(a, l, y, b, s) /\ Rests(a, l, y) BY <1>1
<1>3. InOrder(a, l, y, b, s) BY <1>2, FreeInOrder
<1> QED BY <1>2, <1>3, InStepKept

LEMMA InStepThrown ==
    ASSUME IInv, InStep, NEW a \in Actors, Throw(a)
    PROVE  InStep'
<1>1. CASE pc[a] \in Caught /\ Moves(a, CaughtAt(pc[a]), cur[a], copy[a], todo[a])
  <2>1. PICK l : l = CaughtAt(pc[a]) OBVIOUS
  <2>2. /\ l \in Burying => pc[a] \in Burying
        /\ l = "promote_restore" => pc[a] \in {"promote_zrem", "promote_get", "promote_push"}
        /\ l \notin Cancelling \cup {"promote_get", "promote_push"}
        /\ l \in Resting => pc[a] \in Resting
    BY <1>1, <2>1, CaughtWhere
  <2>3. "promote_zrem" \in Resting BY DEF Resting, EmptyHanded
  <2>4. /\ l \in Resting => cur[a] = NoJob
        /\ l = "promote_restore" => cur[a] = NoJob \/ cur[a] = Head(todo[a])
        /\ l \in Burying => copy[a].status = "dead"
    BY <2>2, <2>3 DEF InStep, Next1
  <2> QED BY <1>1, <2>1, <2>2, <2>4, InStepAt
<1> QED BY <1>1, ThrowLeads, InStepLeft

LEMMA InStepStays ==
    ASSUME "cancel" \notin Ops, IInv, InStep, [Next]_vars PROVE InStep'
<1>1. ASSUME NEW a \in Actors,
             \/ a \in Workers /\ (WorkerStep(a) \/ Restart(a))
             \/ a \in Clients /\ (ClientStep(a) \/ ClientCall(a))
      PROVE  InStep'
  BY <1>1, KeepsAlways, InStepKept DEF Keeps
<1>2. ASSUME NEW a \in Actors, Crash(a) \/ Throw(a) PROVE InStep'
  BY <1>2, CrashLeads, InStepLeft, InStepThrown
<1>3. ASSUME UNCHANGED local PROVE InStep' BY <1>3 DEF local, InStep, Next1
<1> QED BY <1>1, <1>2, <1>3 DEF Next, Actors, vars, BackoffElapses, LeaseExpires, Expire

LEMMA AlwaysInStep == ASSUME "cancel" \notin Ops PROVE Spec => []InStep
<1>1. Init => InStep BY DEF Init, InStep, Burying, Cancelling
<1>2. IInv /\ InStep /\ [Next]_vars => InStep' BY InStepStays
<1> QED BY <1>1, <1>2, Inductive, PTL DEF Spec

-----------------------------------------------------------------------------
(* Until a process dies or a command fails.                                  *)

LEMMA ShelteredStays ==
    ASSUME IInv, NEW a \in Actors, Keeps(a), NEW i \in Jobs, Live(i) => Sheltered(i), Live(i)'
    PROVE  Sheltered(i)'
<1>1. PICK l, y, b, s : Moves(a, l, y, b, s) /\ \A j \in Jobs : Stays(a, j, l, y) BY DEF Keeps
<1>2. /\ pc'[a] = l /\ cur'[a] = y
      /\ \A c \in Actors \ {a} : pc'[c] = pc[c] /\ cur'[c] = cur[c]
  BY <1>1, MovesOK
<1>3. Stays(a, i, l, y) BY <1>1
<1>4. CASE Taken(i, l, y) BY <1>2, <1>4 DEF Taken, Sheltered
<1>5. ASSUME ~Taken(i, l, y), Sheltered(i) PROVE Sheltered(i)'
  <2>1. CASE Queued(i) \/ delayed[i] # "none" BY <1>3, <1>5, <2>1 DEF Stays, Sheltered
  <2>2. ASSUME NEW c \in Actors, cur[c] = i, pc[c] \in Placing PROVE Sheltered(i)'
    <3>1. CASE c = a BY <1>3, <1>5, <2>2, <3>1 DEF Stays, Sheltered
    <3>2. CASE c # a BY <1>2, <2>2, <3>2 DEF Sheltered
    <3> QED BY <3>1, <3>2
  <2> QED BY <1>5, <2>1, <2>2 DEF Sheltered
<1> QED BY <1>3, <1>4, <1>5 DEF Stays

\* Time passes.
LEMMA TimeKeeps ==
    ASSUME IInv, NEW j \in Jobs, BackoffElapses(j) \/ LeaseExpires(j) \/ Expire(j), NEW i \in Jobs
    PROVE  /\ UNCHANGED <<pc, cur>> /\ (Live(i)' => Live(i)) /\ (Queued(i)' <=> Queued(i))
           /\ delayed[i] # "none" <=> delayed'[i] # "none"
           /\ lease[i] # "none" <=> lease'[i] # "none"
<1>0. /\ delayed \in [Jobs -> {"none", "parked", "due"}] /\ lease \in [Jobs -> {"none", "held", "expired"}]
      /\ blob \in [Jobs -> Blob]
  BY DEF IInv, RedisOK, StoreOK, SetsOK
<1>1. UNCHANGED <<pc, cur, queue>> BY DEF BackoffElapses, LeaseExpires, Expire, local
<1>2. blob'[i] = blob[i] \/ blob'[i] = Absent
  BY <1>0 DEF BackoffElapses, LeaseExpires, Expire, store
<1>3. Live(i)' => Live(i) BY <1>2 DEF Live, Missing, Finished, Absent
<1>4. delayed'[i] = delayed[i] \/ (delayed[i] = "parked" /\ delayed'[i] = "due")
  BY <1>0 DEF BackoffElapses, LeaseExpires, Expire, zsets
<1>5. lease'[i] = lease[i] \/ (lease[i] = "held" /\ lease'[i] = "expired")
  BY <1>0 DEF BackoffElapses, LeaseExpires, Expire, zsets
<1> QED BY <1>1, <1>3, <1>4, <1>5 DEF Queued

\* However often a lease lapses under a running handler, whichever sweeps, workers
\* and operators meet at one job: as long as no process died and no command failed,
\* every job still to be run is in a queue, parked, or in the hands of an actor that
\* has yet to queue, park or finish it (src/src/jobs/Jobs.hpp 117-143, 184-206,
\* 355-380, 469-484, 655-705).
THEOREM LapsesLoseNothing ==
    ASSUME "cancel" \notin Ops PROVE Spec => [](crashes = 0 /\ faults = 0 => NothingLost)
<1> DEFINE Safe == \A j \in Jobs : Live(j) => Sheltered(j)
<1>1. Init => Safe BY DEF Init, Live, Missing, Absent
<1>2. IInv /\ InStep /\ (crashes = 0 /\ faults = 0 => Safe) /\ [Next]_vars
      => (crashes = 0 /\ faults = 0 => Safe)'
  <2> SUFFICES ASSUME IInv, InStep, crashes = 0 /\ faults = 0 => Safe, [Next]_vars,
                      crashes' = 0, faults' = 0, NEW i \in Jobs, Live(i)'
               PROVE  Sheltered(i)'
    OBVIOUS
  <2>1. Live(i) => Sheltered(i) BY TroublesAdd
  <2>2. ASSUME NEW a \in Actors,
               \/ a \in Workers /\ (WorkerStep(a) \/ Restart(a))
               \/ a \in Clients /\ (ClientStep(a) \/ ClientCall(a))
        PROVE  Sheltered(i)'
    BY <2>1, <2>2, KeepsAlways, ShelteredStays
  <2>3. ASSUME NEW a \in Actors PROVE ~(Crash(a) \/ Throw(a)) BY TroublesAdd DEF Crash, Throw
  <2>4. ASSUME NEW j \in Jobs, BackoffElapses(j) \/ LeaseExpires(j) \/ Expire(j) PROVE Sheltered(i)'
    BY <2>1, <2>4, TimeKeeps DEF Sheltered
  <2>5. CASE UNCHANGED vars
    BY <2>1, <2>5 DEF vars, redis, store, zsets, local, Sheltered, Live, Missing, Finished, Queued
  <2> QED BY <2>2, <2>3, <2>4, <2>5 DEF Next, Actors
<1>3. Safe => NothingLost BY DEF Sheltered, NothingLost, InHand
<1> HIDE DEF Safe
<1> QED BY <1>1, <1>2, <1>3, Inductive, AlwaysInStep, PTL DEF Spec

-----------------------------------------------------------------------------
(* With leases: until the first trouble, who may hold a lease holds it.      *)

LEMMA CalmPlaces ==
    ASSUME IInv, OneOwner, NEW a \in Actors
    PROVE  /\ pc[a] \notin {"reap_zrem", "drop_untrack", "drop_unlease", "promote_restore", "pick_untake"}
           /\ pc[a] \in Unleasing => pc[a] \in Leasing
<1>1. pc[a] \in UsedWorkerPcs \cup UsedClientPcs BY DEF OneOwner, PlacesOK, ActorOK
<1>2. {"reap_zrem", "drop_untrack", "drop_unlease", "promote_restore", "pick_untake"}
          \cap (UsedWorkerPcs \cup UsedClientPcs) = {}
  BY DEF UsedWorkerPcs, UsedClientPcs, OwnerPcs, Moving, Working, HasRun, Done, Raising, Sparing, Healing
<1> QED BY <1>1, <1>2 DEF Unleasing, Leasing

LEMMA LeasesStay ==
    ASSUME Visibility, IInv, OneOwner, LeaseKnown, NEW a \in Actors, Keeps(a)
    PROVE  LeaseKnown'
<1>1. PICK l, y, b, s : Moves(a, l, y, b, s) /\ LeasesKept(a, l, y) BY DEF Keeps
<1>2. /\ pc'[a] = l /\ cur'[a] = y
      /\ \A c \in Actors \ {a} : pc'[c] = pc[c] /\ cur'[c] = cur[c]
  BY <1>1, MovesOK
<1>3. pc[a] # "reap_zrem" /\ (pc[a] \in Unleasing => pc[a] \in Leasing) BY CalmPlaces
<1>4. ASSUME NEW c \in Actors, pc[c] \in Leasing
      PROVE  cur[c] \in Jobs /\ lease[cur[c]] = "held" /\ (pc[a] \in Leasing /\ cur[a] = cur[c] => c = a)
  <2>1. pc[c] \in OwnerPcs BY <1>4, PlacesApart
  <2>2. cur[c] \in Jobs /\ \A d \in Actors \ {c} : ~Owns(d, cur[c]) BY <2>1, OwnerFacts
  <2>3. pc[a] \in Leasing /\ cur[a] = cur[c] => Owns(a, cur[c]) BY PlacesApart DEF Owns
  <2> QED BY <1>4, <2>2, <2>3 DEF LeaseKnown
<1>5. ASSUME NEW c \in Actors, pc'[c] \in Leasing PROVE lease'[cur'[c]] = "held"
  <2>1. CASE c = a
    <3>1. CASE pc[a] \in Leasing /\ y = cur[a]
      <4>1. y \in Jobs /\ lease[y] = "held" BY <1>4, <3>1
      <4> QED BY <1>1, <1>2, <1>3, <1>5, <2>1, <4>1 DEF LeasesKept
    <3> QED BY <1>1, <1>2, <1>3, <1>5, <2>1, <3>1 DEF LeasesKept
  <2>2. CASE c # a
    <3>1. pc[c] \in Leasing /\ cur'[c] = cur[c] BY <1>2, <1>5, <2>2
    <3>2. cur[c] \in Jobs /\ lease[cur[c]] = "held" /\ ~(pc[a] \in Leasing /\ cur[a] = cur[c])
      BY <1>4, <2>2, <3>1
    <3>3. lease'[cur[c]] \in {lease[cur[c]], "held"} BY <1>1, <1>3, <3>2 DEF LeasesKept
    <3> QED BY <3>1, <3>2, <3>3
  <2> QED BY <2>1, <2>2
<1> QED BY <1>5 DEF LeaseKnown

LEMMA LeaseKnownStays ==
    ASSUME Undisturbed, Visibility, IInv, OneOwner, InStep, LeaseKnown, [Next]_vars
    PROVE  LeaseKnown'
<1>1. ASSUME NEW a \in Actors,
             \/ a \in Workers /\ (WorkerStep(a) \/ Restart(a))
             \/ a \in Clients /\ (ClientStep(a) \/ ClientCall(a))
      PROVE  LeaseKnown'
  BY <1>1, KeepsAlways, LeasesStay DEF Undisturbed, Fit
<1>2. ASSUME NEW a \in Actors PROVE ~(Crash(a) \/ Throw(a))
  BY TroublesAdd DEF Crash, Throw, Undisturbed, Calm
<1>3. ASSUME NEW j \in Jobs PROVE ~LeaseExpires(j)
  <2> SUFFICES ASSUME LeaseExpires(j) PROVE FALSE OBVIOUS
  <2>1. \E a \in Actors : cur[a] = j BY DEF LeaseExpires, OneOwner, Single, Waits
  <2> QED BY <2>1 DEF LeaseExpires, Undisturbed, Calm
<1>4. ASSUME UNCHANGED <<pc, cur, lease>> PROVE LeaseKnown' BY <1>4 DEF LeaseKnown
<1> QED BY <1>1, <1>2, <1>3, <1>4 DEF Next, Actors, vars, redis, zsets, local, BackoffElapses,
  Expire

LEMMA AlwaysLeaseKnown == ASSUME Fit, Visibility PROVE Spec => [](Calm => LeaseKnown)
<1>1. Init => LeaseKnown BY DEF Init, LeaseKnown, Leasing
<1>2. /\ IInv /\ (Calm => OneOwner) /\ InStep /\ (Calm => LeaseKnown) /\ [Next]_vars
      => (Calm => LeaseKnown)'
  BY CalmBefore, LeaseKnownStays DEF Undisturbed
<1>3. "cancel" \notin Ops BY DEF Fit
<1> QED BY <1>1, <1>2, <1>3, Inductive, AlwaysOneOwner, AlwaysInStep, PTL DEF Spec

-----------------------------------------------------------------------------
(* The first trouble.  An exception that leaves a function, or the death of  *)
(* the process, takes a job out of an actor's hands; the lease that is held  *)
(* for it since LeaseKnown is what secures it then.  At these places there   *)
(* is none, and nothing makes up for it.                                     *)

\* A job that leaves the hands of its owner elsewhere has its lease, or is not
\* to be run.
LEMMA FirstLoss ==
    ASSUME IInv, OneOwner, LeaseKnown, crashes = 0, NEW a \in Actors, pc[a] \notin StrandingCrashes,
           NEW i \in Jobs, cur[a] = i, pc[a] \in Placing, Live(i)
    PROVE  /\ lease[i] = "held"
           /\ \A c \in Actors \ {a} : cur[c] = i => pc[c] \notin Unleasing
<1>1. pc[a] \notin {"promote_restore", "pick_untake"} BY CalmPlaces
<1>2. pc[a] \notin {"recover_set", "recover_push"}
  <2> SUFFICES ASSUME pc[a] \in {"recover_set", "recover_push"} PROVE FALSE OBVIOUS
  <2>1. a \in Workers BY ClientPlaces, ActorsApart DEF OneOwner, PlacesOK, ActorOK
  <2>2. WorkerOK(a) /\ pc[a] \in Recovering /\ pc[a] \notin Tracking
    BY <2>1 DEF OneOwner, PlacesOK, Recovering, Tracking
  <2>3. proc[a] = <<>> /\ Len(proc[a]) = 1 BY <2>2 DEF WorkerOK
  <2> QED BY <2>3
<1>3. pc[a] \notin {"submit_set", "requeue_set"}
  <2> SUFFICES ASSUME pc[a] \in {"submit_set", "requeue_set"} PROVE FALSE OBVIOUS
  <2>1. pc[a] \in OwnerPcs /\ (pc[a] = "requeue_set" => pc[a] \in Raising) BY DEF OwnerPcs, Raising
  <2>2. BlobKnown(a, i) BY <2>1, OwnerFacts
  <2> QED BY <2>1, <2>2 DEF BlobKnown, Live, Missing, Finished, Terminal
<1>4. pc[a] \in Leasing BY <1>1, <1>2, <1>3 DEF Placing, StrandingCrashes, StrandingFaults, Leasing
<1>5. \A c \in Actors \ {a} : ~Owns(c, i) BY <1>4, PlacesApart, OwnerFacts
<1>6. \A c \in Actors : pc[c] \in Unleasing => pc[c] \in OwnerPcs BY CalmPlaces, PlacesApart
<1> QED BY <1>4, <1>5, <1>6 DEF LeaseKnown, Owns

LEMMA LossAnchored ==
    ASSUME IInv, OneOwner, LeaseKnown, crashes = 0, Anchored, NEW a \in Actors,
           pc[a] \notin StrandingCrashes, NEW y, Leaves(a, y), UNCHANGED <<blob, queue, delayed, lease>>
    PROVE  Anchored'
<1>1. PICK l \in Free : \E b, s : Moves(a, l, y, b, s) /\ Rests(a, l, y) BY DEF Leaves
<1>2. PICK b, s : Moves(a, l, y, b, s) /\ Rests(a, l, y) BY <1>1
<1>3. /\ pc'[a] = l /\ cur'[a] = y /\ l \notin Unleasing
      /\ \A c \in Actors \ {a} : pc'[c] = pc[c] /\ cur'[c] = cur[c]
  BY <1>2, MovesOK, FreePlaces
<1>4. ASSUME NEW i \in Jobs, Live(i)' PROVE Secured(i)'
  <2>1. Live(i) /\ (Queued(i)' <=> Queued(i)) BY <1>4 DEF Live, Missing, Finished, Queued
  <2>2. CASE cur[a] = i /\ pc[a] \in Placing
    <3>1. /\ lease[i] = "held"
          /\ \A c \in Actors \ {a} : cur[c] = i => pc[c] \notin Unleasing
      BY <2>1, <2>2, FirstLoss
    <3> QED BY <1>3, <3>1 DEF Secured
  <2>3. CASE ~(cur[a] = i /\ pc[a] \in Placing)
    <3>1. Stays(a, i, l, y) BY <1>3, <2>1, <2>3 DEF Stays
    <3> QED BY <1>2, <1>4, <2>1, <3>1, SecuredStays DEF Anchored
  <2> QED BY <2>2, <2>3
<1> QED BY <1>4 DEF Anchored

LEMMA FirstTrouble ==
    ASSUME Leased, IInv, OneOwner, LeaseKnown, crashes = 0, Anchored, NEW a \in Actors,
           Crash(a) \/ Throw(a)
    PROVE  Anchored'
<1>0. UNCHANGED <<blob, queue, delayed, lease>> BY DEF Crash, Throw, redis, store, zsets
<1>1. CASE Crash(a)
  <2>1. pc[a] \notin StrandingCrashes BY <1>1 DEF Crash, Leased
  <2> QED BY <1>0, <1>1, <2>1, CrashLeads, LossAnchored
<1>2. CASE Throw(a) /\ pc[a] \notin Caught
  <2>1. pc[a] \notin StrandingCrashes BY <1>2 DEF Throw, Leased, StrandingCrashes, Caught
  <2> QED BY <1>0, <1>2, <2>1, ThrowLeads, LossAnchored
<1>3. CASE Throw(a) /\ pc[a] \in Caught
  <2>1. PICK l : l = CaughtAt(pc[a]) OBVIOUS
  <2>2. Moves(a, l, cur[a], copy[a], todo[a]) BY <1>3, <2>1, ThrowLeads
  <2>3. (pc[a] \in Placing => l \in Placing) /\ (l \in Unleasing => pc[a] \in Unleasing)
    BY <1>3, <2>1, CaughtWhere
  <2>4. ASSUME NEW i \in Jobs, Live(i)' PROVE Secured(i)'
    <3>1. Live(i) /\ (Queued(i)' <=> Queued(i)) BY <1>0, <2>4 DEF Live, Missing, Finished, Queued
    <3>2. Stays(a, i, l, cur[a]) BY <1>0, <2>3, <3>1 DEF Stays, Taken
    <3> QED BY <2>2, <2>4, <3>1, <3>2, SecuredStays DEF Anchored
  <2> QED BY <2>4 DEF Anchored
<1> QED BY <1>1, <1>2, <1>3

LEMMA AnchoredStays ==
    ASSUME Leased, IInv, Calm => OneOwner, Calm => LeaseKnown, InStep, Anchored, [Next]_vars, Bearable'
    PROVE  Anchored'
<1>1. ASSUME NEW a \in Actors,
             \/ a \in Workers /\ (WorkerStep(a) \/ Restart(a))
             \/ a \in Clients /\ (ClientStep(a) \/ ClientCall(a))
      PROVE  Anchored'
  <2>1. Keeps(a) BY <1>1, KeepsAlways DEF Leased, Fit
  <2>2. PICK l, y, b, s : Moves(a, l, y, b, s) /\ \A i \in Jobs : Stays(a, i, l, y)
    BY <2>1 DEF Keeps
  <2>3. ASSUME NEW i \in Jobs, Live(i)' PROVE Secured(i)' BY <2>2, <2>3, SecuredStays DEF Anchored
  <2> QED BY <2>3 DEF Anchored
<1>2. ASSUME NEW a \in Actors, Crash(a) \/ Throw(a) PROVE Anchored'
  <2>1. crashes = 0 /\ faults = 0 /\ lapses = 0
    BY <1>2, TroublesAdd DEF Crash, Throw, Bearable, Troubles
  <2> QED BY <1>2, <2>1, FirstTrouble DEF Calm
<1>3. ASSUME NEW j \in Jobs, BackoffElapses(j) \/ LeaseExpires(j) \/ Expire(j) PROVE Anchored'
  <2>1. ASSUME NEW i \in Jobs, Live(i)' PROVE Secured(i)'
    BY <1>3, <2>1, TimeKeeps DEF Anchored, Secured
  <2> QED BY <2>1 DEF Anchored
<1>4. CASE UNCHANGED vars
  BY <1>4 DEF vars, redis, store, zsets, local, Anchored, Secured, Live, Missing, Finished, Queued
<1> QED BY <1>1, <1>2, <1>3, <1>4 DEF Next, Actors

\* With leases, one trouble strands no job: when a process dies, a command fails or
\* a handler outlasts its lease, and it is the first such trouble, each job still
\* to be run is queued, parked, in hand, or has a lease that the sweep will find.
\* It may strike anywhere but between leaving one list and entering the next where
\* no lease is held (src/src/jobs/Jobs.hpp 162-206, 355-380, 655-705).
THEOREM OneTroubleStrandsNoJob ==
    ASSUME Leased PROVE Spec => [](Bearable => NothingStranded)
<1>1. Init => Anchored BY DEF Init, Anchored, Live, Missing, Absent
<1>2. /\ IInv /\ (Calm => OneOwner) /\ (Calm => LeaseKnown) /\ InStep /\ (Bearable => Anchored)
      /\ [Next]_vars
      => (Bearable => Anchored)'
  <2> SUFFICES ASSUME IInv, Calm => OneOwner, Calm => LeaseKnown, InStep, Bearable => Anchored, [Next]_vars,
                      Bearable'
               PROVE  Anchored'
    OBVIOUS
  <2>1. Bearable BY TroublesAdd DEF Bearable, Troubles
  <2> QED BY <2>1, AnchoredStays
<1>3. Anchored => NothingStranded BY DEF Anchored, Secured, NothingStranded, InHand, Recoverable
<1>4. Fit /\ Visibility /\ "cancel" \notin Ops BY DEF Leased, Fit
<1> QED
  BY <1>1, <1>2, <1>3, <1>4, Inductive, AlwaysOneOwner, AlwaysLeaseKnown, AlwaysInStep, PTL DEF Spec

-----------------------------------------------------------------------------
(* The dead-letter lists.  Without operators who requeue they only grow, and *)
(* a blob says "dead" only when its job is listed or the worker that has     *)
(* written it is about to list it.                                           *)

LEMMA BuryingPlaces ==
    /\ ({"dead_index", "dead_set"} \cup Copying \cup Requeuing) \cap EmptyHanded = {}
    /\ ({"dead_index", "dead_set", "fail_dlq", "fail_index"} \cup Copying \cup Requeuing) \cap Free = {}
    /\ Copying \cap {"dead_index", "dead_set", "fail_dlq", "fail_index"} = {}
    /\ Copying \cap Requeuing = {}
    /\ {"dead_index", "dead_set", "fail_dlq", "fail_index"} \cap Requeuing = {}
  BY DEF Copying, Requeuing, EmptyHanded, Free

LEMMA BuriedStep ==
    ASSUME IInv, IInv', Buried, NEW a \in Actors, NEW l, NEW y, NEW b, NEW s, Moves(a, l, y, b, s),
           l \notin Requeuing, dlqAll \subseteq dlqAll', \A j \in Jobs : InDlq(j) => InDlq(j)',
           \A j \in Jobs : blob'[j].status = "dead" =>
               blob[j].status = "dead" \/ Attended(j) \/ (l = "fail_dlq" /\ y = j),
           pc[a] = "fail_dlq" => l = "fail_index" /\ y = cur[a] /\ \A j \in Jobs : j = y => InDlq(j)',
           pc[a] = "fail_index" => cur[a] \in dlqAll',
           l \in Copying /\ b.status = "dead" => blob[y].status = "dead",
           l = "dead_index" => \A j \in Jobs : j = y => InDlq(j)',
           l = "dead_set" => pc[a] = "dead_index" /\ y = cur[a] /\ y \in dlqAll'
    PROVE  Buried'
<1>1. /\ pc'[a] = l /\ cur'[a] = y /\ copy'[a] = b
      /\ \A c \in Actors \ {a} : pc'[c] = pc[c] /\ cur'[c] = cur[c] /\ copy'[c] = copy[c]
  BY MovesOK
<1>2. \A c \in Actors : /\ pc[c] \notin EmptyHanded => cur[c] \in Jobs
                        /\ pc'[c] \notin EmptyHanded => cur'[c] \in Jobs
  BY DEF IInv, LocalOK
<1>3. ASSUME NEW j \in Jobs, Attended(j) PROVE Attended(j)'
  <2>1. CASE InDlq(j) /\ j \in dlqAll BY <2>1 DEF Attended
  <2>2. ASSUME NEW c \in Actors, cur[c] = j, pc[c] = "fail_dlq" PROVE Attended(j)'
    <3>1. CASE c = a BY <1>1, <2>2, <3>1 DEF Attended
    <3>2. CASE c # a BY <1>1, <2>2, <3>2 DEF Attended
    <3> QED BY <3>1, <3>2
  <2>3. ASSUME NEW c \in Actors, cur[c] = j, pc[c] = "fail_index", InDlq(j) PROVE Attended(j)'
    <3>1. CASE c = a BY <1>1, <2>3, <3>1 DEF Attended
    <3>2. CASE c # a BY <1>1, <2>3, <3>2 DEF Attended
    <3> QED BY <3>1, <3>2
  <2> QED BY <1>3, <2>1, <2>2, <2>3 DEF Attended
<1>4. \A c \in Actors : pc'[c] \notin Requeuing BY <1>1 DEF Buried
<1>5. ASSUME NEW c \in Actors, NEW j \in Jobs, j = cur'[c], pc'[c] \in {"dead_index", "dead_set"}
      PROVE  InDlq(j)'
  <2>1. CASE c = a
    <3>1. CASE l = "dead_index" BY <1>1, <1>5, <2>1, <3>1
    <3>2. CASE l = "dead_set" BY <1>1, <1>5, <2>1, <3>2 DEF Buried
    <3> QED BY <1>1, <1>5, <2>1, <3>1, <3>2
  <2>2. CASE c # a BY <1>1, <1>5, <2>2 DEF Buried
  <2> QED BY <2>1, <2>2
<1>6. ASSUME NEW c \in Actors, pc'[c] = "dead_set" PROVE cur'[c] \in dlqAll'
  <2>1. CASE c = a BY <1>1, <1>6, <2>1
  <2>2. CASE c # a BY <1>1, <1>6, <2>2 DEF Buried
  <2> QED BY <2>1, <2>2
<1>7. ASSUME NEW j \in Jobs, blob'[j].status = "dead" PROVE Attended(j)'
  <2>1. CASE l = "fail_dlq" /\ y = j BY <1>1, <2>1 DEF Attended
  <2> QED BY <1>3, <1>7, <2>1 DEF Buried
<1>8. ASSUME NEW c \in Actors, NEW j \in Jobs, j = cur'[c], pc'[c] \in Copying, copy'[c].status = "dead"
      PROVE  Attended(j)'
  <2>1. CASE c = a BY <1>1, <1>3, <1>8, <2>1 DEF Buried
  <2>2. CASE c # a BY <1>1, <1>3, <1>8, <2>2 DEF Buried
  <2> QED BY <2>1, <2>2
<1> QED BY <1>2, <1>4, <1>5, <1>6, <1>7, <1>8, BuryingPlaces DEF Buried

LEMMA PassesHow ==
    ASSUME IInv, NEW a \in Actors
    PROVE  /\ \A l : Goto(a, l) /\ l \notin Telling => Passes(a)
           /\ \A l, j, b : Hold(a, l, j, b) /\ l \notin Telling => Passes(a)
           /\ \A S, first, done : Scan(a, S, first, done) /\ {first, done} \cap Telling = {} => Passes(a)
           /\ \A first, done : Advance(a, first, done) /\ {first, done} \cap Telling = {} => Passes(a)
           /\ \A y : Leaves(a, y) => Passes(a)
           /\ Return(a) => Passes(a)
           /\ FailThrows(a) => Passes(a)
<1>1. ASSUME NEW l, Goto(a, l), l \notin Telling PROVE Passes(a) BY <1>1, GotoMoves DEF Passes
<1>2. ASSUME NEW l, NEW j, NEW b, Hold(a, l, j, b), l \notin Telling PROVE Passes(a)
  BY <1>2, HoldMoves DEF Passes
<1>3. ASSUME NEW S, NEW first, NEW done, Scan(a, S, first, done), {first, done} \cap Telling = {}
      PROVE  Passes(a)
  BY <1>3, ScanMoves DEF Passes
<1>4. ASSUME NEW first, NEW done, Advance(a, first, done), {first, done} \cap Telling = {}
      PROVE  Passes(a)
  BY <1>4, AdvanceMoves DEF Passes
<1>5. ASSUME NEW y, Leaves(a, y) PROVE Passes(a)
  <2>1. Free \cap Telling = {} BY BuryingPlaces DEF Telling
  <2> QED BY <1>5, <2>1 DEF Leaves, Passes
<1>6. Return(a) \/ FailThrows(a) => Passes(a) BY <1>5, LeavesHow
<1> QED BY <1>1, <1>2, <1>3, <1>4, <1>5, <1>6

LEMMA BuriedQuietly ==
    ASSUME IInv, IInv', Buried, NEW a \in Actors, Passes(a), pc[a] \notin {"fail_dlq", "fail_index"},
           UNCHANGED <<blob, dlq, dlqAll>>
    PROVE  Buried'
<1>1. PICK l, y, b, s : Moves(a, l, y, b, s) /\ l \notin Telling BY DEF Passes
<1>2. \A j \in Jobs : InDlq(j)' <=> InDlq(j) BY DEF InDlq
<1> QED BY <1>1, <1>2, BuriedStep DEF Telling

\* An actor writes the blob of its job, which is dead only if it is listed.
LEMMA BuriedWriting ==
    ASSUME IInv, IInv', Buried, NEW a \in Actors, NEW c, blob' = [blob EXCEPT ![cur[a]] = c],
           c.status = "dead" => Attended(cur[a]), Passes(a), pc[a] \notin {"fail_dlq", "fail_index"},
           UNCHANGED <<dlq, dlqAll>>
    PROVE  Buried'
<1>1. PICK l, y, b, s : Moves(a, l, y, b, s) /\ l \notin Telling BY DEF Passes
<1>2. \A j \in Jobs : InDlq(j)' <=> InDlq(j) BY DEF InDlq
<1>3. \A j \in Jobs : blob'[j] = blob[j] \/ (j = cur[a] /\ blob'[j] = c)
  BY DEF IInv, RedisOK, StoreOK
<1> QED BY <1>1, <1>2, <1>3, BuriedStep DEF Telling

\* The places the loop goes to.
LEMMA NotTelling ==
    /\ {LoopHead, AfterPromote, "promote_zrem", "promote_get", "promote_push", "promote_restore", "reap_zrem",
        "reap_restore", "pick", "pick_get", "pick_track", "pick_drop", "pick_lease", "trace_get", "run",
        "complete_get", "complete_untrack", "complete_unlease", "fail_get", "fail_untrack",
        "fail_unlease", "fail_set", "fail_park", "fail_push", "fail_dlq", "fail_index",
        "drop_untrack", "drop_unlease", "dead_get", "dead_untrack", "dead_unlease", "dead_push",
        "recover", "recover_get", "recover_push", "recover_lrem", "down", "idle",
        "submit_push", "submit_index", "submit_index_type",
        "cancel_set", "cancel_queue", "cancel_delayed", "cancel_proc", "cancel_lease",
        "mget_all", "mget_type", "heal_all", "heal_type", "heal_type_all"} \cap Telling = {}
  BY DEF LoopHead, AfterPromote, Telling, Copying, Requeuing

LEMMA BuriedWaits ==
    ASSUME IInv, IInv', Buried, NEW w \in Workers,
           \/ PromoteScan(w) \/ PromoteZrem(w) \/ PromoteGet(w) \/ PromotePush(w)
           \/ PromoteRestore(w) \/ ReapScan(w) \/ ReapZrem(w) \/ ReapRestore(w)
           \/ PickMove(w) \/ PickPop(w) \/ PickTrack(w) \/ PickUntake(w) \/ PickTimeout(w)
           \/ PickDrop(w) \/ PickLease(w) \/ Handle(w) \/ CompleteUntrack(w) \/ CompleteUnlease(w)
    PROVE  Buried'
<1>0. w \in Actors BY DEF Actors
<1>1. UNCHANGED <<blob, dlq, dlqAll>> /\ pc[w] \notin {"fail_dlq", "fail_index"}
  BY DEF PromoteScan, PromoteZrem, PromoteGet, PromotePush, PromoteRestore, ReapScan, ReapZrem,
    ReapRestore, PickMove, PickPop, PickTrack, PickUntake, PickTimeout, PickDrop, PickLease, Handle,
    CompleteUntrack, CompleteUnlease, redis, store, morgue
<1>2. CASE \/ PromoteScan(w) \/ PromoteZrem(w) \/ PromoteGet(w) \/ PromotePush(w)
           \/ PromoteRestore(w) \/ ReapScan(w) \/ ReapZrem(w) \/ ReapRestore(w)
  <2>1. Passes(w) BY <1>0, <1>2, PassesHow, NotTelling DEF PromoteScan, PromoteZrem, PromoteGet,
    PromotePush, PromoteRestore, ReapScan, ReapZrem, ReapRestore
  <2> QED BY <1>0, <1>1, <2>1, BuriedQuietly
<1>3. CASE \/ PickMove(w) \/ PickPop(w) \/ PickTrack(w) \/ PickUntake(w) \/ PickTimeout(w)
           \/ PickDrop(w) \/ PickLease(w) \/ Handle(w) \/ CompleteUntrack(w) \/ CompleteUnlease(w)
  <2>1. Passes(w) BY <1>0, <1>3, PassesHow, NotTelling DEF PickMove, PickPop, PickTrack, PickUntake,
    PickTimeout, PickDrop, PickLease, Handle, CompleteUntrack, CompleteUnlease
  <2> QED BY <1>0, <1>1, <2>1, BuriedQuietly
<1> QED BY <1>2, <1>3

LEMMA BuriedEnds ==
    ASSUME IInv, IInv', Buried, NEW w \in Workers,
           \/ FailGet(w) \/ FailUntrack(w) \/ FailUnlease(w) \/ FailPark(w) \/ FailPush(w)
           \/ DropUntrack(w) \/ DropUnlease(w) \/ DeadGet(w) \/ DeadUntrack(w) \/ DeadUnlease(w)
           \/ RecoverScan(w) \/ RecoverPush(w) \/ RecoverLrem(w) \/ Restart(w)
    PROVE  Buried'
<1>0. w \in Actors BY DEF Actors
<1>1. UNCHANGED <<blob, dlq, dlqAll>> /\ pc[w] \notin {"fail_dlq", "fail_index"}
  BY DEF FailGet, FailUntrack, FailUnlease, FailPark, FailPush, DropUntrack, DropUnlease, DeadGet,
    DeadUntrack, DeadUnlease, RecoverScan, RecoverPush, RecoverLrem, Restart, redis, store, morgue
<1>2. CASE RecoverScan(w)
  <2>1. PICK l : l = IF proc[w] = <<>> THEN LoopHead ELSE "recover_get" OBVIOUS
  <2>2. Moves(w, l, cur[w], copy[w], proc[w]) /\ l \notin Telling
    BY <1>0, <1>2, <2>1, NotTelling DEF RecoverScan, Moves, IInv, LocalOK
  <2> QED BY <1>0, <1>1, <2>2, BuriedQuietly DEF Passes
<1>3. CASE \/ FailGet(w) \/ FailUntrack(w) \/ FailUnlease(w) \/ FailPark(w) \/ FailPush(w)
           \/ DropUntrack(w) \/ DropUnlease(w)
  <2>1. Passes(w) BY <1>0, <1>3, PassesHow, NotTelling DEF FailGet, FailUntrack, FailUnlease,
    FailPark, FailPush, DropUntrack, DropUnlease
  <2> QED BY <1>0, <1>1, <2>1, BuriedQuietly
<1>4. CASE \/ DeadGet(w) \/ DeadUntrack(w) \/ DeadUnlease(w)
           \/ RecoverPush(w) \/ RecoverLrem(w) \/ Restart(w)
  <2>1. Passes(w) BY <1>0, <1>4, PassesHow, NotTelling DEF DeadGet, DeadUntrack, DeadUnlease,
    RecoverPush, RecoverLrem, Restart
  <2> QED BY <1>0, <1>1, <2>1, BuriedQuietly
<1> QED BY <1>2, <1>3, <1>4

\* An actor reads a blob it will write back: dead only if the blob is, or not at all.
LEMMA BuriedReading ==
    ASSUME IInv, IInv', Buried, NEW a \in Actors, NEW l \in Copying, NEW y, NEW b,
           Hold(a, l, y, b), b.status = "dead" => blob[y].status = "dead",
           pc[a] \notin {"fail_dlq", "fail_index"}, UNCHANGED <<blob, dlq, dlqAll>>
    PROVE  Buried'
<1>1. Moves(a, l, y, b, todo[a]) /\ l \notin Requeuing \cup {"dead_index", "dead_set"}
  BY HoldMoves, BuryingPlaces
<1>2. \A j \in Jobs : InDlq(j)' <=> InDlq(j) BY DEF InDlq
<1> QED BY <1>1, <1>2, BuriedStep

LEMMA BuriedReads ==
    ASSUME IInv, IInv', Buried, NEW a \in Actors,
           PickGet(a) \/ TraceGet(a) \/ CompleteGet(a) \/ RecoverGet(a) \/ Submit(a)
    PROVE  Buried'
<1>0. /\ blob \in [Jobs -> Blob] /\ (pc[a] \notin EmptyHanded => cur[a] \in Jobs)
      /\ UNCHANGED <<blob, dlq, dlqAll>> /\ pc[a] \notin {"fail_dlq", "fail_index"}
      /\ Copying = {"pick_set", "trace_set", "complete_set", "recover_set", "submit_set"}
  BY DEF IInv, LocalOK, RedisOK, StoreOK, PickGet, TraceGet, CompleteGet, RecoverGet, Submit, redis,
    store, morgue, Copying
<1>1. CASE PickGet(a)
  <2>1. CASE Goto(a, "pick_drop") BY <1>0, <2>1, PassesHow, NotTelling, BuriedQuietly
  <2>2. CASE Hold(a, "pick_set", cur[a], [blob[cur[a]] EXCEPT !.status = "processing", !.worker = a])
    <3>1. PICK b : b = [blob[cur[a]] EXCEPT !.status = "processing", !.worker = a] OBVIOUS
    <3>2. cur[a] \in Jobs BY <1>0, <1>1 DEF PickGet, EmptyHanded
    <3>3. b.status # "dead" BY <1>0, <3>1, <3>2 DEF Blob
    <3> QED BY <1>0, <2>2, <3>1, <3>3, BuriedReading
  <2> QED BY <1>1, <2>1, <2>2 DEF PickGet
<1>2. CASE TraceGet(a)
  <2>1. CASE Goto(a, "run") BY <1>0, <2>1, PassesHow, NotTelling, BuriedQuietly
  <2>2. CASE Hold(a, "trace_set", cur[a], blob[cur[a]]) BY <1>0, <2>2, BuriedReading
  <2> QED BY <1>2, <2>1, <2>2 DEF TraceGet
<1>3. CASE CompleteGet(a)
  <2>1. CASE Goto(a, "fail_get") BY <1>0, <2>1, PassesHow, NotTelling, BuriedQuietly
  <2>2. CASE Hold(a, "complete_set", cur[a], [blob[cur[a]] EXCEPT !.status = "completed"])
    <3>1. PICK b : b = [blob[cur[a]] EXCEPT !.status = "completed"] OBVIOUS
    <3>2. cur[a] \in Jobs BY <1>0, <1>3 DEF CompleteGet, EmptyHanded
    <3>3. b.status # "dead" BY <1>0, <3>1, <3>2 DEF Blob
    <3> QED BY <1>0, <2>2, <3>1, <3>3, BuriedReading
  <2> QED BY <1>3, <2>1, <2>2 DEF CompleteGet
<1>4. CASE RecoverGet(a)
  <2>1. CASE Hold(a, "recover_lrem", Next1(a), Absent) \/ Advance(a, "recover_get", LoopHead)
    <3>1. Passes(a) BY <2>1, PassesHow, NotTelling
    <3> QED BY <1>0, <3>1, BuriedQuietly
  <2>2. CASE Hold(a, "recover_set", Next1(a), [blob[Next1(a)] EXCEPT !.status = "pending", !.worker = NoWorker])
    <3>1. PICK b : b = [blob[Next1(a)] EXCEPT !.status = "pending", !.worker = NoWorker] OBVIOUS
    <3>2. Next1(a) \in Jobs
      <4>1. cur'[a] = Next1(a) /\ pc'[a] = "recover_set" BY <2>2 DEF Hold, IInv, LocalOK
      <4> QED BY <4>1 DEF IInv, LocalOK, EmptyHanded
    <3>3. b.status # "dead" BY <1>0, <3>1, <3>2 DEF Blob
    <3> QED BY <1>0, <2>2, <3>1, <3>3, BuriedReading
  <2> QED BY <1>4, <2>1, <2>2 DEF RecoverGet
<1>5. CASE Submit(a)
  <2>1. PICK j \in Jobs \ born : Hold(a, "submit_set", j, Fresh) BY <1>5 DEF Submit
  <2> QED BY <1>0, <2>1, BuriedReading DEF Fresh
<1> QED BY <1>1, <1>2, <1>3, <1>4, <1>5

LEMMA BuriedWrites ==
    ASSUME IInv, IInv', Buried, NEW a \in Actors,
           \/ PickSet(a) \/ TraceSet(a) \/ CompleteSet(a) \/ RecoverSet(a) \/ SubmitSet(a)
           \/ CancelSet(a)
    PROVE  Buried'
<1>0. /\ UNCHANGED <<dlq, dlqAll>> /\ pc[a] \notin {"fail_dlq", "fail_index"}
      /\ copy[a] \in Blob
  BY DEF IInv, LocalOK, PickSet, TraceSet, CompleteSet, RecoverSet, SubmitSet, CancelSet, morgue
<1>1. Passes(a)
  BY PassesHow, NotTelling DEF PickSet, TraceSet, CompleteSet, RecoverSet, SubmitSet, CancelSet
<1>2. CASE PickSet(a) \/ TraceSet(a) \/ CompleteSet(a) \/ RecoverSet(a) \/ SubmitSet(a)
  <2>1. blob' = [blob EXCEPT ![cur[a]] = copy[a]] /\ pc[a] \in Copying
    BY <1>2 DEF PickSet, TraceSet, CompleteSet, RecoverSet, SubmitSet, Set, SetEx, Copying
  <2>2. copy[a].status = "dead" => Attended(cur[a]) BY <2>1 DEF Buried
  <2> QED BY <1>0, <1>1, <2>1, <2>2, BuriedWriting
<1>3. CASE CancelSet(a)
  <2>1. PICK c : c = [copy[a] EXCEPT !.status = "failed"] OBVIOUS
  <2>2. blob' = [blob EXCEPT ![cur[a]] = c] /\ c.status # "dead"
    BY <1>0, <1>3, <2>1 DEF CancelSet, SetEx, Blob
  <2> QED BY <1>0, <1>1, <2>2, BuriedWriting
<1> QED BY <1>2, <1>3

LEMMA BuriedBuries ==
    ASSUME IInv, IInv', Buried, NEW w \in Workers,
           FailSet(w) \/ FailDlq(w) \/ FailIndex(w) \/ DeadPush(w) \/ DeadIndex(w) \/ DeadSet(w)
    PROVE  Buried'
<1>0. /\ w \in Actors /\ blob \in [Jobs -> Blob] /\ (pc[w] \notin EmptyHanded => cur[w] \in Jobs)
  BY DEF Actors, IInv, LocalOK, RedisOK, StoreOK
<1>1. CASE FailSet(w)
  <2>1. /\ blob' = [blob EXCEPT ![cur[w]] = copy[w]] /\ UNCHANGED <<dlq, dlqAll>>
        /\ pc[w] \notin {"fail_dlq", "fail_index"}
    BY <1>1 DEF FailSet, Set, morgue
  <2>2. PICK l : l = IF copy[w].status = "dead" THEN "fail_dlq"
                     ELSE IF Backoff THEN "fail_park" ELSE "fail_push"
    OBVIOUS
  <2>3. Moves(w, l, cur[w], copy[w], todo[w]) BY <1>0, <1>1, <2>2, GotoMoves DEF FailSet
  <2>4. l \notin Telling /\ (copy[w].status = "dead" => l = "fail_dlq") BY <2>2, NotTelling
  <2>5. \A j \in Jobs : InDlq(j)' <=> InDlq(j) BY <2>1 DEF InDlq
  <2>6. \A j \in Jobs : blob'[j] = blob[j] \/ (j = cur[w] /\ blob'[j] = copy[w]) BY <1>0, <2>1
  <2> QED BY <1>0, <2>1, <2>3, <2>4, <2>5, <2>6, BuriedStep DEF Telling
<1>2. CASE FailDlq(w)
  <2>1. /\ cur[w] \in Jobs /\ pc[w] = "fail_dlq" /\ Bury(cur[w]) /\ UNCHANGED <<blob, dlqAll>>
    BY <1>0, <1>2 DEF FailDlq, EmptyHanded, store
  <2>2. Moves(w, "fail_index", cur[w], copy[w], todo[w]) /\ "fail_index" \notin Telling
    BY <1>0, <1>2, GotoMoves, NotTelling DEF FailDlq
  <2>3. \A j \in Jobs : j = cur[w] \/ InDlq(j) => InDlq(j)' BY <2>1, BuryFacts
  <2> QED BY <1>0, <2>1, <2>2, <2>3, BuriedStep DEF Telling
<1>3. CASE FailIndex(w)
  <2>1. /\ pc[w] = "fail_index" /\ dlqAll' = dlqAll \cup {cur[w]} /\ UNCHANGED <<blob, dlq>>
    BY <1>3 DEF FailIndex, store
  <2>2. PICK l, y, b, s : Moves(w, l, y, b, s) /\ l \notin Telling
    BY <1>0, <1>3, PassesHow DEF FailIndex, Passes
  <2>3. \A j \in Jobs : InDlq(j)' <=> InDlq(j) BY <2>1 DEF InDlq
  <2> QED BY <1>0, <2>1, <2>2, <2>3, BuriedStep DEF Telling
<1>4. CASE DeadPush(w)
  <2>1. /\ cur[w] \in Jobs /\ pc[w] = "dead_push" /\ Bury(cur[w]) /\ UNCHANGED <<blob, dlqAll>>
    BY <1>0, <1>4 DEF DeadPush, EmptyHanded, store
  <2>2. Moves(w, "dead_index", cur[w], copy[w], todo[w]) BY <1>0, <1>4, GotoMoves DEF DeadPush
  <2>3. \A j \in Jobs : j = cur[w] \/ InDlq(j) => InDlq(j)' BY <2>1, BuryFacts
  <2>4. "dead_index" \notin Copying \cup Requeuing BY BuryingPlaces
  <2> QED BY <1>0, <2>1, <2>2, <2>3, <2>4, BuriedStep
<1>5. CASE DeadIndex(w)
  <2>1. /\ pc[w] = "dead_index" /\ dlqAll' = dlqAll \cup {cur[w]} /\ UNCHANGED <<blob, dlq>>
    BY <1>5 DEF DeadIndex, store
  <2>2. Moves(w, "dead_set", cur[w], copy[w], todo[w]) BY <1>0, <1>5, GotoMoves DEF DeadIndex
  <2>3. \A j \in Jobs : InDlq(j)' <=> InDlq(j) BY <2>1 DEF InDlq
  <2>4. "dead_set" \notin Copying \cup Requeuing BY BuryingPlaces
  <2> QED BY <1>0, <2>1, <2>2, <2>3, <2>4, BuriedStep
<1>6. CASE DeadSet(w)
  <2>1. /\ pc[w] = "dead_set" /\ blob' = [blob EXCEPT ![cur[w]] = copy[w]] /\ UNCHANGED <<dlq, dlqAll>>
    BY <1>6 DEF DeadSet, Set, morgue
  <2>2. Attended(cur[w]) BY <1>0, <2>1 DEF Buried, Attended
  <2>3. Passes(w) BY <1>0, <1>6, PassesHow DEF DeadSet
  <2> QED BY <1>0, <2>1, <2>2, <2>3, BuriedWriting
<1> QED BY <1>1, <1>2, <1>3, <1>4, <1>5, <1>6

LEMMA BuriedServes ==
    ASSUME IInv, IInv', Buried, "requeue" \notin Ops, NEW c \in Clients, ClientStep(c) \/ ClientCall(c)
    PROVE  Buried'
<1>0. c \in Actors BY DEF Actors
<1>1. ~(Requeue(c) \/ RequeueLrem(c) \/ RequeueSrem(c) \/ RequeueSet(c) \/ RequeuePush(c))
  BY <1>0 DEF Requeue, RequeueLrem, RequeueSrem, RequeueSet, RequeuePush, Buried, Requeuing
<1>2. CASE \/ SubmitPush(c) \/ SubmitIndex(c) \/ Cancel(c) \/ CancelQueue(c) \/ CancelDelayed(c)
           \/ CancelProc(c) \/ CancelLease(c) \/ ListRange(c) \/ ListMget(c) \/ ListHeal(c)
  <2>1. UNCHANGED <<blob, dlq, dlqAll>> /\ pc[c] \notin {"fail_dlq", "fail_index"}
    BY <1>2 DEF SubmitPush, SubmitIndex, Cancel, CancelQueue, CancelDelayed, CancelProc,
      CancelLease, ListRange, ListMget, ListHeal, redis, store, morgue
  <2>2. CASE \/ SubmitPush(c) \/ SubmitIndex(c) \/ Cancel(c) \/ CancelQueue(c) \/ CancelDelayed(c)
             \/ CancelProc(c) \/ CancelLease(c)
    <3>1. Passes(c) BY <1>0, <2>2, PassesHow, NotTelling DEF SubmitPush, SubmitIndex, Cancel,
      CancelQueue, CancelDelayed, CancelProc, CancelLease
    <3> QED BY <1>0, <2>1, <3>1, BuriedQuietly
  <2>3. CASE ListRange(c) \/ ListMget(c) \/ ListHeal(c)
    <3>1. Passes(c) BY <1>0, <2>3, PassesHow, NotTelling DEF ListRange, ListMget, ListHeal
    <3> QED BY <1>0, <2>1, <3>1, BuriedQuietly
  <2> QED BY <1>2, <2>2, <2>3
<1>3. CASE Submit(c) \/ SubmitSet(c) \/ CancelSet(c) BY <1>0, <1>3, BuriedReads, BuriedWrites
<1> QED BY <1>1, <1>2, <1>3 DEF ClientStep, ClientCall

\* A failure that is caught leads nowhere the invariant speaks of.
LEMMA CaughtTellsNothing == ASSUME NEW l \in Caught PROVE CaughtAt(l) \notin Telling
<1>1. CASE l \in {"promote", "promote_zrem", "promote_get", "promote_push", "reap", "reap_zrem", "recover"}
  <2>1. CaughtAt(l) \in {AfterPromote, "promote_restore", "pick", "reap_restore", LoopHead}
    BY <1>1 DEF CaughtAt
  <2> QED BY <2>1, NotTelling
<1>2. CASE l = "pick_track"
  <2>1. CaughtAt(l) = "pick_untake" BY <1>2 DEF CaughtAt
  <2> QED BY <2>1 DEF Telling, Copying, Requeuing
<1>3. CASE l \in {"pick_lease", "trace_get", "trace_set", "complete_get", "complete_set", "complete_untrack"}
  <2>1. CaughtAt(l) \in {"trace_get", "run", "fail_get", "complete_unlease"} BY <1>3 DEF CaughtAt
  <2> QED BY <2>1, NotTelling
<1>4. CASE l \in {"fail_untrack", "fail_unlease", "drop_untrack", "dead_untrack", "dead_unlease"}
  <2>1. CaughtAt(l) \in {"fail_unlease", "fail_set", "drop_unlease", "dead_unlease", "dead_push"}
    BY <1>4 DEF CaughtAt
  <2> QED BY <2>1, NotTelling
<1> QED BY <1>1, <1>2, <1>3, <1>4 DEF Caught

LEMMA BuriedStays ==
    ASSUME Listless, IInv, IInv', Buried, [Next]_vars PROVE Buried'
<1>1. ASSUME NEW w \in Workers, WorkerStep(w) \/ Restart(w) PROVE Buried'
  <2>1. w \in Actors BY DEF Actors
  <2> QED
    BY <1>1, <2>1, BuriedWaits, BuriedEnds, BuriedReads, BuriedWrites, BuriedBuries DEF WorkerStep
<1>2. ASSUME NEW c \in Clients, ClientCall(c) \/ ClientStep(c) PROVE Buried'
  BY <1>2, BuriedServes DEF Listless
<1>3. ASSUME NEW a \in Actors, Crash(a) \/ Throw(a) PROVE Buried'
  <2>1. UNCHANGED <<blob, dlq, dlqAll>> /\ pc[a] \notin {"fail_dlq", "fail_index"}
    BY <1>3 DEF Crash, Throw, redis, store, morgue, Listless
  <2>2. CASE Crash(a) \/ pc[a] \notin Caught
    <3>1. Passes(a) BY <1>3, <2>2, CrashLeads, ThrowLeads, PassesHow
    <3> QED BY <2>1, <3>1, BuriedQuietly
  <2>3. CASE Throw(a) /\ pc[a] \in Caught
    <3>1. CaughtAt(pc[a]) \notin Telling BY <2>3, CaughtTellsNothing
    <3> QED BY <2>1, <2>3, <3>1, ThrowLeads, BuriedQuietly DEF Passes
  <2> QED BY <1>3, <2>2, <2>3
<1>4. ASSUME NEW j \in Jobs, BackoffElapses(j) \/ LeaseExpires(j) \/ Expire(j) PROVE Buried'
  <2>1. UNCHANGED <<pc, cur, copy, dlq, dlqAll>>
    BY <1>4 DEF BackoffElapses, LeaseExpires, Expire, local, morgue
  <2>2. \A i \in Jobs : blob'[i] = blob[i] \/ blob'[i] = Absent
    BY <1>4 DEF BackoffElapses, LeaseExpires, Expire, store, IInv, RedisOK, StoreOK
  <2>3. \A i : Attended(i)' <=> Attended(i) BY <2>1 DEF Attended, InDlq
  <2> QED BY <2>1, <2>2, <2>3 DEF Buried, InDlq, Absent
<1>5. CASE UNCHANGED vars
  <2>1. UNCHANGED <<pc, cur, copy, dlq, dlqAll, blob>> BY <1>5 DEF vars, redis, store, morgue, local
  <2> QED BY <2>1 DEF Buried, Attended, InDlq
<1> QED BY <1>1, <1>2, <1>3, <1>4, <1>5 DEF Next

\* However often workers die, leases lapse and commands fail, and whatever is cancelled
\* meanwhile, a dead job that nobody has in hand is in the dead-letter list of its type
\* and in the set of all dead jobs.  The two steps between marking it dead and listing
\* it must be spared, and nobody requeues by hand (src/src/jobs/Jobs.hpp 373-379,
\* 391-405).
THEOREM DeadAreListed == ASSUME Listless PROVE Spec => []DeadIsListed
<1>1. Init => Buried BY DEF Init, Buried, Requeuing, Copying, Absent
<1>2. IInv /\ IInv' /\ Buried /\ [Next]_vars => Buried' BY BuriedStays
<1>3. Buried => DeadIsListed BY DEF Buried, Attended, DeadIsListed, InHand, InDlq
<1> QED BY <1>1, <1>2, <1>3, Inductive, PTL DEF Spec

\* With leases, without operators who cancel or requeue, and where no worker dies and no
\* command fails at the points Leased and Listless name, the first death, failing command
\* or lapse of a lease strands no job and leaves no dead one unlisted, in any state of any
\* number of workers and clients.  At those points the code can be struck, and nothing
\* makes up for it: between BRPOPLPUSH and the lease, between untracking and requeueing or
\* listing, between SET and LPUSH of a submission (src/src/jobs/Jobs.hpp 205, 352-405).
THEOREM OneTroubleIsSurvived ==
    ASSUME Leased, Listless PROVE Spec => []OneTroubleStrandsNothing
<1>1. (Bearable => NothingStranded) /\ DeadIsListed => OneTroubleStrandsNothing
  BY DEF Bearable, OneTroubleStrandsNothing
<1> QED BY <1>1, OneTroubleStrandsNoJob, DeadAreListed, PTL
=============================================================================
