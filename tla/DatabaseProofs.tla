--------------------------- MODULE DatabaseProofs ---------------------------
(***************************************************************************)
(* Proofs about the connection pools of Database, for any number of        *)
(* threads, any size of the pools and any number of attempts.              *)
(***************************************************************************)
EXTENDS Database, FiniteSetTheorems, TLAPS

Places == {"idle", "acquire", "woken", "asleep", "connect", "txn"}
Slotted == {"connect", "txn"}

(* WithinCap needs one more fact: whoever is in a pool's set of sleepers is *)
(* asleep there, so that a notification takes no slot away.                 *)
SleepersSleep ==
    \A p \in Pools : \A t \in sleepers[p] \ {Drainer} : pc[t] = "asleep" /\ pool[t] = p

SlotsCounted ==
    \A p \in present : active[p] = Cardinality(Holding(p)) /\ idle[p] + active[p] <= Size

(* FreedWhenUnused begins to hold when shutdown() has emptied the pool: from *)
(* then on until it is destroyed, and after, only latecomers use it.        *)
Gone(q) == q \notin present \/ (stage = "emptied" /\ q = Draining)
GoneUnused == gaveUp \/ \A q \in Pools : Gone(q) => Holding(q) \subseteq late

IInv == TypeOK /\ SlotsCounted /\ SleepersSleep /\ GoneUnused

LEMMA Bounds ==
    /\ Size \in Nat /\ Size > 0 /\ MaxAttempts \in Nat /\ MaxAttempts > 0
    /\ IsFiniteSet(Threads) /\ Drainer \notin Threads
  BY SizeAssumption, AttemptsAssumption, ThreadsAssumption

LEMMA HoldersFinite ==
    ASSUME NEW p PROVE IsFiniteSet(Holding(p)) /\ Cardinality(Holding(p)) \in Nat
<1>1. Holding(p) \in SUBSET Threads
  BY DEF Holding
<1>2. IsFiniteSet(Holding(p))
  BY <1>1, Bounds, FS_Subset
<1> QED
  BY <1>2, FS_CardinalityType

(* What a step of thread t leaves of the others: a sleeper may be woken.    *)
OthersStay(t) ==
    \A u \in Threads \ {t} : /\ pool'[u] = pool[u]
                             /\ pc'[u] = pc[u] \/ (pc[u] = "asleep" /\ pc'[u] = "woken")

(* The slots that a step of t takes, gives back, or leaves alone.           *)
LEMMA SlotTaken ==
    ASSUME NEW t \in Threads, NEW p \in Pools, pool[t] = p, pool'[t] = p,
           OthersStay(t), pc[t] \notin Slotted, pc'[t] \in Slotted
    PROVE  /\ Cardinality(Holding(p)') = Cardinality(Holding(p)) + 1
           /\ Holding(p)' = Holding(p) \cup {t} /\ t \in Holding(p)'
           /\ \A q \in Pools \ {p} : Holding(q)' = Holding(q)
<1>1. Holding(p)' = Holding(p) \cup {t} /\ t \notin Holding(p)
  BY DEF Holding, OthersStay, Slotted
<1>2. \A q \in Pools \ {p} : Holding(q)' = Holding(q)
  BY DEF Holding, OthersStay, Slotted
<1> QED
  BY <1>1, <1>2, HoldersFinite, FS_AddElement

LEMMA SlotGiven ==
    ASSUME NEW t \in Threads, NEW p \in Pools, pool[t] = p,
           OthersStay(t), pc[t] \in Slotted, pc'[t] \notin Slotted
    PROVE  /\ Cardinality(Holding(p)') = Cardinality(Holding(p)) - 1
           /\ Cardinality(Holding(p)) > 0 /\ Holding(p)' \subseteq Holding(p)
           /\ \A q \in Pools \ {p} : Holding(q)' = Holding(q)
<1>1. Holding(p)' = Holding(p) \ {t} /\ t \in Holding(p)
  BY DEF Holding, OthersStay, Slotted
<1>2. \A q \in Pools \ {p} : Holding(q)' = Holding(q)
  BY DEF Holding, OthersStay, Slotted
<1> QED
  BY <1>1, <1>2, HoldersFinite, FS_RemoveElement, FS_EmptySet

LEMMA SlotsKept ==
    ASSUME NEW t \in Threads, OthersStay(t),
           \/ pc[t] \notin Slotted /\ pc'[t] \notin Slotted
           \/ pool'[t] = pool[t] /\ (pc[t] \in Slotted <=> pc'[t] \in Slotted)
    PROVE  \A q \in Pools : Holding(q)' = Holding(q)
  BY DEF Holding, OthersStay, Slotted

(* A notification moves one sleeper of the pool to "woken", or nobody.      *)
Notified(t, place) == Notify(pool[t], sleepers[pool[t]], [pc EXCEPT ![t] = place])

LEMMA NotifyOK ==
    ASSUME TypeOK, SleepersSleep, NEW t \in Threads, pc[t] # "asleep",
           NEW place \in {"idle", "acquire"}, Notified(t, place)
    PROVE  /\ sleepers' \in [Pools -> SUBSET (Threads \cup {Drainer})]
           /\ pc' \in [Threads -> Places] /\ pc'[t] = place
           /\ \A u \in Threads \ {t} : pc'[u] = pc[u] \/ (pc[u] = "asleep" /\ pc'[u] = "woken")
           /\ \A q \in Pools : \A u \in sleepers'[q] \ {Drainer} :
                  u \in sleepers[q] /\ u # t /\ pc'[u] = pc[u]
<1> DEFINE p == pool[t]
<1> DEFINE others == [pc EXCEPT ![t] = place]
<1>0. /\ p \in Pools
      /\ sleepers \in [Pools -> SUBSET (Threads \cup {Drainer})]
      /\ pc \in [Threads -> Places] /\ Drainer \notin Threads
      /\ others \in [Threads -> Places] /\ others[t] = place
      /\ \A u \in Threads \ {t} : others[u] = pc[u]
      /\ \A q \in Pools : \A u \in sleepers[q] \ {Drainer} :
             u \in Threads /\ pc[u] = "asleep" /\ pool[u] = q /\ u # t
  BY Bounds DEF TypeOK, SleepersSleep, Places
<1>1. CASE sleepers' = [sleepers EXCEPT ![p] = sleepers[p]] /\ pc' = others
  BY <1>0, <1>1
<1>2. ASSUME NEW w \in sleepers[p], sleepers' = [sleepers EXCEPT ![p] = sleepers[p] \ {w}],
             pc' = IF w = Drainer THEN others ELSE [others EXCEPT ![w] = "woken"]
      PROVE  /\ sleepers' \in [Pools -> SUBSET (Threads \cup {Drainer})]
             /\ pc' \in [Threads -> Places] /\ pc'[t] = place
             /\ \A u \in Threads \ {t} : pc'[u] = pc[u] \/ (pc[u] = "asleep" /\ pc'[u] = "woken")
             /\ \A q \in Pools : \A u \in sleepers'[q] \ {Drainer} :
                    u \in sleepers[q] /\ u # t /\ pc'[u] = pc[u]
  <2>1. sleepers' \in [Pools -> SUBSET (Threads \cup {Drainer})]
    BY <1>0, <1>2
  <2>2. pc' \in [Threads -> Places] /\ pc'[t] = place
    BY <1>0, <1>2 DEF Places
  <2>3. \A u \in Threads \ {t} : pc'[u] = pc[u] \/ (pc[u] = "asleep" /\ pc'[u] = "woken")
    BY <1>0, <1>2
  <2>4. ASSUME NEW q \in Pools, NEW u \in sleepers'[q] \ {Drainer}
        PROVE  u \in sleepers[q] /\ u # t /\ pc'[u] = pc[u]
    <3>1. u \in sleepers[q] /\ (q = p => u # w)
      BY <1>0, <1>2, <2>4
    <3>2. u # w \/ w = Drainer
      BY <1>0, <3>1
    <3> QED
      BY <1>0, <1>2, <2>4, <3>1, <3>2
  <2> QED
    BY <2>1, <2>2, <2>3, <2>4
<1> QED
  BY <1>1, <1>2 DEF Notified, Notify

(* An attempt that failed is counted, and the call goes on or returns.      *)
LEMMA AttemptOK ==
    ASSUME TypeOK, NEW t \in Threads, NEW kind \in Kinds, Attempt(t, kind)
    PROVE  /\ attempt' \in [Threads -> 0 .. MaxAttempts - 1]
           /\ pool' \in [Threads -> Pools]
           /\ result' \in [Threads -> {"none", "ok", "error"}]
           /\ \A u \in Threads \ {t} : pool'[u] = pool[u]
           /\ NextPlace(t, kind) \in {"idle", "acquire"}
<1>1. attempt' \in [Threads -> 0 .. MaxAttempts - 1]
  BY Bounds DEF Attempt, TypeOK, CanRetry
<1>2. /\ pool' \in [Threads -> Pools]
      /\ result' \in [Threads -> {"none", "ok", "error"}]
      /\ \A u \in Threads \ {t} : pool'[u] = pool[u]
  BY DEF Attempt, TypeOK, Pools
<1>3. NextPlace(t, kind) \in {"idle", "acquire"}
  BY DEF NextPlace
<1> QED
  BY <1>1, <1>2, <1>3

-----------------------------------------------------------------------------
(* The books of the slots when t takes one, gives one back, or does neither. *)
SlotsOK == SlotsCounted /\ GoneUnused
                        /\ idle \in [Pools -> 0 .. Size] /\ active \in [Pools -> Nat]

LEMMA TakeOK ==
    ASSUME IInv, NEW t \in Threads, NEW p \in Pools, pool[t] = p, p \in present, pool' = pool,
           OthersStay(t), pc[t] \notin Slotted, TakeSlot(t, p), UNCHANGED <<present, stage, gaveUp>>
    PROVE  SlotsOK' /\ pc'[t] \in Slotted
<1>0. /\ idle \in [Pools -> 0 .. Size] /\ active \in [Pools -> Nat]
      /\ pc \in [Threads -> Places] /\ present \subseteq Pools
  BY DEF IInv, TypeOK, Places
<1>1. pc'[t] \in Slotted
  BY <1>0 DEF TakeSlot, Slotted
<1>2. /\ Cardinality(Holding(p)') = Cardinality(Holding(p)) + 1
      /\ Holding(p)' = Holding(p) \cup {t} /\ t \in Holding(p)'
      /\ \A q \in Pools \ {p} : Holding(q)' = Holding(q)
  BY <1>1, SlotTaken
<1>8. \A q \in Pools \ {p} : t \notin Holding(q)
  BY DEF Holding
<1>3. idle[p] \in Nat /\ active[p] \in Nat /\ idle[p] + active[p] <= Size
      /\ active[p] = Cardinality(Holding(p))
  BY <1>0 DEF IInv, SlotsCounted
<1>4. /\ active'[p] = active[p] + 1 /\ active' \in [Pools -> Nat]
      /\ idle'[p] = (IF idle[p] > 0 THEN idle[p] - 1 ELSE 0) /\ idle' \in [Pools -> 0 .. Size]
      /\ \A q \in Pools \ {p} : active'[q] = active[q] /\ idle'[q] = idle[q]
  BY <1>0, Bounds DEF TakeSlot
<1>5. idle'[p] + active'[p] <= Size
  BY <1>3, <1>4, Bounds DEF TakeSlot, CanProceed
<1>6. SlotsCounted'
  BY <1>0, <1>2, <1>3, <1>4, <1>5 DEF IInv, SlotsCounted
<1>7. GoneUnused'
  <2>1. \A q \in Pools : Gone(q)' <=> Gone(q)
    BY DEF Gone, Draining
  <2>2. SUFFICES ASSUME ~gaveUp, NEW q \in Pools, Gone(q) PROVE Holding(q)' \subseteq late'
    BY <2>1 DEF GoneUnused
  <2>3. Holding(q) \subseteq late
    BY <2>2 DEF IInv, GoneUnused
  <2>4. CASE q = p
    <3>1. stage = "emptied" /\ p = Draining
      BY <2>2, <2>4 DEF Gone
    <3>2. late' = late \cup {t}
      BY <3>1 DEF TakeSlot
    <3> QED
      BY <1>2, <2>3, <2>4, <3>2
  <2>5. CASE q # p
    <3>1. late \ {t} \subseteq late'
      BY DEF TakeSlot
    <3> QED
      BY <1>2, <1>8, <2>3, <2>5, <3>1
  <2> QED
    BY <2>4, <2>5
<1> QED
  BY <1>1, <1>4, <1>6, <1>7 DEF SlotsOK

LEMMA GoneStays ==
    ASSUME IInv, UNCHANGED <<present, stage, gaveUp, late>>,
           \A q \in Pools : Holding(q)' \subseteq Holding(q)
    PROVE  GoneUnused'
<1>1. \A q \in Pools : Gone(q)' <=> Gone(q)
  BY DEF Gone, Draining
<1> QED
  BY <1>1 DEF IInv, GoneUnused

LEMMA GiveOK ==
    ASSUME IInv, NEW t \in Threads, NEW p \in Pools, pool[t] = p, p \in present,
           OthersStay(t), pc[t] \in Slotted, pc'[t] \notin Slotted, UNCHANGED <<present, stage, gaveUp, late>>,
           active' = [active EXCEPT ![p] = @ - 1],
           idle' = idle \/ idle' = [idle EXCEPT ![p] = @ + 1]
    PROVE  SlotsOK'
<1>0. idle \in [Pools -> 0 .. Size] /\ active \in [Pools -> Nat] /\ present \subseteq Pools
  BY DEF IInv, TypeOK
<1>1. /\ Cardinality(Holding(p)') = Cardinality(Holding(p)) - 1
      /\ Cardinality(Holding(p)) > 0 /\ Holding(p)' \subseteq Holding(p)
      /\ \A q \in Pools \ {p} : Holding(q)' = Holding(q)
  BY SlotGiven
<1>2. idle[p] \in Nat /\ active[p] \in Nat /\ idle[p] + active[p] <= Size
      /\ active[p] = Cardinality(Holding(p))
  BY <1>0 DEF IInv, SlotsCounted
<1>3. /\ active'[p] = active[p] - 1 /\ active' \in [Pools -> Nat]
      /\ \A q \in Pools \ {p} : active'[q] = active[q]
  BY <1>0, <1>1, <1>2
<1>4. /\ idle'[p] \in {idle[p], idle[p] + 1} /\ idle' \in [Pools -> 0 .. Size]
      /\ \A q \in Pools \ {p} : idle'[q] = idle[q]
  BY <1>0, <1>1, <1>2, Bounds
<1>5. idle'[p] + active'[p] <= Size
  BY <1>2, <1>3, <1>4, Bounds
<1>6. SlotsCounted'
  BY <1>0, <1>1, <1>2, <1>3, <1>4, <1>5 DEF IInv, SlotsCounted
<1>7. GoneUnused'
  BY <1>1, GoneStays
<1> QED
  BY <1>3, <1>4, <1>6, <1>7 DEF SlotsOK

LEMMA KeepOK ==
    ASSUME IInv, UNCHANGED <<idle, active, present, stage, gaveUp, late>>,
           \A q \in Pools : Holding(q)' = Holding(q)
    PROVE  SlotsOK'
<1>1. present \subseteq Pools
  BY DEF IInv, TypeOK
<1>2. GoneUnused'
  BY GoneStays
<1> QED
  BY <1>1, <1>2 DEF IInv, SlotsOK, SlotsCounted, TypeOK

-----------------------------------------------------------------------------
LEMMA InitOK == Init => IInv
<1> SUFFICES ASSUME Init PROVE IInv
  OBVIOUS
<1>1. \A p \in Pools : Holding(p) = {}
  BY DEF Init, Holding
<1>2. TypeOK
  <2>1. /\ idle \in [Pools -> 0 .. Size] /\ active \in [Pools -> Nat]
        /\ sleepers \in [Pools -> SUBSET (Threads \cup {Drainer})]
    BY Bounds DEF Init
  <2>2. /\ pc \in [Threads -> {"idle", "acquire", "woken", "asleep", "connect", "txn"}]
        /\ op \in [Threads -> Ops] /\ pool \in [Threads -> Pools]
    BY DEF Init, Pools, Ops
  <2>3. /\ attempt \in [Threads -> 0 .. MaxAttempts - 1] /\ applied \in [Threads -> 0 .. 2]
        /\ result \in [Threads -> {"none", "ok", "error"}]
    BY Bounds DEF Init
  <2> QED
    BY <2>1, <2>2, <2>3 DEF Init, TypeOK
<1> QED
  BY <1>1, <1>2 DEF Init, IInv, SlotsCounted, SleepersSleep, GoneUnused

LEMMA CallOK ==
    ASSUME IInv, NEW t \in Threads, NEW o \in Ops, Call(t, o) PROVE IInv'
<1>0. TypeOK /\ pc \in [Threads -> Places]
  BY DEF IInv, TypeOK, Places
<1>1. TypeOK'
  BY <1>0, Bounds DEF Call, TypeOK, poolVars, PoolFor, Pools
<1>2. OthersStay(t) /\ pc[t] \notin Slotted /\ pc'[t] \notin Slotted
  BY <1>0 DEF Call, OthersStay, Slotted, TypeOK
<1>3. \A q \in Pools : Holding(q)' = Holding(q)
  BY <1>2, SlotsKept
<1>4. SlotsOK'
  BY <1>3, KeepOK DEF Call, poolVars
<1>5. SleepersSleep'
  BY <1>0 DEF Call, IInv, SleepersSleep, poolVars, TypeOK
<1> QED
  BY <1>1, <1>4, <1>5 DEF IInv, SlotsOK

LEMMA AcquireOK ==
    ASSUME IInv, NEW t \in Threads, Acquire(t) PROVE IInv'
<1> DEFINE p == pool[t]
<1>0. /\ TypeOK /\ pc \in [Threads -> Places] /\ p \in Pools /\ p \in present
      /\ UNCHANGED <<present, op, pool, attempt, applied, result, stage, gaveUp>>
      /\ pc[t] \in {"acquire", "woken"}
  BY DEF IInv, TypeOK, Places, Acquire
<1>1. CASE TakeSlot(t, p) /\ UNCHANGED sleepers
  <2>1. OthersStay(t) /\ pc[t] \notin Slotted /\ pc' \in [Threads -> Places]
    BY <1>0, <1>1 DEF TakeSlot, OthersStay, Slotted, Places
  <2>2. SlotsOK'
    BY <1>0, <1>1, <2>1, TakeOK
  <2>3. SleepersSleep'
    BY <1>0, <1>1 DEF TakeSlot, IInv, SleepersSleep, TypeOK
  <2>4. late' \subseteq Threads
    BY <1>0, <1>1 DEF TakeSlot, TypeOK
  <2>5. TypeOK'
    BY <1>0, <1>1, <2>1, <2>2, <2>4 DEF TypeOK, SlotsOK, Places
  <2> QED
    BY <2>2, <2>3, <2>5 DEF IInv, SlotsOK
<1>2. CASE /\ sleepers' = [sleepers EXCEPT ![p] = @ \cup {t}]
           /\ pc' = [pc EXCEPT ![t] = "asleep"]
           /\ UNCHANGED <<idle, active, late>>
  <2>1. OthersStay(t) /\ pc[t] \notin Slotted /\ pc'[t] \notin Slotted
    BY <1>0, <1>2 DEF OthersStay, Slotted
  <2>2. SlotsOK'
    BY <1>0, <1>2, <2>1, SlotsKept, KeepOK
  <2>3. SleepersSleep'
    BY <1>0, <1>2 DEF IInv, SleepersSleep, TypeOK
  <2>4. TypeOK'
    BY <1>0, <1>2 DEF TypeOK
  <2> QED
    BY <2>2, <2>3, <2>4 DEF IInv, SlotsOK
<1> QED
  BY <1>0, <1>1, <1>2 DEF Acquire

LEMMA AcquireTimesOutOK ==
    ASSUME IInv, NEW t \in Threads, AcquireTimesOut(t) PROVE IInv'
<1> DEFINE p == pool[t]
<1>0. /\ TypeOK /\ pc \in [Threads -> Places] /\ p \in Pools /\ p \in present
      /\ UNCHANGED <<present, op, applied, stage, gaveUp>>
      /\ pc[t] \in {"asleep", "woken"} /\ pc[t] \notin Slotted
      /\ sleepers' = [sleepers EXCEPT ![p] = @ \ {t}]
      /\ sleepers' \in [Pools -> SUBSET (Threads \cup {Drainer})]
  BY DEF IInv, TypeOK, Places, AcquireTimesOut, Slotted
<1>1. \A q \in Pools : \A u \in sleepers'[q] \ {Drainer} :
          u \in sleepers[q] /\ u # t /\ u \in Threads
  BY <1>0 DEF IInv, SleepersSleep, TypeOK
<1>2. CASE TakeSlot(t, p) /\ UNCHANGED <<pool, attempt, result>>
  <2>1. OthersStay(t) /\ pc' \in [Threads -> Places]
    BY <1>0, <1>2 DEF TakeSlot, OthersStay, Places
  <2>2. SlotsOK'
    BY <1>0, <1>2, <2>1, TakeOK
  <2>3. SleepersSleep'
    BY <1>0, <1>1, <1>2 DEF TakeSlot, IInv, SleepersSleep
  <2>4. late' \subseteq Threads
    BY <1>0, <1>2 DEF TakeSlot, TypeOK
  <2>5. TypeOK'
    BY <1>0, <1>2, <2>1, <2>2, <2>4 DEF TypeOK, SlotsOK, Places
  <2> QED
    BY <2>2, <2>3, <2>5 DEF IInv, SlotsOK
<1>3. CASE /\ Attempt(t, "error")
           /\ pc' = [pc EXCEPT ![t] = NextPlace(t, "error")]
           /\ UNCHANGED <<idle, active, late>>
  <2>0. "error" \in Kinds
    BY DEF Kinds
  <2>1. /\ attempt' \in [Threads -> 0 .. MaxAttempts - 1]
        /\ pool' \in [Threads -> Pools]
        /\ result' \in [Threads -> {"none", "ok", "error"}]
        /\ \A u \in Threads \ {t} : pool'[u] = pool[u]
        /\ NextPlace(t, "error") \in {"idle", "acquire"}
    BY <1>0, <1>3, <2>0, AttemptOK
  <2>2. OthersStay(t) /\ pc'[t] \notin Slotted /\ pc' \in [Threads -> Places]
    BY <1>0, <1>3, <2>1 DEF OthersStay, Slotted, Places
  <2>3. SlotsOK'
    BY <1>0, <1>3, <2>2, SlotsKept, KeepOK
  <2>4. SleepersSleep'
    BY <1>0, <1>1, <1>3, <2>1 DEF IInv, SleepersSleep
  <2>5. TypeOK'
    BY <1>0, <1>3, <2>1, <2>2 DEF TypeOK, Places
  <2> QED
    BY <2>3, <2>4, <2>5 DEF IInv, SlotsOK
<1> QED
  BY <1>0, <1>2, <1>3 DEF AcquireTimesOut

(* A thread that has a slot and a connection that is opened, used, or fails. *)
LEMMA ConnectOK ==
    ASSUME IInv, NEW t \in Threads, Connect(t) PROVE IInv'
<1>0. /\ TypeOK /\ pc \in [Threads -> Places] /\ pc[t] = "connect"
      /\ pc' = [pc EXCEPT ![t] = "txn"]
      /\ UNCHANGED <<idle, active, sleepers, present, op, pool, attempt, applied, result,
                     stage, gaveUp, late>>
  BY DEF IInv, TypeOK, Places, Connect, poolVars
<1>1. OthersStay(t) /\ pc[t] \in Slotted /\ pc'[t] \in Slotted
  BY <1>0 DEF OthersStay, Slotted
<1>2. SlotsOK'
  BY <1>0, <1>1, SlotsKept, KeepOK
<1>3. SleepersSleep'
  BY <1>0 DEF IInv, SleepersSleep
<1>4. TypeOK'
  BY <1>0 DEF TypeOK
<1> QED
  BY <1>2, <1>3, <1>4 DEF IInv, SlotsOK

LEMMA ConnectFailsOK ==
    ASSUME IInv, NEW t \in Threads, ConnectFails(t) PROVE IInv'
<1> DEFINE p == pool[t]
<1>0. /\ TypeOK /\ SleepersSleep /\ p \in Pools /\ p \in present /\ pc[t] = "connect"
      /\ active' = [active EXCEPT ![p] = @ - 1]
      /\ Notified(t, NextPlace(t, "broken"))
      /\ Attempt(t, "broken") /\ "broken" \in Kinds /\ pc[t] # "asleep"
      /\ UNCHANGED <<idle, present, op, applied, stage, gaveUp, late>>
  BY DEF IInv, TypeOK, ConnectFails, Kinds, Notified
<1>1. /\ attempt' \in [Threads -> 0 .. MaxAttempts - 1]
      /\ pool' \in [Threads -> Pools]
      /\ result' \in [Threads -> {"none", "ok", "error"}]
      /\ \A u \in Threads \ {t} : pool'[u] = pool[u]
      /\ NextPlace(t, "broken") \in {"idle", "acquire"}
  BY <1>0, AttemptOK
<1>2. /\ sleepers' \in [Pools -> SUBSET (Threads \cup {Drainer})]
      /\ pc' \in [Threads -> Places] /\ pc'[t] = NextPlace(t, "broken")
      /\ \A u \in Threads \ {t} : pc'[u] = pc[u] \/ (pc[u] = "asleep" /\ pc'[u] = "woken")
      /\ \A q \in Pools : \A u \in sleepers'[q] \ {Drainer} :
             u \in sleepers[q] /\ u # t /\ pc'[u] = pc[u]
  BY <1>0, <1>1, NotifyOK
<1>3. OthersStay(t) /\ pc[t] \in Slotted /\ pc'[t] \notin Slotted
  BY <1>0, <1>1, <1>2 DEF OthersStay, Slotted
<1>4. SlotsOK'
  BY <1>0, <1>3, GiveOK
<1>5. SleepersSleep'
  <2> SUFFICES ASSUME NEW q \in Pools, NEW u \in sleepers'[q] \ {Drainer}
               PROVE  pc'[u] = "asleep" /\ pool'[u] = q
    BY DEF SleepersSleep
  <2>1. u \in sleepers[q] /\ u # t /\ u \in Threads /\ pc'[u] = pc[u]
    BY <1>2
  <2> QED
    BY <1>0, <1>1, <2>1 DEF SleepersSleep
<1>6. TypeOK'
  BY <1>0, <1>1, <1>2, <1>4 DEF TypeOK, SlotsOK, Places
<1> QED
  BY <1>4, <1>5, <1>6 DEF IInv, SlotsOK

(* What the end of a transaction does to the slots and the sleepers.        *)
LEMMA ReleaseOK ==
    ASSUME IInv, NEW t \in Threads, pc[t] = "txn", pool[t] \in present, NEW open \in BOOLEAN,
           NEW place \in {"idle", "acquire"}, Release(t, open, place),
           pool' \in [Threads -> Pools], \A u \in Threads \ {t} : pool'[u] = pool[u],
           UNCHANGED <<present, stage, gaveUp, late>>
    PROVE  /\ SlotsOK' /\ SleepersSleep' /\ pc' \in [Threads -> Places]
           /\ pc'[t] = place /\ OthersStay(t)
           /\ sleepers' \in [Pools -> SUBSET (Threads \cup {Drainer})]
<1> DEFINE p == pool[t]
<1>0. /\ TypeOK /\ SleepersSleep /\ p \in Pools /\ p \in present
      /\ idle \in [Pools -> 0 .. Size]
      /\ active' = [active EXCEPT ![p] = @ - 1]
      /\ idle' = [idle EXCEPT ![p] = IF open THEN @ + 1 ELSE @]
      /\ Notified(t, place)
      /\ pc[t] # "asleep"
  BY DEF IInv, TypeOK, Release, Notified
<1>1. idle' = idle \/ idle' = [idle EXCEPT ![p] = @ + 1]
  BY <1>0
<1>2. /\ sleepers' \in [Pools -> SUBSET (Threads \cup {Drainer})]
      /\ pc' \in [Threads -> Places] /\ pc'[t] = place
      /\ \A u \in Threads \ {t} : pc'[u] = pc[u] \/ (pc[u] = "asleep" /\ pc'[u] = "woken")
      /\ \A q \in Pools : \A u \in sleepers'[q] \ {Drainer} :
             u \in sleepers[q] /\ u # t /\ pc'[u] = pc[u]
  BY <1>0, NotifyOK
<1>3. OthersStay(t) /\ pc[t] \in Slotted /\ pc'[t] \notin Slotted
  BY <1>2 DEF OthersStay, Slotted
<1>4. SlotsOK'
  BY <1>0, <1>1, <1>3, GiveOK
<1>5. SleepersSleep'
  <2> SUFFICES ASSUME NEW q \in Pools, NEW u \in sleepers'[q] \ {Drainer}
               PROVE  pc'[u] = "asleep" /\ pool'[u] = q
    BY DEF SleepersSleep
  <2>1. u \in sleepers[q] /\ u # t /\ u \in Threads /\ pc'[u] = pc[u]
    BY <1>2
  <2> QED
    BY <1>0, <2>1 DEF SleepersSleep
<1> QED
  BY <1>2, <1>3, <1>4, <1>5

LEMMA CommitOK ==
    ASSUME IInv, NEW t \in Threads, Commit(t) PROVE IInv'
<1>0. TypeOK /\ pc[t] = "txn" /\ pool[t] \in present /\ Release(t, TRUE, "idle")
      /\ UNCHANGED <<present, op, pool, attempt, stage, gaveUp, late>>
      /\ pool' \in [Threads -> Pools]
  BY DEF IInv, Commit, TypeOK
<1>1. /\ applied' \in [Threads -> 0 .. 2]
      /\ result' \in [Threads -> {"none", "ok", "error"}]
  BY <1>0 DEF Commit, TakesEffect, TypeOK
<1>2. /\ SlotsOK' /\ SleepersSleep' /\ pc' \in [Threads -> Places]
      /\ sleepers' \in [Pools -> SUBSET (Threads \cup {Drainer})]
  BY <1>0, ReleaseOK
<1> QED
  BY <1>0, <1>1, <1>2 DEF IInv, TypeOK, SlotsOK, Places

LEMMA TxnFailsOK ==
    ASSUME IInv, NEW t \in Threads, NEW kind \in Kinds, TxnFails(t, kind) PROVE IInv'
<1>0. TypeOK /\ pc[t] = "txn" /\ pool[t] \in present /\ Attempt(t, kind)
      /\ Release(t, kind # "broken", NextPlace(t, kind))
      /\ UNCHANGED <<present, op, stage, gaveUp, late>>
  BY DEF IInv, TxnFails
<1>1. /\ attempt' \in [Threads -> 0 .. MaxAttempts - 1]
      /\ pool' \in [Threads -> Pools]
      /\ result' \in [Threads -> {"none", "ok", "error"}]
      /\ \A u \in Threads \ {t} : pool'[u] = pool[u]
      /\ NextPlace(t, kind) \in {"idle", "acquire"}
  BY <1>0, AttemptOK
<1>2. applied' \in [Threads -> 0 .. 2]
  BY <1>0 DEF TxnFails, TakesEffect, TypeOK
<1>3. /\ SlotsOK' /\ SleepersSleep' /\ pc' \in [Threads -> Places]
      /\ sleepers' \in [Pools -> SUBSET (Threads \cup {Drainer})]
  BY <1>0, <1>1, ReleaseOK
<1> QED
  BY <1>0, <1>1, <1>2, <1>3 DEF IInv, TypeOK, SlotsOK, Places
-----------------------------------------------------------------------------
(* Starting and stopping the process.                                       *)
LEMMA StartOK ==
    ASSUME IInv, NEW up \in BOOLEAN, Start(up) PROVE IInv'
<1>1. \A p \in Pools : Holding(p)' = {}
  BY DEF Start, Holding
<1>2. /\ present' \in SUBSET Pools
      /\ idle' = [p \in Pools |-> IF p \in present' THEN Size ELSE 0]
      /\ active' = [p \in Pools |-> 0]
      /\ sleepers' = [p \in Pools |-> {}]
      /\ pc' = [t \in Threads |-> "idle"]
      /\ stage' = "up" /\ gaveUp' = FALSE /\ late' = {}
      /\ UNCHANGED <<op, pool, attempt, applied, result>>
  BY DEF Start, Filled, Pools
<1>3. TypeOK'
  <2>1. idle' \in [Pools -> 0 .. Size] /\ active' \in [Pools -> Nat]
    BY <1>2, Bounds
  <2>2. /\ sleepers' \in [Pools -> SUBSET (Threads \cup {Drainer})]
        /\ pc' \in [Threads -> Places] /\ gaveUp' \in BOOLEAN
    BY <1>2 DEF Places
  <2>3. /\ op \in [Threads -> Ops] /\ pool \in [Threads -> Pools]
        /\ attempt \in [Threads -> 0 .. MaxAttempts - 1]
        /\ applied \in [Threads -> 0 .. 2] /\ result \in [Threads -> {"none", "ok", "error"}]
    BY DEF IInv, TypeOK
  <2> QED
    BY <1>2, <2>1, <2>2, <2>3 DEF TypeOK, Places
<1>4. SlotsCounted'
  BY <1>1, <1>2, Bounds, FS_EmptySet DEF SlotsCounted
<1>5. SleepersSleep' /\ GoneUnused'
  BY <1>1, <1>2 DEF SleepersSleep, GoneUnused
<1> QED
  BY <1>3, <1>4, <1>5 DEF IInv

(* shutdown() empties the queue of a pool: unless it gave up, none of the    *)
(* pool's slots is used.                                                    *)
LEMMA EmptiedOK ==
    ASSUME IInv, idle' = [idle EXCEPT ![Draining] = 0], stage = "drain", stage' = "emptied",
           UNCHANGED <<active, pc, pool, present, late>>,
           gaveUp => gaveUp', gaveUp' \/ active[Draining] = 0
    PROVE  SlotsOK'
<1> DEFINE p == Draining
<1>0. /\ idle \in [Pools -> 0 .. Size] /\ active \in [Pools -> Nat] /\ present \in SUBSET Pools
      /\ p \in Pools /\ Draining' = p /\ \A q \in Pools : Holding(q)' = Holding(q)
  BY DEF IInv, TypeOK, Holding, Draining, Pools
<1>1. idle' \in [Pools -> 0 .. Size] /\ \A q \in Pools : idle'[q] <= idle[q] /\ idle'[q] \in Nat
  BY <1>0, Bounds
<1>2. SlotsCounted'
  BY <1>0, <1>1, Bounds DEF IInv, SlotsCounted
<1>3. p \in present /\ active[p] = 0 => Holding(p) = {}
  BY <1>0, HoldersFinite, FS_EmptySet DEF IInv, SlotsCounted
<1>4. GoneUnused'
  <2> SUFFICES ASSUME ~gaveUp', NEW q \in Pools, Gone(q)' PROVE Holding(q) \subseteq late
    BY <1>0 DEF GoneUnused
  <2>1. CASE q \notin present
    BY <2>1 DEF IInv, GoneUnused, Gone
  <2>2. CASE q \in present
    BY <1>0, <1>3, <2>2 DEF Gone
  <2> QED
    BY <2>1, <2>2
<1> QED
  BY <1>0, <1>1, <1>2, <1>4 DEF SlotsOK

LEMMA DrainPoolOK ==
    ASSUME IInv, DrainPool PROVE IInv'
<1>0. /\ TypeOK /\ Draining \in Pools /\ active[Draining] = 0
      /\ idle' = [idle EXCEPT ![Draining] = 0] /\ stage = "drain" /\ stage' = "emptied"
      /\ UNCHANGED <<active, sleepers, present, pc, op, pool, attempt, applied, result, gaveUp,
                     late>>
  BY DEF IInv, DrainPool, Draining, Pools, callVars
<1>1. SlotsOK'
  BY <1>0, EmptiedOK
<1>2. TypeOK' /\ SleepersSleep'
  BY <1>0, <1>1 DEF IInv, TypeOK, SleepersSleep, SlotsOK
<1> QED
  BY <1>1, <1>2 DEF IInv, SlotsOK

LEMMA DrainTimesOutOK ==
    ASSUME IInv, DrainTimesOut PROVE IInv'
<1>0. /\ TypeOK /\ Draining \in Pools
      /\ idle' = [idle EXCEPT ![Draining] = 0] /\ stage = "drain" /\ stage' = "emptied"
      /\ sleepers' = [sleepers EXCEPT ![Draining] = @ \ {Drainer}]
      /\ gaveUp' = (gaveUp \/ active[Draining] > 0)
      /\ UNCHANGED <<active, present, pc, op, pool, attempt, applied, result, late>>
  BY DEF IInv, DrainTimesOut, Draining, Pools, callVars
<1>1. active[Draining] \in Nat /\ gaveUp \in BOOLEAN
  BY <1>0 DEF TypeOK
<1>2. (gaveUp => gaveUp') /\ (gaveUp' \/ active[Draining] = 0) /\ gaveUp' \in BOOLEAN
  <2>1. active[Draining] > 0 \/ active[Draining] = 0
    BY <1>1
  <2>2. gaveUp' = TRUE \/ (gaveUp' = FALSE /\ gaveUp = FALSE /\ ~(active[Draining] > 0))
    BY <1>0, <1>1, Zenon
  <2> QED
    BY <2>1, <2>2, Zenon
<1>3. SlotsOK'
  BY <1>0, <1>2, EmptiedOK
<1>4. TypeOK' /\ SleepersSleep'
  BY <1>0, <1>2, <1>3 DEF IInv, TypeOK, SleepersSleep, SlotsOK
<1> QED
  BY <1>3, <1>4 DEF IInv, SlotsOK

(* The pool that was emptied goes. *)
LEMMA DestroyPoolOK ==
    ASSUME IInv, DestroyPool PROVE IInv'
<1> DEFINE p == Draining
<1>0. /\ TypeOK /\ p \in Pools /\ stage = "emptied" /\ stage' \in {"drain", "down"}
      /\ idle' = [idle EXCEPT ![p] = 0] /\ present' = present \ {p}
      /\ UNCHANGED <<active, sleepers, pc, op, pool, attempt, applied, result, gaveUp, late>>
      /\ \A q \in Pools : Holding(q)' = Holding(q)
  BY DEF IInv, DestroyPool, Draining, Pools, callVars, Holding
<1>1. idle' \in [Pools -> 0 .. Size] /\ \A q \in Pools \ {p} : idle'[q] = idle[q]
  BY <1>0, Bounds DEF TypeOK
<1>2. SlotsCounted'
  BY <1>0, <1>1 DEF IInv, SlotsCounted, TypeOK
<1>3. \A q \in Pools : Gone(q)' => Gone(q)
  BY <1>0 DEF Gone
<1>4. GoneUnused'
  BY <1>0, <1>3 DEF IInv, GoneUnused
<1>5. TypeOK' /\ SleepersSleep'
  BY <1>0, <1>1 DEF IInv, TypeOK, SleepersSleep
<1> QED
  BY <1>2, <1>4, <1>5 DEF IInv

LEMMA DrainWaitsOK ==
    ASSUME IInv, DrainWaits PROVE IInv'
<1>0. /\ TypeOK /\ Draining \in Pools
      /\ sleepers' = [sleepers EXCEPT ![Draining] = @ \cup {Drainer}]
      /\ UNCHANGED <<idle, active, pc, op, pool, attempt, applied, result, present, stage, gaveUp,
                     late>>
  BY DEF IInv, DrainWaits, Draining, Pools, callVars
<1>1. SlotsOK'
  BY <1>0, KeepOK DEF Holding
<1>2. TypeOK' /\ SleepersSleep'
  BY <1>0 DEF IInv, TypeOK, SleepersSleep
<1> QED
  BY <1>1, <1>2 DEF IInv, SlotsOK

LEMMA NextOK == IInv /\ [Next]_vars => IInv'
<1> SUFFICES ASSUME IInv, [Next]_vars PROVE IInv'
  OBVIOUS
<1>1. ASSUME NEW up \in BOOLEAN, Start(up) PROVE IInv'
  BY <1>1, StartOK
<1>2. ASSUME NEW t \in Threads, NEW o \in Ops, Call(t, o) PROVE IInv'
  BY <1>2, CallOK
<1>3. ASSUME NEW t \in Threads, Step(t) PROVE IInv'
  BY <1>3, AcquireOK, ConnectOK, ConnectFailsOK, CommitOK, TxnFailsOK DEF Step
<1>4. ASSUME NEW t \in Threads, AcquireTimesOut(t) PROVE IInv'
  BY <1>4, AcquireTimesOutOK
<1>5. CASE Shutdown
  <2>1. CASE ShutdownBegins
    <3>1. /\ UNCHANGED <<idle, active, sleepers, pc, op, pool, attempt, applied, result, present,
                         gaveUp, late>>
          /\ stage = "up" /\ stage' = "drain"
      BY <2>1 DEF ShutdownBegins, poolVars, callVars
    <3>2. TypeOK' /\ SlotsCounted' /\ SleepersSleep'
      BY <3>1 DEF IInv, TypeOK, SlotsCounted, SleepersSleep, Holding
    <3>3. \A q \in Pools : (Gone(q)' => Gone(q)) /\ Holding(q)' = Holding(q)
      BY <3>1 DEF Gone, Draining, Holding
    <3>4. GoneUnused'
      BY <3>1, <3>3 DEF IInv, GoneUnused
    <3> QED
      BY <3>2, <3>4 DEF IInv
  <2> QED
    BY <1>5, <2>1, DrainPoolOK, DrainWaitsOK, DrainTimesOutOK, DestroyPoolOK DEF Shutdown
<1>6. CASE UNCHANGED vars
  BY <1>6 DEF vars, IInv, TypeOK, SlotsCounted, SleepersSleep, GoneUnused, Gone,
              Draining, Holding
<1> QED
  BY <1>1, <1>2, <1>3, <1>4, <1>5, <1>6 DEF Next

(* Whatever fails - handshakes, connections, transactions, waits - the      *)
(* count of used slots is the number of threads that have one, and a pool   *)
(* never exceeds its size (ConnectionPool::acquire and release).            *)
THEOREM PoolsWithinCap == Spec => []WithinCap
<1>1. IInv => WithinCap
  BY DEF IInv, WithinCap, SlotsCounted
<1> QED
  BY InitOK, NextOK, <1>1, PTL DEF Spec

(* A pool is destroyed under a thread that holds one of its connections     *)
(* only if shutdown() has waited its five seconds, or the thread came after *)
(* shutdown() had emptied the pool (ConnectionPool::shutdown and the reset  *)
(* in DatabaseManager::shutdown).                                           *)
THEOREM PoolsFreedWhenUnused == Spec => []FreedWhenUnused
<1>1. IInv => FreedWhenUnused
  BY DEF IInv, GoneUnused, Gone, FreedWhenUnused
<1> QED
  BY InitOK, NextOK, <1>1, PTL DEF Spec

-----------------------------------------------------------------------------
(* WritesOnce is inductive once it says why: a write that is still being    *)
(* tried had no effect yet, and a call that succeeded is over.              *)
WriteOK(t) ==
    /\ op[t] = "write" => applied[t] <= 1 /\ (pc[t] # "idle" => applied[t] = 0)
    /\ result[t] = "ok" => applied[t] > 0 /\ pc[t] = "idle"

WInv == \A t \in Threads : WriteOK(t)

(* A step of t leaves the calls of the others alone. *)
LEMMA OthersWriteOK ==
    ASSUME WInv, NEW t \in Threads, OthersStay(t), WriteOK(t)',
           \A u \in Threads \ {t} : op'[u] = op[u] /\ applied'[u] = applied[u]
                                                   /\ result'[u] = result[u]
    PROVE  WInv'
<1> SUFFICES ASSUME NEW u \in Threads, u # t PROVE WriteOK(u)'
  BY DEF WInv
<1>1. WriteOK(u) /\ (pc'[u] = "idle" <=> pc[u] = "idle")
  BY DEF WInv, OthersStay
<1> QED
  BY <1>1 DEF WriteOK

(* An attempt of t failed and had no effect, or one of a call that is not   *)
(* repeated after it.                                                       *)
LEMMA FailedAttemptOK ==
    ASSUME TypeOK, WInv, NEW t \in Threads, NEW kind \in Kinds, Attempt(t, kind), pc[t] # "idle",
           OthersStay(t), pc'[t] = NextPlace(t, kind), op' = op,
           applied' = applied \/ (kind = "broken" /\ TakesEffect(t))
    PROVE  WInv'
<1>1. /\ applied \in [Threads -> 0 .. 2] /\ result \in [Threads -> {"none", "ok", "error"}]
      /\ WriteOK(t)
  BY DEF TypeOK, WInv
<1>2. /\ \A u \in Threads \ {t} : op'[u] = op[u] /\ applied'[u] = applied[u]
                                                 /\ result'[u] = result[u]
      /\ result'[t] = (IF NextPlace(t, kind) = "idle" THEN "error" ELSE result[t])
  BY <1>1 DEF TakesEffect, Attempt
<1>3. result'[t] # "ok"
  BY <1>1, <1>2 DEF WriteOK
<1>4. op[t] = "write" => /\ applied'[t] <= 1
                         /\ pc'[t] # "idle" => applied'[t] = 0
  <2> SUFFICES ASSUME op[t] = "write" PROVE applied'[t] <= 1 /\ (pc'[t] # "idle" => applied'[t] = 0)
    OBVIOUS
  <2>1. applied[t] = 0
    BY <1>1 DEF WriteOK
  <2>2. CASE applied' = applied
    BY <2>1, <2>2
  <2>3. CASE kind = "broken" /\ TakesEffect(t)
    <3>1. NextPlace(t, kind) = "idle"
      BY <2>3 DEF NextPlace, CanRetry, Transient
    <3>2. applied'[t] = 1
      BY <1>1, <2>1, <2>3 DEF TakesEffect
    <3> QED
      BY <3>1, <3>2
  <2> QED
    BY <2>2, <2>3
<1> QED
  BY <1>2, <1>3, <1>4, OthersWriteOK DEF WriteOK

(* The steps of a call, with what the slots' proof says of each.            *)
LEMMA CallWrites ==
    ASSUME TypeOK, WInv, NEW t \in Threads, NEW o \in Ops, Call(t, o) PROVE WInv'
<1>1. OthersStay(t) /\ WriteOK(t)'
  BY DEF Call, OthersStay, WriteOK, TypeOK
<1>2. \A u \in Threads \ {t} : op'[u] = op[u] /\ applied'[u] = applied[u]
                                              /\ result'[u] = result[u]
  BY DEF Call, TypeOK
<1> QED
  BY <1>1, <1>2, OthersWriteOK

LEMMA AcquireWrites ==
    ASSUME TypeOK, WInv, NEW t \in Threads, Acquire(t) \/ Connect(t) PROVE WInv'
<1>1. /\ UNCHANGED <<op, applied, result, pool>> /\ pc[t] # "idle"
      /\ pc'[t] # "idle" /\ \A u \in Threads \ {t} : pc'[u] = pc[u]
  BY DEF Acquire, Connect, TakeSlot, TypeOK
<1>2. OthersStay(t) /\ WriteOK(t)'
  BY <1>1 DEF OthersStay, WInv, WriteOK
<1> QED
  BY <1>1, <1>2, OthersWriteOK

LEMMA AcquireTimesOutWrites ==
    ASSUME TypeOK, WInv, NEW t \in Threads, AcquireTimesOut(t) PROVE WInv'
<1> DEFINE p == pool[t]
<1>0. pc \in [Threads -> Places] /\ pc[t] # "idle" /\ op' = op /\ applied' = applied
      /\ "error" \in Kinds
  BY DEF AcquireTimesOut, TypeOK, Places, Kinds
<1>1. CASE TakeSlot(t, p) /\ UNCHANGED <<pool, attempt, result>>
  <2>1. OthersStay(t) /\ pc'[t] # "idle"
    BY <1>0, <1>1 DEF TakeSlot, OthersStay
  <2>2. WriteOK(t)'
    BY <1>0, <1>1, <2>1 DEF WInv, WriteOK
  <2> QED
    BY <1>0, <1>1, <2>1, <2>2, OthersWriteOK
<1>2. CASE /\ Attempt(t, "error")
           /\ pc' = [pc EXCEPT ![t] = NextPlace(t, "error")]
  <2>1. OthersStay(t) /\ pc'[t] = NextPlace(t, "error")
    BY <1>0, <1>2, AttemptOK DEF OthersStay
  <2> QED
    BY <1>0, <1>2, <2>1, FailedAttemptOK
<1> QED
  BY <1>1, <1>2 DEF AcquireTimesOut

LEMMA ConnectFailsWrites ==
    ASSUME IInv, WInv, NEW t \in Threads, ConnectFails(t) PROVE WInv'
<1>0. /\ TypeOK /\ SleepersSleep /\ pc[t] = "connect"
      /\ Notified(t, NextPlace(t, "broken"))
      /\ Attempt(t, "broken") /\ "broken" \in Kinds /\ pc[t] # "asleep" /\ pc[t] # "idle"
      /\ op' = op /\ applied' = applied
  BY DEF IInv, ConnectFails, Kinds, Notified
<1>1. /\ \A u \in Threads \ {t} : pool'[u] = pool[u]
      /\ NextPlace(t, "broken") \in {"idle", "acquire"}
  BY <1>0, AttemptOK
<1>2. /\ pc'[t] = NextPlace(t, "broken")
      /\ \A u \in Threads \ {t} : pc'[u] = pc[u] \/ (pc[u] = "asleep" /\ pc'[u] = "woken")
  BY <1>0, <1>1, NotifyOK
<1>3. OthersStay(t)
  BY <1>1, <1>2 DEF OthersStay
<1> QED
  BY <1>0, <1>2, <1>3, FailedAttemptOK

LEMMA CommitWrites ==
    ASSUME IInv, WInv, NEW t \in Threads, Commit(t) PROVE WInv'
<1>0. TypeOK /\ pc[t] = "txn" /\ pool[t] \in present /\ Release(t, TRUE, "idle")
      /\ UNCHANGED <<present, op, pool, attempt, stage, gaveUp, late>>
      /\ pool' \in [Threads -> Pools]
      /\ TakesEffect(t) /\ result' = [result EXCEPT ![t] = "ok"]
  BY DEF IInv, Commit, TypeOK
<1>1. OthersStay(t) /\ pc'[t] = "idle"
  BY <1>0, ReleaseOK
<1>2. /\ applied[t] \in 0 .. 2 /\ applied'[t] = (IF applied[t] < 2 THEN applied[t] + 1 ELSE 2)
      /\ \A u \in Threads \ {t} : applied'[u] = applied[u] /\ result'[u] = result[u]
  BY <1>0 DEF TakesEffect, TypeOK
<1>3. WriteOK(t)'
  BY <1>0, <1>1, <1>2 DEF WInv, WriteOK
<1> QED
  BY <1>0, <1>1, <1>2, <1>3, OthersWriteOK

LEMMA TxnFailsWrites ==
    ASSUME IInv, WInv, NEW t \in Threads, NEW kind \in Kinds, TxnFails(t, kind) PROVE WInv'
<1>0. TypeOK /\ pc[t] = "txn" /\ pool[t] \in present /\ Attempt(t, kind)
      /\ Release(t, kind # "broken", NextPlace(t, kind))
      /\ UNCHANGED <<present, op, stage, gaveUp, late>>
  BY DEF IInv, TxnFails
<1>1. /\ attempt' \in [Threads -> 0 .. MaxAttempts - 1]
      /\ pool' \in [Threads -> Pools]
      /\ result' \in [Threads -> {"none", "ok", "error"}]
      /\ \A u \in Threads \ {t} : pool'[u] = pool[u]
      /\ NextPlace(t, kind) \in {"idle", "acquire"}
  BY <1>0, AttemptOK
<1>2. /\ SlotsOK' /\ SleepersSleep' /\ pc' \in [Threads -> Places]
      /\ pc'[t] = NextPlace(t, kind) /\ OthersStay(t)
      /\ sleepers' \in [Pools -> SUBSET (Threads \cup {Drainer})]
  BY <1>0, <1>1, ReleaseOK
<1>3. applied' = applied \/ (kind = "broken" /\ TakesEffect(t))
  BY DEF TxnFails
<1> QED
  BY <1>0, <1>2, <1>3, FailedAttemptOK

LEMMA NextWrites == IInv /\ WInv /\ [Next]_vars => WInv'
<1> SUFFICES ASSUME IInv, WInv, [Next]_vars PROVE WInv'
  OBVIOUS
<1>0. TypeOK
  BY DEF IInv
<1>1. ASSUME NEW up \in BOOLEAN, Start(up) PROVE WInv'
  <2>1. pc' = [t \in Threads |-> "idle"] /\ UNCHANGED <<op, applied, result>>
    BY <1>1 DEF Start
  <2> QED
    BY <2>1 DEF WInv, WriteOK
<1>2. ASSUME NEW t \in Threads, NEW o \in Ops, Call(t, o) PROVE WInv'
  BY <1>0, <1>2, CallWrites
<1>3. ASSUME NEW t \in Threads, Step(t) PROVE WInv'
  BY <1>0, <1>3, AcquireWrites, ConnectFailsWrites, CommitWrites, TxnFailsWrites DEF Step
<1>4. ASSUME NEW t \in Threads, AcquireTimesOut(t) PROVE WInv'
  BY <1>0, <1>4, AcquireTimesOutWrites
<1>5. CASE Shutdown \/ UNCHANGED vars
  <2>1. UNCHANGED <<op, applied, result, pc>>
    BY <1>5 DEF Shutdown, ShutdownBegins, DrainPool, DrainWaits, DrainTimesOut, DestroyPool,
                callVars, vars
  <2> QED
    BY <2>1 DEF WInv, WriteOK
<1> QED
  BY <1>1, <1>2, <1>3, <1>4, <1>5 DEF Next

(* execute_write takes effect at most once, although a commit that took     *)
(* effect may be reported as a failure; and what is reported a success took *)
(* effect (Retry::run with the classifiers of Database.hpp).                *)
THEOREM WritesTakeEffectOnce == Spec => []WritesOnce
<1>1. Init => WInv
  BY DEF Init, WInv, WriteOK
<1>2. TypeOK /\ WInv => WritesOnce
  BY DEF TypeOK, WInv, WriteOK, WritesOnce
<1>3. IInv => TypeOK
  BY DEF IInv
<1> QED
  BY InitOK, NextOK, NextWrites, <1>1, <1>2, <1>3, PTL DEF Spec

-----------------------------------------------------------------------------
(* NoMissedWakeup: while the service is up, only callers sleep, and beside  *)
(* a sleeper there are no more free slots than threads that were woken.     *)
PoolAwake(p) ==
    p \in present /\ sleepers[p] # {} => Size <= active[p] + Cardinality(Woken(p))
WakeInv ==
    stage = "up" => \A p \in Pools : Drainer \notin sleepers[p] /\ PoolAwake(p)

LEMMA WokenFinite ==
    ASSUME NEW p PROVE IsFiniteSet(Woken(p)) /\ Cardinality(Woken(p)) \in Nat
<1>1. Woken(p) \in SUBSET Threads
  BY DEF Woken
<1>2. IsFiniteSet(Woken(p))
  BY <1>1, Bounds, FS_Subset
<1> QED
  BY <1>2, FS_CardinalityType

LEMMA WokenFiniteNext ==
    ASSUME NEW p PROVE IsFiniteSet(Woken(p)') /\ Cardinality(Woken(p)') \in Nat
<1>1. Woken(p)' \in SUBSET Threads
  BY DEF Woken
<1>2. IsFiniteSet(Woken(p)')
  BY <1>1, Bounds, FS_Subset
<1> QED
  BY <1>2, FS_CardinalityType

(* A pool whose slots nobody gave back, and whose woken threads still are,  *)
LEMMA StaysAwake ==
    ASSUME TypeOK, NEW p \in Pools, PoolAwake(p), present' = present,
           active'[p] = active[p], sleepers'[p] \subseteq sleepers[p], Woken(p) \subseteq Woken(p)'
    PROVE  PoolAwake(p)'
<1>1. Cardinality(Woken(p)) <= Cardinality(Woken(p)')
  BY WokenFiniteNext, FS_Subset
<1>2. active[p] \in Nat /\ Size \in Nat
  BY Bounds DEF TypeOK
<1> QED
  BY <1>1, <1>2, WokenFinite, WokenFiniteNext DEF PoolAwake

(* one whose slots are all used, *)
LEMMA FullIsAwake ==
    ASSUME TypeOK, NEW p \in Pools, ~CanProceed(p), active'[p] = active[p]
    PROVE  PoolAwake(p)'
<1>1. active[p] \in Nat /\ idle[p] \in Nat /\ Size \in Nat
  BY Bounds DEF TypeOK
<1>2. Size <= active[p]
  BY <1>1 DEF CanProceed
<1> QED
  BY <1>1, <1>2, WokenFiniteNext DEF PoolAwake

(* one of whose threads, woken or not, takes a slot,                        *)
LEMMA TakerKeepsAwake ==
    ASSUME TypeOK, NEW p \in Pools, NEW t, PoolAwake(p), present' = present,
           active'[p] = active[p] + 1, sleepers'[p] \subseteq sleepers[p],
           Woken(p) \ {t} \subseteq Woken(p)'
    PROVE  PoolAwake(p)'
<1>1. active[p] \in Nat /\ Size \in Nat
  BY Bounds DEF TypeOK
<1>2. IsFiniteSet(Woken(p) \ {t})
  BY WokenFinite, FS_Subset
<1>3. Cardinality(Woken(p)) <= Cardinality(Woken(p) \ {t}) + 1
  BY WokenFinite, FS_RemoveElement, <1>2, FS_CardinalityType
<1>4. Cardinality(Woken(p) \ {t}) <= Cardinality(Woken(p)')
  BY WokenFiniteNext, FS_Subset
<1>5. Cardinality(Woken(p) \ {t}) \in Nat
  BY <1>2, FS_CardinalityType
<1> QED
  BY <1>1, <1>3, <1>4, <1>5, WokenFinite, WokenFiniteNext DEF PoolAwake

(* and one whose thread t gives a slot back, and notifies.                  *)
LEMMA GiverWakes ==
    ASSUME TypeOK, SleepersSleep, NEW t \in Threads, NEW p \in Pools, p = pool[t],
           pc[t] # "asleep", pc[t] # "woken",
           NEW place \in {"idle", "acquire"}, Notified(t, place), Drainer \notin sleepers[p],
           PoolAwake(p), active' = [active EXCEPT ![p] = @ - 1],
           present' = present, \A u \in Threads \ {t} : pool'[u] = pool[u]
    PROVE  PoolAwake(p)'
<1> DEFINE others == [pc EXCEPT ![t] = place]
<1>0. /\ active[p] \in Nat /\ Size \in Nat /\ active'[p] = active[p] - 1
      /\ sleepers \in [Pools -> SUBSET (Threads \cup {Drainer})]
      /\ others \in [Threads -> Places] /\ \A u \in Threads \ {t} : others[u] = pc[u]
  BY Bounds DEF TypeOK, Places
<1> HIDE DEF others
<1>1. CASE sleepers[p] = {}
  <2>1. sleepers' = [sleepers EXCEPT ![p] = sleepers[p]]
    BY <1>1 DEF Notified, Notify
  <2>2. sleepers'[p] = {}
    BY <1>0, <1>1, <2>1
  <2> QED
    BY <2>2 DEF PoolAwake
<1>2. CASE sleepers[p] # {}
  <2>1. PICK w \in sleepers[p] : pc' = [others EXCEPT ![w] = "woken"]
    BY <1>2 DEF Notified, Notify, others
  <2>2. w \in Threads /\ pc[w] = "asleep" /\ pool[w] = p /\ w # t
    BY <1>0, <2>1 DEF SleepersSleep
  <2>3. /\ pc'[w] = "woken" /\ pool'[w] = p
        /\ \A u \in Threads \ {t, w} : pc'[u] = pc[u] /\ pool'[u] = pool[u]
    BY <1>0, <2>1, <2>2
  <2>4. Woken(p) \cup {w} \subseteq Woken(p)' /\ w \notin Woken(p)
    BY <2>2, <2>3 DEF Woken
  <2>5. Cardinality(Woken(p) \cup {w}) = Cardinality(Woken(p)) + 1
    BY <2>4, WokenFinite, FS_AddElement
  <2>6. Cardinality(Woken(p) \cup {w}) <= Cardinality(Woken(p)')
    BY <2>4, WokenFiniteNext, FS_Subset
  <2>7. p \in present /\ sleepers[p] # {} => Size <= active[p] + Cardinality(Woken(p))
    BY DEF PoolAwake
  <2>8. Size <= active'[p] + Cardinality(Woken(p)') \/ p \notin present
    BY <1>0, <1>2, <2>5, <2>6, <2>7, WokenFinite, WokenFiniteNext
  <2> QED
    BY <2>8 DEF PoolAwake
<1> QED
  BY <1>1, <1>2

(* A notification of p leaves the other pools, and wakes nobody to sleep.   *)
LEMMA OthersAwake ==
    ASSUME TypeOK, NEW t \in Threads, NEW q \in Pools, q # pool[t] \/ pc[t] # "woken", PoolAwake(q),
           present' = present, active'[q] = active[q], sleepers'[q] \subseteq sleepers[q],
           OthersStay(t)
    PROVE  PoolAwake(q)'
<1>1. Woken(q) \subseteq Woken(q)'
  BY DEF Woken, OthersStay
<1> QED
  BY <1>1, StaysAwake

-----------------------------------------------------------------------------
(* Who may be asleep does not change but by falling asleep. *)
LEMMA AwakeInit == Init => WakeInv
  BY DEF Init, WakeInv

LEMMA AcquireAwake ==
    ASSUME IInv, WakeInv, NEW t \in Threads, Acquire(t) PROVE WakeInv'
<1> SUFFICES ASSUME stage' = "up", NEW q \in Pools PROVE Drainer \notin sleepers'[q] /\ PoolAwake(q)'
  BY DEF WakeInv
<1> DEFINE p == pool[t]
<1>0. /\ TypeOK /\ p \in Pools /\ stage = "up" /\ present' = present /\ pool' = pool
      /\ pc[t] \in {"acquire", "woken"} /\ Drainer \notin Threads
      /\ Drainer \notin sleepers[q] /\ PoolAwake(q) /\ active[q] \in Nat
  BY Bounds DEF IInv, TypeOK, Acquire, WakeInv
<1>1. CASE TakeSlot(t, p) /\ UNCHANGED sleepers
  <2>1. /\ Woken(q) \ {t} \subseteq Woken(q)' /\ (q # p => Woken(q) \subseteq Woken(q)')
        /\ active'[q] = IF q = p THEN active[q] + 1 ELSE active[q]
    BY <1>0, <1>1 DEF TakeSlot, Woken, TypeOK
  <2>2. CASE q = p
    BY <1>0, <1>1, <2>1, <2>2, TakerKeepsAwake
  <2>3. CASE q # p
    BY <1>0, <1>1, <2>1, <2>3, StaysAwake
  <2> QED
    BY <1>0, <1>1, <2>2, <2>3
<1>2. CASE /\ ~CanProceed(p) /\ sleepers' = [sleepers EXCEPT ![p] = @ \cup {t}]
           /\ pc' = [pc EXCEPT ![t] = "asleep"]
           /\ UNCHANGED <<idle, active, late>>
  <2>1. /\ Drainer \notin sleepers'[q] /\ (q # p => sleepers'[q] = sleepers[q])
        /\ q # p => Woken(q) \subseteq Woken(q)'
    BY <1>0, <1>2 DEF Woken, TypeOK
  <2>2. CASE q = p
    BY <1>0, <1>2, <2>2, FullIsAwake
  <2>3. CASE q # p
    BY <1>0, <1>2, <2>1, <2>3, StaysAwake
  <2> QED
    BY <2>1, <2>2, <2>3
<1> QED
  BY <1>0, <1>1, <1>2 DEF Acquire

LEMMA AcquireTimesOutAwake ==
    ASSUME IInv, WakeInv, NEW t \in Threads, AcquireTimesOut(t) PROVE WakeInv'
<1> SUFFICES ASSUME stage' = "up", NEW q \in Pools PROVE Drainer \notin sleepers'[q] /\ PoolAwake(q)'
  BY DEF WakeInv
<1> DEFINE p == pool[t]
<1>0. /\ TypeOK /\ p \in Pools /\ stage = "up" /\ present' = present
      /\ pc[t] \in {"asleep", "woken"} /\ Drainer \notin Threads
      /\ sleepers' = [sleepers EXCEPT ![p] = @ \ {t}] /\ sleepers'[q] \subseteq sleepers[q]
      /\ Drainer \notin sleepers[q] /\ PoolAwake(q) /\ active[q] \in Nat
  BY Bounds DEF IInv, TypeOK, AcquireTimesOut, WakeInv
<1>1. CASE TakeSlot(t, p) /\ UNCHANGED <<pool, attempt, result>>
  <2>1. /\ Woken(q) \ {t} \subseteq Woken(q)' /\ (q # p => Woken(q) \subseteq Woken(q)')
        /\ active'[q] = IF q = p THEN active[q] + 1 ELSE active[q]
    BY <1>0, <1>1 DEF TakeSlot, Woken, TypeOK
  <2>2. CASE q = p
    BY <1>0, <1>1, <2>1, <2>2, TakerKeepsAwake
  <2>3. CASE q # p
    BY <1>0, <1>1, <2>1, <2>3, StaysAwake
  <2> QED
    BY <1>0, <1>1, <2>2, <2>3
<1>2. CASE /\ ~CanProceed(p) /\ Attempt(t, "error")
           /\ pc' = [pc EXCEPT ![t] = NextPlace(t, "error")]
           /\ UNCHANGED <<idle, active, late>>
  <2>1. \A u \in Threads \ {t} : pool'[u] = pool[u] /\ pc'[u] = pc[u]
    BY <1>0, <1>2 DEF Attempt, TypeOK
  <2>2. q # p => Woken(q) \subseteq Woken(q)'
    BY <1>0, <2>1 DEF Woken
  <2>3. CASE q = p
    BY <1>0, <1>2, <2>3, FullIsAwake
  <2>4. CASE q # p
    BY <1>0, <1>2, <2>2, <2>4, StaysAwake
  <2> QED
    BY <1>0, <2>3, <2>4
<1> QED
  BY <1>0, <1>1, <1>2 DEF AcquireTimesOut

(* A slot is given back, by a handshake that failed or a connection that is *)
(* released.                                                                *)
LEMMA GiveAwake ==
    ASSUME IInv, WakeInv, NEW t \in Threads, pc[t] \in Slotted,
           NEW place \in {"idle", "acquire"}, Notified(t, place),
           active' = [active EXCEPT ![pool[t]] = @ - 1], present' = present, stage' = stage,
           \A u \in Threads \ {t} : pool'[u] = pool[u]
    PROVE  WakeInv'
<1> SUFFICES ASSUME stage = "up", NEW q \in Pools PROVE Drainer \notin sleepers'[q] /\ PoolAwake(q)'
  BY DEF WakeInv
<1>0. /\ TypeOK /\ SleepersSleep /\ pool[t] \in Pools /\ Drainer \notin Threads
      /\ Drainer \notin sleepers[q] /\ PoolAwake(q)
      /\ pc[t] # "asleep" /\ pc[t] # "woken"
      /\ sleepers \in [Pools -> SUBSET (Threads \cup {Drainer})]
      /\ active \in [Pools -> Nat]
  BY Bounds DEF IInv, TypeOK, WakeInv, Slotted
<1>1. sleepers'[q] \subseteq sleepers[q]
  BY <1>0 DEF Notified, Notify
<1>5. \A u \in Threads \ {t} : pc'[u] = pc[u] \/ (pc[u] = "asleep" /\ pc'[u] = "woken")
  BY <1>0, NotifyOK
<1>2. OthersStay(t)
  BY <1>5 DEF OthersStay
<1>3. CASE q = pool[t]
  <2>1. active' = [active EXCEPT ![q] = @ - 1]
    BY <1>3
  <2> QED
    BY <1>0, <1>1, <1>3, <2>1, GiverWakes
<1>4. CASE q # pool[t]
  BY <1>0, <1>1, <1>2, <1>4, OthersAwake
<1> QED
  BY <1>0, <1>1, <1>3, <1>4

LEMMA NextAwake == IInv /\ WakeInv /\ [Next]_vars => WakeInv'
<1> SUFFICES ASSUME IInv, WakeInv, [Next]_vars PROVE WakeInv'
  OBVIOUS
<1>0. TypeOK
  BY DEF IInv
<1>1. ASSUME NEW up \in BOOLEAN, Start(up) PROVE WakeInv'
  BY <1>1 DEF Start, WakeInv, PoolAwake
<1>2. ASSUME NEW t \in Threads, NEW o \in Ops, Call(t, o) PROVE WakeInv'
  <2>1. /\ UNCHANGED <<active, sleepers, present, stage>> /\ pc[t] # "woken"
        /\ OthersStay(t)
    BY <1>0, <1>2 DEF Call, poolVars, OthersStay, TypeOK
  <2>2. \A q \in Pools : PoolAwake(q) => PoolAwake(q)'
    BY <1>0, <2>1, OthersAwake
  <2> QED
    BY <2>1, <2>2 DEF WakeInv
<1>3. ASSUME NEW t \in Threads, Connect(t) PROVE WakeInv'
  <2>1. /\ UNCHANGED <<active, sleepers, present, stage>> /\ pc[t] # "woken"
        /\ OthersStay(t)
    BY <1>0, <1>3 DEF Connect, poolVars, OthersStay, TypeOK
  <2>2. \A q \in Pools : PoolAwake(q) => PoolAwake(q)'
    BY <1>0, <2>1, OthersAwake
  <2> QED
    BY <2>1, <2>2 DEF WakeInv
<1>4. ASSUME NEW t \in Threads, ConnectFails(t) PROVE WakeInv'
  <2>1. /\ pc[t] \in Slotted /\ NextPlace(t, "broken") \in {"idle", "acquire"}
        /\ Notified(t, NextPlace(t, "broken"))
        /\ active' = [active EXCEPT ![pool[t]] = @ - 1] /\ present' = present /\ stage' = stage
        /\ \A u \in Threads \ {t} : pool'[u] = pool[u]
    BY <1>0, <1>4, AttemptOK DEF ConnectFails, Notified, Slotted, Kinds
  <2> QED
    BY <2>1, GiveAwake
<1>5. ASSUME NEW t \in Threads, Commit(t) PROVE WakeInv'
  <2>1. /\ pc[t] \in Slotted /\ Notified(t, "idle")
        /\ active' = [active EXCEPT ![pool[t]] = @ - 1] /\ present' = present /\ stage' = stage
        /\ \A u \in Threads \ {t} : pool'[u] = pool[u]
    BY <1>5 DEF Commit, Release, Notified, Slotted
  <2> QED
    BY <2>1, GiveAwake
<1>6. ASSUME NEW t \in Threads, NEW kind \in Kinds, TxnFails(t, kind) PROVE WakeInv'
  <2>1. /\ pc[t] \in Slotted /\ NextPlace(t, kind) \in {"idle", "acquire"}
        /\ Notified(t, NextPlace(t, kind))
        /\ active' = [active EXCEPT ![pool[t]] = @ - 1] /\ present' = present /\ stage' = stage
        /\ \A u \in Threads \ {t} : pool'[u] = pool[u]
    BY <1>0, <1>6, AttemptOK DEF TxnFails, Release, Notified, Slotted
  <2> QED
    BY <2>1, GiveAwake
<1>7. CASE Shutdown
  BY <1>7 DEF Shutdown, ShutdownBegins, DrainPool, DrainWaits, DrainTimesOut, DestroyPool,
              WakeInv
<1>8. CASE UNCHANGED vars
  BY <1>8 DEF vars, WakeInv, PoolAwake, Woken
<1> QED
  BY <1>1, <1>2, <1>3, <1>4, <1>5, <1>6, <1>7, <1>8, AcquireAwake, AcquireTimesOutAwake
  DEF Next, Step

(* While the service is up no thread sleeps beside a free slot that nobody  *)
(* was woken for: every handshake that fails and every release notifies one *)
(* sleeper, and whoever times out looks once more (ConnectionPool::acquire  *)
(* and release).                                                            *)
THEOREM NoWakeupIsMissed == Spec => []NoMissedWakeup
<1>1. IInv /\ WakeInv => NoMissedWakeup
  <2> SUFFICES ASSUME IInv, WakeInv, stage = "up", NEW p \in present, sleepers[p] # {}
               PROVE  Size - active[p] <= Cardinality(Woken(p))
    BY DEF NoMissedWakeup
  <2>1. p \in Pools /\ active[p] \in Nat /\ Size \in Nat
    BY Bounds DEF IInv, TypeOK
  <2>2. Size <= active[p] + Cardinality(Woken(p))
    BY <2>1 DEF WakeInv, PoolAwake
  <2> QED
    BY <2>1, <2>2, WokenFinite
<1> QED
  BY InitOK, NextOK, AwakeInit, NextAwake, <1>1, PTL DEF Spec
=============================================================================
