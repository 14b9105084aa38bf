------------------------------ MODULE Database ------------------------------
(***************************************************************************)
(* The connection pools of src/src/database/Database.hpp and the retry     *)
(* loop of src/src/utils/Retry.hpp that runs a transaction on them.        *)
(*                                                                         *)
(* Every section under pool_mutex_ is one action.  A thread asleep on the  *)
(* condition variable is in the set "sleepers"; notify_one moves one of    *)
(* them, any one, to pc = "woken".  What a transaction does to the tables  *)
(* is reduced to how often it took effect.                                 *)
(***************************************************************************)
EXTENDS Naturals, FiniteSets

CONSTANTS
    Threads,        \* request handlers, job handlers, scheduled tasks
    Size,           \* pool_size_, the same for every pool
    MaxAttempts,    \* Retry::Policy::max_attempts
    HasReplica,     \* whether a replica is configured
    Drainer         \* the thread that runs shutdown()

ASSUME SizeAssumption == Size \in Nat \ {0}
ASSUME AttemptsAssumption == MaxAttempts \in Nat \ {0}
ASSUME ThreadsAssumption == IsFiniteSet(Threads) /\ Drainer \notin Threads

VARIABLES
    idle,       \* available_connections_.size(), per pool
    active,     \* active_connections_, per pool
    present,    \* the pools that exist
    sleepers,   \* who waits on cv_, per pool
    pc, op, pool, attempt,  \* a thread's place, call, pool and failed attempts
    applied,    \* how often the call's transaction took effect
    result,     \* what the last call returned
    stage,      \* "up", then shutdown's place, then "down"
    gaveUp,     \* shutdown stopped waiting for connections in use
    late        \* who took the slot it has (or last had) from a pool whose
                \* shutdown() was over

poolVars == <<idle, active, sleepers>>
callVars == <<pc, op, pool, attempt, applied, result>>
vars == <<idle, active, present, sleepers, pc, op, pool, attempt, applied,
          result, stage, gaveUp, late>>

Pools == {"primary", "replica"}
Ops == {"read", "readPrimary", "write", "idempotent", "raw"}
Writes == {"write", "idempotent", "raw"}
Kinds == {"conflict", "broken", "error"}

(* Threads of pool p that own one of its slots. *)
Holding(p) == {t \in Threads : pool[t] = p /\ pc[t] \in {"connect", "txn"}}
Woken(p) == {t \in Threads : pool[t] = p /\ pc[t] = "woken"}

(* shutdown() drains the replica and destroys it, then the primary. *)
Draining == IF "replica" \in present THEN "replica" ELSE "primary"

CanProceed(p) == idle[p] > 0 \/ idle[p] + active[p] < Size

(* notify_one on p, whose other sleepers are s: any one of them looks again. *)
Notify(p, s, others) ==
    \/ s = {} /\ sleepers' = [sleepers EXCEPT ![p] = s] /\ pc' = others
    \/ \E w \in s : /\ sleepers' = [sleepers EXCEPT ![p] = s \ {w}]
                    /\ pc' = IF w = Drainer THEN others
                             ELSE [others EXCEPT ![w] = "woken"]

-----------------------------------------------------------------------------
(* Retry::run and its callers.                                             *)

(* Slip: execute_write retries whatever execute_read does. *)
TransientAlike(o) == IF o = "raw" THEN {} ELSE {"conflict", "broken"}

(* The classifiers of a call's pqxx errors: writes repeat only what the    *)
(* server says it rolled back; raw connections do not repeat.              *)
Transient(o) == CASE o = "write" -> {"conflict"}
                  [] o = "raw" -> {}
                  [] OTHER -> {"conflict", "broken"}

CanRetry(t, kind) == attempt[t] + 1 < MaxAttempts /\ kind \in Transient(op[t])

(* Where the thread goes when one attempt threw an exception of this kind:  *)
(* another attempt, execute_read's fallback to the primary, or the caller.  *)
NextPlace(t, kind) ==
    IF CanRetry(t, kind) \/ (op[t] = "read" /\ pool[t] = "replica")
    THEN "acquire" ELSE "idle"

(* Slip: the failed attempts are not counted. *)
AttemptUncounted(t, kind) ==
    /\ pool' = [pool EXCEPT ![t] =
                     IF CanRetry(t, kind) THEN pool[t] ELSE "primary"]
    /\ result' = [result EXCEPT ![t] =
                     IF NextPlace(t, kind) = "idle" THEN "error" ELSE @]
    /\ UNCHANGED attempt

Attempt(t, kind) ==
    /\ attempt' = [attempt EXCEPT ![t] =
                     IF CanRetry(t, kind) THEN attempt[t] + 1 ELSE 0]
    /\ pool' = [pool EXCEPT ![t] =
                     IF CanRetry(t, kind) THEN pool[t] ELSE "primary"]
    /\ result' = [result EXCEPT ![t] =
                     IF NextPlace(t, kind) = "idle" THEN "error" ELSE @]

(* execute_read and its siblings choose the pool; nothing runs unless the   *)
(* database is initialised.                                                 *)
PoolFor(o) ==
    IF o = "read" /\ "replica" \in present THEN "replica" ELSE "primary"

Call(t, o) ==
    /\ pc[t] = "idle" /\ "primary" \in present
    /\ op' = [op EXCEPT ![t] = o]
    /\ pool' = [pool EXCEPT ![t] = PoolFor(o)]
    /\ attempt' = [attempt EXCEPT ![t] = 0]
    /\ applied' = [applied EXCEPT ![t] = 0]
    /\ result' = [result EXCEPT ![t] = "none"]
    /\ pc' = [pc EXCEPT ![t] = "acquire"]
    /\ UNCHANGED <<poolVars, present, stage, gaveUp, late>>

-----------------------------------------------------------------------------
(* ConnectionPool                                                          *)

(* acquire() once its predicate holds: a queued connection, or the slot of  *)
(* one that is yet to be opened.                                            *)
TakeSlot(t, p) ==
    /\ CanProceed(p)
    /\ late' = IF stage = "emptied" /\ p = Draining THEN late \cup {t} ELSE late \ {t}
    /\ active' = [active EXCEPT ![p] = @ + 1]
    /\ idle' = [idle EXCEPT ![p] = IF @ > 0 THEN @ - 1 ELSE 0]
    /\ pc' = [pc EXCEPT ![t] = IF idle[p] > 0 THEN "txn" ELSE "connect"]

(* acquire() evaluates its predicate, at first or after a notification. *)
Acquire(t) ==
    LET p == pool[t] IN
    /\ pc[t] \in {"acquire", "woken"} /\ p \in present
    /\ \/ TakeSlot(t, p) /\ UNCHANGED sleepers
       \/ /\ ~CanProceed(p)
          /\ sleepers' = [sleepers EXCEPT ![p] = @ \cup {t}]
          /\ pc' = [pc EXCEPT ![t] = "asleep"]
          /\ UNCHANGED <<idle, active, late>>
    /\ UNCHANGED <<present, op, pool, attempt, applied, result, stage, gaveUp>>

(* The deadline of wait_for, which notifications do not move, has passed:   *)
(* the predicate is looked at for the last time.                            *)
AcquireTimesOut(t) ==
    LET p == pool[t] IN
    /\ pc[t] \in {"asleep", "woken"} /\ p \in present
    /\ sleepers' = [sleepers EXCEPT ![p] = @ \ {t}]
    /\ \/ TakeSlot(t, p) /\ UNCHANGED <<pool, attempt, result>>
       \/ /\ ~CanProceed(p)
          /\ Attempt(t, "error")
          /\ pc' = [pc EXCEPT ![t] = NextPlace(t, "error")]
          /\ UNCHANGED <<idle, active, late>>
    /\ UNCHANGED <<present, op, applied, stage, gaveUp>>

(* Lazy fill, outside the lock. *)
Connect(t) ==
    /\ pc[t] = "connect" /\ pool[t] \in present
    /\ pc' = [pc EXCEPT ![t] = "txn"]
    /\ UNCHANGED <<poolVars, present, op, pool, attempt, applied, result, stage, gaveUp, late>>

(* Slip: the reserved slot is not given back. *)
ConnectFailsLeaking(t) ==
    /\ pc[t] = "connect" /\ pool[t] \in present
    /\ pc' = [pc EXCEPT ![t] = NextPlace(t, "broken")]
    /\ Attempt(t, "broken")
    /\ UNCHANGED <<poolVars, present, op, applied, stage, gaveUp, late>>

ConnectFails(t) ==
    LET p == pool[t] IN
    /\ pc[t] = "connect" /\ p \in present
    /\ active' = [active EXCEPT ![p] = @ - 1]
    /\ Notify(p, sleepers[p], [pc EXCEPT ![t] = NextPlace(t, "broken")])
    /\ Attempt(t, "broken")
    /\ UNCHANGED <<idle, present, op, applied, stage, gaveUp, late>>

(* Slip: only a healthy connection is worth a notification. *)
ReleaseQuietly(t, open, next) ==
    LET p == pool[t] IN
    /\ idle' = [idle EXCEPT ![p] = IF open THEN @ + 1 ELSE @]
    /\ active' = [active EXCEPT ![p] = @ - 1]
    /\ \/ open /\ Notify(p, sleepers[p], [pc EXCEPT ![t] = next])
       \/ ~open /\ pc' = [pc EXCEPT ![t] = next] /\ UNCHANGED sleepers

(* release(): a connection that is no longer open is dropped. *)
Release(t, open, next) ==
    LET p == pool[t] IN
    /\ idle' = [idle EXCEPT ![p] = IF open THEN @ + 1 ELSE @]
    /\ active' = [active EXCEPT ![p] = @ - 1]
    /\ Notify(p, sleepers[p], [pc EXCEPT ![t] = next])

TakesEffect(t) == applied' = [applied EXCEPT ![t] = IF @ < 2 THEN @ + 1 ELSE 2]

(* The transaction body runs and commits; PooledConnection's destructor     *)
(* gives the connection back.                                               *)
Commit(t) ==
    /\ pc[t] = "txn" /\ pool[t] \in present
    /\ TakesEffect(t)
    /\ result' = [result EXCEPT ![t] = "ok"]
    /\ Release(t, TRUE, "idle")
    /\ UNCHANGED <<present, op, pool, attempt, stage, gaveUp, late>>

(* The body or the commit throws.  A connection that breaks may do so after *)
(* the server has committed.                                                *)
TxnFails(t, kind) ==
    /\ pc[t] = "txn" /\ pool[t] \in present
    /\ \/ UNCHANGED applied
       \/ kind = "broken" /\ TakesEffect(t)
    /\ Attempt(t, kind)
    /\ Release(t, kind # "broken", NextPlace(t, kind))
    /\ UNCHANGED <<present, op, stage, gaveUp, late>>

-----------------------------------------------------------------------------
(* DatabaseManager::initialize and shutdown                                *)

(* The constructor of a pool opens all its connections. *)
Filled(opened) == [p \in Pools |-> IF p \in opened THEN Size ELSE 0]

(* A start of the process: each pool opens all its connections or is not    *)
(* there; without the primary the program ends, without the replica reads   *)
(* go to the primary.                                                       *)
Start(replicaUp) ==
    /\ stage = "down"
    /\ stage' = "up" /\ gaveUp' = FALSE /\ late' = {}
    /\ present' = {"primary"} \cup (IF HasReplica /\ replicaUp THEN {"replica"} ELSE {})
    /\ idle' = Filled(present')
    /\ active' = [p \in Pools |-> 0]
    /\ sleepers' = [p \in Pools |-> {}]
    /\ pc' = [t \in Threads |-> "idle"]
    /\ UNCHANGED <<op, pool, attempt, applied, result>>

ShutdownBegins ==
    /\ stage = "up"
    /\ stage' = "drain"
    /\ UNCHANGED <<poolVars, callVars, present, gaveUp, late>>

(* Slip: the queue is emptied whatever is in use. *)
DrainPoolAtOnce ==
    LET p == Draining IN
    /\ stage = "drain" /\ Drainer \notin sleepers[p]
    /\ idle' = [idle EXCEPT ![p] = 0]
    /\ stage' = "emptied"
    /\ UNCHANGED <<active, sleepers, present, callVars, gaveUp, late>>

(* ConnectionPool::shutdown(): active_connections_ is zero, at first or     *)
(* after a notification, and the queue is emptied.  Nothing marks the pool  *)
(* as shut down: until it is destroyed, acquire() opens new connections.    *)
DrainPool ==
    LET p == Draining IN
    /\ stage = "drain" /\ Drainer \notin sleepers[p] /\ active[p] = 0
    /\ idle' = [idle EXCEPT ![p] = 0]
    /\ stage' = "emptied"
    /\ UNCHANGED <<active, sleepers, present, callVars, gaveUp, late>>

DrainWaits ==
    LET p == Draining IN
    /\ stage = "drain" /\ Drainer \notin sleepers[p] /\ active[p] > 0
    /\ sleepers' = [sleepers EXCEPT ![p] = @ \cup {Drainer}]
    /\ UNCHANGED <<idle, active, callVars, present, stage, gaveUp, late>>

(* The five seconds are over: the queue is emptied with connections still   *)
(* in use.                                                                  *)
DrainTimesOut ==
    LET p == Draining IN
    /\ stage = "drain" /\ Drainer \in sleepers[p]
    /\ sleepers' = [sleepers EXCEPT ![p] = @ \ {Drainer}]
    /\ gaveUp' = (gaveUp \/ active[p] > 0)
    /\ idle' = [idle EXCEPT ![p] = 0]
    /\ stage' = "emptied"
    /\ UNCHANGED <<active, present, callVars, late>>

(* DatabaseManager::shutdown() clears or resets the pointer, whoever uses   *)
(* the pool now.                                                            *)
DestroyPool ==
    LET p == Draining IN
    /\ stage = "emptied"
    /\ idle' = [idle EXCEPT ![p] = 0]
    /\ present' = present \ {p}
    /\ stage' = IF p = "primary" THEN "down" ELSE "drain"
    /\ UNCHANGED <<active, sleepers, callVars, gaveUp, late>>

-----------------------------------------------------------------------------
Init ==
    /\ idle = [p \in Pools |-> 0] /\ active = [p \in Pools |-> 0]
    /\ present = {} /\ sleepers = [p \in Pools |-> {}]
    /\ pc = [t \in Threads |-> "idle"]
    /\ op = [t \in Threads |-> "read"] /\ pool = [t \in Threads |-> "primary"]
    /\ attempt = [t \in Threads |-> 0] /\ applied = [t \in Threads |-> 0]
    /\ result = [t \in Threads |-> "none"]
    /\ stage = "down" /\ gaveUp = FALSE /\ late = {}

Step(t) == \/ Acquire(t) \/ Connect(t) \/ ConnectFails(t) \/ Commit(t)
           \/ \E k \in Kinds : TxnFails(t, k)

Shutdown == ShutdownBegins \/ DrainPool \/ DrainWaits \/ DrainTimesOut \/ DestroyPool

Next == \/ \E up \in BOOLEAN : Start(up)
        \/ \E t \in Threads : \/ \E o \in Ops : Call(t, o)
                              \/ Step(t)
                              \/ AcquireTimesOut(t)
        \/ Shutdown

Spec == Init /\ [][Next]_vars

(* Threads and the server make progress, waits end, and a shutdown that has *)
(* begun goes on.  Connecting and committing need not ever succeed.         *)
FairSpec == /\ Spec
            /\ \A t \in Threads : WF_vars(Step(t)) /\ WF_vars(AcquireTimesOut(t))
            /\ WF_vars(DrainPool \/ DrainWaits \/ DestroyPool)
            /\ WF_vars(DrainTimesOut)

-----------------------------------------------------------------------------
(* The type invariant. *)
TypeOK ==
    /\ idle \in [Pools -> 0..Size] /\ active \in [Pools -> Nat]
    /\ present \in SUBSET Pools
    /\ sleepers \in [Pools -> SUBSET (Threads \cup {Drainer})]
    /\ pc \in [Threads -> {"idle", "acquire", "woken", "asleep", "connect", "txn"}]
    /\ op \in [Threads -> Ops] /\ pool \in [Threads -> Pools]
    /\ attempt \in [Threads -> 0..(MaxAttempts - 1)]
    /\ applied \in [Threads -> 0..2]
    /\ result \in [Threads -> {"none", "ok", "error"}]
    /\ stage \in {"up", "drain", "emptied", "down"} /\ gaveUp \in BOOLEAN
    /\ late \subseteq Threads

(* Lazy fills, failed handshakes and dropped connections keep the count of  *)
(* used slots equal to the threads that have one: a pool neither exceeds    *)
(* its size nor shrinks for good.                                           *)
WithinCap == /\ TypeOK
             /\ \A p \in present : /\ active[p] = Cardinality(Holding(p))
                                   /\ idle[p] + active[p] <= Size

(* While the service is up nobody sleeps beside a free slot: whenever a     *)
(* thread is asleep, as many threads have been woken as there are slots.    *)
NoMissedWakeup ==
    stage = "up" => \A p \in present :
        sleepers[p] # {} => Size - active[p] <= Cardinality(Woken(p))

(* execute_write never runs a transaction twice to its effect, although a   *)
(* commit may take effect and be reported as a failure; and success is not  *)
(* reported of a transaction that had none.                                 *)
WritesOnce ==
    \A t \in Threads : /\ op[t] = "write" => applied[t] <= 1
                       /\ result[t] = "ok" => applied[t] > 0

(* A pool is not destroyed under a thread that held one of its connections  *)
(* when shutdown() looked, unless shutdown() has waited its five seconds:   *)
(* who is left on a destroyed pool came in after shutdown() had emptied it, *)
(* which the code leaves to the order of tear-down (Database.hpp 327-331).  *)
FreedWhenUnused ==
    gaveUp \/ \A p \in Pools \ present : Holding(p) \subseteq late

(* Every call returns, whatever fails: waits time out, retries are bounded. *)
(* A call that waits on a pool that is destroyed ends with the process.     *)
EveryCallReturns ==
    \A t \in Threads :
        pc[t] # "idle" ~> (pc[t] = "idle" \/ pool[t] \notin present)
=============================================================================
