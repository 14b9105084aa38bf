------------------------------ MODULE JobQueue ------------------------------
(***************************************************************************)
(* The Redis-backed job queue of src/src/jobs/Jobs.hpp together with the loop  *)
(* every worker thread runs (src/src/worker_main.cpp) and the operations the   *)
(* API process calls.  Nothing but single Redis commands is atomic: every  *)
(* action below is one command together with the local code up to the next *)
(* one, and pc[a] names the command actor a issues next.  A blob that was  *)
(* read is kept in copy[a] and written back whole, as the code does.       *)
(***************************************************************************)
EXTENDS RedisLists

CONSTANTS
    Jobs,           \* job ids; a uuid is used once
    Workers,        \* worker threads, each with its own WORKER_ID
    Clients,        \* API request handlers
    Types,          \* job types, in the order a worker lists their queues
    TypeOf,         \* the type of each job
    MaxRetries,     \* max_retries of each job
    Backoff,        \* retry_backoff_base_ms_ > 0
    Visibility,     \* visibility_timeout_ms_ > 0
    Ops,            \* the operations the API process calls
    CrashAt,        \* where an actor may die (a worker at rest: be stopped)
    MaxLapses,      \* bound on leases that expire under a live holder
    FaultAt,        \* where a Redis command may fail
    Restarts,       \* a dead worker is started again with its WORKER_ID
    MaxCrashes,     \* bound on crashes
    MaxFaults,      \* bound on Redis commands that fail
    MaxRuns,        \* where the history of handler runs saturates
    NoJob, NoWorker

TypeSet == {Types[i] : i \in DOMAIN Types}
AllOps == {"submit", "cancel", "requeue", "list"}
Actors == Workers \cup Clients
IndexKinds == {"all", "type"}

ASSUME JobsAssumption ==
    /\ IsFiniteSet(Jobs) /\ NoJob \notin Jobs
    /\ Types \in Seq(TypeSet) /\ TypeOf \in [Jobs -> TypeSet]
    /\ MaxRetries \in [Jobs -> Nat]
ASSUME ActorsAssumption == NoWorker \notin Workers /\ Workers \cap Clients = {}
ASSUME SettingsAssumption ==
    /\ Backoff \in BOOLEAN /\ Visibility \in BOOLEAN /\ Restarts \in BOOLEAN
    /\ Ops \subseteq AllOps
    /\ MaxCrashes \in Nat /\ MaxFaults \in Nat /\ MaxRuns \in Nat
    /\ MaxLapses \in Nat

VARIABLES
    \* Redis
    blob,       \* job:<id>, Absent when the key does not exist
    ttl,        \* the jobs whose blob has a time to live
    queue,      \* jobs:queue:<type>
    proc,       \* jobs:processing:<worker>
    delayed,    \* jobs:delayed, scores abstracted to parked or due
    lease,      \* jobs:leases, scores abstracted to held or expired
    dlq,        \* jobs:dlq:<type>
    dlqAll,     \* jobs:dlq:_all
    index,      \* jobs:index and jobs:index:<type>
    \* actors
    pc, cur, copy, todo,
    \* history
    born,       \* the jobs submitted
    runs,       \* handler runs that ended, since submit or requeue
    crashes, faults, lapses

store == <<blob, ttl>>
zsets == <<delayed, lease>>
morgue == <<dlq, dlqAll>>
redis == <<store, queue, proc, zsets, morgue, index>>
local == <<pc, cur, copy, todo>>
history == <<born, runs, crashes, faults, lapses>>
vars == <<redis, local, history>>

Status == {"absent", "pending", "processing", "completed", "failed", "dead"}
Terminal == {"completed", "failed", "dead"}
Blob == [status : Status, worker : Workers \cup {NoWorker}, retries : Nat]
Absent == [status |-> "absent", worker |-> NoWorker, retries |-> 0]
\* Slip: a status outside the vocabulary.
FreshQueued == [status |-> "queued", worker |-> NoWorker, retries |-> 0]

Fresh == [status |-> "pending", worker |-> NoWorker, retries |-> 0]

Missing(j) == blob[j].status = "absent"
Finished(j) == blob[j].status \in Terminal

WorkerPcs ==
    {"down", "recover", "recover_get", "recover_set", "recover_push", "recover_lrem",
     "promote", "promote_zrem", "promote_get", "promote_push", "promote_restore",
     "reap", "reap_zrem", "reap_restore",
     "pick", "pick_track", "pick_untake", "pick_get", "pick_drop", "pick_set",
     "pick_lease", "trace_get", "trace_set", "run",
     "complete_get", "complete_set", "complete_untrack", "complete_unlease",
     "fail_get", "fail_untrack", "fail_unlease", "fail_set", "fail_park", "fail_push",
     "fail_dlq", "fail_index", "drop_untrack", "drop_unlease",
     "dead_get", "dead_untrack", "dead_unlease", "dead_push", "dead_index", "dead_set"}
ClientPcs ==
    {"idle", "submit_set", "submit_push", "submit_index", "submit_index_type",
     "cancel_set", "cancel_queue", "cancel_delayed", "cancel_proc", "cancel_lease",
     "requeue_lrem", "requeue_srem", "requeue_set", "requeue_push",
     "mget_all", "mget_type", "heal_all", "heal_type", "heal_type_all"}

\* The maintenance calls of an iteration; each returns at once when disabled.
AfterPromote == IF Visibility THEN "reap" ELSE "pick"
LoopHead == IF Backoff THEN "promote" ELSE AfterPromote
Rest(a) == IF a \in Workers THEN LoopHead ELSE "idle"

Init ==
    /\ blob = [j \in Jobs |-> Absent] /\ ttl = {}
    /\ queue = [t \in TypeSet |-> <<>>]
    /\ proc = [w \in Workers |-> <<>>]
    /\ delayed = [j \in Jobs |-> "none"] /\ lease = [j \in Jobs |-> "none"]
    /\ dlq = [t \in TypeSet |-> <<>>] /\ dlqAll = {}
    /\ index = [k \in IndexKinds |-> {}]
    /\ pc = [a \in Actors |-> IF a \in Workers THEN "recover" ELSE "idle"]
    /\ cur = [a \in Actors |-> NoJob]
    /\ copy = [a \in Actors |-> Absent]
    /\ todo = [a \in Actors |-> <<>>]
    /\ born = {} /\ runs = [j \in Jobs |-> 0] /\ crashes = 0 /\ faults = 0 /\ lapses = 0

-----------------------------------------------------------------------------
(* How an actor moves on. *)

Goto(a, l) == pc' = [pc EXCEPT ![a] = l] /\ UNCHANGED <<cur, copy, todo>>

\* Continue at l with job j in hand and the blob b read or prepared for it.
Hold(a, l, j, b) ==
    /\ pc' = [pc EXCEPT ![a] = l]
    /\ cur' = [cur EXCEPT ![a] = j]
    /\ copy' = [copy EXCEPT ![a] = b]
    /\ UNCHANGED todo

\* Continue at first with the next id of a scan, or at done after the last.
Advance(a, first, done) ==
    /\ pc' = [pc EXCEPT ![a] = IF Len(todo[a]) > 1 THEN first ELSE done]
    /\ todo' = [todo EXCEPT ![a] = Tail(@)]
    /\ cur' = [cur EXCEPT ![a] = NoJob]
    /\ copy' = [copy EXCEPT ![a] = Absent]

\* The call is over: fail() inside a sweep of leases goes on with the sweep,
\* every other call of a worker ends the iteration of its loop.
Reaping(a) == a \in Workers /\ todo[a] # <<>>
Return(a) ==
    IF Reaping(a) THEN Advance(a, "reap_zrem", "pick")
                  ELSE Hold(a, Rest(a), NoJob, Absent)

\* A scan whose reply lists the set S.
Scan(a, S, first, done) ==
    \E s \in Orders(S) :
        /\ todo' = [todo EXCEPT ![a] = s]
        /\ pc' = [pc EXCEPT ![a] = IF s = <<>> THEN done ELSE first]
        /\ UNCHANGED <<cur, copy>>

Next1(a) == Head(todo[a])

\* SET key value drops any time to live; SETEX sets one.
Set(j, b) == blob' = [blob EXCEPT ![j] = b] /\ ttl' = ttl \ {j}
SetEx(j, b) == blob' = [blob EXCEPT ![j] = b] /\ ttl' = ttl \cup {j}

Enqueue(j) == queue' = [queue EXCEPT ![TypeOf[j]] = LPush(@, j)]

\* lrem(processing_key(job.worker_id)), skipped when the blob names no worker.
UntrackOwner(a) ==
    IF copy[a].worker = NoWorker THEN UNCHANGED proc
    ELSE proc' = [proc EXCEPT ![copy[a].worker] = LRem(@, cur[a])]

\* clear_lease_
ClearLease(j) ==
    IF Visibility THEN lease' = [lease EXCEPT ![j] = "none"] ELSE UNCHANGED lease

-----------------------------------------------------------------------------
(* The worker loop: promote_due_jobs, reap_expired_leases, pick. *)

PromoteScan(w) ==
    /\ pc[w] = "promote"
    /\ Scan(w, {j \in Jobs : delayed[j] = "due"}, "promote_zrem", AfterPromote)
    /\ UNCHANGED <<redis, history>>

\* ZREM is the gate: only who removes the id goes on with it.
\* Slip: the reply of ZREM is ignored.
PromoteUngated(w) ==
    /\ pc[w] = "promote_zrem"
    /\ delayed' = [delayed EXCEPT ![Next1(w)] = "none"]
    /\ Hold(w, "promote_get", Next1(w), Absent)
    /\ UNCHANGED <<store, queue, proc, lease, morgue, index, history>>

PromoteZrem(w) ==
    /\ pc[w] = "promote_zrem"
    /\ LET j == Next1(w) IN
        \/ /\ delayed[j] = "none"
           /\ Advance(w, "promote_zrem", AfterPromote)
           /\ UNCHANGED delayed
        \/ /\ delayed[j] # "none"
           /\ delayed' = [delayed EXCEPT ![j] = "none"]
           /\ Hold(w, "promote_get", j, Absent)
    /\ UNCHANGED <<store, queue, proc, lease, morgue, index, history>>

PromoteGet(w) ==
    /\ pc[w] = "promote_get"
    /\ IF Missing(cur[w]) \/ Finished(cur[w])
       THEN Advance(w, "promote_zrem", AfterPromote)
       ELSE Goto(w, "promote_push")
    /\ UNCHANGED <<redis, history>>

PromotePush(w) ==
    /\ pc[w] = "promote_push"
    /\ Enqueue(cur[w])
    /\ Advance(w, "promote_zrem", AfterPromote)
    /\ UNCHANGED <<store, proc, zsets, morgue, index, history>>

\* The compensation of an exception after the scan: parked again, due at once.
PromoteRestore(w) ==
    /\ pc[w] = "promote_restore"
    /\ delayed' = [delayed EXCEPT ![Next1(w)] = "due"]
    /\ Advance(w, "promote_zrem", AfterPromote)
    /\ UNCHANGED <<store, queue, proc, lease, morgue, index, history>>

ReapScan(w) ==
    /\ pc[w] = "reap"
    /\ Scan(w, {j \in Jobs : lease[j] = "expired"}, "reap_zrem", "pick")
    /\ UNCHANGED <<redis, history>>

\* Slip: the lease is dropped and the job not reclaimed.
ReapForgets(w) ==
    /\ pc[w] = "reap_zrem"
    /\ lease' = [lease EXCEPT ![Next1(w)] = "none"]
    /\ Advance(w, "reap_zrem", "pick")
    /\ UNCHANGED <<store, queue, proc, delayed, morgue, index, history>>

ReapZrem(w) ==
    /\ pc[w] = "reap_zrem"
    /\ LET j == Next1(w) IN
        \/ /\ lease[j] = "none"
           /\ Advance(w, "reap_zrem", "pick")
           /\ UNCHANGED lease
        \/ /\ lease[j] # "none"
           /\ lease' = [lease EXCEPT ![j] = "none"]
           /\ Hold(w, "fail_get", j, Absent)
    /\ UNCHANGED <<store, queue, proc, delayed, morgue, index, history>>

\* The compensation: EXISTS, then the lease for one more window (the blob does
\* not expire between the two commands, see Expire).
ReapRestore(w) ==
    /\ pc[w] = "reap_restore"
    /\ IF Missing(Next1(w)) THEN UNCHANGED lease
       ELSE lease' = [lease EXCEPT ![Next1(w)] = "held"]
    /\ Advance(w, "reap_zrem", "pick")
    /\ UNCHANGED <<store, queue, proc, delayed, morgue, index, history>>

\* BRPOP looks at the queues in the order the worker lists them.
Ready(t) == \E i \in DOMAIN Types :
                /\ Types[i] = t /\ queue[t] # <<>>
                /\ \A k \in 1..(i - 1) : queue[Types[k]] = <<>>

\* One type: BRPOPLPUSH moves the id into the processing list atomically.
PickMove(w) ==
    /\ pc[w] = "pick" /\ Len(Types) = 1
    /\ \E t \in TypeSet :
        /\ Ready(t)
        /\ queue' = [queue EXCEPT ![t] = Older(@)]
        /\ proc' = [proc EXCEPT ![w] = LPush(@, Oldest(queue[t]))]
        /\ Hold(w, "pick_get", Oldest(queue[t]), Absent)
    /\ UNCHANGED <<store, zsets, morgue, index, history>>

\* Several types: BRPOP, then RPUSH; when that fails the id goes back.
PickPop(w) ==
    /\ pc[w] = "pick" /\ Len(Types) # 1
    /\ \E t \in TypeSet :
        /\ Ready(t)
        /\ queue' = [queue EXCEPT ![t] = Older(@)]
        /\ Hold(w, "pick_track", Oldest(queue[t]), Absent)
    /\ UNCHANGED <<store, proc, zsets, morgue, index, history>>

PickTrack(w) ==
    /\ pc[w] = "pick_track"
    /\ proc' = [proc EXCEPT ![w] = RPush(@, cur[w])]
    /\ Goto(w, "pick_get")
    /\ UNCHANGED <<store, queue, zsets, morgue, index, history>>

PickUntake(w) ==
    /\ pc[w] = "pick_untake"
    /\ queue' = [queue EXCEPT ![TypeOf[cur[w]]] = RPush(@, cur[w])]
    /\ Return(w)
    /\ UNCHANGED <<store, proc, zsets, morgue, index, history>>

PickTimeout(w) ==
    /\ pc[w] = "pick" /\ \A t \in TypeSet : queue[t] = <<>>
    /\ Return(w)
    /\ UNCHANGED <<redis, history>>

PickGet(w) ==
    /\ pc[w] = "pick_get"
    /\ IF Missing(cur[w]) \/ Finished(cur[w]) THEN Goto(w, "pick_drop")
       ELSE Hold(w, "pick_set", cur[w],
                 [blob[cur[w]] EXCEPT !.status = "processing", !.worker = w])
    /\ UNCHANGED <<redis, history>>

PickDrop(w) ==
    /\ pc[w] = "pick_drop"
    /\ proc' = [proc EXCEPT ![w] = LRem(@, cur[w])]
    /\ Return(w)
    /\ UNCHANGED <<store, queue, zsets, morgue, index, history>>

\* Slip: the lease is never written.
PickUnleased(w) ==
    /\ pc[w] = "pick_set"
    /\ Set(cur[w], copy[w])
    /\ Hold(w, "trace_get", cur[w], Absent)
    /\ UNCHANGED <<queue, proc, zsets, morgue, index, history>>

PickSet(w) ==
    /\ pc[w] = "pick_set"
    /\ Set(cur[w], copy[w])
    /\ Hold(w, IF Visibility THEN "pick_lease" ELSE "trace_get", cur[w], Absent)
    /\ UNCHANGED <<queue, proc, zsets, morgue, index, history>>

PickLease(w) ==
    /\ pc[w] = "pick_lease"
    /\ lease' = [lease EXCEPT ![cur[w]] = "held"]
    /\ Goto(w, "trace_get")
    /\ UNCHANGED <<store, queue, proc, delayed, morgue, index, history>>

-----------------------------------------------------------------------------
(* The worker loop: set_trace_id, the handler, complete. *)

TraceGet(w) ==
    /\ pc[w] = "trace_get"
    /\ IF Missing(cur[w]) THEN Goto(w, "run")
       ELSE Hold(w, "trace_set", cur[w], blob[cur[w]])
    /\ UNCHANGED <<redis, history>>

TraceSet(w) ==
    /\ pc[w] = "trace_set"
    /\ Set(cur[w], copy[w])
    /\ Hold(w, "run", cur[w], Absent)
    /\ UNCHANGED <<queue, proc, zsets, morgue, index, history>>

\* The handler returns, throws PermanentJobError or throws anything else.
Handle(w) ==
    /\ pc[w] = "run"
    /\ \E l \in {"complete_get", "dead_get", "fail_get"} : Goto(w, l)
    /\ runs' = [runs EXCEPT ![cur[w]] = IF @ < MaxRuns THEN @ + 1 ELSE @]
    /\ UNCHANGED <<redis, born, crashes, faults, lapses>>

\* complete() throws when the blob is gone; the loop answers with fail().
CompleteGet(w) ==
    /\ pc[w] = "complete_get"
    /\ IF Missing(cur[w]) THEN Goto(w, "fail_get")
       ELSE Hold(w, "complete_set", cur[w], [blob[cur[w]] EXCEPT !.status = "completed"])
    /\ UNCHANGED <<redis, history>>

CompleteSet(w) ==
    /\ pc[w] = "complete_set"
    /\ SetEx(cur[w], copy[w])
    /\ Goto(w, "complete_untrack")
    /\ UNCHANGED <<queue, proc, zsets, morgue, index, history>>

CompleteUntrack(w) ==
    /\ pc[w] = "complete_untrack"
    /\ UntrackOwner(w)
    /\ Goto(w, "complete_unlease")
    /\ UNCHANGED <<store, queue, zsets, morgue, index, history>>

CompleteUnlease(w) ==
    /\ pc[w] = "complete_unlease"
    /\ ClearLease(cur[w])
    /\ Return(w)
    /\ UNCHANGED <<store, queue, proc, delayed, morgue, index, history>>

-----------------------------------------------------------------------------
(* fail(), called by the loop for its own job and by the sweep of leases. *)

\* An exception leaves fail(): the sweep compensates, the loop starts over.
FailThrows(w) ==
    IF Reaping(w) THEN Goto(w, "reap_restore") ELSE Return(w)

\* Slip: one retry too many.
RetriesLeftInclusive(j, n) == n <= MaxRetries[j]

RetriesLeft(j, n) == n < MaxRetries[j]

FailGet(w) ==
    /\ pc[w] = "fail_get"
    /\ LET b == blob[cur[w]] IN
        \/ Missing(cur[w]) /\ FailThrows(w)
        \/ Finished(cur[w]) /\ Hold(w, "drop_untrack", cur[w], b)
        \/ /\ ~Missing(cur[w]) /\ ~Finished(cur[w])
           /\ Hold(w, "fail_untrack", cur[w],
                   [b EXCEPT !.retries = @ + 1,
                             !.status = IF RetriesLeft(cur[w], b.retries + 1)
                                        THEN "pending" ELSE "dead"])
    /\ UNCHANGED <<redis, history>>

\* Slip: the failed job stays in the processing list.
FailTracked(w) ==
    /\ pc[w] = "fail_untrack"
    /\ Goto(w, "fail_unlease")
    /\ UNCHANGED <<redis, history>>

FailUntrack(w) ==
    /\ pc[w] = "fail_untrack"
    /\ UntrackOwner(w)
    /\ Goto(w, "fail_unlease")
    /\ UNCHANGED <<store, queue, zsets, morgue, index, history>>

FailUnlease(w) ==
    /\ pc[w] = "fail_unlease"
    /\ ClearLease(cur[w])
    /\ Goto(w, "fail_set")
    /\ UNCHANGED <<store, queue, proc, delayed, morgue, index, history>>

\* The retried blob keeps the worker_id of the run that failed.
FailSet(w) ==
    /\ pc[w] = "fail_set"
    /\ Set(cur[w], copy[w])
    /\ Goto(w, IF copy[w].status = "dead" THEN "fail_dlq"
               ELSE IF Backoff THEN "fail_park" ELSE "fail_push")
    /\ UNCHANGED <<queue, proc, zsets, morgue, index, history>>

FailPark(w) ==
    /\ pc[w] = "fail_park"
    /\ delayed' = [delayed EXCEPT ![cur[w]] = "parked"]
    /\ Return(w)
    /\ UNCHANGED <<store, queue, proc, lease, morgue, index, history>>

FailPush(w) ==
    /\ pc[w] = "fail_push"
    /\ Enqueue(cur[w])
    /\ Return(w)
    /\ UNCHANGED <<store, proc, zsets, morgue, index, history>>

Bury(j) == dlq' = [dlq EXCEPT ![TypeOf[j]] = LPush(@, j)]

FailDlq(w) ==
    /\ pc[w] = "fail_dlq"
    /\ Bury(cur[w])
    /\ Goto(w, "fail_index")
    /\ UNCHANGED <<store, queue, proc, zsets, dlqAll, index, history>>

FailIndex(w) ==
    /\ pc[w] = "fail_index"
    /\ dlqAll' = dlqAll \cup {cur[w]}
    /\ Return(w)
    /\ UNCHANGED <<store, queue, proc, zsets, dlq, index, history>>

\* The job was already finished: only its tracking goes.
DropUntrack(w) ==
    /\ pc[w] = "drop_untrack"
    /\ UntrackOwner(w)
    /\ Goto(w, "drop_unlease")
    /\ UNCHANGED <<store, queue, zsets, morgue, index, history>>

DropUnlease(w) ==
    /\ pc[w] = "drop_unlease"
    /\ ClearLease(cur[w])
    /\ Return(w)
    /\ UNCHANGED <<store, queue, proc, delayed, morgue, index, history>>

-----------------------------------------------------------------------------
(* dead_letter(): no look at the status, and the blob is written last. *)

DeadGet(w) ==
    /\ pc[w] = "dead_get"
    /\ IF Missing(cur[w]) THEN Return(w)
       ELSE Hold(w, "dead_untrack", cur[w], [blob[cur[w]] EXCEPT !.status = "dead"])
    /\ UNCHANGED <<redis, history>>

DeadUntrack(w) ==
    /\ pc[w] = "dead_untrack"
    /\ UntrackOwner(w)
    /\ Goto(w, "dead_unlease")
    /\ UNCHANGED <<store, queue, zsets, morgue, index, history>>

DeadUnlease(w) ==
    /\ pc[w] = "dead_unlease"
    /\ ClearLease(cur[w])
    /\ Goto(w, "dead_push")
    /\ UNCHANGED <<store, queue, proc, delayed, morgue, index, history>>

DeadPush(w) ==
    /\ pc[w] = "dead_push"
    /\ Bury(cur[w])
    /\ Goto(w, "dead_index")
    /\ UNCHANGED <<store, queue, proc, zsets, dlqAll, index, history>>

DeadIndex(w) ==
    /\ pc[w] = "dead_index"
    /\ dlqAll' = dlqAll \cup {cur[w]}
    /\ Goto(w, "dead_set")
    /\ UNCHANGED <<store, queue, proc, zsets, dlq, index, history>>

\* Slip: a dead job gets the time to live of a result.
DeadSetEx(w) ==
    /\ pc[w] = "dead_set"
    /\ SetEx(cur[w], copy[w])
    /\ Return(w)
    /\ UNCHANGED <<queue, proc, zsets, morgue, index, history>>

DeadSet(w) ==
    /\ pc[w] = "dead_set"
    /\ Set(cur[w], copy[w])
    /\ Return(w)
    /\ UNCHANGED <<queue, proc, zsets, morgue, index, history>>

-----------------------------------------------------------------------------
(* recover_processing(), called for this worker's list before it picks. *)

RecoverScan(w) ==
    /\ pc[w] = "recover"
    /\ todo' = [todo EXCEPT ![w] = proc[w]]
    /\ pc' = [pc EXCEPT ![w] = IF proc[w] = <<>> THEN LoopHead ELSE "recover_get"]
    /\ UNCHANGED <<cur, copy, redis, history>>

\* The blob names another worker: its job, left alone.
Foreign(w, j) == blob[j].worker \notin {NoWorker, w}

\* Slip: finished jobs are rescued too.
RecoverBlindly(w) ==
    /\ pc[w] = "recover_get"
    /\ LET j == Next1(w) IN
        \/ Missing(j) /\ Hold(w, "recover_lrem", j, Absent)
        \/ ~Missing(j) /\ Foreign(w, j) /\ Advance(w, "recover_get", LoopHead)
        \/ /\ ~Missing(j) /\ ~Foreign(w, j)
           /\ Hold(w, "recover_set", j,
                   [blob[j] EXCEPT !.status = "pending", !.worker = NoWorker])
    /\ UNCHANGED <<redis, history>>

RecoverGet(w) ==
    /\ pc[w] = "recover_get"
    /\ LET j == Next1(w) IN
        \/ Missing(j) /\ Hold(w, "recover_lrem", j, Absent)
        \/ ~Missing(j) /\ Foreign(w, j) /\ Advance(w, "recover_get", LoopHead)
        \/ Finished(j) /\ ~Foreign(w, j) /\ Hold(w, "recover_lrem", j, Absent)
        \/ /\ ~Missing(j) /\ ~Foreign(w, j) /\ ~Finished(j)
           /\ Hold(w, "recover_set", j,
                   [blob[j] EXCEPT !.status = "pending", !.worker = NoWorker])
    /\ UNCHANGED <<redis, history>>

RecoverSet(w) ==
    /\ pc[w] = "recover_set"
    /\ Set(cur[w], copy[w])
    /\ Goto(w, "recover_push")
    /\ UNCHANGED <<queue, proc, zsets, morgue, index, history>>

RecoverPush(w) ==
    /\ pc[w] = "recover_push"
    /\ Enqueue(cur[w])
    /\ Goto(w, "recover_lrem")
    /\ UNCHANGED <<store, proc, zsets, morgue, index, history>>

RecoverLrem(w) ==
    /\ pc[w] = "recover_lrem"
    /\ proc' = [proc EXCEPT ![w] = LRem(@, cur[w])]
    /\ Advance(w, "recover_get", LoopHead)
    /\ UNCHANGED <<store, queue, zsets, morgue, index, history>>

\* A worker starts, with the WORKER_ID its predecessor had.
Restart(w) ==
    /\ pc[w] = "down" /\ Restarts
    /\ Goto(w, "recover")
    /\ UNCHANGED <<redis, history>>

-----------------------------------------------------------------------------
(* The operations of the API process. *)

Submit(c) ==
    /\ pc[c] = "idle" /\ "submit" \in Ops
    /\ \E j \in Jobs \ born :
        /\ born' = born \cup {j}
        /\ Hold(c, "submit_set", j, Fresh)
    /\ UNCHANGED <<redis, runs, crashes, faults, lapses>>

SubmitSet(c) ==
    /\ pc[c] = "submit_set"
    /\ Set(cur[c], copy[c])
    /\ Goto(c, "submit_push")
    /\ UNCHANGED <<queue, proc, zsets, morgue, index, history>>

SubmitPush(c) ==
    /\ pc[c] = "submit_push"
    /\ Enqueue(cur[c])
    /\ Goto(c, "submit_index")
    /\ UNCHANGED <<store, proc, zsets, morgue, index, history>>

SubmitIndex(c) ==
    /\ \/ /\ pc[c] = "submit_index"
          /\ index' = [index EXCEPT !["all"] = @ \cup {cur[c]}]
          /\ Goto(c, "submit_index_type")
       \/ /\ pc[c] = "submit_index_type"
          /\ index' = [index EXCEPT !["type"] = @ \cup {cur[c]}]
          /\ Return(c)
    /\ UNCHANGED <<store, queue, proc, zsets, morgue, history>>

\* cancel() refuses what is gone or finished.
Cancel(c) ==
    /\ pc[c] = "idle" /\ "cancel" \in Ops
    /\ \E j \in born :
        /\ ~Missing(j) /\ ~Finished(j)
        /\ Hold(c, "cancel_set", j, blob[j])
    /\ UNCHANGED <<redis, history>>

CancelSet(c) ==
    /\ pc[c] = "cancel_set"
    /\ SetEx(cur[c], [copy[c] EXCEPT !.status = "failed"])
    /\ Goto(c, "cancel_queue")
    /\ UNCHANGED <<queue, proc, zsets, morgue, index, history>>

CancelQueue(c) ==
    /\ pc[c] = "cancel_queue"
    /\ queue' = [queue EXCEPT ![TypeOf[cur[c]]] = LRem(@, cur[c])]
    /\ Goto(c, "cancel_delayed")
    /\ UNCHANGED <<store, proc, zsets, morgue, index, history>>

CancelDelayed(c) ==
    /\ pc[c] = "cancel_delayed"
    /\ delayed' = [delayed EXCEPT ![cur[c]] = "none"]
    /\ Goto(c, IF copy[c].status = "processing" THEN "cancel_proc" ELSE "cancel_lease")
    /\ UNCHANGED <<store, queue, proc, lease, morgue, index, history>>

CancelProc(c) ==
    /\ pc[c] = "cancel_proc"
    /\ UntrackOwner(c)
    /\ Goto(c, "cancel_lease")
    /\ UNCHANGED <<store, queue, zsets, morgue, index, history>>

CancelLease(c) ==
    /\ pc[c] = "cancel_lease"
    /\ ClearLease(cur[c])
    /\ Return(c)
    /\ UNCHANGED <<store, queue, proc, delayed, morgue, index, history>>

\* requeue_from_dlq() refuses what is not dead.
Requeue(c) ==
    /\ pc[c] = "idle" /\ "requeue" \in Ops
    /\ \E j \in born :
        /\ blob[j].status = "dead"
        /\ Hold(c, "requeue_lrem", j, [blob[j] EXCEPT !.status = "pending", !.retries = 0])
    /\ UNCHANGED <<redis, history>>

RequeueLrem(c) ==
    /\ pc[c] = "requeue_lrem"
    /\ dlq' = [dlq EXCEPT ![TypeOf[cur[c]]] = LRem(@, cur[c])]
    /\ Goto(c, "requeue_srem")
    /\ UNCHANGED <<store, queue, proc, zsets, dlqAll, index, history>>

RequeueSrem(c) ==
    /\ pc[c] = "requeue_srem"
    /\ dlqAll' = dlqAll \ {cur[c]}
    /\ Goto(c, "requeue_set")
    /\ UNCHANGED <<store, queue, proc, zsets, dlq, index, history>>

RequeueSet(c) ==
    /\ pc[c] = "requeue_set"
    /\ Set(cur[c], copy[c])
    /\ runs' = [runs EXCEPT ![cur[c]] = 0]
    /\ Goto(c, "requeue_push")
    /\ UNCHANGED <<queue, proc, zsets, morgue, index, born, crashes, faults, lapses>>

RequeuePush(c) ==
    /\ pc[c] = "requeue_push"
    /\ Enqueue(cur[c])
    /\ Return(c)
    /\ UNCHANGED <<store, proc, zsets, morgue, index, history>>

\* list_paged(): a page of an index, its blobs, and the ids to heal.
ListRange(c) ==
    /\ pc[c] = "idle" /\ "list" \in Ops
    /\ \/ \E S \in SUBSET index["all"] : Scan(c, S, "mget_all", "idle")
       \/ \E S \in SUBSET index["type"] : Scan(c, S, "mget_type", "idle")
    /\ UNCHANGED <<redis, history>>

Stale(j) == Missing(j)

ListMget(c) ==
    /\ LET stale == {j \in Elements(todo[c]) : Stale(j)} IN
        \/ pc[c] = "mget_all" /\ Scan(c, stale, "heal_all", "idle")
        \/ pc[c] = "mget_type" /\ Scan(c, stale, "heal_type", "idle")
    /\ UNCHANGED <<redis, history>>

ListHeal(c) ==
    /\ \/ /\ pc[c] = "heal_all"
          /\ index' = [index EXCEPT !["all"] = @ \ {Next1(c)}]
          /\ Advance(c, "heal_all", "idle")
       \/ /\ pc[c] = "heal_type"
          /\ index' = [index EXCEPT !["type"] = @ \ {Next1(c)}]
          /\ Goto(c, "heal_type_all")
       \/ /\ pc[c] = "heal_type_all"
          /\ index' = [index EXCEPT !["all"] = @ \ {Next1(c)}]
          /\ Advance(c, "heal_type", "idle")
    /\ UNCHANGED <<store, queue, proc, zsets, morgue, history>>

-----------------------------------------------------------------------------
(* Crashes, failing commands, the passing of time. *)

\* The process of a dies; what it had in memory is gone.  A worker process that has
\* several threads (worker_main.cpp 478-482) loses them all; here it has one.
Crash(a) ==
    /\ pc[a] \in CrashAt /\ crashes < MaxCrashes
    /\ crashes' = crashes + 1
    /\ pc' = [pc EXCEPT ![a] = IF a \in Workers THEN "down" ELSE "idle"]
    /\ cur' = [cur EXCEPT ![a] = NoJob]
    /\ copy' = [copy EXCEPT ![a] = Absent]
    /\ todo' = [todo EXCEPT ![a] = <<>>]
    /\ UNCHANGED <<redis, born, runs, faults, lapses>>

\* Where control goes when the command at l throws: the enclosing catch in the
\* function, or the one of the worker loop.
CaughtAt(l) ==
    CASE l = "promote" -> AfterPromote
      [] l \in {"promote_zrem", "promote_get", "promote_push"} -> "promote_restore"
      [] l = "reap" -> "pick"
      [] l = "reap_zrem" -> "reap_restore"
      [] l = "recover" -> LoopHead
      [] l = "pick_track" -> "pick_untake"
      [] l = "pick_lease" -> "trace_get"
      [] l \in {"trace_get", "trace_set"} -> "run"
      [] l \in {"complete_get", "complete_set"} -> "fail_get"
      [] l = "complete_untrack" -> "complete_unlease"
      [] l = "fail_untrack" -> "fail_unlease"
      [] l = "fail_unlease" -> "fail_set"
      [] l = "drop_untrack" -> "drop_unlease"
      [] l = "dead_untrack" -> "dead_unlease"
      [] l = "dead_unlease" -> "dead_push"
Caught ==
    {"promote", "promote_zrem", "promote_get", "promote_push", "reap", "reap_zrem",
     "recover", "pick_track", "pick_lease", "trace_get", "trace_set", "complete_get",
     "complete_set", "complete_untrack", "fail_untrack", "fail_unlease",
     "drop_untrack", "dead_untrack", "dead_unlease"}
ThrownFromFail ==
    {"fail_get", "fail_set", "fail_park", "fail_push", "fail_dlq", "fail_index"}
EndsIteration ==
    {"pick", "pick_untake", "pick_get", "pick_drop", "pick_set", "complete_unlease",
     "drop_unlease", "dead_get", "dead_push", "dead_index", "dead_set"}

\* A Redis command fails and has no effect.
Throw(a) ==
    /\ pc[a] \in FaultAt /\ faults < MaxFaults
    /\ faults' = faults + 1
    /\ \/ pc[a] \in Caught /\ Goto(a, CaughtAt(pc[a]))
       \/ pc[a] \in ThrownFromFail /\ FailThrows(a)
       \/ pc[a] \in EndsIteration /\ Return(a)
       \/ pc[a] = "promote_restore" /\ Advance(a, "promote_zrem", AfterPromote)
       \/ pc[a] = "reap_restore" /\ Advance(a, "reap_zrem", "pick")
       \/ /\ pc[a] \in {"recover_get", "recover_set", "recover_push", "recover_lrem"}
          /\ Advance(a, "recover_get", LoopHead)
       \/ pc[a] = "heal_all" /\ Advance(a, "heal_all", "idle")
       \/ pc[a] \in {"heal_type", "heal_type_all"} /\ Advance(a, "heal_type", "idle")
       \/ /\ pc[a] \in ClientPcs \ {"idle", "heal_all", "heal_type", "heal_type_all"}
          /\ pc' = [pc EXCEPT ![a] = "idle"]
          /\ cur' = [cur EXCEPT ![a] = NoJob]
          /\ copy' = [copy EXCEPT ![a] = Absent]
          /\ todo' = [todo EXCEPT ![a] = <<>>]
    /\ UNCHANGED <<redis, born, runs, crashes, lapses>>

BackoffElapses(j) ==
    /\ delayed[j] = "parked"
    /\ delayed' = [delayed EXCEPT ![j] = "due"]
    /\ UNCHANGED <<store, queue, proc, lease, morgue, index, local, history>>

\* The timeout is far longer than a handful of Redis commands: when the lease
\* of a job expires while a worker has it in hand, its handler is running.
LeaseExpires(j) ==
    /\ lease[j] = "held"
    /\ \A a \in Actors : cur[a] = j => pc[a] = "run"
    /\ lease' = [lease EXCEPT ![j] = "expired"]
    /\ IF \E a \in Actors : cur[a] = j
       THEN lapses < MaxLapses /\ lapses' = lapses + 1
       ELSE UNCHANGED lapses
    /\ UNCHANGED <<store, queue, proc, delayed, morgue, index, local,
                   born, runs, crashes, faults>>

\* So is result_ttl; only a handler can outlast it.
Expire(j) ==
    /\ j \in ttl
    /\ \A a \in Actors : cur[a] = j => pc[a] = "run"
    /\ blob' = [blob EXCEPT ![j] = Absent]
    /\ ttl' = ttl \ {j}
    /\ UNCHANGED <<queue, proc, zsets, morgue, index, local, history>>

-----------------------------------------------------------------------------
WorkerStep(w) ==
    \/ PromoteScan(w) \/ PromoteZrem(w) \/ PromoteGet(w) \/ PromotePush(w)
    \/ PromoteRestore(w) \/ ReapScan(w) \/ ReapZrem(w) \/ ReapRestore(w)
    \/ PickMove(w) \/ PickPop(w) \/ PickTrack(w) \/ PickUntake(w)
    \/ PickTimeout(w) \/ PickGet(w) \/ PickDrop(w) \/ PickSet(w) \/ PickLease(w)
    \/ TraceGet(w) \/ TraceSet(w) \/ Handle(w)
    \/ CompleteGet(w) \/ CompleteSet(w) \/ CompleteUntrack(w) \/ CompleteUnlease(w)
    \/ FailGet(w) \/ FailUntrack(w) \/ FailUnlease(w) \/ FailSet(w) \/ FailPark(w)
    \/ FailPush(w) \/ FailDlq(w) \/ FailIndex(w) \/ DropUntrack(w) \/ DropUnlease(w)
    \/ DeadGet(w) \/ DeadUntrack(w) \/ DeadUnlease(w) \/ DeadPush(w) \/ DeadIndex(w)
    \/ DeadSet(w) \/ RecoverScan(w) \/ RecoverGet(w) \/ RecoverSet(w)
    \/ RecoverPush(w) \/ RecoverLrem(w)

ClientStep(c) ==
    \/ SubmitSet(c) \/ SubmitPush(c) \/ SubmitIndex(c)
    \/ CancelSet(c) \/ CancelQueue(c) \/ CancelDelayed(c) \/ CancelProc(c)
    \/ CancelLease(c) \/ RequeueLrem(c) \/ RequeueSrem(c) \/ RequeueSet(c)
    \/ RequeuePush(c) \/ ListMget(c) \/ ListHeal(c)

ClientCall(c) == Submit(c) \/ Cancel(c) \/ Requeue(c) \/ ListRange(c)

Next ==
    \/ \E w \in Workers : WorkerStep(w) \/ Restart(w)
    \/ \E c \in Clients : ClientCall(c) \/ ClientStep(c)
    \/ \E a \in Actors : Crash(a) \/ Throw(a)
    \/ \E j \in Jobs : BackoffElapses(j) \/ LeaseExpires(j) \/ Expire(j)

Spec == Init /\ [][Next]_vars

\* Threads and request handlers keep running, a pod is started again, time
\* passes.  Crashes, failing commands and new calls are never owed.
Fairness ==
    /\ \A w \in Workers : WF_vars(WorkerStep(w)) /\ WF_vars(Restart(w))
    /\ \A c \in Clients : WF_vars(ClientStep(c))
    /\ \A j \in Jobs : WF_vars(BackoffElapses(j)) /\ WF_vars(LeaseExpires(j))
FairSpec == Spec /\ Fairness

=============================================================================
