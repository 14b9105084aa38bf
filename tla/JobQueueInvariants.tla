------------------------ MODULE JobQueueInvariants ------------------------
(***************************************************************************)
(* The invariants from which JobQueueProofs proves the promises of         *)
(* JobQueueProperties, and what a step must leave in order for them to     *)
(* hold on.  First what holds in every deployment (IInv), then what holds  *)
(* as long as the queue runs undisturbed (OneOwner, Ledger), and last what *)
(* is left when a process has died, a command has failed or a handler has  *)
(* outlasted its lease (Anchored, InStep, LeaseKnown, Buried).             *)
(***************************************************************************)
EXTENDS JobQueueProperties

-----------------------------------------------------------------------------
(* What an actor knows at each command, and the shape of what Redis holds. *)

NoRepeats(list) == \A i, k \in DOMAIN list : list[i] = list[k] => i = k
Pcs == WorkerPcs \cup ClientPcs

\* Where an actor has no job of its own in hand.
EmptyHanded ==
    {"down", "recover", "recover_get", "promote", "promote_zrem", "promote_restore",
     "reap", "reap_zrem", "reap_restore", "pick",
     "idle", "mget_all", "mget_type", "heal_all", "heal_type", "heal_type_all"}

\* Where an actor is working through the reply of a scan.
Sweeping ==
    {"recover_get", "recover_set", "recover_push", "recover_lrem",
     "promote_zrem", "promote_get", "promote_push", "promote_restore",
     "reap_zrem", "reap_restore",
     "mget_all", "mget_type", "heal_all", "heal_type", "heal_type_all"}

\* What an actor knows at each command: the job it works on, that its scan is
\* not over, and, about to write a result, that the blob says "completed".
LocalOK ==
    /\ pc \in [Actors -> Pcs] /\ cur \in [Actors -> Jobs \cup {NoJob}]
    /\ copy \in [Actors -> Blob] /\ todo \in [Actors -> Seq(Jobs)]
    /\ \A a \in Actors : pc[a] \notin EmptyHanded => cur[a] \in Jobs
    /\ \A a \in Actors : pc[a] \in Sweeping => todo[a] # <<>>
    /\ \A a \in Actors : pc[a] = "complete_set" => copy[a].status = "completed"

StoreOK == blob \in [Jobs -> Blob] /\ ttl \subseteq Jobs /\ OnlySettledExpire

ListsOK ==
    /\ queue \in [TypeSet -> Seq(Jobs)] /\ proc \in [Workers -> Seq(Jobs)]
    /\ dlq \in [TypeSet -> Seq(Jobs)]

SetsOK ==
    /\ delayed \in [Jobs -> {"none", "parked", "due"}]
    /\ lease \in [Jobs -> {"none", "held", "expired"}]
    /\ dlqAll \subseteq Jobs /\ index \in [IndexKinds -> SUBSET Jobs]

RedisOK == StoreOK /\ ListsOK /\ SetsOK

HistoryOK ==
    /\ born \subseteq Jobs /\ runs \in [Jobs -> Nat]
    /\ crashes \in 0..MaxCrashes /\ faults \in 0..MaxFaults /\ lapses \in 0..MaxLapses

IInv == LocalOK /\ RedisOK /\ HistoryOK

-----------------------------------------------------------------------------
(* While nothing disturbs the queue a job is in one place: in one queue, once;  *)
(* parked; in the hands of one actor, who alone writes its blob; or in the list *)
(* of a worker that died and will recover it.                                   *)

\* The deployments these theorems are about: nothing is cancelled, one operator
\* requeues.
Fit == "cancel" \notin Ops /\ ("requeue" \in Ops => \A c, d \in Clients : c = d)

\* As long as no command has failed and at most one process has died; with leases,
\* as long as none has died and no handler has outlasted its lease.
Calm == faults = 0 /\ crashes <= 1 /\ (Visibility => lapses = 0 /\ crashes = 0)

\* A step there.
Undisturbed == Fit /\ Calm /\ Calm'

\* Where the bounds leave no room for more, every state is calm.
AlwaysCalm ==
    /\ MaxFaults = 0 /\ MaxCrashes <= 1
    /\ Visibility => MaxLapses = 0 /\ MaxCrashes = 0

Moving ==       \* it is to be run and neither queued nor parked
    {"promote_get", "promote_push", "pick_track", "pick_get", "pick_set",
     "fail_park", "fail_push", "recover_push", "submit_push", "requeue_push"}

HasRun ==       \* the handler has ended and its outcome is not yet in the blob
    {"complete_get", "complete_set", "fail_get", "fail_untrack", "fail_unlease",
     "fail_set", "dead_get", "dead_untrack", "dead_unlease", "dead_push",
     "dead_index", "dead_set"}

Working == {"pick_lease", "trace_get", "trace_set", "run"} \cup HasRun
Done == {"complete_untrack", "complete_unlease"}
Raising == {"requeue_lrem", "requeue_srem", "requeue_set"}
OwnerPcs == Moving \cup Working \cup Done \cup Raising \cup {"recover_set", "submit_set"}

\* Where the processing list of a worker holds its job.
Tracking ==
    {"pick_get", "pick_set", "pick_lease", "trace_get", "trace_set", "run",
     "complete_get", "complete_set", "complete_untrack", "fail_get", "fail_untrack",
     "dead_get", "dead_untrack"}

\* Where a lease may be written for it.
Leasing ==
    {"trace_get", "trace_set", "run", "complete_get", "complete_set",
     "complete_untrack", "complete_unlease", "fail_get", "fail_untrack",
     "fail_unlease", "dead_get", "dead_untrack", "dead_unlease"}

Sparing == {"down", "recover", "recover_get"}
Recovering == {"recover_get", "recover_set", "recover_push", "recover_lrem"}
Promoting == {"promote_zrem", "promote_get", "promote_push"}
Healing == {"heal_all", "heal_type", "heal_type_all"}

UsedWorkerPcs ==
    (OwnerPcs \cap WorkerPcs) \cup Sparing \cup
    {"recover_lrem", "promote", "promote_zrem", "reap", "pick", "fail_dlq", "fail_index"}

UsedClientPcs ==
    (OwnerPcs \cap ClientPcs) \cup Healing \cup
    {"idle", "submit_index", "submit_index_type", "mget_all", "mget_type"}

\* What an actor holds and what it is working through.
ActorOK(a) ==
    /\ pc[a] \in (IF a \in Workers THEN UsedWorkerPcs ELSE UsedClientPcs)
    /\ pc[a] \in EmptyHanded => cur[a] = NoJob
    /\ pc[a] = "pick_lease" => Visibility

WorkerOK(w) ==
    /\ pc[w] \notin Promoting \cup Recovering => todo[w] = <<>>
    /\ pc[w] \in Recovering => todo[w] = proc[w] /\ Len(proc[w]) = 1
    /\ pc[w] \in Recovering \ {"recover_get"} => proc[w] = <<cur[w]>>
    /\ pc[w] \in {"down", "recover"} => Len(proc[w]) <= 1
    /\ crashes = 0 => proc[w] = IF pc[w] \in Tracking THEN <<cur[w]>> ELSE <<>>

PlacesOK == (\A a \in Actors : ActorOK(a)) /\ (\A w \in Workers : WorkerOK(w))
QueuesOK ==
    \A t \in TypeSet : NoRepeats(queue[t]) /\ \A j \in Elements(queue[t]) : TypeOf[j] = t
Spare(w, j) == w \in Workers /\ pc[w] \in Sparing /\ j \in Elements(proc[w])
Owns(a, j) == (cur[a] = j /\ pc[a] \in OwnerPcs) \/ Spare(a, j)

\* What the owner of a job knows of its blob.
BlobKnown(a, j) ==
    LET b == blob[j] IN
    /\ pc[a] \in Moving => b.status = "pending"
    /\ pc[a] \in Working => b.status = "processing" /\ b.worker = a
    /\ pc[a] \in Done => b.status = "completed"
    /\ pc[a] \in Raising => b.status = "dead"
    /\ pc[a] = "recover_set" => b.status \in {"pending", "processing"}
    /\ pc[a] = "submit_set" => b.status = "absent"

CopyKnown(a, j) ==
    LET b == blob[j] IN
    /\ pc[a] = "pick_set" => copy[a] = [b EXCEPT !.status = "processing", !.worker = a]
    /\ pc[a] = "trace_set" => copy[a] = b
    /\ pc[a] = "complete_set" => copy[a] = [b EXCEPT !.status = "completed"]
    /\ pc[a] = "complete_untrack" => copy[a].worker = a
    /\ pc[a] \in {"fail_untrack", "fail_unlease", "fail_set"} =>
          /\ copy[a].worker = a /\ copy[a].retries = b.retries + 1
          /\ copy[a].status = IF RetriesLeft(j, b.retries + 1) THEN "pending" ELSE "dead"
    /\ pc[a] \in {"dead_untrack", "dead_unlease", "dead_push", "dead_index", "dead_set"} =>
          copy[a] = [b EXCEPT !.status = "dead"]
    /\ pc[a] = "recover_set" => copy[a] = [b EXCEPT !.status = "pending", !.worker = NoWorker]
    /\ pc[a] = "submit_set" => copy[a] = Fresh
    /\ pc[a] \in Raising => copy[a] = [b EXCEPT !.status = "pending", !.retries = 0]

OwnerKnows(a, j) ==
    /\ j \in born /\ blob[j].status # "failed"
    /\ ~Queued(j) /\ delayed[j] = "none"
    /\ cur[a] = j => BlobKnown(a, j) /\ CopyKnown(a, j)
    /\ cur[a] # j => blob[j].status # "dead"

Owned(j) ==
    /\ \A a, b \in Actors : Owns(a, j) /\ Owns(b, j) => a = b
    /\ \A a \in Actors : Owns(a, j) => OwnerKnows(a, j)

Waits(j) ==
    /\ Queued(j) => delayed[j] = "none"
    /\ Queued(j) \/ delayed[j] # "none" => blob[j].status = "pending"
    /\ lease[j] # "none" =>
          /\ lease[j] = "held" /\ Visibility
          /\ \E a \in Actors : cur[a] = j /\ pc[a] \in Leasing

Unborn(j) ==
    /\ ~Missing(j) => j \in born
    /\ j \notin born => runs[j] = 0 /\ \A a \in Actors : cur[a] # j
    /\ \A a \in Actors : cur[a] = j /\ pc[a] = "submit_set" =>
          runs[j] = 0 /\ \A b \in Actors : cur[b] = j => b = a

Counted(j) ==
    /\ runs[j] <= crashes + (IF MaxRetries[j] = 0 THEN 1 ELSE MaxRetries[j])
    /\ Live(j) => /\ blob[j].retries = 0 \/ blob[j].retries < MaxRetries[j]
                  /\ \/ runs[j] <= crashes + blob[j].retries
                     \/ /\ runs[j] <= crashes + blob[j].retries + 1
                        /\ \E a \in Actors : cur[a] = j /\ pc[a] \in HasRun

Placed(j) ==
    Live(j) => Queued(j) \/ delayed[j] # "none"
               \/ \E a \in Actors : cur[a] = j /\ pc[a] \in OwnerPcs

InDlq(j) == j \in Elements(dlq[TypeOf[j]])

Listed(j) ==
    /\ \A a \in Actors : cur[a] = j =>
          /\ pc[a] \in {"dead_index", "dead_set"} => InDlq(j)
          /\ pc[a] = "dead_set" => j \in dlqAll
    /\ blob[j].status = "dead" =>
          \/ InDlq(j) /\ j \in dlqAll
          \/ \E a \in Actors : cur[a] = j /\ pc[a] \in {"requeue_srem", "requeue_set", "fail_dlq"}
          \/ InDlq(j) /\ \E a \in Actors : cur[a] = j /\ pc[a] = "fail_index"

Indexed(j) ==
    /\ j \notin born \/ (\E a \in Actors : cur[a] = j /\ pc[a] = "submit_set") =>
          /\ \A k \in IndexKinds : j \notin index[k]
          /\ \A c \in Clients : j \notin Elements(todo[c])
    /\ \A c \in Clients : pc[c] \in Healing /\ j \in Elements(todo[c]) => Missing(j)
    /\ ~Missing(j) =>
          /\ j \in index["all"] \/ \E a \in Actors : cur[a] = j /\ pc[a] \in {"submit_push", "submit_index"}
          /\ j \in index["type"] \/ \E a \in Actors : cur[a] = j /\ pc[a] \in {"submit_push", "submit_index", "submit_index_type"}

Single(j) == Owned(j) /\ Waits(j) /\ Unborn(j)
OneOwner == PlacesOK /\ QueuesOK /\ \A j \in Jobs : Single(j)
BooksOK == \A j \in Jobs : Placed(j) /\ Listed(j) /\ Indexed(j)

-----------------------------------------------------------------------------
(* How a step of an actor disturbs the jobs, and who writes their blobs. *)

\* Actor a goes on at l with job j, blob b and scan s in its memory.
Moves(a, l, j, b, s) ==
    /\ pc' = [pc EXCEPT ![a] = l] /\ cur' = [cur EXCEPT ![a] = j]
    /\ copy' = [copy EXCEPT ![a] = b] /\ todo' = [todo EXCEPT ![a] = s]

\* What Redis says of job i, the dead-letter lists and the indexes apart.
Same(i) ==
    /\ blob'[i] = blob[i] /\ delayed'[i] = delayed[i] /\ lease'[i] = lease[i]
    /\ runs'[i] = runs[i] /\ (i \in born' <=> i \in born)
    /\ Queued(i)' <=> Queued(i)

Plain == (OwnerPcs \cap UsedWorkerPcs) \ (Promoting \cup Recovering)

\* A step of which only where it leads matters.
GoesTo(a, l, y) == \E b, s : Moves(a, l, y, b, s)

Writing ==
    {"pick_set", "trace_set", "complete_set", "fail_set", "dead_set", "recover_set",
     "submit_set", "requeue_set"}

\* The blobs stay as they are, or the actor writes that of the job it has in hand.
WritesOwn(a) ==
    \/ blob' = blob
    \/ pc[a] \in Writing /\ \A j \in Jobs : j # cur[a] => blob'[j] = blob[j]

-----------------------------------------------------------------------------
(* The books: a live job has a place, a dead one its entries in the dead-letter *)
(* lists, every job its index entries, every run its retry.                     *)

Ledger ==
    /\ \A j \in Jobs : Counted(j)
    /\ crashes = 0 => BooksOK

\* A step of actor a leaves the others where they are.
Others(a) ==
    \A c \in Actors \ {a} : pc'[c] = pc[c] /\ cur'[c] = cur[c] /\ todo'[c] = todo[c]

\* Where an actor owes the dead-letter lists or the indexes an entry.
Listing == {"dead_index", "dead_set", "requeue_srem", "requeue_set", "fail_dlq", "fail_index"}
Indexing == {"submit_set", "submit_push", "submit_index", "submit_index_type"}

\* No index and no page of one can name the job yet.
Unseen(j) == j \notin born \/ \E a \in Actors : cur[a] = j /\ pc[a] = "submit_set"
Pushing == {"submit_push", "submit_index"}

-----------------------------------------------------------------------------
(* After the first trouble a live job waits, or is in the hands of an actor that *)
(* will place it or write its outcome, or has a lease that nobody drops.         *)

\* Where an actor will still queue or park the job it has in hand, or finish it.
Placing ==
    {"promote_get", "promote_push", "promote_restore", "pick_track", "pick_untake", "pick_get",
     "pick_set", "pick_lease", "trace_get", "trace_set", "run", "complete_get", "complete_set",
     "fail_get", "fail_untrack", "fail_unlease", "fail_set", "fail_park", "fail_push",
     "dead_get", "dead_untrack", "dead_unlease", "dead_push", "dead_index", "dead_set",
     "recover_set", "recover_push", "submit_set", "submit_push", "requeue_set", "requeue_push"}

\* Where it has seen the job finished and drops what tracks it.
Unleasing == {"complete_untrack", "complete_unlease", "drop_untrack", "drop_unlease"}
Cancelling == {"cancel_set", "cancel_queue", "cancel_delayed", "cancel_proc", "cancel_lease"}
Burying == {"dead_untrack", "dead_unlease", "dead_push", "dead_index", "dead_set"}

Secured(j) ==
    \/ Queued(j) \/ delayed[j] # "none"
    \/ \E a \in Actors : cur[a] = j /\ pc[a] \in Placing
    \/ lease[j] # "none" /\ \A a \in Actors : cur[a] = j => pc[a] \notin Unleasing

Anchored == \A j \in Jobs : Live(j) => Secured(j)

\* Where an actor has no job in hand.
Resting == EmptyHanded \ {"promote_restore", "reap_restore"}

\* In every deployment without cancellations, whatever fails: what an actor promotes
\* is what its sweep is at, what it puts back after an exception is the job in hand,
\* and dead_letter() writes a dead blob.
InStep ==
    \A a \in Actors :
        /\ pc[a] \in Resting => cur[a] = NoJob
        /\ pc[a] \in {"promote_get", "promote_push"} => cur[a] = Next1(a)
        /\ pc[a] = "promote_restore" => cur[a] = NoJob \/ cur[a] = Next1(a)
        /\ pc[a] \in Burying => copy[a].status = "dead"
        /\ pc[a] \notin Cancelling

\* With leases, and before the first trouble, whoever may hold a lease holds it.
LeaseKnown == \A a \in Actors : pc[a] \in Leasing => lease[cur[a]] = "held"

-----------------------------------------------------------------------------
(* What a step of actor a, who goes on at l with job y, may do to job i. *)

Taken(i, l, y) == y = i /\ l \in Placing

Stays(a, i, l, y) ==
    /\ Live(i)' => Live(i) \/ Taken(i, l, y)
    /\ Queued(i) => Queued(i)' \/ Taken(i, l, y)
    /\ delayed[i] # "none" => delayed'[i] # "none" \/ Taken(i, l, y)
    /\ lease[i] # "none" =>
          lease'[i] # "none" \/ Taken(i, l, y) \/ (cur[a] = i /\ pc[a] \in Unleasing)
    /\ cur[a] = i /\ pc[a] \in Placing => Taken(i, l, y) \/ ~Live(i)' \/ Queued(i)' \/ delayed'[i] # "none"
    /\ y = i /\ l \in Unleasing => ~Live(i)' \/ (cur[a] = i /\ pc[a] \in Unleasing)

InOrder(a, l, y, b, s) ==
    /\ l \in Resting => y = NoJob \/ (pc[a] \in Resting /\ y = cur[a])
    /\ l = "promote_get" => y = Head(s)
    /\ l = "promote_push" => pc[a] = "promote_get" /\ y = cur[a] /\ s = todo[a]
    /\ l \in Burying => b.status = "dead" \/ (pc[a] \in Burying /\ b = copy[a])
    /\ l \notin Cancelling /\ l # "promote_restore"

LeasesKept(a, l, y) ==
    /\ l \in Leasing => \/ pc[a] \in Leasing /\ y = cur[a]
                        \/ ~Visibility \/ pc[a] = "reap_zrem" \/ lease'[y] = "held"
    /\ \A i \in Jobs : \/ lease'[i] \in {lease[i], "held"} \/ pc[a] = "reap_zrem"
                       \/ cur[a] = i /\ pc[a] \in Leasing \cup Unleasing /\ l \notin Leasing

Keeps(a) ==
    \E l, y, b, s :
        /\ Moves(a, l, y, b, s) /\ InOrder(a, l, y, b, s) /\ LeasesKept(a, l, y)
        /\ \A i \in Jobs : Stays(a, i, l, y)

\* Where an actor is between two jobs.
Free == EmptyHanded \ {"promote_restore"}
Rests(a, l, y) == l = "reap_restore" \/ y = NoJob \/ (pc[a] \in Resting /\ y = cur[a])
Leaves(a, y) == \E l \in Free : \E b, s : Moves(a, l, y, b, s) /\ Rests(a, l, y)
Sheltered(j) == Queued(j) \/ delayed[j] # "none" \/ \E a \in Actors : cur[a] = j /\ pc[a] \in Placing

-----------------------------------------------------------------------------
(* Where a trouble takes a job out of an actor's hands and no lease secures it. *)

StrandingFaults ==
    {"pick_get", "pick_set", "fail_set", "fail_park", "fail_push", "dead_push", "dead_index",
     "dead_set", "submit_push", "requeue_push"}

StrandingCrashes ==
    StrandingFaults \cup {"promote_get", "promote_push", "pick_track", "pick_lease"}

Leased ==
    /\ Visibility /\ Fit
    /\ FaultAt \cap StrandingFaults = {} /\ CrashAt \cap StrandingCrashes = {}

\* No command failed and no process died, or it was the first trouble of all.
Bearable == Troubles <= 1 \/ crashes + faults = 0

-----------------------------------------------------------------------------
(* Without operators who requeue, the dead-letter lists only grow. *)

Requeuing == {"requeue_lrem", "requeue_srem", "requeue_set", "requeue_push"}

\* Where an actor is about to write back the blob it has read or made.
Copying == {"pick_set", "trace_set", "complete_set", "recover_set", "submit_set"}

Attended(j) ==
    \/ InDlq(j) /\ j \in dlqAll
    \/ \E a \in Actors : cur[a] = j /\ pc[a] = "fail_dlq"
    \/ InDlq(j) /\ \E a \in Actors : cur[a] = j /\ pc[a] = "fail_index"

Buried ==
    /\ \A a \in Actors : pc[a] \notin Requeuing
    /\ \A a \in Actors : pc[a] \in {"dead_index", "dead_set"} => InDlq(cur[a])
    /\ \A a \in Actors : pc[a] = "dead_set" => cur[a] \in dlqAll
    /\ \A j \in Jobs : blob[j].status = "dead" => Attended(j)
    /\ \A a \in Actors : pc[a] \in Copying /\ copy[a].status = "dead" => Attended(cur[a])

\* Where the invariant says something of an actor.
Telling == Copying \cup Requeuing \cup {"dead_index", "dead_set"}
Passes(a) == \E l, y, b, s : Moves(a, l, y, b, s) /\ l \notin Telling
Listless == "requeue" \notin Ops /\ (FaultAt \cup CrashAt) \cap {"fail_dlq", "fail_index"} = {}
=============================================================================
