------------------------ MODULE JobQueueProperties ------------------------
(***************************************************************************)
(* What the job queue promises.  Which promise holds in which deployment   *)
(* (leases on or off, crashes, cancellations, failing commands) is the     *)
(* question each run of JobQueueMC asks.                                   *)
(***************************************************************************)
EXTENDS JobQueue

\* Every variable holds a value of the shape the code stores there.
TypeOK ==
    /\ blob \in [Jobs -> Blob] /\ ttl \subseteq Jobs
    /\ queue \in [TypeSet -> Seq(Jobs)] /\ proc \in [Workers -> Seq(Jobs)]
    /\ delayed \in [Jobs -> {"none", "parked", "due"}]
    /\ lease \in [Jobs -> {"none", "held", "expired"}]
    /\ dlq \in [TypeSet -> Seq(Jobs)] /\ dlqAll \subseteq Jobs
    /\ index \in [IndexKinds -> SUBSET Jobs]
    /\ pc \in [Actors -> WorkerPcs \cup ClientPcs]
    /\ cur \in [Actors -> Jobs \cup {NoJob}]
    /\ copy \in [Actors -> Blob]
    /\ todo \in [Actors -> Seq(Jobs)]
    /\ born \subseteq Jobs /\ runs \in [Jobs -> Nat]
    /\ crashes \in 0..MaxCrashes /\ faults \in 0..MaxFaults
    /\ lapses \in 0..MaxLapses

-----------------------------------------------------------------------------
Occurrences(list, x) == Cardinality({i \in DOMAIN list : list[i] = x})
Queued(j) == j \in Elements(queue[TypeOf[j]])
Live(j) == ~Missing(j) /\ ~Finished(j)
InHand(j) == \E a \in Actors : cur[a] = j

\* A handler never runs twice at the same time for one job (the reason
\* recover_processing checks who owns the job): src/src/jobs/Jobs.hpp 544-552.
OneRunAtATime ==
    \A v, w \in Workers :
        pc[v] = "run" /\ pc[w] = "run" /\ cur[v] = cur[w] => v = w

\* One submission is answered by at most max_retries handler runs that end,
\* and one more for every crash that made recovery repeat a run (fail()).
RunsWithinBudget ==
    \A j \in Jobs : runs[j] <= crashes + (IF MaxRetries[j] = 0 THEN 1 ELSE MaxRetries[j])

\* Only a completed or cancelled blob may expire: neither a job still to be
\* run nor one in the dead-letter queue vanishes by itself (fail() 370-372).
OnlySettledExpire == \A j \in ttl : blob[j].status \in {"completed", "failed"}

\* Whatever is still to be run is referenced by a queue, by the backoff set or
\* by the actor that is moving it between them.
NothingLost == \A j \in Jobs : Live(j) => Queued(j) \/ delayed[j] # "none" \/ InHand(j)

\* After a crash: the worker that had the job finds it in its list again and
\* recovery will take it for its own, or a lease lets any worker reclaim it.
Recoverable(j) ==
    \/ \E w \in Workers :
        /\ j \in Elements(proc[w]) /\ ~Foreign(w, j)
        /\ pc[w] = "recover" \/ (pc[w] = "down" /\ Restarts)
    \/ \E w \in Workers : pc[w] = "recover_get" /\ j \in Elements(todo[w]) /\ ~Foreign(w, j)
    \/ lease[j] # "none"

NothingStranded ==
    \A j \in Jobs :
        Live(j) => Queued(j) \/ delayed[j] # "none" \/ InHand(j) \/ Recoverable(j)

\* A job waits in one place, once: a second copy of its id would be run too.
WaitsOnce ==
    \A j \in Jobs :
        /\ Occurrences(queue[TypeOf[j]], j) <= 1
        /\ Queued(j) => delayed[j] = "none"

\* When nobody has a job in hand and its blob says "dead", an operator finds it
\* in the dead-letter list of its type and in the set of all dead jobs.
DeadIsListed ==
    \A j \in Jobs : (blob[j].status = "dead" /\ ~InHand(j)) =>
        j \in dlqAll /\ j \in Elements(dlq[TypeOf[j]])

\* When nobody has a finished job in hand, no list a worker, a sweep or a
\* recovery looks at still refers to it.
FinishedIsForgotten ==
    \A j \in Jobs : (Finished(j) /\ ~InHand(j)) =>
        /\ ~Queued(j) /\ delayed[j] = "none" /\ lease[j] = "none"
        /\ \A w \in Workers : j \notin Elements(proc[w])

\* Every submitted job that still has a blob is listed by both indexes once
\* its submit() returned (list_paged heals only what is gone).
IndexIsComplete ==
    \A j \in born : (~Missing(j) /\ ~InHand(j)) => \A k \in IndexKinds : j \in index[k]

\* The reads of an operator: list_dlq() of all types or of one, dlq_depth(),
\* dlq_depth_by_type() and queue_depth_by_type(), which the gauges show.
AllTypes == "all types"
ListDlq(type) ==
    {j \in IF type = AllTypes THEN dlqAll ELSE Elements(dlq[type]) : ~Missing(j)}
DlqDepth == Cardinality(dlqAll)
DlqDepthByType == [t \in TypeSet |-> Len(dlq[t])]
QueueDepthByType == [t \in TypeSet |-> Len(queue[t])]

\* When nobody has a job in hand, the gauge of a queue counts each waiting job
\* once, and the lists and gauges of the dead leave none out.  They may keep one
\* that is not dead any more: requeue_from_dlq() may be done with a job before
\* fail() has listed it (src/src/jobs/Jobs.hpp 376-379).
GaugesCount ==
    (\A j \in Jobs : ~InHand(j)) =>
        LET Dead == {j \in Jobs : blob[j].status = "dead"}
            Waiting == {j \in Jobs : blob[j].status = "pending" /\ delayed[j] = "none"}
            Of(t, set) == {j \in set : TypeOf[j] = t}
        IN  /\ \A t \in TypeSet : /\ QueueDepthByType[t] = Cardinality(Of(t, Waiting))
                                   /\ DlqDepthByType[t] >= Cardinality(Of(t, Dead))
                                   /\ Of(t, Dead) \subseteq ListDlq(t)
            /\ DlqDepth >= Cardinality(Dead) /\ Dead \subseteq ListDlq(AllTypes)

\* What is finished stays finished with that status until it expires; only
\* requeue_from_dlq brings a dead job back.
FinishedIsFinal ==
    [][\A j \in Jobs : Finished(j) =>
        \/ blob'[j].status \in {blob[j].status, "absent"}
        \/ blob[j].status = "dead" /\ \E c \in Clients : pc[c] = "requeue_set" /\ cur[c] = j
      ]_vars

-----------------------------------------------------------------------------
(* The same in the runs' words. *)

\* Unless a process dies between the steps of an operation, the books agree: a
\* job to be run is referenced once, a finished one no more, a dead one is listed
\* for the operator, both indexes know every job, and the gauges count them.
BooksAgree ==
    crashes = 0 =>
        /\ NothingLost /\ WaitsOnce /\ FinishedIsForgotten
        /\ DeadIsListed /\ IndexIsComplete /\ GaugesCount

\* One process death, one lease that lapses under a running handler or one failing
\* command is repaired; two of them may be too much.
Troubles == crashes + faults + lapses

OneTroubleStrandsNothing == Troubles <= 1 => NothingStranded /\ DeadIsListed

\* And every submitted job is eventually finished (or has expired since).
OneTroubleIsRepaired ==
    \A j \in Jobs : j \in born ~> (Missing(j) \/ Finished(j) \/ Troubles > 1)

-----------------------------------------------------------------------------
(* A statement of the comments that the code does not live up to. *)

\* src/src/jobs/Jobs.hpp 176-179: a worker that crashes after it got the id and
\* before it set the status loses no job, recover_processing() pushes it back.
\* So what a worker's list still holds after its recovery is not waiting to run.
RecoveryPushesBack ==
    \A w \in Workers : pc[w] = "pick" =>
        \A j \in Elements(proc[w]) : blob[j].status # "pending"
=============================================================================
