----------------------------- MODULE JobQueueMC -----------------------------
(* Small instances of the job queue for TLC. *)
EXTENDS JobQueueProperties

CONSTANTS j1, j2, mail, hook

\* LREM by ranks is SelectSeq.
ASSUME LRemAssumption ==
    \A n \in 0..4 : \A list \in [1..n -> 1..3], x \in 1..3 :
        LRem(list, x) = SelectSeq(list, LAMBDA y : y # x)

OneType == <<mail>>
TwoTypes == <<mail, hook>>
AllMail == [j \in Jobs |-> mail]
OneOfEach == [j \in Jobs |-> IF j = j1 THEN mail ELSE hook]
Retry2 == [j \in Jobs |-> 2]

\* Where an actor can be when its process dies.
Anywhere == WorkerPcs \cup ClientPcs
Nowhere == {}
InHandler == {"run"}
\* Where a command may fail and something makes up for it: the next iteration or
\* start, the compensation of a sweep, or the lease, which is still there or is put
\* back.
RepairedFaults ==
    {"recover", "promote", "promote_zrem", "promote_get", "promote_push", "pick",
     "pick_track", "pick_drop", "trace_get", "trace_set",
     "complete_get", "complete_set", "complete_untrack", "fail_get", "fail_untrack",
     "dead_get", "dead_untrack", "reap", "reap_zrem"}
=============================================================================
