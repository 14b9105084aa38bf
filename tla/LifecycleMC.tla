---------------------------- MODULE LifecycleMC -----------------------------
(* Instances of Lifecycle for TLC: a container of the API image, started in any
   mode, and one of the worker.  File 1 runs without a transaction; the worker
   comes from an older image, without file 2. *)
EXTENDS Lifecycle

CONSTANTS api, worker

MCFiles == [p \in Procs |-> IF p = worker THEN {0, 1} ELSE {0, 1, 2}]
MCModes ==
    [p \in Procs |-> IF p = worker THEN {"worker"} ELSE {"server", "migrate", "verify"}]
MCStarts == [p \in Procs |-> IF p = worker THEN 2 ELSE 1]
=============================================================================
