----------------------------- MODULE OncePerKey -----------------------------
(***************************************************************************)
(* What an Idempotency-Key promises to clients: the handlers of one key    *)
(* run one after another, and what is replayed is what one of them said.   *)
(* A handler that runs on without its lock -- it is "loose" -- no longer   *)
(* keeps others out.  It gets loose when its lock times out, or when an    *)
(* earlier retry of the same body, loose itself, ends and takes the lock   *)
(* for its own (FinishForTwin), and stays so until it ends.                *)
(***************************************************************************)
CONSTANTS Keys, Requests, Nothing   \* requests: a number and a body

VARIABLES running, loose, saved

Init == /\ running = [k \in Keys |-> {}] /\ loose = [k \in Keys |-> {}]
        /\ saved = [k \in Keys |-> Nothing]

(* Whoever still runs has lost its lock. *)
Begin(k, r) == /\ r \notin running[k] /\ running[k] \subseteq loose[k]
               /\ running' = [running EXCEPT ![k] = @ \cup {r}]
               /\ UNCHANGED <<loose, saved>>

Save(k, r) == /\ r \in running[k]
              /\ saved' = [saved EXCEPT ![k] = r.num]
              /\ UNCHANGED <<running, loose>>

Finish(k, r) == /\ r \in running[k]
                /\ running' = [running EXCEPT ![k] = @ \ {r}]
                /\ loose' = [loose EXCEPT ![k] = @ \ {r}]
                /\ UNCHANGED saved

Twins(k, r) == {q \in running[k] : q.body = r.body}

FinishForTwin(k, r) == /\ r \in loose[k]
                       /\ running' = [running EXCEPT ![k] = @ \ {r}]
                       /\ loose' = [loose EXCEPT ![k] = (@ \cup Twins(k, r)) \ {r}]
                       /\ UNCHANGED saved

LockTimesOut(k) == loose' = [loose EXCEPT ![k] = running[k]] /\ UNCHANGED <<running, saved>>

Forget(k) == saved' = [saved EXCEPT ![k] = Nothing] /\ UNCHANGED <<running, loose>>

(* A process dies with the handlers it was running. *)
Die == \E dead \in SUBSET Requests :
           /\ running' = [k \in Keys |-> running[k] \ dead]
           /\ loose' = [k \in Keys |-> loose[k] \ dead]
           /\ UNCHANGED saved

Next == \/ \E k \in Keys : \/ LockTimesOut(k) \/ Forget(k)
                            \/ \E r \in Requests : \/ Begin(k, r) \/ Save(k, r)
                                                    \/ Finish(k, r) \/ FinishForTwin(k, r)
        \/ Die

Spec == Init /\ [][Next]_<<running, loose, saved>>
=============================================================================
