----------------------------- MODULE Migrations -----------------------------
(***************************************************************************)
(* Schema migrations, src/src/database/Migrations.hpp: processes that boot *)
(* at the same time apply the files they carry to one database.  A         *)
(* transaction that takes the advisory lock, looks, runs the file and      *)
(* records it appears as the wait for the lock and one commit; a file      *)
(* marked migrate:no-transaction appears statement by statement.           *)
(***************************************************************************)
EXTENDS Integers, FiniteSets, FiniteSetsExt

CONSTANTS
    Procs,
    NoProc,
    Files,      \* Files[p]: versions of the migration files p was built with
    NoTxn,      \* the versions marked "migrate:no-transaction"
    MaxFaults   \* bound on faults of every kind in a behaviour

Versions == UNION {Files[p] : p \in Procs}

ASSUME FilesAssumption == Files \in [Procs -> SUBSET Nat]
ASSUME MarkedAssumption == NoTxn \subseteq Nat /\ NoProc \notin Procs
ASSUME FaultsAssumption == MaxFaults \in Nat

VARIABLES
    recorded,   \* the rows of schema_migrations
    effects,    \* effects[v]: how often the statements of v took effect
    torn,       \* torn[v]: how often v took effect and its row was not written
    lock,       \* who holds the advisory lock 4242424242
    mig,        \* the runner of each process
    faults      \* faults so far

migVars == <<recorded, effects, torn, lock, mig>>

NoFile == -1
Runner(at) == [at |-> at, file |-> NoFile, applied |-> {}]

MigInit ==
    /\ recorded = {}
    /\ effects = [v \in Versions |-> 0] /\ torn = [v \in Versions |-> 0]
    /\ lock = NoProc
    /\ mig = [p \in Procs |-> Runner("idle")]
    /\ faults = 0

Fault == faults < MaxFaults /\ faults' = faults + 1

Go(p, at) == mig' = [mig EXCEPT ![p].at = at]
File(p) == mig[p].file

(* A statement of file v ran and was committed. *)
Ran(v) == effects' = [effects EXCEPT ![v] = @ + 1]

-----------------------------------------------------------------------------
(* MigrationRunner::initialize.                                            *)

EnsureTrackingTable(p) ==
    /\ mig[p].at = "ensure"
    /\ Go(p, "scan")
    /\ UNCHANGED <<recorded, effects, torn, lock, faults>>

(* get_applied: what the loop below goes by, read once. *)
GetApplied(p) ==
    /\ mig[p].at = "scan"
    /\ mig' = [mig EXCEPT ![p].at = "next", ![p].applied = recorded]
    /\ UNCHANGED <<recorded, effects, torn, lock, faults>>

(* The files in the order of their versions, without the applied ones. *)
Pending(p) == {v \in Files[p] \ mig[p].applied : v > File(p)}

(* A slip: the files are not sorted. *)
NextFileUnsorted(p) ==
    /\ mig[p].at = "next"
    /\ IF Pending(p) = {}
       THEN Go(p, "done")
       ELSE \E v \in Pending(p) : mig' = [mig EXCEPT ![p].at = "wait", ![p].file = v]
    /\ UNCHANGED <<recorded, effects, torn, lock, faults>>

NextFile(p) ==
    /\ mig[p].at = "next"
    /\ IF Pending(p) = {}
       THEN Go(p, "done")
       ELSE mig' = [mig EXCEPT ![p].at = "wait", ![p].file = Min(Pending(p))]
    /\ UNCHANGED <<recorded, effects, torn, lock, faults>>

TakeLock(p) ==
    /\ mig[p].at = "wait" /\ lock = NoProc
    /\ lock' = p
    /\ Go(p, "held")
    /\ UNCHANGED <<recorded, effects, torn, faults>>

(* A slip: only the list read at the start is looked at. *)
SeenAtStart(p) == File(p) \in mig[p].applied

(* The look inside the lock: another process may have applied the file. *)
Seen(p) == File(p) \in recorded

(* One transaction; the connection may break while it commits. *)
ApplyInTxn(p) ==
    /\ mig[p].at = "held" /\ File(p) \notin NoTxn
    /\ IF Seen(p) THEN UNCHANGED <<effects, recorded>>
       ELSE Ran(File(p)) /\ recorded' = recorded \union {File(p)}
    /\ lock' = NoProc
    /\ \/ Go(p, "next") /\ UNCHANGED faults
       \/ Go(p, "threw") /\ Fault
    /\ UNCHANGED torn

(* apply_no_transaction_: the statement commits by itself, *)
ApplyOutside(p) ==
    /\ mig[p].at = "held" /\ File(p) \in NoTxn
    /\ IF Seen(p) THEN Go(p, "unlock") /\ UNCHANGED effects
       ELSE Go(p, "ran") /\ Ran(File(p))
    /\ UNCHANGED <<recorded, torn, lock, faults>>

(* then its row is inserted, *)
RecordOutside(p) ==
    /\ mig[p].at = "ran"
    /\ recorded' = recorded \union {File(p)}
    /\ Go(p, "unlock")
    /\ UNCHANGED <<effects, torn, lock, faults>>

(* A slip: the session, back in the pool, keeps the lock. *)
UnlockForgotten(p) ==
    /\ mig[p].at = "unlock"
    /\ Go(p, "next")
    /\ UNCHANGED <<recorded, effects, torn, lock, faults>>

(* then the session's lock is given back. *)
Unlock(p) ==
    /\ mig[p].at = "unlock"
    /\ lock' = NoProc
    /\ Go(p, "next")
    /\ UNCHANGED <<recorded, effects, torn, faults>>

(* The lock ends with the transaction, the catch block or the session. *)
LetGo(p) == IF lock = p THEN NoProc ELSE lock

(* The process leaves its file half done. *)
Tears(p) == torn' = IF mig[p].at = "ran"
                    THEN [torn EXCEPT ![File(p)] = @ + 1] ELSE torn

(* A statement fails, or the wait for the lock outlasts statement_timeout. *)
StatementFails(p) ==
    /\ mig[p].at \in {"ensure", "scan", "wait", "held", "ran"}
    /\ Fault
    /\ Tears(p)
    /\ lock' = LetGo(p)
    /\ Go(p, "threw")
    /\ UNCHANGED <<recorded, effects>>

(* The connection breaks after the server ran a lone statement. *)
AnswerLost(p) ==
    /\ mig[p].at = "held" /\ File(p) \in NoTxn /\ ~Seen(p)
    /\ Fault
    /\ Ran(File(p)) /\ torn' = [torn EXCEPT ![File(p)] = @ + 1]
    /\ lock' = NoProc
    /\ Go(p, "threw")
    /\ UNCHANGED recorded

MigrationStep(p) ==
    \/ EnsureTrackingTable(p)
    \/ GetApplied(p)
    \/ NextFile(p)
    \/ TakeLock(p)
    \/ ApplyInTxn(p)
    \/ ApplyOutside(p)
    \/ RecordOutside(p)
    \/ Unlock(p)

MigrationFault(p) ==
    \/ StatementFails(p)
    \/ AnswerLost(p)

(* The process dies: PostgreSQL rolls back and drops the session's lock. *)
DropRunner(p) ==
    /\ Tears(p)
    /\ lock' = LetGo(p)
    /\ mig' = [mig EXCEPT ![p] = Runner("idle")]
    /\ UNCHANGED <<recorded, effects>>

(* MigrationRunner::list_pending, from a read of the primary. *)
ListPending(p) == Files[p] \ recorded

-----------------------------------------------------------------------------
MigTypeOK ==
    /\ recorded \subseteq Versions
    /\ effects \in [Versions -> Nat] /\ torn \in [Versions -> Nat]
    /\ lock \in Procs \union {NoProc}
    /\ mig \in [Procs -> [at : {"idle", "ensure", "scan", "next", "wait", "held",
                                "ran", "unlock", "done", "threw"},
                          file : Versions \union {NoFile},
                          applied : SUBSET Versions]]
    /\ faults \in 0 .. MaxFaults
=============================================================================
