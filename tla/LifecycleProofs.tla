-------------------------- MODULE LifecycleProofs ---------------------------
(***************************************************************************)
(* What processes that boot, crash and are restarted as Lifecycle has them *)
(* promise, for any number of processes, files, faults and starts.  IInv   *)
(* is about the migrations: what the place of a runner says of the lock    *)
(* and of the schema (RunnerOK), what an effect says of the rows           *)
(* (VersionOK).  ProcsOK, on top of it, is about the processes: what the   *)
(* place of the main thread says of the modules (ModulesOK), of the other  *)
(* threads (ThreadsOK) and of the schema (SchemaOK).                       *)
(***************************************************************************)
EXTENDS Lifecycle, FiniteSetTheorems, WellFoundedInduction, TLAPS

Places == {"idle", "ensure", "scan", "next", "wait", "held", "ran", "unlock", "done", "threw"}
Busy == Places \ {"idle", "done", "threw"}
Locked == {"held", "ran", "unlock"}
AtFile == {"wait"} \union Locked

(* What the place of a runner says of the lock and of the schema.           *)
RunnerOK(p) ==
    /\ mig[p].at \in Locked => lock = p
    /\ mig[p].at \in AtFile =>
          File(p) \in Files[p] /\ \A u \in Files[p] : u < File(p) => u \in recorded
    /\ mig[p].at \in {"idle", "ensure", "scan"} => File(p) = NoFile
    /\ mig[p].at = "next" => \A u \in Files[p] : u <= File(p) => u \in recorded
    /\ mig[p].at = "ran" => File(p) \in NoTxn /\ effects[File(p)] > 0
    /\ mig[p].at = "unlock" => File(p) \in recorded
    /\ mig[p].at = "done" => Files[p] \subseteq recorded
    /\ mig[p].applied \subseteq recorded

HasRun(v) == \E p \in Procs : mig[p].at = "ran" /\ File(p) = v

(* What took effect is recorded, about to be recorded, or counted as torn.  *)
VersionOK(v) ==
    /\ effects[v] <= torn[v] + 1
    /\ v \notin NoTxn => torn[v] = 0
    /\ v \in recorded => effects[v] > 0
    /\ v \in recorded \/ HasRun(v) \/ effects[v] <= torn[v]

MigInv == /\ MigTypeOK
          /\ \A p \in Procs : RunnerOK(p)
          /\ \A v \in Versions : VersionOK(v)

(* A runner is busy only while its process is at the step "Migrations" of   *)
(* its start.                                                               *)
AtMigrations(p) == Booting(p) /\ Module(p) = "Migrations"
BusyAtBoot == \A p \in Procs : mig[p].at \in Busy => AtMigrations(p)

ProcShape ==
    /\ DOMAIN proc = Procs
    /\ \A p \in Procs : {"pc", "up", "mode"} \subseteq DOMAIN proc[p]

IInv == MigInv /\ BusyAtBoot /\ ProcShape

LEMMA Bounds ==
    /\ NoProc \notin Procs /\ MaxFaults \in Nat /\ Versions \subseteq Nat
    /\ \A p \in Procs : Files[p] \subseteq Versions
  BY FilesAssumption, MarkedAssumption, FaultsAssumption DEF Versions

(* Every set of versions that is not empty has a least one.                 *)
LEMMA MinOK ==
    ASSUME NEW S, S \subseteq Nat, S # {}
    PROVE  Min(S) \in S /\ \A u \in S : Min(S) <= u
<1>1. PICK n \in S : \A m \in S : <<m, n>> \notin OpToRel(<, Nat)
  BY NatLessThanWellFounded, WFMin
<1>2. \A m \in S : ~(m < n) /\ m \in Nat /\ n \in Nat
  BY <1>1 DEF OpToRel
<1>3. \A m \in S : n <= m
  BY <1>2
<1> QED
  BY <1>3 DEF Min

LEMMA NoFileOK == NoFile \in Int /\ \A u \in Nat : ~(u <= NoFile)
  BY DEF NoFile

LEMMA FaultOK ==
    ASSUME faults \in 0 .. MaxFaults, Fault \/ faults' = faults
    PROVE  faults' \in 0 .. MaxFaults
<1>1. CASE Fault
  BY <1>1, Bounds DEF Fault
<1> QED
  BY <1>1

LEMMA GoOK ==
    ASSUME MigTypeOK, NEW p \in Procs, NEW at \in Places, Go(p, at)
    PROVE  /\ mig' \in [Procs -> [at : Places, file : Versions \union {NoFile},
                                  applied : SUBSET Versions]]
           /\ mig'[p] = [at |-> at, file |-> mig[p].file, applied |-> mig[p].applied]
           /\ \A q \in Procs \ {p} : mig'[q] = mig[q]
  BY DEF MigTypeOK, Go, Places

-----------------------------------------------------------------------------
(* A step of runner p leaves the others alone. *)
LEMMA OthersRunOK ==
    ASSUME MigInv, NEW p \in Procs, RunnerOK(p)', \A q \in Procs \ {p} : mig'[q] = mig[q],
           recorded \subseteq recorded', \A v \in Versions : effects[v] <= effects'[v],
           effects' \in [Versions -> Nat], lock' = lock \/ lock \in {p, NoProc}
    PROVE  \A q \in Procs : RunnerOK(q)'
<1> SUFFICES ASSUME NEW q \in Procs, q # p PROVE RunnerOK(q)'
  OBVIOUS
<1>1. RunnerOK(q) /\ mig'[q] = mig[q] /\ effects \in [Versions -> Nat]
  BY DEF MigInv, MigTypeOK
<1>2. mig[q].at \in Locked => lock' = q
  BY <1>1, Bounds DEF RunnerOK
<1>3. mig[q].at = "ran" => effects'[File(q)] > 0
  <2> SUFFICES ASSUME mig[q].at = "ran" PROVE effects'[File(q)] > 0
    OBVIOUS
  <2>1. File(q) \in Versions /\ effects[File(q)] > 0
    BY <1>1, Bounds DEF RunnerOK, AtFile, Locked
  <2> QED
    BY <1>1, <2>1
<1> QED
  BY <1>1, <1>2, <1>3 DEF RunnerOK, File

(* While p holds the lock nobody else is between a statement and its row.   *)
LEMMA AloneInLock ==
    ASSUME MigInv, NEW p \in Procs, mig[p].at = "held"
    PROVE  /\ lock = p /\ File(p) \in Versions /\ File(p) \in Files[p]
           /\ \A v \in Versions : ~HasRun(v)
  BY Bounds DEF MigInv, RunnerOK, HasRun, Locked, AtFile

(* The files are as they were when no statement ran and no row was written. *)
LEMMA VersionsKept ==
    ASSUME MigInv, NEW p \in Procs, UNCHANGED <<recorded, effects, torn>>,
           mig[p].at # "ran", \A q \in Procs \ {p} : mig'[q] = mig[q]
    PROVE  \A v \in Versions : VersionOK(v)'
<1> SUFFICES ASSUME NEW v \in Versions PROVE VersionOK(v)'
  OBVIOUS
<1>1. VersionOK(v) /\ (HasRun(v) => HasRun(v)')
  BY DEF MigInv, HasRun, File
<1> QED
  BY <1>1 DEF VersionOK

LEMMA QuietStepOK ==
    ASSUME MigInv, NEW p \in Procs, UNCHANGED <<recorded, effects, torn>>, mig[p].at # "ran",
           \A q \in Procs \ {p} : mig'[q] = mig[q], RunnerOK(p)',
           mig' \in [Procs -> [at : Places, file : Versions \union {NoFile},
                              applied : SUBSET Versions]],
           lock' = lock \/ lock \in {p, NoProc}, lock' \in Procs \union {NoProc},
           Fault \/ faults' = faults
    PROVE  MigInv'
<1>1. /\ MigTypeOK /\ effects' \in [Versions -> Nat] /\ recorded \subseteq recorded'
      /\ \A v \in Versions : effects[v] <= effects'[v]
  BY DEF MigInv, MigTypeOK
<1>2. faults' \in 0 .. MaxFaults
  BY <1>1, FaultOK DEF MigTypeOK
<1>3. MigTypeOK'
  BY <1>1, <1>2 DEF MigTypeOK, Places
<1>4. \A q \in Procs : RunnerOK(q)'
  BY <1>1, OthersRunOK
<1>5. \A v \in Versions : VersionOK(v)'
  BY VersionsKept
<1> QED
  BY <1>3, <1>4, <1>5 DEF MigInv

-----------------------------------------------------------------------------
(* The steps of the migrations, one by one. *)
LEMMA EnsureOK ==
    ASSUME MigInv, NEW p \in Procs, EnsureTrackingTable(p) PROVE MigInv'
<1>0. /\ mig[p].at = "ensure" /\ Go(p, "scan") /\ "scan" \in Places
      /\ UNCHANGED <<recorded, effects, torn, lock, faults>>
      /\ MigTypeOK /\ RunnerOK(p) /\ effects \in [Versions -> Nat]
  BY DEF EnsureTrackingTable, Places, MigInv, MigTypeOK
<1>1. /\ mig' \in [Procs -> [at : Places, file : Versions \union {NoFile},
                             applied : SUBSET Versions]]
      /\ mig'[p] = [at |-> "scan", file |-> mig[p].file, applied |-> mig[p].applied]
      /\ \A q \in Procs \ {p} : mig'[q] = mig[q]
  BY <1>0, GoOK
<1>2. RunnerOK(p)'
  BY <1>0, <1>1 DEF RunnerOK, File, Locked, AtFile
<1> QED
  BY <1>0, <1>1, <1>2, QuietStepOK DEF MigTypeOK

LEMMA GetAppliedOK ==
    ASSUME MigInv, NEW p \in Procs, GetApplied(p) PROVE MigInv'
<1>0. /\ mig[p].at = "scan"
      /\ mig' = [mig EXCEPT ![p].at = "next", ![p].applied = recorded]
      /\ UNCHANGED <<recorded, effects, torn, lock, faults>>
      /\ MigTypeOK /\ RunnerOK(p) /\ effects \in [Versions -> Nat]
  BY DEF GetApplied, MigInv, MigTypeOK
<1>1. /\ mig' \in [Procs -> [at : Places, file : Versions \union {NoFile},
                             applied : SUBSET Versions]]
      /\ mig'[p] = [at |-> "next", file |-> mig[p].file, applied |-> recorded]
      /\ \A q \in Procs \ {p} : mig'[q] = mig[q]
  BY <1>0 DEF MigTypeOK, Places
<1>2. \A u \in Files[p] : ~(u <= NoFile)
  BY Bounds, NoFileOK
<1>3. RunnerOK(p)'
  BY <1>0, <1>1, <1>2 DEF RunnerOK, File, Locked, AtFile
<1> QED
  BY <1>0, <1>1, <1>3, QuietStepOK DEF MigTypeOK

(* The next file is the least one pending: those before it are recorded.    *)
LEMMA NextFileOK ==
    ASSUME MigInv, NEW p \in Procs, NextFile(p) PROVE MigInv'
<1>0. /\ mig[p].at = "next"
      /\ UNCHANGED <<recorded, effects, torn, lock, faults>>
      /\ MigTypeOK /\ RunnerOK(p) /\ effects \in [Versions -> Nat]
      /\ File(p) \in Versions \union {NoFile} /\ Files[p] \subseteq Versions
      /\ Versions \subseteq Nat
  BY Bounds DEF NextFile, MigInv, MigTypeOK, File
<1>1. CASE Pending(p) = {}
  <2>1. Go(p, "done") /\ "done" \in Places
    BY <1>1 DEF NextFile, Places
  <2>2. /\ mig' \in [Procs -> [at : Places, file : Versions \union {NoFile},
                               applied : SUBSET Versions]]
        /\ mig'[p] = [at |-> "done", file |-> mig[p].file, applied |-> mig[p].applied]
        /\ \A q \in Procs \ {p} : mig'[q] = mig[q]
    BY <1>0, <2>1, GoOK
  <2>3. ASSUME NEW u \in Files[p] PROVE u \in recorded
    <3>1. u \in Nat /\ (File(p) \in Nat \/ File(p) = NoFile)
      BY <1>0
    <3>2. u \in mig[p].applied \/ u <= File(p)
      BY <1>1, <3>1, NoFileOK DEF Pending
    <3> QED
      BY <1>0, <3>2 DEF RunnerOK
  <2>4. RunnerOK(p)'
    BY <1>0, <2>2, <2>3 DEF RunnerOK, File, Locked, AtFile
  <2> QED
    BY <1>0, <2>2, <2>4, QuietStepOK DEF MigTypeOK
<1>2. CASE Pending(p) # {}
  <2> DEFINE v == Min(Pending(p))
  <2>0. Pending(p) \subseteq Nat
    BY <1>0 DEF Pending
  <2>1. v \in Pending(p) /\ \A u \in Pending(p) : v <= u
    BY <1>2, <2>0, MinOK
  <2> HIDE DEF v
  <2>2. mig' = [mig EXCEPT ![p].at = "wait", ![p].file = v]
    BY <1>2 DEF NextFile, v
  <2>3. v \in Files[p] /\ v \in Versions
    BY <1>0, <2>1 DEF Pending
  <2>4. /\ mig' \in [Procs -> [at : Places, file : Versions \union {NoFile},
                               applied : SUBSET Versions]]
        /\ mig'[p] = [at |-> "wait", file |-> v, applied |-> mig[p].applied]
        /\ \A q \in Procs \ {p} : mig'[q] = mig[q]
    BY <1>0, <2>2, <2>3 DEF MigTypeOK, Places
  <2>5. ASSUME NEW u \in Files[p], u < v PROVE u \in recorded
    <3>0. File(p) \in Nat \/ File(p) = NoFile
      BY <1>0
    <3>1. u \in Nat /\ v \in Nat /\ File(p) \in Int
      <4>1. u \in Nat
        BY <1>0, <2>5
      <4>2. v \in Nat
        BY <1>0, <2>3
      <4>3. File(p) \in Int
        BY <3>0, NoFileOK
      <4> QED
        BY <4>1, <4>2, <4>3
    <3>2. u \notin Pending(p)
      BY <2>1, <2>5, <3>1
    <3>3. u \in mig[p].applied \/ u <= File(p)
      BY <3>1, <3>2 DEF Pending
    <3> QED
      BY <1>0, <3>3 DEF RunnerOK
  <2>6. RunnerOK(p)'
    BY <1>0, <2>3, <2>4, <2>5 DEF RunnerOK, File, Locked, AtFile
  <2> QED
    BY <1>0, <2>4, <2>6, QuietStepOK DEF MigTypeOK
<1> QED
  BY <1>1, <1>2

LEMMA TakeLockOK ==
    ASSUME MigInv, NEW p \in Procs, TakeLock(p) PROVE MigInv'
<1>0. /\ mig[p].at = "wait" /\ lock = NoProc /\ lock' = p /\ Go(p, "held") /\ "held" \in Places
      /\ UNCHANGED <<recorded, effects, torn, faults>>
      /\ MigTypeOK /\ RunnerOK(p) /\ effects \in [Versions -> Nat]
  BY DEF TakeLock, Places, MigInv, MigTypeOK
<1>1. /\ mig' \in [Procs -> [at : Places, file : Versions \union {NoFile},
                             applied : SUBSET Versions]]
      /\ mig'[p] = [at |-> "held", file |-> mig[p].file, applied |-> mig[p].applied]
      /\ \A q \in Procs \ {p} : mig'[q] = mig[q]
  BY <1>0, GoOK
<1>2. RunnerOK(p)'
  BY <1>0, <1>1 DEF RunnerOK, File, Locked, AtFile
<1> QED
  BY <1>0, <1>1, <1>2, QuietStepOK

(* One transaction: nobody else can have applied the file meanwhile.        *)
LEMMA ApplyInTxnOK ==
    ASSUME MigInv, NEW p \in Procs, ApplyInTxn(p) PROVE MigInv'
<1> DEFINE v == File(p)
<1>0. /\ mig[p].at = "held" /\ v \notin NoTxn /\ lock' = NoProc /\ torn' = torn
      /\ MigTypeOK /\ RunnerOK(p) /\ effects \in [Versions -> Nat] /\ torn \in [Versions -> Nat]
      /\ recorded \subseteq Versions /\ v = mig[p].file
  BY DEF ApplyInTxn, MigInv, MigTypeOK, File
<1>1. PICK at \in {"next", "threw"} : Go(p, at) /\ (Fault \/ faults' = faults)
  BY DEF ApplyInTxn
<1>2. /\ mig' \in [Procs -> [at : Places, file : Versions \union {NoFile},
                             applied : SUBSET Versions]]
      /\ mig'[p] = [at |-> at, file |-> mig[p].file, applied |-> mig[p].applied]
      /\ \A q \in Procs \ {p} : mig'[q] = mig[q]
  BY <1>0, <1>1, GoOK DEF Places
<1>3. v \in Versions /\ v \in Files[p] /\ \A w \in Versions : ~HasRun(w) /\ VersionOK(w)
  BY <1>0, AloneInLock DEF MigInv
<1>4. /\ recorded' = recorded \union {v} /\ effects' \in [Versions -> Nat]
      /\ \A w \in Versions : effects'[w] = IF w = v /\ v \notin recorded
                                           THEN effects[w] + 1 ELSE effects[w]
  <2>1. CASE Seen(p)
    BY <1>0, <2>1 DEF ApplyInTxn, Seen
  <2>2. CASE ~Seen(p)
    BY <1>0, <1>3, <2>2 DEF ApplyInTxn, Seen, Ran
  <2> QED
    BY <2>1, <2>2
<1> HIDE DEF v
<1>5. RunnerOK(p)'
  <2>1. \A u \in Files[p] : u <= v => u \in recorded'
    <3> SUFFICES ASSUME NEW u \in Files[p], u <= v, u # v PROVE u \in recorded'
      BY <1>4
    <3>1. u \in Nat /\ v \in Nat
      BY <1>3, Bounds
    <3>2. u < v
      BY <3>1
    <3> QED
      BY <1>0, <1>4, <3>2 DEF RunnerOK, AtFile, Locked, v
  <2> QED
    BY <1>0, <1>2, <1>4, <2>1 DEF RunnerOK, File, Locked, AtFile
<1>6. /\ \A w \in Versions : effects[w] <= effects'[w]
      /\ recorded \subseteq recorded' /\ lock = p
  BY <1>0, <1>4, AloneInLock
<1>7. \A q \in Procs : RunnerOK(q)'
  BY <1>0, <1>2, <1>4, <1>5, <1>6, OthersRunOK
<1>8. ASSUME NEW w \in Versions PROVE VersionOK(w)'
  <2>1. w \in recorded \/ effects[w] <= torn[w]
    BY <1>3 DEF VersionOK
  <2>2. effects[w] \in Nat /\ torn[w] \in Nat
    BY <1>0
  <2>3. CASE w = v
    <3>1. effects'[w] <= torn[w] + 1 /\ effects'[w] > 0
      BY <1>3, <1>4, <2>1, <2>2, <2>3 DEF VersionOK
    <3> QED
      BY <1>0, <1>3, <1>4, <2>3, <3>1 DEF VersionOK
  <2>4. CASE w # v
    <3>1. effects'[w] = effects[w] /\ torn'[w] = torn[w] /\ (w \in recorded' <=> w \in recorded)
      BY <1>0, <1>4, <2>4
    <3> QED
      BY <1>3, <3>1, <2>1 DEF VersionOK
  <2> QED
    BY <2>3, <2>4
<1>9. MigTypeOK'
  <2>1. faults' \in 0 .. MaxFaults
    BY <1>0, <1>1, FaultOK DEF MigTypeOK
  <2> QED
    BY <1>0, <1>2, <1>3, <1>4, <2>1 DEF MigTypeOK, Places
<1> QED
  BY <1>7, <1>8, <1>9 DEF MigInv

(* A lone statement: it ran and its row is still to be written.             *)
LEMMA ApplyOutsideOK ==
    ASSUME MigInv, NEW p \in Procs, ApplyOutside(p) PROVE MigInv'
<1> DEFINE v == File(p)
<1>0. /\ mig[p].at = "held" /\ v \in NoTxn /\ UNCHANGED <<recorded, torn, lock, faults>>
      /\ MigTypeOK /\ RunnerOK(p) /\ effects \in [Versions -> Nat] /\ torn \in [Versions -> Nat]
      /\ v = mig[p].file /\ lock \in Procs \union {NoProc}
  BY DEF ApplyOutside, MigInv, MigTypeOK, File
<1>1. v \in Versions /\ v \in Files[p] /\ \A w \in Versions : ~HasRun(w) /\ VersionOK(w)
  BY <1>0, AloneInLock DEF MigInv
<1>2. CASE Seen(p)
  <2>1. Go(p, "unlock") /\ effects' = effects /\ "unlock" \in Places
    BY <1>2 DEF ApplyOutside, Places
  <2>2. /\ mig' \in [Procs -> [at : Places, file : Versions \union {NoFile},
                               applied : SUBSET Versions]]
        /\ mig'[p] = [at |-> "unlock", file |-> mig[p].file, applied |-> mig[p].applied]
        /\ \A q \in Procs \ {p} : mig'[q] = mig[q]
    BY <1>0, <2>1, GoOK
  <2>3. RunnerOK(p)'
    BY <1>0, <1>2, <2>2 DEF RunnerOK, File, Locked, AtFile, Seen
  <2> QED
    BY <1>0, <2>1, <2>2, <2>3, QuietStepOK
<1>3. CASE ~Seen(p)
  <2>1. Go(p, "ran") /\ Ran(v) /\ "ran" \in Places
    BY <1>3 DEF ApplyOutside, Places
  <2>2. /\ mig' \in [Procs -> [at : Places, file : Versions \union {NoFile},
                               applied : SUBSET Versions]]
        /\ mig'[p] = [at |-> "ran", file |-> mig[p].file, applied |-> mig[p].applied]
        /\ \A q \in Procs \ {p} : mig'[q] = mig[q]
    BY <1>0, <2>1, GoOK
  <2>3. /\ effects' \in [Versions -> Nat] /\ effects'[v] = effects[v] + 1
        /\ \A w \in Versions \ {v} : effects'[w] = effects[w]
    BY <1>0, <1>1, <2>1 DEF Ran
  <2>4. \A w \in Versions : effects[w] <= effects'[w]
    BY <1>0, <1>1, <2>3
  <2>5. effects'[v] > 0
    BY <1>0, <1>1, <2>3
  <2>6. RunnerOK(p)'
    BY <1>0, <1>1, <2>2, <2>5 DEF RunnerOK, File, Locked, AtFile
  <2>7. \A q \in Procs : RunnerOK(q)'
    BY <1>0, <2>2, <2>3, <2>4, <2>6, OthersRunOK
  <2>8. ASSUME NEW w \in Versions PROVE VersionOK(w)'
    <3>1. CASE w = v
      <4>1. v \notin recorded /\ effects[v] <= torn[v]
        BY <1>1, <1>3 DEF VersionOK, Seen
      <4>2. effects'[v] <= torn[v] + 1
        BY <1>0, <1>1, <2>3, <4>1
      <4>3. HasRun(w)'
        BY <1>0, <2>2, <3>1 DEF HasRun, File
      <4> QED
        BY <1>0, <3>1, <4>1, <4>2, <4>3 DEF VersionOK
    <3>2. CASE w # v
      BY <1>0, <1>1, <2>3, <3>2 DEF VersionOK
    <3> QED
      BY <3>1, <3>2
  <2>9. MigTypeOK'
    BY <1>0, <2>2, <2>3 DEF MigTypeOK, Places
  <2> QED
    BY <2>7, <2>8, <2>9 DEF MigInv
<1> QED
  BY <1>2, <1>3

LEMMA RecordOutsideOK ==
    ASSUME MigInv, NEW p \in Procs, RecordOutside(p) PROVE MigInv'
<1> DEFINE v == File(p)
<1>0. /\ mig[p].at = "ran" /\ Go(p, "unlock") /\ "unlock" \in Places
      /\ recorded' = recorded \union {v} /\ UNCHANGED <<effects, torn, lock, faults>>
      /\ MigTypeOK /\ RunnerOK(p) /\ effects \in [Versions -> Nat]
      /\ recorded \subseteq Versions /\ v = mig[p].file
  BY DEF RecordOutside, MigInv, MigTypeOK, File, Places
<1>1. /\ mig' \in [Procs -> [at : Places, file : Versions \union {NoFile},
                             applied : SUBSET Versions]]
      /\ mig'[p] = [at |-> "unlock", file |-> mig[p].file, applied |-> mig[p].applied]
      /\ \A q \in Procs \ {p} : mig'[q] = mig[q]
  BY <1>0, GoOK
<1>2. v \in Versions /\ v \in Files[p] /\ effects[v] > 0
  BY <1>0, Bounds DEF RunnerOK, AtFile, Locked
<1>3. RunnerOK(p)'
  BY <1>0, <1>1 DEF RunnerOK, File, Locked, AtFile
<1>4. \A w \in Versions : effects[w] <= effects'[w]
  BY <1>0
<1>5. \A q \in Procs : RunnerOK(q)'
  BY <1>0, <1>1, <1>3, <1>4, OthersRunOK
<1>6. ASSUME NEW w \in Versions PROVE VersionOK(w)'
  <2>1. VersionOK(w)
    BY DEF MigInv
  <2>2. HasRun(w) => w = v \/ HasRun(w)'
    BY <1>1 DEF HasRun, File
  <2> QED
    BY <1>0, <1>2, <2>1, <2>2 DEF VersionOK
<1>7. MigTypeOK'
  BY <1>0, <1>1, <1>2 DEF MigTypeOK, Places
<1> QED
  BY <1>5, <1>6, <1>7 DEF MigInv

LEMMA UnlockOK ==
    ASSUME MigInv, NEW p \in Procs, Unlock(p) PROVE MigInv'
<1>0. /\ mig[p].at = "unlock" /\ Go(p, "next") /\ "next" \in Places /\ lock' = NoProc
      /\ UNCHANGED <<recorded, effects, torn, faults>>
      /\ MigTypeOK /\ RunnerOK(p)
  BY DEF Unlock, Places, MigInv
<1>1. /\ mig' \in [Procs -> [at : Places, file : Versions \union {NoFile},
                             applied : SUBSET Versions]]
      /\ mig'[p] = [at |-> "next", file |-> mig[p].file, applied |-> mig[p].applied]
      /\ \A q \in Procs \ {p} : mig'[q] = mig[q]
  BY <1>0, GoOK
<1>2. File(p) \in Files[p] /\ File(p) \in recorded
      /\ \A u \in Files[p] : u < File(p) => u \in recorded
  BY <1>0 DEF RunnerOK, AtFile, Locked
<1>3. \A u \in Files[p] : u <= File(p) => u \in recorded
  <2> SUFFICES ASSUME NEW u \in Files[p], u <= File(p), u # File(p) PROVE u \in recorded
    BY <1>2
  <2>1. u \in Nat /\ File(p) \in Nat
    BY <1>2, Bounds
  <2>2. u < File(p)
    BY <2>1
  <2> QED
    BY <1>2, <2>2
<1>4. RunnerOK(p)'
  BY <1>0, <1>1, <1>3 DEF RunnerOK, File, Locked, AtFile
<1>5. /\ lock = p /\ lock' \in Procs \union {NoProc} /\ mig[p].at # "ran"
  BY <1>0 DEF RunnerOK, Locked
<1> QED
  BY <1>0, <1>1, <1>4, <1>5, QuietStepOK

(* A runner stops anywhere, its lock goes, and a file half done is torn.    *)
LEMMA LeaveOK ==
    ASSUME MigInv, NEW p \in Procs, Tears(p), lock' = LetGo(p), UNCHANGED <<recorded, effects>>,
           NEW at \in {"threw", "idle"}, mig'[p].at = at, at = "idle" => mig'[p].file = NoFile,
           mig'[p].applied \subseteq recorded, \A q \in Procs \ {p} : mig'[q] = mig[q],
           mig' \in [Procs -> [at : Places, file : Versions \union {NoFile},
                              applied : SUBSET Versions]],
           Fault \/ faults' = faults
    PROVE  MigInv'
<1>0. /\ MigTypeOK /\ RunnerOK(p) /\ effects \in [Versions -> Nat] /\ torn \in [Versions -> Nat]
      /\ effects' \in [Versions -> Nat] /\ recorded \subseteq recorded'
      /\ \A w \in Versions : effects[w] <= effects'[w]
  BY DEF MigInv, MigTypeOK
<1>1. lock' = lock \/ lock \in {p, NoProc}
  BY DEF LetGo
<1>2. lock' \in Procs \union {NoProc}
  BY <1>0 DEF LetGo, MigTypeOK
<1>3. RunnerOK(p)'
  BY DEF RunnerOK, File, Locked, AtFile
<1>4. \A q \in Procs : RunnerOK(q)'
  BY <1>0, <1>1, <1>3, OthersRunOK
<1>5. faults' \in 0 .. MaxFaults
  BY <1>0, FaultOK DEF MigTypeOK
<1>6. CASE mig[p].at # "ran"
  <2>1. torn' = torn
    BY <1>6 DEF Tears
  <2>2. \A v \in Versions : VersionOK(v)'
    BY <1>6, <2>1, VersionsKept
  <2>3. MigTypeOK'
    BY <1>0, <1>2, <1>5, <2>1 DEF MigTypeOK, Places
  <2> QED
    BY <1>4, <2>2, <2>3 DEF MigInv
<1>7. CASE mig[p].at = "ran"
  <2> DEFINE v == File(p)
  <2>1. v \in Versions /\ v \in NoTxn
    BY <1>0, <1>7, Bounds DEF RunnerOK, AtFile, Locked
  <2>2. torn' = [torn EXCEPT ![v] = @ + 1]
    BY <1>7 DEF Tears
  <2>3. /\ torn' \in [Versions -> Nat] /\ torn'[v] = torn[v] + 1
        /\ \A w \in Versions \ {v} : torn'[w] = torn[w]
    BY <1>0, <2>1, <2>2
  <2>4. ASSUME NEW w \in Versions PROVE VersionOK(w)'
    <3>1. VersionOK(w) /\ effects[w] \in Nat /\ torn[w] \in Nat
      BY <1>0 DEF MigInv
    <3>2. CASE w = v
      <4>1. effects[w] <= torn'[w] /\ effects[w] <= torn'[w] + 1
        BY <2>3, <3>1, <3>2 DEF VersionOK
      <4> QED
        BY <2>1, <3>1, <3>2, <4>1 DEF VersionOK
    <3>3. CASE w # v
      <4>1. HasRun(w) => HasRun(w)'
        BY <3>3 DEF HasRun, File
      <4> QED
        BY <2>3, <3>1, <3>3, <4>1 DEF VersionOK
    <3> QED
      BY <3>2, <3>3
  <2>5. MigTypeOK'
    BY <1>0, <1>2, <1>5, <2>3 DEF MigTypeOK, Places
  <2> QED
    BY <1>4, <2>4, <2>5 DEF MigInv
<1> QED
  BY <1>6, <1>7

LEMMA StatementFailsOK ==
    ASSUME MigInv, NEW p \in Procs, StatementFails(p) PROVE MigInv'
<1>0. /\ Fault /\ Tears(p) /\ lock' = LetGo(p) /\ Go(p, "threw") /\ "threw" \in Places
      /\ UNCHANGED <<recorded, effects>>
      /\ MigTypeOK /\ RunnerOK(p)
  BY DEF StatementFails, MigInv, Places
<1>1. /\ mig' \in [Procs -> [at : Places, file : Versions \union {NoFile},
                             applied : SUBSET Versions]]
      /\ mig'[p] = [at |-> "threw", file |-> mig[p].file, applied |-> mig[p].applied]
      /\ \A q \in Procs \ {p} : mig'[q] = mig[q]
  BY <1>0, GoOK
<1>2. mig'[p].at = "threw" /\ mig'[p].applied \subseteq recorded /\ "threw" \in {"threw", "idle"}
  BY <1>0, <1>1 DEF RunnerOK
<1> QED
  BY <1>0, <1>1, <1>2, LeaveOK

LEMMA DropRunnerOK ==
    ASSUME MigInv, NEW p \in Procs, DropRunner(p), Fault PROVE MigInv'
<1>0. /\ Tears(p) /\ lock' = LetGo(p) /\ UNCHANGED <<recorded, effects>>
      /\ mig' = [mig EXCEPT ![p] = Runner("idle")] /\ MigTypeOK
  BY DEF DropRunner, MigInv
<1>1. /\ mig' \in [Procs -> [at : Places, file : Versions \union {NoFile},
                             applied : SUBSET Versions]]
      /\ mig'[p].at = "idle" /\ mig'[p].file = NoFile /\ mig'[p].applied = {}
      /\ \A q \in Procs \ {p} : mig'[q] = mig[q]
  BY <1>0 DEF MigTypeOK, Runner, Places
<1>2. mig'[p].applied \subseteq recorded /\ "idle" \in {"threw", "idle"}
  BY <1>1
<1> QED
  BY <1>0, <1>1, <1>2, LeaveOK

(* A lone statement ran and nobody knows: it took effect and is torn.       *)
LEMMA AnswerLostOK ==
    ASSUME MigInv, NEW p \in Procs, AnswerLost(p) PROVE MigInv'
<1> DEFINE v == File(p)
<1>0. /\ mig[p].at = "held" /\ v \in NoTxn /\ recorded' = recorded /\ lock' = NoProc /\ Fault
      /\ Ran(v) /\ torn' = [torn EXCEPT ![v] = @ + 1] /\ Go(p, "threw") /\ "threw" \in Places
      /\ v \notin recorded
      /\ MigTypeOK /\ RunnerOK(p) /\ effects \in [Versions -> Nat] /\ torn \in [Versions -> Nat]
  BY DEF AnswerLost, MigInv, MigTypeOK, Places, Seen
<1>1. /\ v \in Versions /\ lock = p /\ \A w \in Versions : ~HasRun(w) /\ VersionOK(w)
  BY <1>0, AloneInLock DEF MigInv
<1>2. /\ mig' \in [Procs -> [at : Places, file : Versions \union {NoFile},
                             applied : SUBSET Versions]]
      /\ mig'[p] = [at |-> "threw", file |-> mig[p].file, applied |-> mig[p].applied]
      /\ \A q \in Procs \ {p} : mig'[q] = mig[q]
  BY <1>0, GoOK
<1>3. /\ effects' \in [Versions -> Nat] /\ effects'[v] = effects[v] + 1
      /\ \A w \in Versions \ {v} : effects'[w] = effects[w]
      /\ torn' \in [Versions -> Nat] /\ torn'[v] = torn[v] + 1
      /\ \A w \in Versions \ {v} : torn'[w] = torn[w]
  BY <1>0, <1>1 DEF Ran
<1>4. RunnerOK(p)'
  BY <1>0, <1>2 DEF RunnerOK, File, Locked, AtFile
<1>5. (\A w \in Versions : effects[w] <= effects'[w]) /\ recorded \subseteq recorded'
  BY <1>0, <1>3
<1>6. \A q \in Procs : RunnerOK(q)'
  BY <1>1, <1>2, <1>3, <1>4, <1>5, OthersRunOK
<1>7. ASSUME NEW w \in Versions PROVE VersionOK(w)'
  <2>1. w \in recorded \/ effects[w] <= torn[w]
    BY <1>1 DEF VersionOK
  <2>2. CASE w = v
    <3>1. effects'[w] <= torn'[w] /\ effects'[w] <= torn'[w] + 1
      BY <1>0, <1>1, <1>3, <2>1, <2>2
    <3> QED
      BY <1>0, <2>2, <3>1 DEF VersionOK
  <2>3. CASE w # v
    BY <1>0, <1>1, <1>3, <2>1, <2>3 DEF VersionOK
  <2> QED
    BY <2>2, <2>3
<1>8. MigTypeOK'
  <2>1. faults' \in 0 .. MaxFaults
    BY <1>0, FaultOK DEF MigTypeOK
  <2> QED
    BY <1>0, <1>2, <1>3, <2>1 DEF MigTypeOK, Places
<1> QED
  BY <1>6, <1>7, <1>8 DEF MigInv

LEMMA MigrationStepOK ==
    ASSUME MigInv, NEW p \in Procs, MigrationStep(p) \/ MigrationFault(p) PROVE MigInv'
  BY EnsureOK, GetAppliedOK, NextFileOK, TakeLockOK, ApplyInTxnOK, ApplyOutsideOK,
     RecordOutsideOK, UnlockOK, StatementFailsOK, AnswerLostOK
  DEF MigrationStep, MigrationFault

-----------------------------------------------------------------------------
(* The processes around them. *)

(* A step of process p alone that leaves the schema and the runners alone:  *)
(* it does not leave the step "Migrations" while its runner is busy.        *)
Moves(p) ==
    /\ DOMAIN proc' = Procs
    /\ \A q \in Procs \ {p} : proc'[q] = proc[q]
    /\ {"pc", "up", "mode"} \subseteq DOMAIN proc'[p]

LEMMA ProcStepOK ==
    ASSUME IInv, NEW p \in Procs, Moves(p), UNCHANGED migVars, Fault \/ faults' = faults,
           \/ mig[p].at \notin Busy
           \/ /\ proc'[p].pc = proc[p].pc /\ proc'[p].up = proc[p].up
              /\ proc'[p].mode = proc[p].mode
    PROVE  IInv'
<1>0. UNCHANGED <<recorded, effects, torn, lock, mig>> /\ MigInv /\ MigTypeOK
  BY DEF IInv, MigInv, migVars
<1>1. DOMAIN proc' = Procs /\ \A q \in Procs \ {p} : proc'[q] = proc[q]
  BY DEF Moves
<1>2. ProcShape'
  BY <1>1 DEF IInv, ProcShape, Moves
<1>3. ASSUME NEW q \in Procs, mig'[q].at \in Busy PROVE AtMigrations(q)'
  <2>1. AtMigrations(q)
    BY <1>0, <1>3 DEF IInv, BusyAtBoot
  <2>2. proc'[q].pc = proc[q].pc /\ proc'[q].up = proc[q].up /\ proc'[q].mode = proc[q].mode
    BY <1>0, <1>1, <1>3
  <2> QED
    BY <2>1, <2>2 DEF AtMigrations, Booting, Module, Missing, Mode
<1>4. MigInv'
  <2>1. faults' \in 0 .. MaxFaults
    BY <1>0, FaultOK DEF MigTypeOK
  <2>2. MigTypeOK'
    BY <1>0, <2>1 DEF MigTypeOK
  <2>3. \A q \in Procs : RunnerOK(q)'
    BY <1>0 DEF MigInv, RunnerOK, File
  <2>4. \A v \in Versions : VersionOK(v)'
    BY <1>0 DEF MigInv, VersionOK, HasRun, File
  <2> QED
    BY <2>2, <2>3, <2>4 DEF MigInv
<1> QED
  BY <1>2, <1>3, <1>4 DEF IInv, BusyAtBoot

(* A process that is past its start, or at another step of it, has no busy  *)
(* runner.                                                                  *)
LEMMA NotBusy ==
    ASSUME IInv, NEW p \in Procs, proc[p].pc # "boot" \/ ~Booting(p) \/ Module(p) # "Migrations"
    PROVE  mig[p].at \notin Busy
  BY DEF IInv, BusyAtBoot, AtMigrations, Booting

LEMMA Fields ==
    ASSUME IInv, NEW p \in Procs
    PROVE  DOMAIN proc = Procs /\ {"pc", "up", "mode"} \subseteq DOMAIN proc[p]
  BY DEF IInv, ProcShape

LEMMA BootStepOK ==
    ASSUME IInv, NEW p \in Procs,
           BringUp(p) \/ BringUpFails(p) \/ MigrationsReturn(p) \/ MigrationsThrow(p) \/ Booted(p)
    PROVE  IInv'
<1>1. mig[p].at \notin Busy
  BY NotBusy DEF BringUp, BringUpFails, MigrationsReturn, MigrationsThrow, Booted, Busy
<1>2. Moves(p)
  BY Fields DEF Moves, Becomes, BringUp, BringUpFails, MigrationsReturn, MigrationsThrow, Booted, Threw, IsUp
<1>3. UNCHANGED migVars /\ (Fault \/ faults' = faults)
  BY DEF BringUp, BringUpFails, MigrationsReturn, MigrationsThrow, Booted, Quiet
<1> QED
  BY <1>1, <1>2, <1>3, ProcStepOK

LEMMA LaterStepOK ==
    ASSUME IInv, NEW p \in Procs,
           \/ Verify(p) \/ VerifyFails(p) \/ StartThreads(p) \/ StartFails(p) \/ EnterLoop(p) \/ LoopReturns(p)
           \/ LoopThrows(p) \/ JoinMonitor(p) \/ JoinWorkers(p) \/ TearDown(p)
    PROVE  IInv'
<1>1. mig[p].at \notin Busy
  BY NotBusy DEF Verify, VerifyFails, StartThreads, StartFails, EnterLoop, LoopReturns, LoopThrows,
                 JoinMonitor, JoinWorkers, TearDown
<1>2. Moves(p)
  <2>1. CASE Verify(p)
    BY <2>1, Fields DEF Moves, Becomes, Verify
  <2>2. CASE VerifyFails(p) \/ StartThreads(p) \/ StartFails(p) \/ EnterLoop(p) \/ LoopReturns(p)
    BY <2>2, Fields DEF Moves, Becomes, VerifyFails, StartThreads, StartFails, Threw, EnterLoop, LoopReturns
  <2>3. CASE LoopThrows(p)
    <3>1. PICK s \in {[Fresh("ended", "server") EXCEPT !.code = 134],
                      [proc[p] EXCEPT !.pc = "monitor", !.flag = TRUE,
                                      !.loop = "stopped", !.code = 1]} :
              proc' = [proc EXCEPT ![p] = s]
      BY <2>3 DEF LoopThrows, Becomes
    <3>2. {"pc", "up", "mode"} \subseteq DOMAIN s
      BY <3>1, Fields DEF Fresh
    <3> QED
      BY <3>1, <3>2, Fields DEF Moves
  <2>4. CASE JoinMonitor(p) \/ JoinWorkers(p)
    BY <2>4, Fields DEF Moves, Becomes, JoinMonitor, JoinWorkers
  <2>5. CASE TearDown(p)
    BY <2>5, Fields DEF Moves, Becomes, TearDown
  <2> QED
    BY <2>1, <2>2, <2>3, <2>4, <2>5
<1>3. UNCHANGED migVars /\ (Fault \/ faults' = faults)
  BY DEF Verify, VerifyFails, StartThreads, StartFails, EnterLoop, LoopReturns, LoopThrows,
         JoinMonitor, JoinWorkers, TearDown, Quiet
<1> QED
  BY <1>1, <1>2, <1>3, ProcStepOK

LEMMA ThreadStepOK ==
    ASSUME IInv, NEW p \in Procs, Signal(p) \/ MonitorStep(p) \/ WorkerStep(p) PROVE IInv'
<1>1. /\ Moves(p) /\ proc'[p].pc = proc[p].pc
      /\ proc'[p].up = proc[p].up /\ proc'[p].mode = proc[p].mode
  BY Fields DEF Moves, Becomes, Signal, MonitorStep, MonitorSees, MonitorSleeps, MonitorQuits, WorkerStep,
                LoopTop, PickReturns, JobEnds
<1>2. UNCHANGED migVars /\ (Fault \/ faults' = faults)
  BY DEF Signal, MonitorStep, MonitorSees, MonitorSleeps, MonitorQuits, WorkerStep,
         LoopTop, PickReturns, JobEnds, Quiet
<1> QED
  BY <1>1, <1>2, ProcStepOK

(* The runner's own steps. *)
LEMMA RunOK ==
    ASSUME IInv, NEW p \in Procs, RunMigrations(p) \/ MigrationsFail(p) PROVE IInv'
<1>0. /\ proc' = proc /\ AtMigrations(p) /\ MigInv /\ MigTypeOK /\ RunnerOK(p)
  BY DEF RunMigrations, MigrationsFail, AtMigrations, Booting, IInv, MigInv
<1>1. CASE /\ mig[p].at = "idle" /\ Go(p, "ensure")
           /\ UNCHANGED <<recorded, effects, torn, lock, faults>>
  <2>1. "ensure" \in Places /\ lock \in Procs \union {NoProc}
    BY <1>0 DEF Places, MigTypeOK
  <2>2. /\ mig' \in [Procs -> [at : Places, file : Versions \union {NoFile},
                               applied : SUBSET Versions]]
        /\ mig'[p] = [at |-> "ensure", file |-> mig[p].file, applied |-> mig[p].applied]
        /\ \A q \in Procs \ {p} : mig'[q] = mig[q]
    BY <1>0, <1>1, <2>1, GoOK
  <2>3. RunnerOK(p)'
    BY <1>0, <1>1, <2>2 DEF RunnerOK, File, Locked, AtFile
  <2>4. MigInv'
    BY <1>0, <1>1, <2>1, <2>2, <2>3, QuietStepOK
  <2> QED
    BY <1>0, <2>2, <2>4 DEF IInv, BusyAtBoot, ProcShape, AtMigrations, Booting, Module, Missing, Mode
<1>2. CASE MigrationStep(p) \/ MigrationFault(p)
  <2>1. MigInv'
    BY <1>0, <1>2, MigrationStepOK
  <2>2. \A q \in Procs \ {p} : mig'[q] = mig[q]
    BY <1>0, <1>2 DEF MigrationStep, MigrationFault, EnsureTrackingTable, GetApplied, NextFile,
       TakeLock, ApplyInTxn, ApplyOutside, RecordOutside, Unlock, StatementFails, AnswerLost,
       Go, MigTypeOK
  <2> QED
    BY <1>0, <2>1, <2>2 DEF IInv, BusyAtBoot, ProcShape, AtMigrations, Booting, Module, Missing, Mode
<1> QED
  BY <1>1, <1>2 DEF RunMigrations, MigrationsFail

(* A start makes a new runner, a crash drops it. *)
LEMMA LaunchOK ==
    ASSUME IInv, NEW p \in Procs, Launch(p) PROVE IInv'
<1>0. /\ MigInv /\ MigTypeOK /\ mig[p].at \notin Busy /\ mig[p].at # "ran"
      /\ mig' = [mig EXCEPT ![p] = Runner("idle")]
      /\ UNCHANGED <<recorded, effects, torn, lock, faults>>
      /\ lock \in Procs \union {NoProc}
  BY NotBusy DEF Launch, IInv, MigInv, MigTypeOK, Busy, Places
<1>1. /\ mig' \in [Procs -> [at : Places, file : Versions \union {NoFile},
                             applied : SUBSET Versions]]
      /\ mig'[p] = [at |-> "idle", file |-> NoFile, applied |-> {}]
      /\ \A q \in Procs \ {p} : mig'[q] = mig[q]
  BY <1>0 DEF MigTypeOK, Runner, Places
<1>2. RunnerOK(p)'
  BY <1>1 DEF RunnerOK, File, Locked, AtFile
<1>3. MigInv'
  BY <1>0, <1>1, <1>2, QuietStepOK
<1>4. PICK mode : Becomes(p, Fresh("boot", mode))
  BY DEF Launch
<1>5. /\ ProcShape' /\ \A q \in Procs \ {p} : proc'[q] = proc[q]
  BY <1>4 DEF IInv, ProcShape, Becomes, Fresh
<1> QED
  BY <1>1, <1>3, <1>5
  DEF IInv, BusyAtBoot, AtMigrations, Booting, Module, Missing, Mode, Busy

LEMMA CrashOK ==
    ASSUME IInv, NEW p \in Procs, Crash(p) PROVE IInv'
<1>1. MigInv'
  BY DropRunnerOK DEF IInv, Crash
<1>2. /\ MigTypeOK /\ mig' = [mig EXCEPT ![p] = Runner("idle")]
      /\ proc' = [proc EXCEPT ![p] = Fresh("off", "none")]
  BY DEF IInv, MigInv, Crash, DropRunner
<1>3. mig'[p].at = "idle" /\ \A q \in Procs \ {p} : mig'[q] = mig[q]
  BY <1>2 DEF MigTypeOK, Runner
<1>4. ProcShape' /\ \A q \in Procs \ {p} : proc'[q] = proc[q]
  BY <1>2 DEF IInv, ProcShape, Fresh
<1> QED
  BY <1>1, <1>3, <1>4
  DEF IInv, BusyAtBoot, AtMigrations, Booting, Module, Missing, Mode, Busy

LEMMA InitOK == Init => IInv
<1> SUFFICES ASSUME Init PROVE IInv
  OBVIOUS
<1>1. /\ recorded = {} /\ effects = [v \in Versions |-> 0] /\ torn = [v \in Versions |-> 0]
      /\ lock = NoProc /\ mig = [p \in Procs |-> Runner("idle")] /\ faults = 0
      /\ proc = [p \in Procs |-> Fresh("off", "none")]
  BY DEF Init, MigInit
<1>2. \A p \in Procs : mig[p] = [at |-> "idle", file |-> NoFile, applied |-> {}]
  BY <1>1 DEF Runner
<1>3. MigTypeOK
  <2>1. effects \in [Versions -> Nat] /\ torn \in [Versions -> Nat] /\ faults \in 0 .. MaxFaults
    BY <1>1, Bounds
  <2>2. mig \in [Procs -> [at : Places, file : Versions \union {NoFile},
                           applied : SUBSET Versions]]
    BY <1>1 DEF Runner, Places
  <2> QED
    BY <1>1, <2>1, <2>2 DEF MigTypeOK, Places
<1>4. (\A p \in Procs : RunnerOK(p)) /\ \A v \in Versions : VersionOK(v)
  BY <1>1, <1>2 DEF RunnerOK, File, Locked, AtFile, VersionOK
<1>5. BusyAtBoot /\ ProcShape
  BY <1>1, <1>2 DEF BusyAtBoot, Busy, ProcShape, Fresh
<1> QED
  BY <1>3, <1>4, <1>5 DEF IInv, MigInv

LEMMA NextOK == IInv /\ [Next]_vars => IInv'
<1> SUFFICES ASSUME IInv, [Next]_vars PROVE IInv'
  OBVIOUS
<1>1. ASSUME NEW p \in Procs, MainStep(p) PROVE IInv'
  BY <1>1, BootStepOK, LaterStepOK, RunOK DEF MainStep
<1>2. CASE UNCHANGED vars
  BY <1>2 DEF vars, IInv, MigInv, MigTypeOK, RunnerOK, VersionOK, HasRun, File, BusyAtBoot,
              ProcShape, AtMigrations, Booting, Module, Missing, Mode
<1> QED
  BY <1>1, <1>2, LaunchOK, BootStepOK, RunOK, LaterStepOK, ThreadStepOK, CrashOK DEF Next

-----------------------------------------------------------------------------
(* Whoever boots, crashes and is started again: a migration that runs in a  *)
(* transaction takes effect once, and one without is repeated only if it    *)
(* was interrupted before its row was written (src/src/database/            *)
(* Migrations.hpp, run_pending and apply_no_transaction_).                  *)
THEOREM MigrationsAppliedOnce == Spec => []AppliedOnce
<1>1. IInv => AppliedOnce
  <2> SUFFICES ASSUME IInv, NEW v \in Versions
               PROVE  /\ effects[v] <= 1 + torn[v]
                      /\ v \notin NoTxn => torn[v] = 0
                      /\ v \in recorded => effects[v] > 0
    BY DEF AppliedOnce
  <2>1. VersionOK(v) /\ effects[v] \in Nat /\ torn[v] \in Nat
    BY DEF IInv, MigInv, MigTypeOK
  <2> QED
    BY <2>1 DEF VersionOK
<1> QED
  BY InitOK, NextOK, <1>1, PTL DEF Spec

(* What takes effect is a file of a process that holds the lock, and it     *)
(* finds the schema that its earlier files leave (the sort of               *)
(* get_migration_files and the loop of run_pending).                        *)
LEMMA RunsInOrder ==
    ASSUME IInv, [Next]_vars, NEW v \in Versions, effects'[v] > effects[v]
    PROVE  \E p \in Procs : /\ File(p) = v /\ v \in Files[p]
                            /\ \A u \in Files[p] : u < v => u \in recorded
<1>1. effects \in [Versions -> Nat] /\ effects' # effects
  BY DEF IInv, MigInv, MigTypeOK
<1>2. PICK p \in Procs : RunMigrations(p) \/ MigrationsFail(p)
  BY <1>1 DEF Next, vars, Launch, MainStep, BringUp, BringUpFails, MigrationsReturn,
     MigrationsThrow, Booted, Verify, VerifyFails, StartThreads, StartFails, EnterLoop, LoopReturns,
     LoopThrows, JoinMonitor, JoinWorkers, TearDown, Signal, MonitorStep, MonitorSees,
     MonitorSleeps, MonitorQuits, WorkerStep, LoopTop, PickReturns, JobEnds, Crash, DropRunner,
     Quiet, migVars
<1>3. mig[p].at = "held" /\ Ran(File(p))
  BY <1>1, <1>2 DEF RunMigrations, MigrationsFail, MigrationStep, MigrationFault,
     EnsureTrackingTable, GetApplied, NextFile, TakeLock, ApplyInTxn, ApplyOutside,
     RecordOutside, Unlock, StatementFails, AnswerLost
<1>4. RunnerOK(p)
  BY DEF IInv, MigInv
<1>5. File(p) = v
  BY <1>1, <1>3 DEF Ran
<1> QED
  BY <1>3, <1>4, <1>5 DEF RunnerOK, AtFile, Locked

(* A file never takes effect before the earlier files of its process are    *)
(* recorded, however the processes interleave.                              *)
THEOREM MigrationsAppliedInOrder == Spec => AppliedInOrder
<1>1. IInv /\ [Next]_vars =>
        [\A v \in Versions : effects'[v] > effects[v] =>
            \E p \in Procs : /\ File(p) = v /\ v \in Files[p]
                             /\ \A u \in Files[p] : u < v => u \in recorded]_vars
  BY RunsInOrder
<1> QED
  BY InitOK, NextOK, <1>1, PTL DEF Spec, AppliedInOrder
-----------------------------------------------------------------------------
(* The processes themselves. *)

AllModules == ToSet(Modules)
Serving == {"start", "run", "loop", "monitor", "threads"}
States ==
    [pc : {"off", "boot", "verify", "down", "ended"} \union Serving,
     mode : {"none", "server", "worker", "migrate", "verify"}, code : {0, 1, 134},
     up : SUBSET AllModules, shells : SUBSET Shelled, flag : BOOLEAN, draining : BOOLEAN,
     loop : {"new", "running", "stopped"},
     monitor : {"none", "watch", "grace", "quit", "done"},
     worker : {"none", "top", "pick", "busy", "done"}]

(* What the place of the main thread says of a process: which modules are   *)
(* up and satisfied, *)
ModulesOK(p, s) ==
    /\ s.pc = "off" => s.mode = "none" /\ s.up = {}
    /\ s.pc # "off" => s.mode \in ModesOf[p] /\ s.up \subseteq All[p][s.mode]
    /\ s.pc \in Serving => s.up = All[p][s.mode]
    /\ s.pc = "ended" => s.up \subseteq {"Storage"} \/ (s.mode = "verify" /\ s.code = 1)
    /\ s.shells # {} => s.code = 1
    /\ \A m \in s.up : Needs[m] \subseteq s.up
    /\ s.pc \in {"boot", "start", "verify"} => s.shells = {}
    /\ s.pc \in {"boot", "start"} => s.loop = "new"
    /\ Cardinality(s.shells) <= 1

(* which threads run, and that the loop is stopped after draining began, *)
ThreadsOK(s) ==
    /\ s.pc \in Serving => s.mode \in {"server", "worker"}
    /\ s.pc = "verify" => s.mode = "verify"
    /\ s.pc \in {"boot", "start"} => s.monitor = "none"
    /\ s.worker \in {"top", "pick", "busy"} => s.pc \in Serving \ {"start"} /\ s.mode = "worker"
    /\ s.loop = "running" => s.pc = "loop"
    /\ s.monitor \in {"grace", "quit", "done"} => s.draining
    /\ s.loop = "stopped" /\ s.code = 0 /\ s.pc \in Serving => s.draining

(* and that the files of its image are recorded: once the step "Migrations" *)
(* is behind it, and when a one-shot mode is about to exit with 0.          *)
SchemaOK(p, s) ==
    \/ "Migrations" \in s.up
    \/ s.mode \in {"migrate", "verify"} /\ s.pc \in {"down", "ended"} /\ s.code = 0
    => Files[p] \subseteq recorded

ProcOK(p) == proc[p] \in States /\ ModulesOK(p, proc[p]) /\ ThreadsOK(proc[p]) /\ SchemaOK(p, proc[p])
ProcsOK == proc \in [Procs -> States] /\ \A p \in Procs : ProcOK(p)

-----------------------------------------------------------------------------
(* The lists of modules. *)

LEMMA ModuleList ==
    /\ Modules \in [1..13 -> AllModules]
    /\ AllModules = {"Config", "Observability", "Database", "Migrations", "Cache", "Storage",
                     "Messaging", "Tasks", "Auth", "RateLimit", "Idempotency", "Jobs", "Email"}
    /\ \A m \in AllModules : \E i \in 1..13 : Modules[i] = m
  BY DEF AllModules, ToSet, Modules

LEMMA ShutdownList ==
    /\ ShutdownOrder \in [1..12 -> AllModules \ {"Storage"}]
    /\ \A m \in AllModules \ {"Storage"} : \E i \in 1..12 : ShutdownOrder[i] = m
<1>1. ShutdownOrder \in [1..12 -> AllModules \ {"Storage"}]
  BY ModuleList DEF ShutdownOrder
<1>2. /\ ShutdownOrder[1] = "Email" /\ ShutdownOrder[2] = "Jobs" /\ ShutdownOrder[3] = "Idempotency"
      /\ ShutdownOrder[4] = "RateLimit" /\ ShutdownOrder[5] = "Auth" /\ ShutdownOrder[6] = "Tasks"
      /\ ShutdownOrder[7] = "Messaging" /\ ShutdownOrder[8] = "Cache" /\ ShutdownOrder[9] = "Migrations"
      /\ ShutdownOrder[10] = "Database" /\ ShutdownOrder[11] = "Observability" /\ ShutdownOrder[12] = "Config"
  BY DEF ShutdownOrder
<1> QED
  BY <1>1, <1>2, ModuleList

(* The first of a list that is in S. *)
LEMMA FirstOfOK ==
    ASSUME NEW n \in Nat, NEW list, DOMAIN list = 1..n, NEW S, \E i \in 1..n : list[i] \in S
    PROVE  \E i \in 1..n : /\ FirstOf(list, S) = list[i] /\ list[i] \in S
                           /\ \A j \in 1..n : j < i => list[j] \notin S
<1> DEFINE T == {i \in 1..n : list[i] \in S}
<1>1. T \subseteq Nat /\ T # {}
  OBVIOUS
<1>2. Min(T) \in T /\ \A i \in T : Min(T) <= i
  BY <1>1, MinOK
<1>3. PICK k \in 1..n : list[k] \in S /\ \A i \in 1..n : list[i] \in S => k <= i
  BY <1>2
<1>4. k \in DOMAIN list /\ list[k] \in S /\ \A j \in 1..(k - 1) : list[j] \notin S
  BY <1>3
<1> DEFINE i == CHOOSE i \in DOMAIN list : list[i] \in S /\ \A j \in 1 .. (i - 1) : list[j] \notin S
<1>5. i \in DOMAIN list /\ list[i] \in S /\ \A j \in 1..(i - 1) : list[j] \notin S
  BY <1>4
<1>6. FirstOf(list, S) = list[i]
  BY DEF FirstOf
<1> HIDE DEF i
<1>7. \A j \in 1..n : j < i => j \in 1..(i - 1)
  BY <1>5
<1> QED
  BY <1>5, <1>6, <1>7

LEMMA NeedsTable ==
    \A m \in AllModules :
        /\ m \in {"Jobs", "RateLimit", "Idempotency"} => Needs[m] = {"Cache", "Config"}
        /\ m = "Migrations" => Needs[m] = {"Database"}
        /\ m \in {"Config", "Storage"} => Needs[m] = {}
        /\ m \notin {"Jobs", "RateLimit", "Idempotency", "Migrations", "Config", "Storage"} =>
               Needs[m] = {"Config"}
  BY DEF Needs, AllModules

(* What a module calls into comes up before it, *)
LEMMA NeededFirst ==
    ASSUME NEW i \in 1..13, NEW n \in Needs[Modules[i]]
    PROVE  \E j \in 1..13 : j < i /\ Modules[j] = n
<1>1. /\ Modules[1] = "Config" /\ Modules[2] = "Observability" /\ Modules[3] = "Database"
      /\ Modules[4] = "Migrations" /\ Modules[5] = "Cache" /\ Modules[6] = "Storage"
      /\ Modules[7] = "Messaging" /\ Modules[8] = "Tasks" /\ Modules[9] = "Auth"
      /\ Modules[10] = "RateLimit" /\ Modules[11] = "Idempotency" /\ Modules[12] = "Jobs"
      /\ Modules[13] = "Email"
  BY DEF Modules
<1>2. Modules[i] \in AllModules
  BY ModuleList
<1>3. CASE Modules[i] = "Migrations"
  <2>1. i = 4 /\ n = "Database"
    BY <1>1, <1>2, <1>3, NeedsTable
  <2> QED
    BY <1>1, <2>1
<1>4. CASE Modules[i] \in {"Jobs", "RateLimit", "Idempotency"}
  <2>1. i > 5 /\ n \in {"Cache", "Config"}
    BY <1>1, <1>2, <1>4, NeedsTable
  <2> QED
    BY <1>1, <2>1
<1>5. CASE Modules[i] \notin {"Jobs", "RateLimit", "Idempotency", "Migrations"}
  <2>1. i > 1 /\ n = "Config"
    BY <1>1, <1>2, <1>5, NeedsTable
  <2> QED
    BY <1>1, <2>1
<1> QED
  BY <1>3, <1>4, <1>5

(* and goes after it. *)
LEMMA NeededLast ==
    ASSUME NEW i \in 1..12, NEW m \in AllModules \ {"Storage"}, ShutdownOrder[i] \in Needs[m]
    PROVE  \E j \in 1..12 : j < i /\ ShutdownOrder[j] = m
<1>1. /\ ShutdownOrder[1] = "Email" /\ ShutdownOrder[2] = "Jobs" /\ ShutdownOrder[3] = "Idempotency"
      /\ ShutdownOrder[4] = "RateLimit" /\ ShutdownOrder[5] = "Auth" /\ ShutdownOrder[6] = "Tasks"
      /\ ShutdownOrder[7] = "Messaging" /\ ShutdownOrder[8] = "Cache" /\ ShutdownOrder[9] = "Migrations"
      /\ ShutdownOrder[10] = "Database" /\ ShutdownOrder[11] = "Observability" /\ ShutdownOrder[12] = "Config"
  BY DEF ShutdownOrder
<1>2. PICK k \in 1..12 : ShutdownOrder[k] = m
  BY ShutdownList
<1>3. CASE m = "Migrations"
  <2>1. ShutdownOrder[i] = "Database"
    BY <1>3, NeedsTable
  <2> QED
    BY <1>1, <1>3, <2>1
<1>4. CASE m \in {"Jobs", "RateLimit", "Idempotency"}
  <2>1. ShutdownOrder[i] \in {"Cache", "Config"}
    BY <1>4, NeedsTable
  <2>2. i >= 8 /\ k <= 4
    BY <1>1, <1>2, <1>4, <2>1
  <2> QED
    BY <1>2, <2>2
<1>5. CASE m \notin {"Jobs", "RateLimit", "Idempotency", "Migrations"}
  <2>1. ShutdownOrder[i] = "Config" /\ m # "Config"
    BY <1>5, NeedsTable
  <2>2. i = 12 /\ k # 12
    BY <1>1, <1>2, <2>1
  <2> QED
    BY <1>2, <2>2
<1> QED
  BY <1>3, <1>4, <1>5

(* A mode brings up what its modules call into. *)
LEMMA WantedOK ==
    ASSUME NEW p \in Procs, NEW mode \in ModesOf[p]
    PROVE  /\ All[p][mode] = {m \in AllModules : Wanted(p, mode, m)}
           /\ All[p][mode] \subseteq AllModules
           /\ \A m \in All[p][mode] : Needs[m] \subseteq All[p][mode]
           /\ mode \in {"server", "worker", "migrate", "verify"}
           /\ p \in Migrating /\ mode \in {"server", "worker"} => "Migrations" \in All[p][mode]
           /\ mode = "migrate" => "Migrations" \in All[p][mode]
<1>1. All[p][mode] = {m \in AllModules : Wanted(p, mode, m)}
  BY DEF All, AllModules
<1>2. mode \in {"server", "worker", "migrate", "verify"} /\ Off \subseteq {"Messaging", "Jobs"}
  BY ModesAssumption
<1>3. ASSUME NEW m \in All[p][mode] PROVE Needs[m] \subseteq All[p][mode]
  <2>1. m \in AllModules /\ Wanted(p, mode, m)
    BY <1>1
  <2>2. {"Config", "Database"} \subseteq All[p][mode]
    BY <1>1, <1>2, ModuleList DEF Wanted
  <2>3. CASE m \in {"Jobs", "RateLimit", "Idempotency"}
    <3>1. mode \notin {"migrate", "verify"}
      BY <2>1, <2>3 DEF Wanted
    <3>2. "Cache" \in All[p][mode]
      BY <1>1, <1>2, <3>1, ModuleList DEF Wanted
    <3> QED
      BY <2>1, <2>2, <2>3, <3>2, NeedsTable
  <2>4. CASE m \notin {"Jobs", "RateLimit", "Idempotency"}
    BY <2>1, <2>2, <2>4, NeedsTable
  <2> QED
    BY <2>3, <2>4
<1> QED
  BY <1>1, <1>2, <1>3, ModuleList DEF Wanted

-----------------------------------------------------------------------------
(* One step after the other. *)

LEMMA StepOK ==
    ASSUME ProcsOK, NEW p \in Procs, NEW s \in States, Becomes(p, s), recorded \subseteq recorded',
           ModulesOK(p, s), ThreadsOK(s), SchemaOK(p, s)
    PROVE  ProcsOK'
<1>1. proc' \in [Procs -> States] /\ proc'[p] = s /\ \A q \in Procs \ {p} : proc'[q] = proc[q]
  BY DEF ProcsOK, Becomes
<1>2. \A q \in Procs : ModulesOK(q, proc'[q]) /\ ThreadsOK(proc'[q]) /\ SchemaOK(q, proc'[q])
  BY <1>1 DEF ProcsOK, ProcOK
<1>3. \A q \in Procs : SchemaOK(q, proc[q])'
  BY <1>2 DEF SchemaOK
<1> QED
  BY <1>1, <1>2, <1>3 DEF ProcsOK, ProcOK, ModulesOK, ThreadsOK

LEMMA StateOf ==
    ASSUME ProcsOK, NEW p \in Procs
    PROVE  proc[p] \in States /\ ModulesOK(p, proc[p]) /\ ThreadsOK(proc[p]) /\ SchemaOK(p, proc[p])
  BY DEF ProcsOK, ProcOK

(* The module whose turn it is: what it needs is up. *)
LEMMA TurnOK ==
    ASSUME ProcsOK, NEW p \in Procs, Booting(p)
    PROVE  Module(p) \in All[p][Mode(p)] /\ Needs[Module(p)] \subseteq proc[p].up
<1>1. /\ proc[p] \in States /\ ModulesOK(p, proc[p]) /\ Mode(p) \in ModesOf[p]
      /\ Missing(p) # {} /\ Missing(p) = All[p][Mode(p)] \ proc[p].up
  BY StateOf DEF Booting, Missing, Mode, ModulesOK
<1>2. /\ All[p][Mode(p)] \subseteq AllModules
      /\ \A m \in All[p][Mode(p)] : Needs[m] \subseteq All[p][Mode(p)]
  BY <1>1, WantedOK
<1>3. DOMAIN Modules = 1..13 /\ \E i \in 1..13 : Modules[i] \in Missing(p)
  BY <1>1, <1>2, ModuleList
<1>4. PICK i \in 1..13 : /\ Module(p) = Modules[i] /\ Modules[i] \in Missing(p)
                         /\ \A j \in 1..13 : j < i => Modules[j] \notin Missing(p)
  BY <1>3, FirstOfOK, 13 \in Nat DEF Module
<1>5. ASSUME NEW n \in Needs[Module(p)] PROVE n \in proc[p].up
  <2>1. n \in All[p][Mode(p)]
    BY <1>1, <1>2, <1>4
  <2>2. n \notin Missing(p)
    BY <1>4, NeededFirst
  <2> QED
    BY <1>1, <2>1, <2>2
<1> QED
  BY <1>1, <1>4, <1>5

(* It is up; when it is "Migrations", the files are recorded. *)
LEMMA IsUpOK ==
    ASSUME ProcsOK, NEW p \in Procs, Booting(p), Becomes(p, IsUp(p)), recorded' = recorded,
           Module(p) = "Migrations" => Files[p] \subseteq recorded
    PROVE  ProcsOK'
<1> DEFINE s == IsUp(p)
<1>1. /\ proc[p] \in States /\ ModulesOK(p, proc[p]) /\ ThreadsOK(proc[p]) /\ SchemaOK(p, proc[p])
      /\ proc[p].pc = "boot" /\ Mode(p) = proc[p].mode /\ proc[p].mode \in ModesOf[p]
  BY StateOf DEF Booting, Mode, ModulesOK
<1>2. /\ Module(p) \in All[p][Mode(p)] /\ Needs[Module(p)] \subseteq proc[p].up
      /\ Module(p) \in AllModules
  BY <1>1, TurnOK, WantedOK
<1>3. s \in States /\ s.up = proc[p].up \union {Module(p)}
  BY <1>1, <1>2 DEF States, IsUp
<1>4. /\ s.pc = proc[p].pc /\ s.mode = proc[p].mode /\ s.shells = proc[p].shells
      /\ s.code = proc[p].code /\ s.loop = proc[p].loop /\ s.worker = proc[p].worker
      /\ s.monitor = proc[p].monitor /\ s.draining = proc[p].draining
  BY <1>1 DEF States, IsUp
<1> HIDE DEF s
<1>5. ModulesOK(p, s)
  BY <1>1, <1>2, <1>3, <1>4 DEF ModulesOK, Serving
<1>6. ThreadsOK(s) /\ SchemaOK(p, s)
  BY <1>1, <1>3, <1>4 DEF ThreadsOK, SchemaOK
<1> QED
  BY <1>3, <1>5, <1>6, StepOK DEF s

(* A step throws: what is up stays up for shutdown() to unwind, or for good. *)
LEMMA ThrewOK ==
    ASSUME ProcsOK, NEW p \in Procs, proc[p].pc \in {"boot", "start", "verify"}, NEW shells \in SUBSET Shelled,
           shells = {} \/ \E m : shells = {m},
           Threw(p, shells), recorded' = recorded
    PROVE  ProcsOK'
<1> DEFINE at == IF Mode(p) = "verify" THEN "ended" ELSE "down"
           s == [proc[p] EXCEPT !.pc = at, !.code = 1, !.shells = @ \union shells]
<1>1. proc[p] \in States /\ ModulesOK(p, proc[p]) /\ ThreadsOK(proc[p]) /\ SchemaOK(p, proc[p])
  BY StateOf
<1>2. proc[p].shells = {}
  BY <1>1 DEF ModulesOK
<1>3. /\ s \in States /\ s.shells = shells /\ s.code = 1 /\ s.up = proc[p].up
      /\ s.pc = "down" \/ (s.pc = "ended" /\ proc[p].mode = "verify")
  BY <1>1, <1>2 DEF States, Mode
<1>4. /\ s.mode = proc[p].mode /\ s.loop = proc[p].loop /\ s.worker = proc[p].worker
      /\ s.monitor = proc[p].monitor /\ s.draining = proc[p].draining
  BY <1>1 DEF States
<1>5. Becomes(p, s)
  BY DEF Threw
<1>6. Cardinality(shells) <= 1
  <2>1. CASE shells = {}
    BY <2>1, FS_EmptySet
  <2>2. CASE \E m : shells = {m}
    <3>1. PICK m : shells = {m}
      BY <2>2
    <3>2. Cardinality({m}) = 1
      BY FS_Singleton
    <3> QED
      BY <3>1, <3>2
  <2> QED
    BY <2>1, <2>2
<1> HIDE DEF s, at
<1>7. ModulesOK(p, s)
  BY <1>1, <1>3, <1>4, <1>6 DEF ModulesOK, Serving
<1>8. ThreadsOK(s)
  BY <1>1, <1>3, <1>4 DEF ThreadsOK, Serving
<1>9. SchemaOK(p, s)
  BY <1>1, <1>3, <1>4 DEF SchemaOK
<1> QED
  BY <1>3, <1>5, <1>7, <1>8, <1>9, StepOK

LEMMA LaunchProcOK ==
    ASSUME ProcsOK, NEW p \in Procs, Launch(p) PROVE ProcsOK'
<1>1. PICK mode \in ModesOf[p] : Becomes(p, Fresh("boot", mode))
  BY DEF Launch
<1> DEFINE s == Fresh("boot", mode)
<1>2. mode \in {"server", "worker", "migrate", "verify"}
  BY WantedOK
<1>3. /\ s.pc = "boot" /\ s.mode = mode /\ s.up = {} /\ s.shells = {} /\ s.loop = "new"
      /\ s.monitor = "none" /\ s.worker = "none" /\ s.code = 0
  BY DEF Fresh
<1>4. s \in States
  BY <1>2 DEF States, Fresh
<1> HIDE DEF s
<1>5. ModulesOK(p, s) /\ ThreadsOK(s) /\ SchemaOK(p, s)
  BY <1>3, FS_EmptySet DEF ModulesOK, ThreadsOK, SchemaOK, Serving
<1> QED
  BY <1>1, <1>4, <1>5, StepOK DEF s, Launch

LEMMA CrashProcOK ==
    ASSUME ProcsOK, NEW p \in Procs, Crash(p) PROVE ProcsOK'
<1> DEFINE s == Fresh("off", "none")
<1>3. /\ s.pc = "off" /\ s.mode = "none" /\ s.up = {} /\ s.shells = {} /\ s.loop = "new"
      /\ s.monitor = "none" /\ s.worker = "none" /\ s.code = 0
  BY DEF Fresh
<1>4. s \in States /\ Becomes(p, s) /\ recorded' = recorded
  BY DEF States, Fresh, Crash, Becomes, DropRunner
<1> HIDE DEF s
<1>5. ModulesOK(p, s) /\ ThreadsOK(s) /\ SchemaOK(p, s)
  BY <1>3, FS_EmptySet DEF ModulesOK, ThreadsOK, SchemaOK, Serving
<1> QED
  BY <1>4, <1>5, StepOK

(* A step that brings nothing up or down, and ends no process. *)
LEMMA KeepsModules ==
    ASSUME ProcsOK, NEW p \in Procs, NEW s \in States, Becomes(p, s), recorded' = recorded,
           s.mode = proc[p].mode, s.up = proc[p].up, s.shells = proc[p].shells,
           s.code = proc[p].code \/ s.code = 1,
           \/ s.pc = proc[p].pc /\ s.code = proc[p].code
           \/ proc[p].pc \in Serving /\ s.pc \in (Serving \ {"start"}) \union {"down"},
           s.pc = "start" => s.loop = "new",
           s.pc = "boot" => s.loop = "new",
           ThreadsOK(s)
    PROVE  ProcsOK'
<1>1. proc[p] \in States /\ ModulesOK(p, proc[p]) /\ ThreadsOK(proc[p]) /\ SchemaOK(p, proc[p])
  BY StateOf
<1>2. ModulesOK(p, s)
  BY <1>1 DEF ModulesOK, Serving
<1>3. SchemaOK(p, s)
  BY <1>1 DEF SchemaOK, ThreadsOK
<1> QED
  BY <1>2, <1>3, StepOK

LEMMA BootedOK ==
    ASSUME ProcsOK, NEW p \in Procs, Booted(p) PROVE ProcsOK'
<1> DEFINE r == Mode(p) = "worker" /\ "Jobs" \notin proc[p].up
           s == [proc[p] EXCEPT !.code = IF r THEN 1 ELSE 0,
                                !.pc = CASE Mode(p) = "verify" -> "verify"
                                         [] Mode(p) = "migrate" \/ r -> "down"
                                         [] OTHER -> "start"]
<1>1. /\ proc[p] \in States /\ ModulesOK(p, proc[p]) /\ ThreadsOK(proc[p]) /\ SchemaOK(p, proc[p])
      /\ proc[p].pc = "boot" /\ ~Booting(p) /\ Becomes(p, s) /\ recorded' = recorded
      /\ Mode(p) = proc[p].mode /\ proc[p].mode \in ModesOf[p]
  BY StateOf DEF Booted, Quiet, migVars, Mode, ModulesOK
<1>2. proc[p].up = All[p][proc[p].mode]
  BY <1>1 DEF Booting, Missing, ModulesOK
<1>3. proc[p].mode \in {"server", "worker", "migrate", "verify"}
  BY <1>1, WantedOK
<1>4. /\ s.mode = proc[p].mode /\ s.up = proc[p].up /\ s.shells = proc[p].shells
      /\ s.loop = proc[p].loop /\ s.worker = proc[p].worker
      /\ s.monitor = proc[p].monitor /\ s.draining = proc[p].draining
  BY <1>1 DEF States
<1>5. s \in States /\ s.pc \in {"verify", "down", "start"} /\ s.code \in {0, 1}
  BY <1>1 DEF States, Serving
<1>6. /\ s.pc = "verify" <=> s.mode = "verify"
      /\ s.pc = "start" => s.mode \in {"server", "worker"}
      /\ s.mode = "migrate" => s.pc = "down"
  BY <1>1, <1>3 DEF States
<1> HIDE DEF s, r
<1>7. ModulesOK(p, s)
  BY <1>1, <1>2, <1>4, <1>5 DEF ModulesOK, Serving
<1>8. ThreadsOK(s)
  BY <1>1, <1>4, <1>5, <1>6 DEF ThreadsOK, ModulesOK, Serving
<1>9. SchemaOK(p, s)
  <2>1. s.mode = "migrate" => "Migrations" \in s.up
    BY <1>1, <1>2, <1>4, WantedOK
  <2> QED
    BY <1>1, <1>4, <1>5, <1>6, <2>1 DEF SchemaOK
<1> QED
  BY <1>1, <1>5, <1>7, <1>8, <1>9, StepOK

(* It exits with 0 only if every file is recorded. *)
LEMMA VerifyOK ==
    ASSUME ProcsOK, NEW p \in Procs, Verify(p) PROVE ProcsOK'
<1>1. PICK code \in {0, 1} :
          /\ Becomes(p, [proc[p] EXCEPT !.pc = "down", !.code = code])
          /\ code = 0 => Files[p] \subseteq recorded
  <2>1. CASE Becomes(p, [proc[p] EXCEPT !.pc = "down", !.code = IF ListPending(p) = {} THEN 0 ELSE 1])
    <3> DEFINE code == IF ListPending(p) = {} THEN 0 ELSE 1
    <3>1. code \in {0, 1} /\ (code = 0 => Files[p] \subseteq recorded)
      BY DEF ListPending
    <3>2. Becomes(p, [proc[p] EXCEPT !.pc = "down", !.code = code])
      BY <2>1
    <3> HIDE DEF code
    <3> QED
      BY <3>1, <3>2
  <2>2. CASE Becomes(p, [proc[p] EXCEPT !.pc = "down", !.code = IF Files[p] = {} THEN 0 ELSE 1])
    <3> DEFINE code == IF Files[p] = {} THEN 0 ELSE 1
    <3>1. code \in {0, 1} /\ (code = 0 => Files[p] \subseteq recorded)
      OBVIOUS
    <3>2. Becomes(p, [proc[p] EXCEPT !.pc = "down", !.code = code])
      BY <2>2
    <3> HIDE DEF code
    <3> QED
      BY <3>1, <3>2
  <2> QED
    BY <2>1, <2>2 DEF Verify
<1> DEFINE s == [proc[p] EXCEPT !.pc = "down", !.code = code]
<1>2. /\ proc[p] \in States /\ ModulesOK(p, proc[p]) /\ ThreadsOK(proc[p]) /\ SchemaOK(p, proc[p])
      /\ proc[p].pc = "verify" /\ recorded' = recorded /\ Becomes(p, s)
  BY <1>1, StateOf DEF Verify, migVars
<1>3. /\ s \in States /\ s.pc = "down" /\ s.code = code
      /\ s.mode = proc[p].mode /\ s.up = proc[p].up /\ s.shells = proc[p].shells
      /\ s.loop = proc[p].loop /\ s.worker = proc[p].worker
      /\ s.monitor = proc[p].monitor /\ s.draining = proc[p].draining
  BY <1>2 DEF States
<1> HIDE DEF s
<1>4. ModulesOK(p, s)
  BY <1>2, <1>3 DEF ModulesOK, Serving
<1>5. ThreadsOK(s) /\ SchemaOK(p, s)
  BY <1>1, <1>2, <1>3 DEF ThreadsOK, SchemaOK, Serving
<1> QED
  BY <1>2, <1>3, <1>4, <1>5, StepOK

LEMMA ThreadsStarted ==
    ASSUME NEW q \in States, NEW w \in {"top", "none"}
    PROVE  [q EXCEPT !.pc = "run", !.monitor = "watch", !.worker = w] \in States
  BY DEF States, Serving

LEMMA MainOK ==
    ASSUME ProcsOK, NEW p \in Procs,
           \/ StartThreads(p) \/ EnterLoop(p) \/ LoopReturns(p) \/ JoinMonitor(p) \/ JoinWorkers(p)
    PROVE  ProcsOK'
<1>1. /\ proc[p] \in States /\ ModulesOK(p, proc[p]) /\ ThreadsOK(proc[p])
      /\ recorded' = recorded /\ Mode(p) = proc[p].mode
  BY StateOf DEF StartThreads, EnterLoop, LoopReturns, JoinMonitor, JoinWorkers, Quiet, migVars, Mode
<1>2. CASE StartThreads(p)
  <2> DEFINE w == IF Mode(p) = "worker" THEN "top" ELSE "none"
             s == [proc[p] EXCEPT !.pc = "run", !.monitor = "watch", !.worker = w]
  <2>1. proc[p].pc = "start" /\ Becomes(p, s)
    BY <1>2 DEF StartThreads
  <2>0. w \in {"top", "none"} /\ (w = "top" => Mode(p) = "worker")
    OBVIOUS
  <2> HIDE DEF w
  <2>5. proc[p] \in States
    BY <1>1
  <2>4. s \in States
    BY <2>0, <2>5, ThreadsStarted
  <2>2. /\ s.mode = proc[p].mode /\ s.up = proc[p].up /\ s.shells = proc[p].shells
        /\ s.pc = "run" /\ s.code = proc[p].code /\ s.loop = proc[p].loop
        /\ s.monitor = "watch" /\ s.draining = proc[p].draining
        /\ s.worker = w
    BY <1>1 DEF States
  <2> HIDE DEF s
  <2>3. ThreadsOK(s)
    BY <1>1, <2>0, <2>1, <2>2 DEF ThreadsOK, Serving
  <2> QED
    BY <1>1, <2>1, <2>2, <2>3, <2>4, KeepsModules DEF Serving
<1>3. CASE EnterLoop(p)
  <2> DEFINE l == IF proc[p].loop = "new" THEN "running" ELSE "stopped"
             s == [proc[p] EXCEPT !.pc = "loop", !.loop = l]
  <2>1. proc[p].pc = "run" /\ Becomes(p, s)
    BY <1>3 DEF EnterLoop
  <2>0. /\ l \in {"running", "stopped"} /\ (l = "stopped" => proc[p].loop # "new")
        /\ proc[p].loop \in {"new", "running", "stopped"}
    BY <1>1 DEF States
  <2> HIDE DEF l
  <2>4. s \in States
    <3>1. "loop" \in {"off", "boot", "verify", "down", "ended"} \union Serving
      BY DEF Serving
    <3> QED
      BY <1>1, <2>0, <3>1 DEF States
  <2>2. /\ s.mode = proc[p].mode /\ s.up = proc[p].up /\ s.shells = proc[p].shells
        /\ s.pc = "loop" /\ s.code = proc[p].code /\ s.monitor = proc[p].monitor
        /\ s.draining = proc[p].draining /\ s.worker = proc[p].worker
        /\ s.loop = l
    BY <1>1 DEF States
  <2> HIDE DEF s
  <2>3. ThreadsOK(s)
    BY <1>1, <2>0, <2>1, <2>2 DEF ThreadsOK, Serving
  <2> QED
    BY <1>1, <2>1, <2>2, <2>3, <2>4, KeepsModules DEF Serving
<1>4. CASE LoopReturns(p)
  <2>1. ASSUME NEW s \in States, Becomes(p, s), proc[p].pc = "loop", proc[p].loop = "stopped",
               s.mode = proc[p].mode, s.up = proc[p].up, s.shells = proc[p].shells,
               s.pc = "monitor", s.code = proc[p].code, s.monitor = proc[p].monitor,
               proc[p].draining => s.draining, s.worker = proc[p].worker, s.loop = proc[p].loop
        PROVE  ProcsOK'
    <3>1. ThreadsOK(s)
      BY <1>1, <2>1 DEF ThreadsOK, Serving
    <3> QED
      BY <1>1, <2>1, <3>1, KeepsModules DEF Serving
  <2>2. proc[p].pc = "loop" /\ proc[p].loop = "stopped"
    BY <1>4 DEF LoopReturns
  <2>3. CASE proc[p].draining \/ Mode(p) = "worker"
    <3> DEFINE s == [proc[p] EXCEPT !.pc = "monitor", !.flag = TRUE, !.draining = TRUE]
    <3>1. Becomes(p, s)
      BY <1>4, <2>3 DEF LoopReturns
    <3>2. /\ s \in States /\ s.mode = proc[p].mode /\ s.up = proc[p].up /\ s.shells = proc[p].shells
          /\ s.pc = "monitor" /\ s.code = proc[p].code /\ s.monitor = proc[p].monitor
          /\ s.draining /\ s.worker = proc[p].worker /\ s.loop = proc[p].loop
      BY <1>1 DEF States, Serving
    <3> QED
      BY <2>1, <2>2, <3>1, <3>2
  <2>4. CASE ~(proc[p].draining \/ Mode(p) = "worker")
    <3> DEFINE s == [proc[p] EXCEPT !.pc = "monitor", !.flag = TRUE, !.draining = FALSE]
    <3>1. Becomes(p, s)
      BY <1>4, <2>4 DEF LoopReturns
    <3>2. /\ s \in States /\ s.mode = proc[p].mode /\ s.up = proc[p].up /\ s.shells = proc[p].shells
          /\ s.pc = "monitor" /\ s.code = proc[p].code /\ s.monitor = proc[p].monitor
          /\ s.worker = proc[p].worker /\ s.loop = proc[p].loop
      BY <1>1 DEF States, Serving
    <3> QED
      BY <2>1, <2>2, <2>4, <3>1, <3>2
  <2> QED
    BY <2>3, <2>4
<1>5. CASE JoinMonitor(p)
  <2> DEFINE s == [proc[p] EXCEPT !.pc = IF Mode(p) = "worker" THEN "threads" ELSE "down"]
  <2>1. proc[p].pc = "monitor" /\ Becomes(p, s)
    BY <1>5 DEF JoinMonitor
  <2>2. /\ s \in States /\ s.mode = proc[p].mode /\ s.up = proc[p].up /\ s.shells = proc[p].shells
        /\ s.pc = (IF proc[p].mode = "worker" THEN "threads" ELSE "down")
        /\ s.code = proc[p].code /\ s.monitor = proc[p].monitor
        /\ s.draining = proc[p].draining /\ s.worker = proc[p].worker /\ s.loop = proc[p].loop
    BY <1>1 DEF States, Serving
  <2> HIDE DEF s
  <2>3. ThreadsOK(s)
    BY <1>1, <2>1, <2>2 DEF ThreadsOK, Serving
  <2> QED
    BY <1>1, <2>1, <2>2, <2>3, KeepsModules DEF Serving
<1>6. CASE JoinWorkers(p)
  <2> DEFINE s == [proc[p] EXCEPT !.pc = "down"]
  <2>1. proc[p].pc = "threads" /\ proc[p].worker = "done" /\ Becomes(p, s)
    BY <1>6 DEF JoinWorkers
  <2>2. /\ s \in States /\ s.mode = proc[p].mode /\ s.up = proc[p].up /\ s.shells = proc[p].shells
        /\ s.pc = "down" /\ s.code = proc[p].code /\ s.monitor = proc[p].monitor
        /\ s.draining = proc[p].draining /\ s.worker = proc[p].worker /\ s.loop = proc[p].loop
    BY <1>1 DEF States, Serving
  <2> HIDE DEF s
  <2>3. ThreadsOK(s)
    BY <1>1, <2>1, <2>2 DEF ThreadsOK, Serving
  <2> QED
    BY <1>1, <2>1, <2>2, <2>3, KeepsModules DEF Serving
<1> QED
  BY <1>2, <1>3, <1>4, <1>5, <1>6

LEMMA LoopThrowsOK ==
    ASSUME ProcsOK, NEW p \in Procs, LoopThrows(p) PROVE ProcsOK'
<1>1. /\ proc[p] \in States /\ ModulesOK(p, proc[p]) /\ ThreadsOK(proc[p])
      /\ recorded' = recorded /\ proc[p].pc \in {"run", "loop"} /\ Mode(p) = proc[p].mode
      /\ proc[p].mode \in ModesOf[p]
  BY StateOf DEF LoopThrows, migVars, Mode, ModulesOK
<1>2. CASE Mode(p) = "server"
  <2> DEFINE s == [Fresh("ended", "server") EXCEPT !.code = 134]
  <2>1. Becomes(p, s)
    BY <1>2 DEF LoopThrows
  <2>2. /\ s \in States /\ s.pc = "ended" /\ s.mode = "server" /\ s.up = {} /\ s.shells = {}
        /\ s.loop = "new" /\ s.monitor = "none" /\ s.worker = "none" /\ s.code = 134
    BY DEF States, Fresh
  <2> HIDE DEF s
  <2>3. ModulesOK(p, s) /\ ThreadsOK(s) /\ SchemaOK(p, s)
    BY <1>1, <1>2, <2>2, FS_EmptySet DEF ModulesOK, ThreadsOK, SchemaOK, Serving
  <2> QED
    BY <1>1, <2>1, <2>2, <2>3, StepOK
<1>3. CASE Mode(p) # "server"
  <2> DEFINE s == [proc[p] EXCEPT !.pc = "monitor", !.flag = TRUE, !.loop = "stopped", !.code = 1]
  <2>1. Becomes(p, s)
    BY <1>3 DEF LoopThrows
  <2>2. /\ s \in States /\ s.mode = proc[p].mode /\ s.up = proc[p].up /\ s.shells = proc[p].shells
        /\ s.pc = "monitor" /\ s.code = 1 /\ s.monitor = proc[p].monitor
        /\ s.draining = proc[p].draining /\ s.worker = proc[p].worker /\ s.loop = "stopped"
    BY <1>1 DEF States, Serving
  <2> HIDE DEF s
  <2>3. ThreadsOK(s)
    BY <1>1, <2>2 DEF ThreadsOK, Serving
  <2> QED
    BY <1>1, <2>1, <2>2, <2>3, KeepsModules DEF Serving
<1> QED
  BY <1>2, <1>3

(* A module goes when nothing that is up calls into it. *)
LEMMA TearDownOK ==
    ASSUME ProcsOK, NEW p \in Procs, TearDown(p) PROVE ProcsOK'
<1> DEFINE left == proc[p].up \ {"Storage"}
<1>1. /\ proc[p] \in States /\ ModulesOK(p, proc[p]) /\ ThreadsOK(proc[p]) /\ SchemaOK(p, proc[p])
      /\ recorded' = recorded /\ proc[p].pc = "down" /\ proc[p].up \subseteq AllModules
  BY StateOf DEF TearDown, Quiet, migVars, States
<1>2. CASE left = {}
  <2> DEFINE s == [proc[p] EXCEPT !.pc = "ended"]
  <2>1. Becomes(p, s)
    BY <1>2 DEF TearDown
  <2>2. /\ s \in States /\ s.mode = proc[p].mode /\ s.up = proc[p].up /\ s.shells = proc[p].shells
        /\ s.pc = "ended" /\ s.code = proc[p].code /\ s.monitor = proc[p].monitor
        /\ s.draining = proc[p].draining /\ s.worker = proc[p].worker /\ s.loop = proc[p].loop
    BY <1>1 DEF States
  <2> HIDE DEF s
  <2>3. ModulesOK(p, s)
    BY <1>1, <1>2, <2>2 DEF ModulesOK, Serving
  <2>4. ThreadsOK(s) /\ SchemaOK(p, s)
    BY <1>1, <2>2 DEF ThreadsOK, SchemaOK, Serving
  <2> QED
    BY <1>1, <2>1, <2>2, <2>3, <2>4, StepOK
<1>3. CASE left # {}
  <2> DEFINE m == FirstOf(ShutdownOrder, left)
             s == [proc[p] EXCEPT !.up = @ \ {m}]
  <2>1. Becomes(p, s)
    BY <1>3 DEF TearDown
  <2>2. DOMAIN ShutdownOrder = 1..12 /\ \E i \in 1..12 : ShutdownOrder[i] \in left
    BY <1>1, <1>3, ShutdownList
  <2>3. PICK i \in 1..12 : /\ m = ShutdownOrder[i] /\ ShutdownOrder[i] \in left
                           /\ \A j \in 1..12 : j < i => ShutdownOrder[j] \notin left
    BY <2>2, FirstOfOK, 12 \in Nat
  <2>4. ASSUME NEW u \in proc[p].up PROVE m \notin Needs[u]
    <3>1. CASE u = "Storage"
      BY <1>1, <3>1, NeedsTable
    <3>2. CASE u # "Storage"
      BY <1>1, <2>3, <3>2, NeededLast
    <3> QED
      BY <3>1, <3>2
  <2> HIDE DEF m, left
  <2>5. /\ s \in States /\ s.mode = proc[p].mode /\ s.up = proc[p].up \ {m}
        /\ s.shells = proc[p].shells /\ s.pc = "down" /\ s.code = proc[p].code
        /\ s.monitor = proc[p].monitor
        /\ s.draining = proc[p].draining /\ s.worker = proc[p].worker /\ s.loop = proc[p].loop
    BY <1>1 DEF States
  <2> HIDE DEF s
  <2>6. ModulesOK(p, s)
    BY <1>1, <2>4, <2>5 DEF ModulesOK, Serving
  <2>7. ThreadsOK(s) /\ SchemaOK(p, s)
    BY <1>1, <2>5 DEF ThreadsOK, SchemaOK, Serving
  <2> QED
    BY <1>1, <2>1, <2>5, <2>6, <2>7, StepOK
<1> QED
  BY <1>2, <1>3

(* The monitor and the worker thread. *)
LEMMA ThreadsStepOK ==
    ASSUME ProcsOK, NEW p \in Procs, Signal(p) \/ MonitorStep(p) \/ WorkerStep(p) PROVE ProcsOK'
<1>1. /\ proc[p] \in States /\ ModulesOK(p, proc[p]) /\ ThreadsOK(proc[p])
      /\ recorded' = recorded /\ Mode(p) = proc[p].mode
  BY StateOf DEF Signal, MonitorStep, MonitorSees, MonitorSleeps, MonitorQuits, WorkerStep,
                 LoopTop, PickReturns, JobEnds, Quiet, migVars, Mode
<1>2. CASE Signal(p)
  <2> DEFINE s == [proc[p] EXCEPT !.flag = TRUE]
  <2>1. Becomes(p, s)
    BY <1>2 DEF Signal
  <2>2. /\ s \in States /\ s.mode = proc[p].mode /\ s.up = proc[p].up /\ s.shells = proc[p].shells
        /\ s.pc = proc[p].pc /\ s.code = proc[p].code /\ s.monitor = proc[p].monitor
        /\ s.draining = proc[p].draining /\ s.worker = proc[p].worker /\ s.loop = proc[p].loop
    BY <1>1 DEF States
  <2> HIDE DEF s
  <2>3. ThreadsOK(s)
    BY <1>1, <2>2 DEF ThreadsOK
  <2> QED
    BY <1>1, <2>1, <2>2, <2>3, KeepsModules DEF ModulesOK
<1>3. ASSUME NEW m \in {"grace", "quit"}, proc[p].monitor = "watch",
             Becomes(p, [proc[p] EXCEPT !.draining = TRUE, !.monitor = m])
      PROVE  ProcsOK'
  <2> DEFINE s == [proc[p] EXCEPT !.draining = TRUE, !.monitor = m]
  <2>2. /\ s \in States /\ s.mode = proc[p].mode /\ s.up = proc[p].up /\ s.shells = proc[p].shells
        /\ s.pc = proc[p].pc /\ s.code = proc[p].code /\ s.monitor = m
        /\ s.draining /\ s.worker = proc[p].worker /\ s.loop = proc[p].loop
    BY <1>1 DEF States
  <2>1. Becomes(p, s)
    BY <1>3
  <2> HIDE DEF s
  <2>3. ThreadsOK(s)
    BY <1>1, <1>3, <2>2 DEF ThreadsOK
  <2> QED
    BY <1>1, <2>1, <2>2, <2>3, KeepsModules DEF ModulesOK
<1>4. CASE MonitorSees(p)
  <2> DEFINE m == IF Mode(p) = "server" THEN "grace" ELSE "quit"
  <2>1. m \in {"grace", "quit"}
    OBVIOUS
  <2>2. /\ proc[p].monitor = "watch"
        /\ Becomes(p, [proc[p] EXCEPT !.draining = TRUE, !.monitor = m])
    BY <1>4 DEF MonitorSees
  <2> HIDE DEF m
  <2> QED
    BY <1>3, <2>1, <2>2
<1>5. CASE MonitorSleeps(p)
  <2> DEFINE s == [proc[p] EXCEPT !.monitor = "quit"]
  <2>1. proc[p].monitor = "grace" /\ Becomes(p, s)
    BY <1>5 DEF MonitorSleeps
  <2>2. /\ s \in States /\ s.mode = proc[p].mode /\ s.up = proc[p].up /\ s.shells = proc[p].shells
        /\ s.pc = proc[p].pc /\ s.code = proc[p].code /\ s.monitor = "quit"
        /\ s.draining = proc[p].draining /\ s.worker = proc[p].worker /\ s.loop = proc[p].loop
    BY <1>1 DEF States
  <2> HIDE DEF s
  <2>3. ThreadsOK(s)
    BY <1>1, <2>1, <2>2 DEF ThreadsOK
  <2> QED
    BY <1>1, <2>1, <2>2, <2>3, KeepsModules DEF ModulesOK
<1>6. CASE MonitorQuits(p)
  <2> DEFINE l == IF proc[p].loop = "running" \/ KeepsQuit THEN "stopped" ELSE proc[p].loop
             s == [proc[p] EXCEPT !.monitor = "done", !.loop = l]
  <2>1. proc[p].monitor = "quit" /\ Becomes(p, s)
    BY <1>6 DEF MonitorQuits
  <2>0. /\ l \in {"new", "running", "stopped"} /\ (l = "running" => proc[p].loop = "running")
        /\ proc[p].loop \in {"new", "running", "stopped"}
    BY <1>1 DEF States
  <2> HIDE DEF l
  <2>2. /\ s \in States /\ s.mode = proc[p].mode /\ s.up = proc[p].up /\ s.shells = proc[p].shells
        /\ s.pc = proc[p].pc /\ s.code = proc[p].code /\ s.monitor = "done"
        /\ s.draining = proc[p].draining /\ s.worker = proc[p].worker /\ s.loop = l
    BY <1>1, <2>0 DEF States
  <2> HIDE DEF s
  <2>3. ThreadsOK(s)
    BY <1>1, <2>0, <2>1, <2>2 DEF ThreadsOK
  <2>4. s.pc \notin {"boot", "start"}
    BY <1>1, <2>1, <2>2 DEF ThreadsOK
  <2> QED
    BY <1>1, <2>1, <2>2, <2>3, <2>4, KeepsModules
<1>7. ASSUME NEW w \in {"top", "pick", "busy", "done"}, proc[p].worker \in {"top", "pick", "busy"},
             Becomes(p, [proc[p] EXCEPT !.worker = w])
      PROVE  ProcsOK'
  <2> DEFINE s == [proc[p] EXCEPT !.worker = w]
  <2>2. /\ s \in States /\ s.mode = proc[p].mode /\ s.up = proc[p].up /\ s.shells = proc[p].shells
        /\ s.pc = proc[p].pc /\ s.code = proc[p].code /\ s.monitor = proc[p].monitor
        /\ s.draining = proc[p].draining /\ s.worker = w /\ s.loop = proc[p].loop
    BY <1>1 DEF States
  <2>1. Becomes(p, s)
    BY <1>7
  <2> HIDE DEF s
  <2>3. ThreadsOK(s)
    BY <1>1, <1>7, <2>2 DEF ThreadsOK
  <2> QED
    BY <1>1, <2>1, <2>2, <2>3, KeepsModules DEF ModulesOK
<1>8. CASE WorkerStep(p)
  <2>1. CASE LoopTop(p)
    <3> DEFINE w == IF proc[p].flag THEN "done" ELSE "pick"
    <3>1. w \in {"top", "pick", "busy", "done"}
      OBVIOUS
    <3>2. proc[p].worker = "top" /\ Becomes(p, [proc[p] EXCEPT !.worker = w])
      BY <2>1 DEF LoopTop
    <3> HIDE DEF w
    <3> QED
      BY <1>7, <3>1, <3>2
  <2>2. CASE PickReturns(p)
    BY <1>7, <2>2 DEF PickReturns
  <2>3. CASE JobEnds(p)
    BY <1>7, <2>3 DEF JobEnds
  <2> QED
    BY <1>8, <2>1, <2>2, <2>3 DEF WorkerStep
<1> QED
  BY <1>2, <1>4, <1>5, <1>6, <1>8 DEF MonitorStep

(* The runner's steps: rows are only added. *)
LEMMA RowsOK ==
    ASSUME ProcsOK, NEW p \in Procs, RunMigrations(p) \/ MigrationsFail(p) PROVE ProcsOK'
<1>1. proc' = proc
  BY DEF RunMigrations, MigrationsFail
<1>2. recorded \subseteq recorded'
  BY DEF RunMigrations, MigrationsFail, MigrationStep, MigrationFault, EnsureTrackingTable,
         GetApplied, NextFile, TakeLock, ApplyInTxn, ApplyOutside, RecordOutside, Unlock,
         StatementFails, AnswerLost
<1>3. \A q \in Procs : SchemaOK(q, proc[q])'
  BY <1>1, <1>2, StateOf DEF SchemaOK
<1> QED
  BY <1>1, <1>3 DEF ProcsOK, ProcOK, ModulesOK, ThreadsOK

LEMMA InitProcsOK == Init => ProcsOK
<1> SUFFICES ASSUME Init PROVE ProcsOK
  OBVIOUS
<1> DEFINE s == Fresh("off", "none")
<1>1. /\ s.pc = "off" /\ s.mode = "none" /\ s.up = {} /\ s.shells = {} /\ s.loop = "new"
      /\ s.monitor = "none" /\ s.worker = "none" /\ s.code = 0
  BY DEF Fresh
<1>2. s \in States
  BY DEF States, Fresh
<1>3. proc = [p \in Procs |-> s]
  BY DEF Init
<1> HIDE DEF s
<1>4. \A p \in Procs : ModulesOK(p, s) /\ ThreadsOK(s) /\ SchemaOK(p, s)
  BY <1>1, FS_EmptySet DEF ModulesOK, ThreadsOK, SchemaOK, Serving
<1> QED
  BY <1>2, <1>3, <1>4 DEF ProcsOK, ProcOK

LEMMA NextProcsOK == IInv /\ ProcsOK /\ [Next]_vars => ProcsOK'
<1> SUFFICES ASSUME IInv, ProcsOK, [Next]_vars PROVE ProcsOK'
  OBVIOUS
<1>1. ASSUME NEW p \in Procs, BringUp(p) \/ MigrationsReturn(p) PROVE ProcsOK'
  <2>1. Booting(p) /\ Becomes(p, IsUp(p)) /\ recorded' = recorded
    BY <1>1 DEF BringUp, MigrationsReturn, Quiet, migVars
  <2>2. Module(p) = "Migrations" => Files[p] \subseteq recorded
    BY <1>1 DEF BringUp, MigrationsReturn, IInv, MigInv, RunnerOK
  <2> QED
    BY <2>1, <2>2, IsUpOK
<1>2. ASSUME NEW p \in Procs,
             BringUpFails(p) \/ MigrationsThrow(p) \/ VerifyFails(p) \/ StartFails(p)
      PROVE  ProcsOK'
  <2>1. proc[p].pc \in {"boot", "start", "verify"} /\ recorded' = recorded
    BY <1>2 DEF BringUpFails, MigrationsThrow, VerifyFails, StartFails, Booting, Quiet, migVars
  <2>2. PICK shells \in SUBSET Shelled :
            Threw(p, shells) /\ (shells = {} \/ \E m : shells = {m})
    BY <1>2 DEF BringUpFails, MigrationsThrow, VerifyFails, StartFails, Shelled
  <2> QED
    BY <2>1, <2>2, ThrewOK
<1>3. ASSUME NEW p \in Procs, MainStep(p) PROVE ProcsOK'
  BY <1>1, <1>2, <1>3, RowsOK, BootedOK, VerifyOK, MainOK, TearDownOK DEF MainStep
<1>4. CASE UNCHANGED vars
  BY <1>4 DEF vars, ProcsOK, ProcOK, ModulesOK, ThreadsOK, SchemaOK
<1> QED
  BY <1>1, <1>2, <1>3, <1>4, LaunchProcOK, RowsOK, LoopThrowsOK, ThreadsStepOK, CrashProcOK
  DEF Next

(* How often a process was started is counted within its bound. *)
StartsOK == starts \in [Procs -> Nat] /\ \A p \in Procs : starts[p] <= MaxStarts[p]

LEMMA NextStartsOK == StartsOK /\ [Next]_vars => StartsOK'
<1> SUFFICES ASSUME StartsOK, [Next]_vars PROVE StartsOK'
  OBVIOUS
<1>1. CASE \E p \in Procs : Launch(p)
  <2>1. PICK p \in Procs : Launch(p)
    BY <1>1
  <2>2. /\ starts[p] < MaxStarts[p] /\ starts' = [starts EXCEPT ![p] = @ + 1]
        /\ MaxStarts[p] \in Nat /\ starts[p] \in Nat
    BY <2>1, ModesAssumption DEF Launch, StartsOK
  <2>3. starts[p] + 1 <= MaxStarts[p] /\ starts[p] + 1 \in Nat
    BY <2>2
  <2> QED
    BY <2>2, <2>3 DEF StartsOK
<1>2. CASE ~\E p \in Procs : Launch(p)
  <2>1. starts' = starts
    BY <1>2 DEF Next, vars, MainStep, BringUp, BringUpFails, MigrationsReturn,
       MigrationsThrow, MigrationsFail, RunMigrations, Booted, Verify, VerifyFails, StartThreads,
       StartFails, EnterLoop, LoopReturns, LoopThrows, JoinMonitor, JoinWorkers, TearDown, Signal,
       MonitorStep, MonitorSees, MonitorSleeps, MonitorQuits, WorkerStep, LoopTop, PickReturns,
       JobEnds, Crash, Quiet
  <2> QED
    BY <2>1 DEF StartsOK
<1> QED
  BY <1>1, <1>2

LEMMA ProcsInvariant == Spec => [](IInv /\ ProcsOK)
<1>1. IInv /\ ProcsOK /\ [Next]_vars => (IInv /\ ProcsOK)'
  BY NextOK, NextProcsOK
<1> QED
  BY InitOK, InitProcsOK, <1>1, PTL DEF Spec

-----------------------------------------------------------------------------
(* The types of the schema, of the runners and of the processes hold.       *)
THEOREM TypeCorrectness == Spec => []TypeOK
<1>1. Init => StartsOK
  BY ModesAssumption DEF Init, StartsOK
<1>2. IInv /\ ProcsOK /\ StartsOK => TypeOK
  <2> SUFFICES ASSUME IInv, ProcsOK, StartsOK PROVE TypeOK
    OBVIOUS
  <2>1. MigTypeOK
    BY DEF IInv, MigInv
  <2>2. \A p \in Procs : starts[p] \in 0 .. MaxStarts[p]
    BY ModesAssumption DEF StartsOK
  <2>3. ASSUME NEW p \in Procs
        PROVE  /\ proc[p].mode \in ModesOf[p] \union {"none"}
               /\ proc[p].pc /= "off" => proc[p].up \subseteq All[p][Mode(p)]
               /\ proc[p].shells \subseteq Shelled /\ Cardinality(proc[p].shells) <= 1
               /\ proc[p].loop \in {"new", "running", "stopped"}
               /\ proc[p].monitor \in {"none", "watch", "grace", "quit", "done"}
               /\ proc[p].worker \in {"none", "top", "pick", "busy", "done"}
    BY StateOf DEF ModulesOK, States, Mode
  <2> QED
    BY <2>1, <2>2, <2>3 DEF TypeOK
<1> QED
  BY ProcsInvariant, <1>1, NextStartsOK, <1>2, PTL DEF Spec

(* A server or worker that migrates serves only on the schema of its image, *)
(* and the modes migrate and verify-migrations exit with 0 only on theirs,  *)
(* whoever else boots, fails and restarts on the same database              *)
(* (src/src/core/Core.hpp, init_migrations_; src/src/main.cpp,              *)
(* run_migrate_only and run_verify_migrations).                             *)
THEOREM ServesOnItsSchema == Spec => []ServesMigratedSchema
<1>1. IInv /\ ProcsOK => ServesMigratedSchema
  <2> SUFFICES ASSUME ProcsOK, NEW p \in Procs,
                      \/ /\ p \in Migrating /\ Mode(p) \in {"server", "worker"}
                         /\ proc[p].pc \in {"start", "run", "loop", "monitor"}
                      \/ Mode(p) \in {"migrate", "verify"} /\ proc[p].pc = "ended" /\ proc[p].code = 0
               PROVE  Files[p] \subseteq recorded
    BY DEF ServesMigratedSchema
  <2>1. ModulesOK(p, proc[p]) /\ SchemaOK(p, proc[p])
    BY StateOf
  <2>2. CASE /\ p \in Migrating /\ Mode(p) \in {"server", "worker"}
             /\ proc[p].pc \in {"start", "run", "loop", "monitor"}
    <3>1. proc[p].mode \in ModesOf[p] /\ proc[p].up = All[p][proc[p].mode]
      BY <2>1, <2>2 DEF ModulesOK, Serving
    <3>2. "Migrations" \in proc[p].up
      BY <2>2, <3>1, WantedOK DEF Mode
    <3> QED
      BY <2>1, <3>2 DEF SchemaOK
  <2>3. CASE Mode(p) \in {"migrate", "verify"} /\ proc[p].pc = "ended" /\ proc[p].code = 0
    BY <2>1, <2>3 DEF SchemaOK, Mode
  <2> QED
    BY <2>2, <2>3
<1> QED
  BY ProcsInvariant, <1>1, PTL

(* Application::shutdown and the joins before it: no module goes while      *)
(* another calls into it, while a worker thread runs or the loop serves,    *)
(* and readiness is gone before the loop stops.                             *)
THEOREM UsersGoBeforeModules == Spec => []UsersGoFirst
<1>1. IInv /\ ProcsOK => UsersGoFirst
  <2> SUFFICES ASSUME ProcsOK, NEW p \in Procs
               PROVE  LET s == proc[p] IN
                      /\ \A m \in s.up : Needs[m] \subseteq s.up
                      /\ s.worker \in {"pick", "busy"} \/ s.loop = "running" => s.up = All[p][s.mode]
                      /\ s.loop = "stopped" /\ s.code = 0 => ~Ready(p)
    BY DEF UsersGoFirst
  <2>1. ModulesOK(p, proc[p]) /\ ThreadsOK(proc[p])
    BY StateOf
  <2>2. \A m \in proc[p].up : Needs[m] \subseteq proc[p].up
    BY <2>1 DEF ModulesOK
  <2>3. proc[p].worker \in {"pick", "busy"} \/ proc[p].loop = "running" => proc[p].pc \in Serving
    BY <2>1 DEF ThreadsOK, Serving
  <2>4. proc[p].pc \in Serving => proc[p].up = All[p][proc[p].mode]
    BY <2>1 DEF ModulesOK
  <2>5. proc[p].loop = "stopped" /\ proc[p].code = 0 => ~Ready(p)
    BY <2>1 DEF ThreadsOK, Ready, Serving
  <2> QED
    BY <2>2, <2>3, <2>4, <2>5
<1> QED
  BY ProcsInvariant, <1>1, PTL

(* However far a start got before it threw, and however a process ends      *)
(* without being killed, shutdown() has torn down what was up, object       *)
(* storage excepted -- save a verification that threw, for which main()     *)
(* made no Core (main.cpp:194-214), and the initializer that threw itself,  *)
(* which no shutdown function names yet; both end with code 1.              *)
THEOREM NothingStaysUp == Spec => []NothingLeftUp
<1>1. IInv /\ ProcsOK => NothingLeftUp
  BY StateOf DEF NothingLeftUp, ModulesOK
<1> QED
  BY ProcsInvariant, <1>1, PTL
=============================================================================
