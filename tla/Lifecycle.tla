----------------------------- MODULE Lifecycle ------------------------------
(***************************************************************************)
(* The life of the program's processes: Core::initialize and shutdown      *)
(* (src/src/core/Core.hpp), run_server and the one-shot modes of           *)
(* src/src/main.cpp, and main of src/src/worker_main.cpp, over the         *)
(* database whose schema Migrations keeps.  In a process, the main thread, *)
(* the shutdown monitor and a worker thread take steps of their own;       *)
(* processes start, fail to start, are told to stop and crash.             *)
(***************************************************************************)
EXTENDS Migrations, Sequences, SequencesExt

CONSTANTS
    ModesOf,    \* ModesOf[p]: what container p may be started as
    Migrating,  \* servers and workers with DB_MIGRATIONS_ENABLED
    Off,        \* modules the configuration leaves out: Messaging, Jobs
    KeepsQuit,  \* whether Drogon keeps a quit() that comes before its loop runs
    MaxStarts   \* bounds on the starts of each process

ASSUME ModesAssumption ==
    /\ ModesOf \in [Procs -> SUBSET {"server", "worker", "migrate", "verify"}]
    /\ Migrating \subseteq Procs
    /\ Off \subseteq {"Messaging", "Jobs"}
    /\ KeepsQuit \in BOOLEAN /\ MaxStarts \in [Procs -> Nat]

VARIABLES
    proc,       \* what a process holds in memory
    starts      \* starts[p]: how often p was started

vars == <<recorded, effects, torn, lock, mig, faults, proc, starts>>

Modules == <<"Config", "Observability", "Database", "Migrations", "Cache", "Storage",
             "Messaging", "Tasks", "Auth", "RateLimit", "Idempotency", "Jobs", "Email">>

(* The order in which Application::shutdown tears down; Storage stays. *)
ShutdownOrder == <<"Email", "Jobs", "Idempotency", "RateLimit", "Auth", "Tasks",
                   "Messaging", "Cache", "Migrations", "Database", "Observability",
                   "Config">>

(* initialize(): what the mode and the configuration bring up, in order. *)
Wanted(p, mode, m) ==
    /\ m \notin Off
    /\ m = "Migrations" => p \in Migrating \/ mode = "migrate"
    /\ mode = "worker" => m \notin {"Messaging", "Tasks"}
    /\ mode = "migrate" => m \in {"Config", "Observability", "Database", "Migrations"}
    /\ mode = "verify" => m \in {"Config", "Database"}

All == [p \in Procs |-> [mode \in ModesOf[p] |-> {m \in ToSet(Modules) : Wanted(p, mode, m)}]]

(* Modules whose global is assigned before an inner initialize() that throws. *)
Shelled == {"Observability", "Database", "Migrations", "Cache", "Jobs"}

(* What a module calls into while it is up. *)
Needs == [m \in ToSet(Modules) |->
    CASE m \in {"Jobs", "RateLimit", "Idempotency"} -> {"Cache", "Config"}
      [] m = "Migrations" -> {"Database"}
      [] m \in {"Config", "Storage"} -> {}
      [] OTHER -> {"Config"}]

(* pc: off, boot, start, run, loop, monitor, threads, verify, down, ended. *)
Fresh(pc, mode) ==
    [pc |-> pc, mode |-> mode, code |-> 0,
     up |-> {},             \* the modules with is_initialized()
     shells |-> {},         \* globals left non-null by an init that threw
     flag |-> FALSE,        \* shutdown_requested
     draining |-> FALSE,    \* Core::shutting_down_flag
     loop |-> "new",        \* Drogon's loop: new, running, stopped
     monitor |-> "none",    \* shutdown_monitor: none, watch, grace, quit, done
     worker |-> "none"]     \* a worker thread: none, top, pick, busy, done

Mode(p) == proc[p].mode

Init ==
    /\ MigInit
    /\ proc = [p \in Procs |-> Fresh("off", "none")]
    /\ starts = [p \in Procs |-> 0]

Becomes(p, s) == proc' = [proc EXCEPT ![p] = s]

Alive(p) == proc[p].pc \notin {"off", "ended"}
Quiet == UNCHANGED <<migVars, faults, starts>>

-----------------------------------------------------------------------------
(* Core::initialize.                                                       *)

(* A container is started, and started again when it ended with an error. *)
Launch(p) ==
    /\ starts[p] < MaxStarts[p]
    /\ proc[p].pc = "off" \/ (proc[p].pc = "ended" /\ proc[p].code /= 0)
    /\ \E mode \in ModesOf[p] : Becomes(p, Fresh("boot", mode))
    /\ starts' = [starts EXCEPT ![p] = @ + 1]
    /\ mig' = [mig EXCEPT ![p] = Runner("idle")]
    /\ UNCHANGED <<recorded, effects, torn, lock, faults>>

(* The first of a list that is in S. *)
FirstOf(list, S) ==
    list[CHOOSE i \in DOMAIN list : list[i] \in S /\ \A j \in 1 .. (i - 1) : list[j] \notin S]

(* What is still to come up, and the module whose turn it is. *)
Missing(p) == All[p][Mode(p)] \ proc[p].up
Booting(p) == proc[p].pc = "boot" /\ Missing(p) /= {}
Module(p) == FirstOf(Modules, Missing(p))

(* A slip: every mode brings up the modules of a full start. *)
IsUpInEveryMode(p) ==
    [proc[p] EXCEPT !.up = @ \union {FirstOf(Modules, ToSet(Modules) \ proc[p].up)}]

IsUp(p) == [proc[p] EXCEPT !.up = @ \union {Module(p)}]

(* A slip: shutdown() returns at once when initialize() has not finished. *)
ThrewUninitialized(p, shells) ==
    Becomes(p, [proc[p] EXCEPT !.pc = "ended", !.code = 1, !.shells = @ \union shells])

(* A step throws: Core::shutdown() unwinds what is up and the process exits
   with 1.  The verification has no Core, so there shutdown() does nothing. *)
Threw(p, shells) ==
    Becomes(p, [proc[p] EXCEPT !.pc = IF Mode(p) = "verify" THEN "ended" ELSE "down",
                               !.code = 1, !.shells = @ \union shells])

BringUp(p) ==
    /\ Booting(p) /\ Module(p) /= "Migrations"
    /\ Becomes(p, IsUp(p))
    /\ Quiet

BringUpFails(p) ==
    /\ Booting(p) /\ Module(p) /= "Migrations"
    /\ Fault
    /\ Threw(p, {Module(p)} \intersect Shelled)
    /\ UNCHANGED <<migVars, starts>>

(* init_migrations_: Migrations::initialize is called, runs, *)
RunMigrations(p) ==
    /\ Booting(p) /\ Module(p) = "Migrations"
    /\ \/ /\ mig[p].at = "idle" /\ Go(p, "ensure")
          /\ UNCHANGED <<recorded, effects, torn, lock, faults>>
       \/ MigrationStep(p)
    /\ UNCHANGED <<proc, starts>>

MigrationsFail(p) ==
    /\ Booting(p) /\ Module(p) = "Migrations"
    /\ MigrationFault(p)
    /\ UNCHANGED <<proc, starts>>

(* returns, *)
MigrationsReturn(p) ==
    /\ Booting(p) /\ mig[p].at = "done" /\ Module(p) = "Migrations"
    /\ Becomes(p, IsUp(p))
    /\ Quiet

(* or throws. *)
MigrationsThrow(p) ==
    /\ Booting(p) /\ mig[p].at = "threw"
    /\ Threw(p, {"Migrations"})
    /\ Quiet

(* initialized = true; then each mode goes its way.  A worker without Jobs
   refuses to start. *)
Booted(p) ==
    /\ proc[p].pc = "boot" /\ ~Booting(p)
    /\ LET refuses == Mode(p) = "worker" /\ "Jobs" \notin proc[p].up IN
       Becomes(p, [proc[p] EXCEPT !.code = IF refuses THEN 1 ELSE 0,
                                  !.pc = CASE Mode(p) = "verify" -> "verify"
                                           [] Mode(p) = "migrate" \/ refuses -> "down"
                                           [] OTHER -> "start"])
    /\ Quiet

(* A slip: a failed read counts no file as pending. *)
VerifyBlindly(p) ==
    /\ proc[p].pc = "verify"
    /\ \/ /\ Becomes(p, [proc[p] EXCEPT !.pc = "down",
                                     !.code = IF ListPending(p) = {} THEN 0 ELSE 1])
          /\ UNCHANGED faults
       \/ Fault /\ Becomes(p, [proc[p] EXCEPT !.pc = "down", !.code = 0])
    /\ UNCHANGED <<migVars, starts>>

(* run_verify_migrations: 0 when nothing is pending.  A failed read counts
   every file as pending. *)
Verify(p) ==
    /\ proc[p].pc = "verify"
    /\ \/ /\ Becomes(p, [proc[p] EXCEPT !.pc = "down",
                                     !.code = IF ListPending(p) = {} THEN 0 ELSE 1])
          /\ UNCHANGED faults
       \/ /\ Fault
          /\ Becomes(p, [proc[p] EXCEPT !.pc = "down", !.code = IF Files[p] = {} THEN 0 ELSE 1])
    /\ UNCHANGED <<migVars, starts>>

(* The directory of the files cannot be scanned. *)
VerifyFails(p) ==
    /\ proc[p].pc = "verify"
    /\ Fault
    /\ Threw(p, {})
    /\ UNCHANGED <<migVars, starts>>

-----------------------------------------------------------------------------
(* The main thread of a server or a worker.                                *)

(* The threads are created: the monitor, and in a worker the worker threads. *)
StartThreads(p) ==
    /\ proc[p].pc = "start"
    /\ Becomes(p, [proc[p] EXCEPT !.pc = "run", !.monitor = "watch",
                               !.worker = IF Mode(p) = "worker" THEN "top" ELSE "none"])
    /\ Quiet

(* Startup recovery, the blocking client or strict_types refuses before it. *)
StartFails(p) ==
    /\ proc[p].pc = "start"
    /\ Fault
    /\ Threw(p, {})
    /\ UNCHANGED <<migVars, starts>>

(* drogon::app().run() *)
EnterLoop(p) ==
    /\ proc[p].pc = "run"
    /\ Becomes(p, [proc[p] EXCEPT !.pc = "loop",
                               !.loop = IF @ = "new" THEN "running" ELSE "stopped"])
    /\ Quiet

(* run() returned; it may have for another reason than the monitor. *)
LoopReturns(p) ==
    /\ proc[p].pc = "loop" /\ proc[p].loop = "stopped"
    /\ Becomes(p, [proc[p] EXCEPT !.pc = "monitor", !.flag = TRUE,
                               !.draining = @ \/ Mode(p) = "worker"])
    /\ Quiet

(* run() throws: a server's joinable monitor makes it std::terminate, a
   worker's ThreadJoiner stops and joins its threads first. *)
LoopThrows(p) ==
    /\ proc[p].pc \in {"run", "loop"} /\ proc[p].loop /= "stopped"
    /\ Fault
    /\ IF Mode(p) = "server"
       THEN Becomes(p, [Fresh("ended", "server") EXCEPT !.code = 134])
       ELSE Becomes(p, [proc[p] EXCEPT !.pc = "monitor", !.flag = TRUE,
                                       !.loop = "stopped", !.code = 1])
    /\ UNCHANGED <<migVars, starts>>

JoinMonitor(p) ==
    /\ proc[p].pc = "monitor" /\ proc[p].monitor = "done"
    /\ Becomes(p, [proc[p] EXCEPT !.pc = IF Mode(p) = "worker" THEN "threads" ELSE "down"])
    /\ Quiet

(* A slip: the worker threads are detached. *)
JoinNobody(p) ==
    /\ proc[p].pc = "threads"
    /\ Becomes(p, [proc[p] EXCEPT !.pc = "down"])
    /\ Quiet

JoinWorkers(p) ==
    /\ proc[p].pc = "threads" /\ proc[p].worker = "done"
    /\ Becomes(p, [proc[p] EXCEPT !.pc = "down"])
    /\ Quiet

(* Application::shutdown: one module after the other, those that are up. *)
TearDown(p) ==
    LET left == proc[p].up \ {"Storage"} IN
    /\ proc[p].pc = "down"
    /\ Becomes(p, IF left = {} THEN [proc[p] EXCEPT !.pc = "ended"]
                  ELSE [proc[p] EXCEPT !.up = @ \ {FirstOf(ShutdownOrder, left)}])
    /\ Quiet

MainStep(p) ==
    \/ BringUp(p)
    \/ RunMigrations(p)
    \/ MigrationsReturn(p)
    \/ MigrationsThrow(p)
    \/ Booted(p)
    \/ Verify(p)
    \/ StartThreads(p)
    \/ EnterLoop(p)
    \/ LoopReturns(p)
    \/ JoinMonitor(p)
    \/ JoinWorkers(p)
    \/ TearDown(p)

-----------------------------------------------------------------------------
(* Signals, the monitor, the worker thread, crashes.                       *)

(* SIGTERM: signal_handler sets the flag, in any state of the process. *)
Signal(p) ==
    /\ Alive(p) /\ ~proc[p].flag
    /\ Becomes(p, [proc[p] EXCEPT !.flag = TRUE])
    /\ Quiet

(* begin_shutdown(): /ready answers 503 from here on. *)
MonitorSees(p) ==
    /\ proc[p].monitor = "watch" /\ proc[p].flag
    /\ Becomes(p, [proc[p] EXCEPT !.draining = TRUE,
                               !.monitor = IF Mode(p) = "server" THEN "grace" ELSE "quit"])
    /\ Quiet

(* pre_stop_delay_sec *)
MonitorSleeps(p) ==
    /\ proc[p].monitor = "grace"
    /\ Becomes(p, [proc[p] EXCEPT !.monitor = "quit"])
    /\ Quiet

(* drogon::app().quit() *)
MonitorQuits(p) ==
    /\ proc[p].monitor = "quit"
    /\ Becomes(p, [proc[p] EXCEPT !.monitor = "done",
                               !.loop = IF @ = "running" \/ KeepsQuit THEN "stopped" ELSE @])
    /\ Quiet

MonitorStep(p) ==
    /\ Alive(p)
    /\ \/ MonitorSees(p)
       \/ MonitorSleeps(p)
       \/ MonitorQuits(p)

(* worker_loop: the flag is read before a pick, not during one. *)
LoopTop(p) ==
    /\ proc[p].worker = "top"
    /\ Becomes(p, [proc[p] EXCEPT !.worker = IF proc[p].flag THEN "done" ELSE "pick"])
    /\ Quiet

PickReturns(p) ==
    /\ proc[p].worker = "pick"
    /\ \E at \in {"top", "busy"} : Becomes(p, [proc[p] EXCEPT !.worker = at])
    /\ Quiet

JobEnds(p) ==
    /\ proc[p].worker = "busy"
    /\ Becomes(p, [proc[p] EXCEPT !.worker = "top"])
    /\ Quiet

WorkerStep(p) ==
    /\ Alive(p)
    /\ \/ LoopTop(p)
       \/ PickReturns(p)
       \/ JobEnds(p)

(* SIGKILL, or the node goes away. *)
Crash(p) ==
    /\ Alive(p)
    /\ Fault
    /\ proc' = [proc EXCEPT ![p] = Fresh("off", "none")]
    /\ DropRunner(p)
    /\ UNCHANGED starts

(* The probes register_default_health_checks_() leaves behind; all_critical_healthy()
   asks them all.  Their services answer, so a probe fails when its module is down. *)
Probes(p) == {"Database", "Cache", "Jobs"} \intersect All[p][Mode(p)]
Healthy(p) == Probes(p) \subseteq proc[p].up

(* HealthController::readiness; the handler of a worker asks for the queue. *)
WorkerReady(p) == "Jobs" \in proc[p].up
Ready(p) ==
    /\ ~proc[p].draining
    /\ proc[p].pc \in {"start", "run", "loop", "monitor", "threads"}
    /\ IF Mode(p) = "worker" THEN WorkerReady(p) ELSE Healthy(p)

Next ==
    \E p \in Procs :
        \/ Launch(p)
        \/ MainStep(p)
        \/ BringUpFails(p)
        \/ MigrationsFail(p)
        \/ VerifyFails(p)
        \/ StartFails(p)
        \/ LoopThrows(p)
        \/ Signal(p)
        \/ MonitorStep(p)
        \/ WorkerStep(p)
        \/ Crash(p)

Spec == Init /\ [][Next]_vars

(* Every thread of a live process is scheduled; nobody has to send a signal. *)
Fairness ==
    \A p \in Procs : WF_vars(MainStep(p)) /\ WF_vars(MonitorStep(p)) /\ WF_vars(WorkerStep(p))

FairSpec == Spec /\ Fairness

-----------------------------------------------------------------------------
(* Properties.                                                             *)

(* Types of the variables of Migrations.hpp and of a process. *)
TypeOK ==
    /\ MigTypeOK
    /\ \A p \in Procs : starts[p] \in 0 .. MaxStarts[p]
    /\ \A p \in Procs :
        /\ proc[p].mode \in ModesOf[p] \union {"none"}
        /\ proc[p].pc /= "off" => proc[p].up \subseteq All[p][Mode(p)]
        /\ proc[p].shells \subseteq Shelled /\ Cardinality(proc[p].shells) <= 1
        /\ proc[p].loop \in {"new", "running", "stopped"}
        /\ proc[p].monitor \in {"none", "watch", "grace", "quit", "done"}
        /\ proc[p].worker \in {"none", "top", "pick", "busy", "done"}

(* The statements of a migration take effect once, whoever boots at the same
   time; only a migration without a transaction can take effect again, once
   for each time it was interrupted before its row was written. *)
AppliedOnce ==
    \A v \in Versions :
        /\ effects[v] <= 1 + torn[v]
        /\ v \notin NoTxn => torn[v] = 0
        /\ v \in recorded => effects[v] > 0

(* A file runs on the schema that the files before it leave: when its
   statements take effect, every earlier file of that process is recorded. *)
AppliedInOrder ==
    [][\A v \in Versions : effects'[v] > effects[v] =>
          \E p \in Procs : /\ File(p) = v /\ v \in Files[p]
                           /\ \A u \in Files[p] : u < v => u \in recorded]_vars

(* A process that migrates serves only on the schema it was built for, and the
   one-shot modes exit with 0 only on theirs. *)
ServesMigratedSchema ==
    \A p \in Procs :
        \/ /\ p \in Migrating /\ Mode(p) \in {"server", "worker"}
           /\ proc[p].pc \in {"start", "run", "loop", "monitor"}
        \/ Mode(p) \in {"migrate", "verify"} /\ proc[p].pc = "ended" /\ proc[p].code = 0
        => Files[p] \subseteq recorded

(* No module goes while another still calls into it, and none while a worker
   thread is in a pick or a job or the event loop serves; readiness answers 503
   before the loop is stopped. *)
UsersGoFirst ==
    \A p \in Procs : LET s == proc[p] IN
        /\ \A m \in s.up : Needs[m] \subseteq s.up
        /\ s.worker \in {"pick", "busy"} \/ s.loop = "running" => s.up = All[p][s.mode]
        /\ s.loop = "stopped" /\ s.code = 0 => ~Ready(p)

(* However far a start got before it threw, no module is up when the process
   ends, object storage excepted.  Two things are left although Core.hpp 733-737
   says nothing is: the global of the one module that threw (shells), which the
   next initialize() would refuse as "already initialized", and what a
   verification that threw had brought up. *)
NothingLeftUp ==
    \A p \in Procs : LET s == proc[p] IN
        /\ s.pc = "ended" => s.up \subseteq {"Storage"} \/ (s.mode = "verify" /\ s.code = 1)
        /\ s.shells # {} => s.code = 1

(* Whenever the signal comes, while the process waits for the lock of the
   migrations, in the loop or while a job runs, the process that got it ends. *)
EverySignalEnds ==
    \A p \in Procs : proc[p].flag ~> proc[p].pc \in {"off", "ended"}
=============================================================================
