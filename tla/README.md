# A TLA+ model of tarassov.me

TLA+ modules for the C++ server under `src/`, model-checked with TLC and, where
a result should hold for every size of the system, proved with TLAPS. Line
numbers refer to the sources in this repository; `PROJECT.json` maps every
definition to the lines it stands for.

## The system

The server is a Drogon web application (`src/main.cpp`) and a worker binary
(`src/worker_main.cpp`). They share PostgreSQL, Redis and, optionally, Kafka.
Everything that outlives a request goes through one of those three or through
the directory of uploads.

| Component | State it keeps | Operations | What makes it correct |
|---|---|---|---|
| **Job queue** `jobs/Jobs.hpp` | In Redis: blob per job, list per type, list per worker, sorted sets of parked jobs and of leases, dead-letter lists, indexes | submit, pick, set_trace_id, complete, fail, dead_letter, recover_processing, promote_due_jobs, reap_expired_leases, cancel, requeue_from_dlq, list_paged, list_dlq, gauges | no job is lost, stranded or run twice at once; retries are bounded; what is dead can be found; every job is settled |
| **Worker loop** `worker_main.cpp` | one identity, one processing list per thread | recover, then promote / reap / pick / run / complete or fail, for ever | an exception of any command leaves the loop alive and the job findable |
| **Middleware** `api/Middleware.hpp`, `api/Api.hpp` | none | content type, authentication, CSRF, rate limit, idempotency, preflight, in this order | what is refused has spent nothing |
| **Idempotency** `security/Idempotency.hpp` | response and lock per key in Redis | pre_handle, post_handle | the handlers of a key run one after another while their locks last; a replay answers one's own request |
| **Rate limit** `security/RateLimit.hpp` | sorted set per client in Redis | check_window | the cap is honoured in every window |
| **Sessions** `security/SessionStore.hpp`, `api/AuthController.hpp` | live marker per refresh token, set per user | login, refresh, logout, revoke_all | a new password evicts what the old one opened; a token is rotated once |
| **Account links, API keys** `security/Tokens.hpp`, `api/AccountController.hpp` | used_tokens, users, api_keys | confirm, reset, change e-mail, join, change password | a link works once; a confirmed address was reached |
| **Administration** `api/AdminController.hpp` | users, roles | users and roles: create, invite, update, delete | rows and roles stay consistent |
| **Connection pool** `database/Database.hpp`, `utils/Retry.hpp` | idle connections, count of active ones | acquire, release, execute_*, shutdown | never above the cap, never shrunk for good, waiters are served, no write twice |
| **Migrations** `database/Migrations.hpp` | schema_migrations, advisory lock | initialize, list_pending | each is applied once, in order |
| **Messaging** `messaging/Messaging.hpp` | Kafka offsets, count of failures | produce, consume | no message is committed past unsettled; a poisonous one is retried and then given up |
| **Lifecycle** `core/Core.hpp`, both `main`s | initialised modules, drain flag | initialize, begin_shutdown, shutdown, health | what was started is stopped, users first; a signal ends the process |
| **Posts** `api/PostsController.hpp`, `repositories/PostRepository.hpp` | posts, on a primary and a replica | create, patch, delete, preview link; feed, page, neighbours, facets | a PATCH keeps what it omits, the queries agree |
| **Uploads** `api/UploadController.hpp`, `storage/Storage.hpp` | files | upload, list, delete, serve | what is served is whole |

Components interact through calls (a controller submits a job; a job handler
sends mail), through Redis (API process and workers meet in the job queue; all
instances meet in the rate limit, the sessions and the idempotency locks) and
through PostgreSQL. Locks exist only inside one process, but for the advisory lock of the
migrations. The behaviours that are hard are therefore the ones between two
commands: two actors in between each other, a process that dies, a command that
throws, a value read before it is written back. `PROJECT.json` lists them under
`hazards`, each at its line.

## Modules

| Module | What it is |
|---|---|
| `RedisLists` | LPUSH, RPUSH, BRPOP, LREM and scan replies on sequences |
| `JobQueue`, `JobQueueProperties` | the job queue and the worker loop, one action per Redis command; what they promise |
| `RateLimit`, `Idempotency` | the steps of the limiter and of the idempotency middleware |
| `OncePerKey` | the abstract specification: what an Idempotency-Key promises |
| `Requests` | a request's way through the advices; composes the three above |
| `Accounts` | users, roles, sessions, links, API keys and the handlers over them |
| `Database` | the connection pools, the retry loop, shutdown |
| `Migrations` | processes that apply files to one schema |
| `Lifecycle` | boot, modes, signals, threads, tear-down; composes `Migrations` |
| `KafkaConsumer` | the consumer thread and the group's offsets |
| `Posts` | writes and public reads of posts |
| `Uploads` | images on the local backend |
| `JobQueueMC` ... `UploadsMC` | instances of each for TLC |
| `JobQueueInvariants` | the inductive invariants of the queue: local knowledge, who owns a job, the ledger, what is left after a trouble |
| `JobQueueProofs` | lemmas about the list commands, what each step of the queue leaves of those invariants, and ten theorems |
| `RequestsProofs` | the invariants of the middleware, the refinement of `OncePerKey` step by step, the cap of a window |
| `AccountsProofs` | places and local knowledge of the handlers of accounts, and five theorems |
| `PostsProofs` | what an editor has read, how the feed is sorted, and five theorems |
| `DatabaseProofs`, `LifecycleProofs`, `KafkaConsumerProofs`, `UploadsProofs` | inductive invariants of each and the theorems that follow |

Some definitions are preceded by a variant marked as a *slip*: the same code with a
plausible bug. `PROJECT.json` pairs each with the property that notices it.

### `JobQueue`

*State.* `blob`, `ttl`, `queue`, `proc`, `delayed`, `lease`, `dlq`, `dlqAll` and
`index` are the Redis keys `job:<id>`, its time to live, `jobs:queue:<type>`,
`jobs:processing:<worker>`, `jobs:delayed`, `jobs:leases`, `jobs:dlq:<type>`,
`jobs:dlq:_all` and the two indexes. Scores of the sorted sets are clock values;
what the code asks of them is whether they have passed, so they become `parked` /
`due` and `held` / `expired`. A blob keeps the fields any decision depends on:
status, worker_id and retry_count.

*Actors.* `pc[a]` names the Redis command the actor issues next, `cur[a]` the
job in hand, `copy[a]` the blob it has read or prepared, `todo[a]` the rest of a
scan. A worker is one *thread*: `worker_main.cpp` gives every thread its own
WORKER_ID suffix (lines 286-310), hence its own processing list. `PickMove` is
the BRPOPLPUSH of a worker with one type, `PickPop` and `PickTrack` the BRPOP and
RPUSH of a worker with several. `fail()` serves the loop and the sweep of leases;
`Return` and `FailThrows` tell the callers apart by the unfinished scan.

*Atomicity.* One Redis command with the local code up to the next one. A read
and the write that depends on it are two actions, since the code uses neither
transactions nor WATCH.

*Failure.* `Crash` is the death of a process with one worker thread, or with one client: a process
with several threads (worker_main.cpp:478-482) would lose them all at once, which is not modelled.
What the actor had in memory is lost; `Restart` is the next
start with the same WORKER_ID. `Throw` is a command that fails without effect, and
leads to the enclosing catch (`CaughtAt`) or ends the call. A command that took
effect although the client saw an error is not modelled.

*Time.* `BackoffElapses`, `LeaseExpires` and `Expire` happen at any moment, with
one restriction: leases and results do not expire in the middle of a handful of
Redis commands, only while a handler runs. An expiry under a running handler
is a *lapse* and counted.

### `Requests`, `Idempotency`, `RateLimit`

A thread serves one request at a time; `pc` is its place between the commands it
sends to Redis. `Refusal` is the chain of advices that need no Redis, in the
order of `register_controllers`; `LimitRate`, `ReadEntry`, `TakeLock`,
`StoreEntry` and `ReleaseLock` are one command each. A request is a *shape* (verb,
path class, caller, address, key, body, headers right or wrong), a response is the number
of the request that made it. Every command may fail, and what its caller then
sees is the error that `Cache.hpp` swallows or throws: a failing `SET NX` answers
"not taken", whether or not it took effect. An instance reads its own clock, at most
`MaxSkew` ahead; a lock that ends under its handler is counted in `lapses`.

`KeepsContract` is the refinement: under the mapping of `Contract`, a step of the
middleware begins, saves, finishes or forgets a handler of a key, or stutters. A handler begins
only beside handlers that are *loose*: that have lost their lock. One gets loose when its lock
times out, and stays so until it ends; the slack of a lapse ends with it. There is one more way, which
the comment at Idempotency.hpp:318-322 wants to rule out and the code does not: the value of a lock is
the hash of the body, so a loose handler that ends deletes the lock of a retry of the same body
(`OncePerKey!FinishForTwin`). The history `by` in a lock says whose it is; Redis does not know.

### `Accounts`

A handler is the list of commands it has still to send (`call[t].todo`); it begins with
what it decides without I/O, and each command is an action (`Authenticate`,
`Check`, `Mark`, `Sweep`, `Consume`, `UpdatePasswordHash`, ...) that goes on or drops the rest.
Handlers that send a single command to PostgreSQL are one action. Reads the code
sends to a replica use `replica`, which may lag. The mail job is `Deliver`: it
reads the user when it runs and may run again. The properties excuse, by name, what
the code cannot rule out: two refreshes that check one token before either drops it,
a session minted while the password changes or the replica is behind
(`Overlaps`), a command that failed, an address an administrator vouched for
(`ByAdmin`). Access tokens are not revoked by the code: one that is older than its user's
password still opens what it did, also the making of an API key, which is then stamped with
the password of that moment. One assumption: a link is consumed in the unit of time in which
it was verified.

### `Database`

Every section under `pool_mutex_` is an action. A thread on the condition variable
is in `sleepers`; `notify_one` moves any one of them to `woken`, the thread that shuts
the pool down included. `ConnectionPool::shutdown()` (`DrainPool`, `DrainTimesOut`) and the
destruction of the pool (`DestroyPool`) are two steps, with no lock held between them and no mark on
the pool: a thread that acquires there is `late`, and may be left on a destroyed pool.
`Attempt` is the retry loop of `Retry::run` with the classifier of the call (`Transient`); `execute_read` falls back from the replica. A
transaction whose connection breaks may have taken effect.

### `Migrations`, `Lifecycle`

Processes boot on one database, each with the files of its image. A file in a
transaction is the wait for the advisory lock and one commit; one marked
`migrate:no-transaction` is statement, row, unlock. `Lifecycle` adds the modules
in the order they come up per mode, a failure at any of them, the main thread,
the monitor and a worker thread as actors of their own, signals at any point, and crashes.
A step that throws is unwound by `Core::shutdown()`; only the
one-shot verification has no Core, so `Threw` leaves its Config and Database up.
`KeepsQuit` names the one thing the code leaves to Drogon: whether a `quit()` that
comes before `run()` is kept.

### `KafkaConsumer`, `Posts`, `Uploads`

`KafkaConsumer` is the loop of the consumer thread: consume, call back, commit, or count and seek
back; the ghosts `handled`, `skipped` and `sought` say what became of a message, and `failures` counts
each one's own. The messages behind those told apart are one offset, `Length`, that is delivered as
often as one likes: a partition that goes on for ever.
The counter is kept for an offset of any partition, with two consequences that the properties name:
a message may be given up after one failure when a *twin* (same offset, other partition) failed before it, and a
poison message may be retried for ever, its partition *pinned*, while another partition's messages keep
taking the counter from it. The comment at Messaging.hpp:181-184 calls the tracking naive.
`Posts` has one transaction per write, a PATCH as a read and a write, a lagging
replica, and the public queries as operators over either copy. `Uploads` has
`open`, `write` and the unchecked flush at `close` as steps, since the file is
visible in between; a read may break off unnoticed (`misread`), as `get()` does not look at its stream.

## Runs

| Run | Instance | What it shows |
|---|---|---|
| `queue_crash` | one job, two workers, backoff, requeue and listing; one process dies at any command (95 635 states) | never two runs of one job at once, bounded runs, finished jobs stay finished; without a crash, lists, indexes and gauges agree with the blobs |
| `queue_trouble` | leases; a worker that dies in its handler for good, a lapse under a handler, a command that fails; two job types polled; fair (176 460) | one trouble strands nothing and hides no dead job; every job is settled |
| `queue_all` | leases, cancellation, no backoff, two workers, one failing command anywhere (226 252) | nothing that is still to be run, and nothing dead, expires |
| `database_pool` | two threads, two pools of one connection, two attempts; fair (440 517) | the cap, no lost wake-up, writes once, only latecomers meet a destroyed pool, every call returns |
| `requests` | three threads, two instances, ten kinds of request in four situations (482 155) | the cap of a window, answers are one's own, refused requests spend nothing; refinement of `OncePerKey` |
| `accounts` | two threads, three users, eight situations (about 243 000) | links work once, credentials die with the password, tokens rotate once, confirmed addresses were reached |
| `lifecycle` | an API container in any of its modes, a worker of an older image that may start twice, three files, one fault; fair (343 273) | migrations once and in order, a served schema is complete, users go first, nothing is left up but after a failing verification, every signal ends the process |
| `kafka` | two partitions of two messages and what comes behind, one poisonous in each, three faults; fair (196 008) | nothing committed is unsettled, a message is given up after its own failures or beside a failing twin, everything is settled but on a pinned partition |
| `posts` | two posts, two editors, two slugs, three writes (1.3 million) | omitted fields stay, the public queries agree |
| `uploads` | two images, two faults (6 018) | no partial image under an answered link, with the three exceptions the code has |

Two runs show where the code departs from its comments (`findings` in
`PROJECT.json` quotes them): `recovery_strands` (a retried job keeps its old
worker_id, and recovery leaves it stranded) and `idempotency_twice` (a request that
missed the entry takes the lock after the first one stored and released it, and runs
the handler again).

*Why the bounds suffice.* Two actors give every interleaving of a pair of
operations, and the properties are about pairs. A third thread in `requests`
is a third request at a cap of two. Two retries let a job be parked once, retried, and
die; histories saturate above any limit they are compared with. Pools of one
connection make every second thread wait. `MaxWrites` = 3 is a
create, another write and the PATCH between whose read and write it falls. Two parts of a
failure at once (a crash and a failing command) are left out of the claims of the
queue: `Troubles <= 1` says so, since two troubles can strand a job: the
compensation of a sweep is lost when its process dies.

*Crash and fault points.* `queue_crash` crashes anywhere. `RepairedFaults` are the
commands whose failure the code makes up for; left out are those whose exception
strands the job until a restart or for good (the SET of a pick: the id is in the
processing list and no lease exists; the requeueing of `fail`).

*Deadlock* is checked in the runs of the queue and of the database, whose actors never stop. In the
others the bounds or the end of a process stop the system.

*Fairness.* `JobQueue!FairSpec`: each worker thread and request handler keeps
running, a dead worker is restarted where `Restarts` is TRUE, backoff windows and leases
end. `Database!FairSpec`: threads and the server go on and waits time out; connecting and
committing need not ever succeed. `Lifecycle!FairSpec`: the threads of a live
process are scheduled; nobody has to send a signal. `KafkaConsumer!FairSpec`: the thread
runs and librdkafka serves every partition that has messages (strong fairness, since
seeks and rebalances disable a fetch for a moment). These are what the operating
system, the orchestrator and the libraries provide. New calls, crashes and failures
are never assumed to happen.

## Proofs

`JobQueueProofs` proves, for any number of jobs, types, workers and clients and
for every value of the settings - leases, backoff, crashes, restarts, failing
commands, cancellation, requeueing, listing:

* `TypeCorrectness`: `Spec => []TypeOK`;
* `OnlySettledJobsExpire`: `Spec => []OnlySettledExpire`, a blob with a time to
  live is completed or cancelled.

The assumptions are those of `JobQueue`: finitely many jobs, workers and clients
apart, and every job of a listed type.

*The argument.* `TypeOK` alone is not inductive: a list could receive `NoJob`, and a
sweep could take the head of an empty reply. `IInv` adds to it what an actor
knows at each command (`LocalOK`): outside `EmptyHanded` it has a job in hand, within
`Sweeping` its scan is not over, and about to SETEX a result its copy says
"completed". The lemmas `GotoOK`, `HoldOK`, `AdvanceOK`, `ReturnOK`, `ScanOK` say that
the ways to move on preserve `LocalOK`; `SetOK` ... `ClearLeaseOK` do the same for what
is written. Each action is then one step with one part for the actor, one for
Redis and one for the history, and `NextOK` collects them.

Its first part justifies the definition of LREM by ranks: the n-th kept
position exists (`NthKept`, by the least position with enough kept ones), hence LREM
returns a list over the same elements, without the removed one, and repeats
nothing that was not repeated (`LRemList`).

Its second part proves what the queue promises about one job where `Fit` (nothing is cancelled,
one operator requeues) and as long as the behaviour is `Calm`: no command has failed and at most
one process has died; with leases, none has and no handler outlasted its lease. These are the
conditions of the run `queue_crash`, for any number of jobs, types, workers, clients and retries:

* `HandlersRunAlone`: `Spec => [](Calm => OneRunAtATime)`;
* `OutcomesAreFinal`: `Spec => FinishedIsFinal`, an action property, where it stays calm;
* `RunsAreBudgeted`: `Spec => [](Calm => RunsWithinBudget)`;
* `BooksStayInOrder`: `Spec => [](Calm => BooksAgree)`.

The hypothesis is not for the proof's convenience: each thing it excludes breaks one of the four in
the code, and is a hazard in `PROJECT.json` (a recovery that requeues a job whose
lease is still there, two operators who requeue one dead job, a second crash inside
recovery, a SET that fails between two others, a cancellation under a running handler).

Two invariants carry them. `OneOwner` says where a job can be: in one queue, once; parked; with
one actor who is at a command of `OwnerPcs`; or in the processing list of a
dead worker (`Spare`); and that its owner knows what the blob says (`BlobKnown`), so that
the copy it is about to write is the blob with its own change (`CopyKnown`) and nothing
anybody else wrote is lost. A step then keeps a job with its owner, releases it to a
place, or takes it from one, and the lemmas `Keep`, `Release`, `Take`, `Idle` do the
reasoning common to all actions. `Ledger` rests on it: a live job has a place (`Placed`), a dead one
its entries in the dead-letter lists but for the command that writes or removes them
(`Listed`), every job its index entries (`Indexed`), and every run its retry or its
crash (`Counted`). The gauges follow by cardinalities (`GaugesAgree`), and each of the
list operations by lemmas on LPUSH, RPUSH, BRPOP and LREM.

Its third part proves what is left when it is calm no longer:

* `LapsesLoseNothing`: without cancellation, and until a process dies or a command fails,
  `NothingLost` holds through any number of lapses, sweeps and operators, although two
  workers may then have one job;
* `OneTroubleStrandsNoJob`: with leases, and away from the points where the code has no net (below),
  `NothingStranded` survives the first crash, failing
  command or lapse, and any number of lapses without the other two (`Bearable`);
* `DeadAreListed`: `DeadIsListed` holds through any number of troubles and cancellations;
* `OneTroubleIsSurvived`: `Spec => []OneTroubleStrandsNothing`, the property of `queue_trouble`,
  from the two before it and under the hypotheses of both.

The books cannot carry these: after a lapse a job has two owners. What remains true of
*one actor at a time* is `InStep` (a step keeps a job in a place, takes it into a hand that will
place it, or finishes it: `Kept`, `Keeps`), which needs no ownership and holds through all
troubles. The first trouble strikes a state that is still calm, and there `LeaseKnown` says who holds a
lease: an actor from `pick_lease` on until it unleases. So what falls out of a dead hand
has a lease (`LossAnchored`), and afterwards `Anchored` is kept by `InStep` alone: a job to
be run has a place, a lease, or an actor that has yet to place it, and a lease is cleared only
by one who does. `DeadAreListed` rests on `Buried`: a blob that is dead or a copy that will be
written as dead is `Attended`, listed or in the hand that lists it.

The hypotheses name the places where the code has no net. `StrandingFaults` and
`StrandingCrashes` are the commands at which a job has left one list, has not entered the next
and has no lease: between BRPOPLPUSH and the lease in `pick()`, between unleasing and requeueing or listing
in `fail()` and `dead_letter()`, between SET and LPUSH in `submit()`, between ZREM and LPUSH
in `promote_due_jobs()` for a crash (a failure is put back there). `Listless` spares the two steps of
`fail()` after the blob is dead, and requeueing. Adding any of them to the `FaultAt` or `CrashAt` of
`queue_trouble` lets TLC find a stranded or unlisted job - with a backoff or without, as the
place is reached; only a crash at `pick_lease` is harmless as long as the worker restarts, which
`Leased` does not ask for. They are hazards in `PROJECT.json`.

`AccountsProofs` proves, for any finite set of threads and any users, roles, addresses,
passwords, lifetimes, replica lag, failing commands and crossing handlers:

* `TypeCorrectness`: `Spec => []TypeOK`, which is more than types: the constraints of the tables (one
  address per user, no missing role, one default role) hold on the primary and on the replica, and
  no index entry, key or used link dangles;
* `LinksWorkOnce`: `Spec => []LinkWorksOnce`;
* `TokensRotateOnce`: `Spec => []RotatesOnce`;
* `AddressesAreProven`: `Spec => []ConfirmedIsProven`;
* `OldCredentialsGo`: `Spec => []OldCredentialsDie`.

What a handler has still to send is one of a few sequences (`Todos`), so `Place` names where it
is, and `Types` says what it knows there (`CallOK`): whose row it has read, that its link is of
the right kind and the same user, that the token in hand is that user's. Rows
are deleted but never forgotten, and the histories of sessions and links only grow (`Grows`), so other
handlers cannot make that knowledge false. `Command` sends the first of the rest; the lemmas from
`Table` on say where each command leads. On `Types` stand four invariants:

* `LinkInv` for the links: between its verification and the end of its lifetime `used_tokens` holds
  a row for a link as soon as a handler is past `consume_once()` (`LinkTimes`), so that one handler at
  most has still to write for it, and before it took effect (`OneUse`); an invite is written
  behind a password that is not set yet (`OneInvite`).
* `RotateInv` for the tokens: a refreshed token has one heir, the handler that saw its marker, and
  then one descendant. A second handler that sees the marker is in `Overlaps` together with the first
  (`Clashes`), and `raced` has recorded it (`Noticed`).
* `ConfInv` for the addresses: a link that moves no address was sent to the one the user had then, and a
  moved address was reached by the link that moved it (`Proven`).
* `CredInv` for the credentials: every live session of a user is in the index of the user or about to
  be put there, what `revoke_all()` has listed is all there is until it is deleted (`Listed`), a
  session being minted has seen the current password (`MintsCurrent`), and what goes back to an old
  password is there only while its handler has still to sweep (`LiveCurrent`, `KeysCurrent`).

The assumptions, in `Accounts`: finitely many threads; the markers for no user, no role and no
password apart from real ones; every setup begins with tables that satisfy the constraints; and
`LifetimesAssumption`, that `used_tokens` remembers a link for no less than its lifetime, which
the callers of `consume_once()` see to (7 days, an hour, an hour: the lifetimes of the links).

`DatabaseProofs` proves, for any finite set of threads and any size of the pools,
`Spec => []WithinCap` and `Spec => []FreedWhenUnused` (whoever is left on a destroyed pool is `late`, or
shutdown gave up waiting). The cap concerns cardinalities:
the count `active` is the number of threads that hold a slot, so each step is one of
three kinds - it takes a slot, gives one back, or leaves them alone (`SlotTaken`,
`SlotGiven`, `SlotsKept`, from `FiniteSetTheorems`) - and `TakeOK`, `GiveOK`, `KeepOK`
draw up the books for each. What has to be added is `SleepersSleep`: whoever is among the
sleepers of a pool is asleep there. Without it a notification could send a thread that
holds a slot to "woken", and the slot would be lost. The assumptions: a pool has room for one
connection, a call has one attempt, the thread of `shutdown` is not a caller.
`Spec => []WritesOnce` follows from a second invariant, `WInv`: a write that is still being
tried had no effect, and a call that succeeded is over. A failed attempt that may have
taken effect ends the call of a write (`FailedAttemptOK`). `Spec => []NoMissedWakeup` needs
`WakeInv`: while the service is up only callers sleep, and beside a sleeper there are no more
free slots than threads that were woken and have not looked yet (`PoolAwake`). Whoever
frees a slot wakes one, a woken thread that looks takes a slot or leaves none, and a
timeout looks again before it gives up.

`RequestsProofs` proves all five properties of the middleware, for any finite set of threads and any
instances, shapes of requests, keys, faults, crashes and lapses, limit and window: `TypeOK`,
`KeepsContract`, `AnswersAreOwn`, `AnonymousSpendNothing` and `WindowCap`. All rest on `Core`: the
types, what the place of a thread says of its request (`InHand`), and that two requests in hand have
two numbers. On it stand, each preserved on its own:

* `LocksNamed`, for the refinement: the request that a lock names has the body whose hash is its value,
  so that a compare-and-delete can only free one's own lock or a twin's. Each step of `Next` is then
  shown to be a step of `OncePerKey` under the mapping, or a stutter;
* `SavedOnce` and what a reader of an entry knows, for the answers;
* `Admitted`, for the cap: whoever was let through and may still count in a window is in the sorted set
  of its client, with a score at most `MaxDelay` off, and the set does not expire before. A
  script that admits has counted fewer than the limit among the entries no older than the window, and
  every admission that counts is one of them.

The assumptions are those of the modules: naturals for times and bounds, no clock more than
`MaxSkew` ahead, positive limits, the markers `NoLock` and `NoEntry` apart from real values.

`LifecycleProofs` proves `Spec => []AppliedOnce` and the action property `AppliedInOrder`
of the migrations, for any number of processes, files, faults and starts. `RunnerOK` says what the
place of a runner means: from the lock to its release it holds the lock, and
every earlier file of its image is recorded; `VersionOK` says that what took effect is
recorded, is about to be (`HasRun`), or is counted as torn. Both rest on the lock: whoever
has it is alone between a statement and its row (`AloneInLock`). That a restarted
process brings a fresh runner is harmless because a runner is busy only in the step
"Migrations" of a start (`BusyAtBoot`). Of the processes it proves `TypeOK`,
`ServesMigratedSchema`, `UsersGoFirst` and `NothingLeftUp`, from what the place of the main thread says
of the modules that are up (`ModulesOK`: with a module all it needs is up, and in the serving
places all of its mode), of the other threads (`ThreadsOK`) and of the database
(`SchemaOK`: once the step Migrations is behind it, every file of its image is
recorded). A failing verification is the exception in `NothingLeftUp`. Recorded rows only grow, so other processes cannot disturb it. The
next module to come up and the next to go down are the first of a fixed list (`FirstOfOK`), and what a
module calls into stands before it there (`NeededFirst`). The assumptions: versions are naturals,
`NoProc` is not a process, and each process has modes of the program.

`KafkaConsumerProofs` proves, for any number of partitions, messages, poison messages,
attempts and faults, `Spec => []TypeOK`, `Spec => []CommittedIsSettled` and `Spec => []GivenUpAfterAttempts`. The type
needs `CountOK` (the counter of failures is below its limit until a message is being given
up). `CommittedIsSettled` alone is not inductive, since a commit stores the fetch
position: added are `FetchedIsSettled` (what lies behind the fetch position is
settled or is the message in hand) and `InHandIsLast` (the message in hand is the last
fetched, and one to be committed was handled). `GivenUpAfterAttempts` rests on `CountedFailures`: the
counter never runs ahead of the failures of any one message at its offset unless a twin of that message failed
too, and on `GivingUp`: where a message is about to be given up the counter stands at its offset and at the
limit, and its own callback has just failed. The assumptions: partitions
have at least one message, poison messages are messages, there is an attempt.

`UploadsProofs` proves, for any number of images and faults, `Spec => []TypeOK` and
`Spec => []ServedIsWhole`, with its three exceptions, which is inductive as it stands once the types are known.

`PostsProofs` proves, for tables of any size, any number of editors, any lag of the replica and any
lifetime of a preview link: `Spec => []TypeOK`, the action property `Spec => KeepsOmitted`,
`Spec => []SurfacesAgree`, and of every copy of the table that chips
and neighbours agree (`ChipsAndNeighboursAgree`). `KeepsOmitted` needs `ReadsStand`: unless it was overtaken, what an editor
has read is the row its UPDATE will find, since every other write of that post overtakes it and no
id is handed out twice. That neighbours are each other's rests on the order of
the published rows being total (`RowsOrdered`): they have dates, and ids break ties. `SurfacesAgree`
needs `SlugsUnique` of the table and two facts about sequences, proved without an induction
theorem: an order that is total on a finite set enumerates it, since each element stands behind as many as
come before it (`OrderEnumerates`), so the feed exists and lists every selected row once; and pages cut
by LIMIT and OFFSET join to the list (`PagesFlatten`, by the least page at which the fold would
differ). The assumptions: ids
are naturals, and the bounds.

*Only model-checked.* The liveness properties (`OneTroubleIsRepaired`, `EveryCallReturns`,
`EverySignalEnds`, `EveryMessageSettles`) and whatever depends on ENABLED are out of the prover's
reach. Every invariant and action property of the passing runs is stated by a theorem. Beyond the
hypotheses of the theorems on the queue - cancellation under a running handler, several
operators who requeue, a worker that dies a second time within its recovery - the runs show what the
code does on small instances, and `PROJECT.json` lists what goes wrong as hazards.

## Not modelled

`PROJECT.json` lists every component with its status. Left out:

* server-rendered pages, sitemap, templates: text made from the queries that
  `Posts` has; the filters by tag and by text, which only narrow a selection;
* SMTP, webhooks, the contact form, the audit log, the HTTP layer of the jobs and
  health endpoints: one call or one insert each, without a decision that lasts;
* the Kafka producer and the S3 protocol: what they do happens in a library or
  behind an endpoint this repository does not hold;
* configuration, Base64, hashing, time formatting: pure functions on text;
* metrics and traces, which nothing reads back (the queue's gauges excepted);
* the modes `create-admin` and `seed-fake`, `reload_config`, the heartbeat file;
* the front end and the deployment files.

Within the modelled parts: payloads and wording; blobs of the queue that this version cannot
parse; a Redis command that took effect although the client saw an error, but for
the lock of `Idempotency`; topics with outer blanks, for which the chips of the public list
and its filter disagree by their SQL; isolation levels, since every
write here is one statement or one row.

## Plan

What is left of the proofs: `OneTroubleStrandsNoJob` for deployments without leases, where the list of a dead
worker takes the lease's part and `InStep` would have to follow a job through
`recover_processing()`; and a bound on the runs of a handler that counts lapses as it counts crashes.
