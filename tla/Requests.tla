------------------------------ MODULE Requests ------------------------------
(***************************************************************************)
(* The life of a request in the API process: the sync advices that         *)
(* src/src/api/Api.hpp registers, in order, the handler, and the           *)
(* post-handling advices of src/src/api/Middleware.hpp.  It composes the   *)
(* limiter and the idempotency middleware.  Handlers are synchronous, so a *)
(* thread serves one request at a time.                                    *)
(***************************************************************************)
EXTENDS RateLimit, Idempotency

CONSTANTS
    Threads,        \* IO threads of all instances, as numbers
    InstanceOf,     \* thread -> the process it belongs to
    Skew,           \* instance -> how far its clock is ahead
    Shapes,         \* the requests clients may send
    Setups          \* what a behaviour may hold: records with the shapes sent
                    \* and the bounds requests, time, faults, crashes, lapses

Bounds(x) == {x.requests, x.time, x.faults, x.crashes, x.lapses}

ASSUME ThreadsAssumption ==
    /\ IsFiniteSet(Threads) /\ Threads \subseteq Nat
    /\ \A t \in Threads : Skew[InstanceOf[t]] \in 0..MaxSkew
ASSUME SetupsAssumption ==
    /\ Shapes # {}
    /\ \A x \in Setups : x.shapes \subseteq Shapes /\ Bounds(x) \subseteq Nat

VARIABLES
    setup,              \* one of Setups; never changes
    pc, shape, num,     \* a thread's place, its request and that one's number
    stamp,              \* the time it read for the limiter
    sent, faults, crashes,
    answer,             \* the last answer of the thread
    served              \* history: the requests whose handler returned 2xx

AnyShape == CHOOSE s \in Shapes : TRUE
NoAnswer == [kind |-> "none", by |-> 0, of |-> 0, shape |-> AnyShape]
threadVars == <<pc, shape, num, stamp, answer>>
countVars == <<sent, faults, crashes>>
vars == <<setup, limitVars, idemVars, threadVars, countVars, served>>

Protected(s) == s.path = "login"
Public(s) == s.path \in {"login", "health"}
Mutating(s) == s.verb \in {"post", "put", "delete", "patch"}

(* register_auth() stamps a principal, except on public paths. *)
Principal(s) == IF Public(s) THEN "anon" ELSE s.subject

(* Callers without a principal are told apart by their address. *)
Caller(s) == IF Principal(s) = "anon" THEN s.ip ELSE s.subject

KeyOf(s) == CacheKey(Caller(s), s.verb, s.path, s.key)
Tracked(s) == Mutating(s) /\ s.key # "none"

(* What the keys of Redis hold: a body's hash and, of an entry, a response; *)
(* with the request that set it.                                            *)
Bodies == {s.body : s \in Shapes}
Numbers == UNION {1..x.requests : x \in Setups}
Entries == [body : Bodies, by : Numbers]

(* Redis has no value that a client could mistake for a missing one.        *)
ASSUME KeysAssumption ==
    /\ \A s \in Shapes : Tracked(s) => KeyOf(s) \in Keys
    /\ NoLock \notin Entries /\ NoEntry \notin Entries

BadType(s) == Mutating(s) /\ ~s.json
Unauthenticated(s) == s.verb # "options" /\ ~Public(s) /\ s.subject = "anon"
Forged(s) == Mutating(s) /\ ~s.csrf

(* Slip: the limiter is asked before anybody is authenticated. *)
RefusalWithoutAuth(s) == IF BadType(s) THEN "415" ELSE ""

(* What the local advices refuse, in the order of their registration. *)
Refusal(s) == IF BadType(s) THEN "415"
              ELSE IF Unauthenticated(s) THEN "401"
              ELSE IF Forged(s) THEN "403" ELSE ""

(* One command of Redis fails. *)
May(broken) == broken => faults < setup.faults
Count(broken) == /\ faults' = IF broken THEN faults + 1 ELSE faults
                 /\ UNCHANGED <<sent, crashes>>

Goto(t, place) == pc' = [pc EXCEPT ![t] = place]

(* The thread answers, by short_circuit() or after the post-handling         *)
(* advices, and is free for the next request.                               *)
Answer(t, kind, by) ==
    /\ Goto(t, "idle")
    /\ answer' = [answer EXCEPT ![t] =
                    [kind |-> kind, by |-> by, of |-> num[t], shape |-> shape[t]]]
    /\ shape' = [shape EXCEPT ![t] = AnyShape] /\ num' = [num EXCEPT ![t] = 0]

(* It goes on to another place. *)
GoOn(t, place) == Goto(t, place) /\ UNCHANGED <<answer, shape, num>>

-----------------------------------------------------------------------------
(* A request arrives, gets its ids, and passes or fails the advices that    *)
(* need nothing shared.  Idle threads of a process are alike: the first one *)
(* takes it.                                                                *)
Arrive(t, s) ==
    /\ pc[t] = "idle" /\ sent < setup.requests /\ s \in setup.shapes
    /\ \A u \in Threads : pc[u] = "idle" /\ InstanceOf[u] = InstanceOf[t] => t <= u
    /\ sent' = sent + 1
    /\ \/ /\ Refusal(s) = ""
          /\ num' = [num EXCEPT ![t] = sent + 1]
          /\ shape' = [shape EXCEPT ![t] = s]
          /\ Goto(t, "limit")
          /\ stamp' = [stamp EXCEPT ![t] = now + Skew[InstanceOf[t]]]
          /\ answer' = [answer EXCEPT ![t] = NoAnswer]
       \/ /\ Refusal(s) # ""
          /\ answer' = [answer EXCEPT ![t] =
                          [kind |-> Refusal(s), by |-> 0, of |-> sent + 1, shape |-> s]]
          /\ UNCHANGED <<pc, stamp, shape, num>>
    /\ UNCHANGED <<setup, limitVars, idemVars, faults, crashes, served>>

(* register_rate_limit(): preflights and public paths pass, the auth paths  *)
(* have a tier of their own.                                                *)
Tier(s) == IF Protected(s) THEN "auth" ELSE "general"
Unlimited(s) == s.verb = "options" \/ (Public(s) /\ ~Protected(s))

(* register_cors() answers a preflight; the others go on. *)
Pass(t) ==
    IF shape[t].verb = "options" THEN Answer(t, "204", 0)
    ELSE GoOn(t, IF Tracked(shape[t]) THEN "read" ELSE "handler")

LimitRate(t) ==
    LET s == shape[t] IN
    /\ pc[t] = "limit"
    /\ \/ /\ Unlimited(s)
          /\ Pass(t)
          /\ UNCHANGED <<limitVars, countVars>>
       \/ /\ ~Unlimited(s)
          /\ \E broken, allowed \in BOOLEAN :
                /\ May(broken) /\ Count(broken)
                /\ Checked(Tier(s), Identity(Tier(s), s.ip, Principal(s)),
                           stamp[t], num[t], broken, allowed)
                /\ IF allowed THEN Pass(t) ELSE Answer(t, "429", 0)
    /\ stamp' = [stamp EXCEPT ![t] = 0]
    /\ UNCHANGED <<setup, idemVars, served>>

(* pre_handle() reads the entry, and reads it again when the lock is taken. *)
ReadEntry(t) ==
    LET s == shape[t] IN
    /\ pc[t] \in {"read", "reread"}
    /\ \E broken \in BOOLEAN :
          LET e == Reply(KeyOf(s), broken)
              kind == FromEntry(e, s.body) IN
          /\ May(broken) /\ Count(broken)
          /\ \/ kind # "" /\ Answer(t, kind, e.by)
             \/ kind = "" /\ pc[t] = "read" /\ GoOn(t, "lock")
             \/ kind = "" /\ pc[t] = "reread" /\ Answer(t, "busy", 0)
    /\ UNCHANGED <<setup, limitVars, idemVars, stamp, served>>

TakeLock(t) ==
    LET s == shape[t] IN
    /\ pc[t] = "lock"
    /\ \E broken, got \in BOOLEAN :
          /\ May(broken) /\ Count(broken)
          /\ SetNx(KeyOf(s), s.body, num[t], broken, got)
          /\ GoOn(t, IF got THEN "handler" ELSE "reread")
    /\ UNCHANGED <<setup, limitVars, stamp, served>>

(* The handler: 2xx, an error, or a response too large to be stored.        *)
Handle(t) ==
    LET s == shape[t] IN
    /\ pc[t] = "handler"
    /\ \E outcome \in {"ok", "failed"} :
          /\ served' = IF outcome = "ok" THEN served \cup {[num |-> num[t], shape |-> s]}
                       ELSE served
          /\ \/ Tracked(s) /\ GoOn(t, IF outcome = "ok" THEN "store" ELSE "release")
             \/ ~Tracked(s) /\ Answer(t, "ran", num[t])
    /\ UNCHANGED <<setup, limitVars, idemVars, stamp, countVars>>

(* post_handle() *)
StoreEntry(t) ==
    LET s == shape[t] IN
    /\ pc[t] = "store"
    /\ \E broken \in BOOLEAN :
          May(broken) /\ Count(broken) /\ Store(KeyOf(s), s.body, num[t], broken)
    /\ GoOn(t, "release")
    /\ UNCHANGED <<setup, limitVars, stamp, served>>

ReleaseLock(t) ==
    LET s == shape[t] IN
    /\ pc[t] = "release"
    /\ \E broken \in BOOLEAN :
          May(broken) /\ Count(broken) /\ CompareAndDelete(KeyOf(s), s.body, broken)
    /\ Answer(t, "ran", num[t])
    /\ UNCHANGED <<setup, limitVars, stamp, served>>

-----------------------------------------------------------------------------
(* A process dies with the requests it was serving, and is started again. *)
Crash(i) ==
    /\ crashes < setup.crashes
    /\ crashes' = crashes + 1
    /\ \E t \in Threads : InstanceOf[t] = i /\ pc[t] # "idle"
    /\ pc' = [t \in Threads |-> IF InstanceOf[t] = i THEN "idle" ELSE pc[t]]
    /\ stamp' = [t \in Threads |-> IF InstanceOf[t] = i THEN 0 ELSE stamp[t]]
    /\ shape' = [t \in Threads |-> IF InstanceOf[t] = i THEN AnyShape ELSE shape[t]]
    /\ num' = [t \in Threads |-> IF InstanceOf[t] = i THEN 0 ELSE num[t]]
    /\ UNCHANGED <<setup, limitVars, idemVars, answer, sent, faults, served>>

(* The handlers of key k that have not told Redis of their end. *)
Holders(k) == {t \in Threads : /\ pc[t] \in {"handler", "store", "release"}
                               /\ Tracked(shape[t]) /\ KeyOf(shape[t]) = k}

LockTimeout(k) ==
    /\ LockExpires(k, Holders(k) # {}) /\ lapses' <= setup.lapses
    /\ UNCHANGED <<setup, limitVars, threadVars, countVars, served>>

EntryTimeout(k) ==
    /\ EntryExpires(k)
    /\ UNCHANGED <<setup, limitVars, threadVars, countVars, served>>

(* A time that was read is not older than MaxDelay when its script runs. *)
TimePasses ==
    /\ Tick /\ now' <= setup.time
    /\ \A t \in Threads : pc[t] = "limit" =>
           now + Skew[InstanceOf[t]] < stamp[t] + MaxDelay
    /\ UNCHANGED <<setup, idemVars, threadVars, countVars, served>>

Init ==
    /\ setup \in Setups
    /\ now = 0 /\ admitted = {}
    /\ LET ids == {s.ip : s \in Shapes} \cup {s.subject : s \in Shapes}
           keys == {"general", "auth"} \X ids IN
       zset = [k \in keys |-> {}] /\ expireAt = [k \in keys |-> 0]
    /\ entry = [k \in Keys |-> NoEntry] /\ lock = [k \in Keys |-> NoLock] /\ lapses = 0
    /\ pc = [t \in Threads |-> "idle"]
    /\ shape = [t \in Threads |-> AnyShape]
    /\ num = [t \in Threads |-> 0] /\ stamp = [t \in Threads |-> 0]
    /\ sent = 0 /\ faults = 0 /\ crashes = 0
    /\ answer = [t \in Threads |-> NoAnswer]
    /\ served = {}

Serve(t) == LimitRate(t) \/ ReadEntry(t) \/ TakeLock(t)
            \/ Handle(t) \/ StoreEntry(t) \/ ReleaseLock(t)

Next == \/ \E t \in Threads : Serve(t) \/ \E s \in Shapes : Arrive(t, s)
        \/ \E t \in Threads : Crash(InstanceOf[t])
        \/ \E k \in Keys : LockTimeout(k) \/ EntryTimeout(k)
        \/ TimePasses

Spec == Init /\ [][Next]_vars
-----------------------------------------------------------------------------
Places == {"idle", "limit", "read", "lock", "reread", "handler", "store", "release"}

(* The type invariant. *)
TypeOK ==
    /\ setup \in Setups /\ now \in 0..setup.time
    /\ \A k \in Keys : /\ entry[k] = NoEntry \/ entry[k] \in Entries
                       /\ lock[k] = NoLock \/ lock[k] \in Entries
    /\ lapses \in 0..setup.lapses
    /\ pc \in [Threads -> Places] /\ shape \in [Threads -> Shapes]
    /\ num \in [Threads -> 0..setup.requests]
    /\ sent \in 0..setup.requests /\ faults \in 0..setup.faults
    /\ crashes \in 0..setup.crashes

(* What a client is told from a stored entry is about its own request: a   *)
(* replay repeats the success of the same caller with the same body, a 422 *)
(* is given only when that caller succeeded with another body.             *)
AnswersAreOwn ==
    \A t \in Threads : answer[t].kind \in {"replay", "conflict"} =>
        \E r \in served :
            /\ r.num = answer[t].by
            /\ Public(r.shape) \/ r.shape.subject = answer[t].shape.subject
            /\ r.shape.verb = answer[t].shape.verb /\ r.shape.path = answer[t].shape.path
            /\ r.shape.key = answer[t].shape.key
            /\ (answer[t].kind = "replay") = (r.shape.body = answer[t].shape.body)

(* Requests that are not authenticated spend neither the general budget of *)
(* the limiter nor a lock or an entry of a key, whatever order the advices  *)
(* and the other threads take.                                              *)
AnonymousSpendNothing ==
    /\ \A a \in admitted : a[1][1] = "general" =>
           \E s \in Shapes : s.subject = a[1][2] /\ s.subject # "anon"
    /\ \A k \in Keys : (lock[k] # NoLock \/ entry[k] # NoEntry) =>
           \E s \in Shapes : KeyOf(s) = k /\ (Public(s) \/ s.subject # "anon")

(* The middleware implements OncePerKey: a handler starts while others of  *)
(* its key run only when each of them has lost its lock, by a timeout or to *)
(* an earlier retry of the same body that had outlived its own.  The second *)
(* way is what Idempotency.hpp:318-322 says the compare-and-delete rules    *)
(* out; it rules it out for other bodies only.                              *)
Ticket(t) == [num |-> num[t], body |-> shape[t].body]
Running(k) == {Ticket(t) : t \in Holders(k)}
Loose(k) == {r \in Running(k) : lock[k] # NoLock => lock[k].by # r.num}
Contract == INSTANCE OncePerKey WITH
    Requests <- [num : Numbers, body : Bodies], Nothing <- 0,
    running <- [k \in Keys |-> Running(k)], loose <- [k \in Keys |-> Loose(k)],
    saved <- [k \in Keys |-> IF entry[k] = NoEntry THEN 0 ELSE entry[k].by]
KeepsContract == Contract!Spec

(* Idempotency.hpp:244-246: two retries that race past the read are not     *)
(* both processed: no handler starts while its key has an entry.            *)
ProcessedOnce ==
    \A t \in Threads : pc[t] = "handler" /\ Tracked(shape[t]) =>
                          entry[KeyOf(shape[t])] = NoEntry
=============================================================================
