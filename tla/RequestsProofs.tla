--------------------------- MODULE RequestsProofs ---------------------------
(***************************************************************************)
(* What the middleware promises, for any finite set of threads and any     *)
(* number of instances, shapes of requests, keys, faults, crashes and      *)
(* lapses, and every limit and window.  Everything rests on Core: the      *)
(* types, what the place of a thread says of its request (InHand), and     *)
(* that two requests in hand have two numbers (OwnNumbers).  On it stand,  *)
(* each preserved on its own,                                              *)
(*   - LocksNamed: a lock that a handler still owns carries the hash of    *)
(*     that handler's body (the refinement),                               *)
(*   - SavedOnce: an entry was made by a request that was served,          *)
(*   - Admitted: whoever was let through and still counts is in the sorted *)
(*     set of its client, and that set does not expire before (the cap).   *)
(***************************************************************************)
EXTENDS Requests, FiniteSetTheorems, TLAPS

Kinds == {"none", "415", "401", "403", "429", "204", "conflict", "replay", "busy", "ran"}
LimitKeys == {"general", "auth"} \X ({s.ip : s \in Shapes} \cup {s.subject : s \in Shapes})
Answers == [kind : Kinds, by : Nat, of : Nat, shape : Shapes]

(* The types of all variables, with their domains.                          *)
Types ==
    /\ setup \in Setups /\ now \in 0..setup.time
    /\ zset \in [LimitKeys -> SUBSET (Nat \X Nat)] /\ expireAt \in [LimitKeys -> Nat]
    /\ admitted \subseteq LimitKeys \X Nat \X Nat
    /\ entry \in [Keys -> Entries \cup {NoEntry}]
    /\ lock \in [Keys -> Entries \cup {NoLock}]
    /\ lapses \in 0..setup.lapses
    /\ pc \in [Threads -> Places] /\ shape \in [Threads -> Shapes]
    /\ num \in [Threads -> 0..setup.requests]
    /\ stamp \in [Threads -> Nat]
    /\ sent \in 0..setup.requests /\ faults \in 0..setup.faults
    /\ crashes \in 0..setup.crashes
    /\ answer \in [Threads -> Answers]
    /\ served \subseteq [num : Numbers, shape : Shapes]

(* A request in hand has a number of its own and was not refused; only     *)
(* tracked ones go to the commands of the middleware.                       *)
InHand(t) ==
    pc[t] # "idle" =>
        /\ num[t] \in 1..sent /\ Refusal(shape[t]) = ""
        /\ pc[t] \in {"read", "lock", "reread", "store", "release"} => Tracked(shape[t])
        /\ pc[t] = "store" => [num |-> num[t], shape |-> shape[t]] \in served
OwnNumbers ==
    \A t, u \in Threads : t # u /\ pc[t] # "idle" /\ pc[u] # "idle" => num[t] # num[u]
Core == Types /\ (\A t \in Threads : InHand(t)) /\ OwnNumbers

(* The lock of a handler that still owns it has the hash of its body.       *)
Owns(t, k) == lock[k] # NoLock /\ lock[k].by = num[t]
LocksNamed ==
    \A k \in Keys : \A t \in Holders(k) : Owns(t, k) => lock[k].body = shape[t].body

SavedOnce ==
    /\ \A r \in served : Refusal(r.shape) = ""
    /\ \A k \in Keys : entry[k] # NoEntry =>
           \E r \in served : /\ r.num = entry[k].by /\ r.shape.body = entry[k].body
                             /\ Tracked(r.shape) /\ KeyOf(r.shape) = k

(* A time that waits for its script is close to the true one.               *)
FreshStamp(t) ==
    pc[t] = "limit" =>
        /\ stamp[t] <= now + Skew[InstanceOf[t]]
        /\ now + Skew[InstanceOf[t]] <= stamp[t] + MaxDelay
        /\ \A a \in admitted : a[2] # num[t]

(* What was admitted so lately that it may still count is in the window.    *)
Late(a) == a[3] + Window > now + MaxSkew + MaxDelay
Counted(a) ==
    /\ a[3] + Window < expireAt[a[1]]
    /\ \E e \in zset[a[1]] : e[2] = a[2] /\ a[3] <= e[1] + MaxDelay
Admitted ==
    /\ IsFiniteSet(admitted)
    /\ \A a \in admitted : /\ a[2] <= sent /\ a[3] <= now
                           /\ Late(a) => Counted(a)
    /\ \A a, b \in admitted : a[2] = b[2] => a = b
WindowInv ==
    /\ \A t \in Threads : FreshStamp(t)
    /\ \A k \in LimitKeys : IsFiniteSet(zset[k])
    /\ Admitted /\ WindowCap

LEMMA Given ==
    /\ IsFiniteSet(Threads) /\ Threads \subseteq Nat /\ AnyShape \in Shapes
    /\ \A t \in Threads : Skew[InstanceOf[t]] \in Nat /\ Skew[InstanceOf[t]] <= MaxSkew
    /\ Window \in Nat /\ MaxSkew \in Nat /\ MaxDelay \in Nat /\ FailOpen \in BOOLEAN
    /\ \A tier \in {"general", "auth"} : Limit[tier] \in Nat /\ Limit[tier] > 0
    /\ \A x \in Setups : /\ x.shapes \subseteq Shapes /\ x.requests \in Nat /\ x.time \in Nat
                         /\ x.faults \in Nat /\ x.crashes \in Nat /\ x.lapses \in Nat
                         /\ \A n \in 1..x.requests : n \in Numbers
    /\ Numbers \subseteq Nat
    /\ NoLock \notin Entries /\ NoEntry \notin Entries
    /\ \A s \in Shapes : s.body \in Bodies /\ (Tracked(s) => KeyOf(s) \in Keys)
<1>1. AnyShape \in Shapes
  BY SetupsAssumption DEF AnyShape
<1>2. Window \in Nat /\ MaxSkew \in Nat /\ MaxDelay \in Nat
  BY TimeAssumption
<1>3. \A x \in Setups : /\ x.shapes \subseteq Shapes /\ x.requests \in Nat /\ x.time \in Nat
                        /\ x.faults \in Nat /\ x.crashes \in Nat /\ x.lapses \in Nat
  BY SetupsAssumption DEF Bounds
<1>4. Numbers \subseteq Nat /\ \A x \in Setups : \A n \in 1..x.requests : n \in Numbers
  BY <1>3 DEF Numbers
<1>5. \A t \in Threads : Skew[InstanceOf[t]] \in Nat /\ Skew[InstanceOf[t]] <= MaxSkew
  BY <1>2, ThreadsAssumption
<1> QED
  BY <1>1, <1>2, <1>3, <1>4, <1>5, ThreadsAssumption, KeysAssumption, LimitAssumption,
     FailOpenAssumption DEF Bodies

-----------------------------------------------------------------------------
(* What a step of the server leaves of the other threads and of the thread *)
(* itself: it answers and forgets its request, or goes on with it.          *)
Goes(t, places) ==
    /\ pc' = [pc EXCEPT ![t] = pc'[t]] /\ shape' = [shape EXCEPT ![t] = shape'[t]]
    /\ num' = [num EXCEPT ![t] = num'[t]]
    /\ \/ pc'[t] = "idle" /\ shape'[t] = AnyShape /\ num'[t] = 0
       \/ pc'[t] \in places /\ shape'[t] = shape[t] /\ num'[t] = num[t]
    /\ answer' \in [Threads -> Answers]

LEMMA AnswerGoes ==
    ASSUME Types, NEW t \in Threads, NEW kind \in Kinds, NEW by \in Nat,
           Answer(t, kind, by)
    PROVE  Goes(t, {}) /\ pc'[t] = "idle"
<1>1. num[t] \in Nat /\ shape[t] \in Shapes
  BY Given DEF Types
<1>2. [kind |-> kind, by |-> by, of |-> num[t], shape |-> shape[t]] \in Answers
  BY <1>1 DEF Answers
<1> QED
  BY <1>2 DEF Answer, Goto, Goes, Types

LEMMA GoOnGoes ==
    ASSUME Types, NEW t \in Threads, NEW place, GoOn(t, place)
    PROVE  Goes(t, {place})
  BY DEF GoOn, Goto, Goes, Types

LEMMA GoesWider ==
    ASSUME NEW t, NEW P, NEW Q, P \subseteq Q, Goes(t, P) PROVE Goes(t, Q)
  BY DEF Goes

LEMMA PassGoes ==
    ASSUME Types, NEW t \in Threads, Pass(t)
    PROVE  /\ Goes(t, {"read", "handler"})
           /\ pc'[t] = "read" => Tracked(shape[t])
           /\ pc'[t] = "handler" => ~Tracked(shape[t])
<1>1. CASE shape[t].verb = "options"
  <2>1. Answer(t, "204", 0)
    BY <1>1 DEF Pass
  <2>2. Goes(t, {}) /\ pc'[t] = "idle"
    BY <2>1, AnswerGoes DEF Kinds
  <2> QED
    BY <2>2, GoesWider
<1>2. CASE shape[t].verb # "options"
  <2>1. CASE Tracked(shape[t])
    <3>1. GoOn(t, "read")
      BY <1>2, <2>1 DEF Pass
    <3>2. Goes(t, {"read"}) /\ pc'[t] = "read"
      BY <3>1, GoOnGoes DEF GoOn, Goto, Types
    <3> QED
      BY <3>2, <2>1, GoesWider
  <2>2. CASE ~Tracked(shape[t])
    <3>1. GoOn(t, "handler")
      BY <1>2, <2>2 DEF Pass
    <3>2. Goes(t, {"handler"}) /\ pc'[t] = "handler"
      BY <3>1, GoOnGoes DEF GoOn, Goto, Types
    <3> QED
      BY <3>2, <2>2, GoesWider
  <2> QED
    BY <2>1, <2>2
<1> QED
  BY <1>1, <1>2

-----------------------------------------------------------------------------
(* The rest of the state, by the actions that may change it.                *)
Chance ==
    /\ faults' \in 0..setup.faults /\ UNCHANGED <<sent, crashes>>

LEMMA Faults ==
    ASSUME Types, NEW broken \in BOOLEAN, May(broken), Count(broken)
    PROVE  Chance
<1>1. setup.faults \in Nat /\ faults \in 0..setup.faults
  BY Given DEF Types
<1>2. CASE broken
  BY <1>1, <1>2 DEF May, Count, Chance
<1>3. CASE ~broken
  BY <1>1, <1>3 DEF May, Count, Chance
<1> QED
  BY <1>2, <1>3

LimitTypes ==
    /\ zset \in [LimitKeys -> SUBSET (Nat \X Nat)] /\ expireAt \in [LimitKeys -> Nat]
    /\ admitted \subseteq LimitKeys \X Nat \X Nat

LEMMA KeyIsLimited ==
    ASSUME NEW s \in Shapes
    PROVE  LET k == <<Tier(s), Identity(Tier(s), s.ip, Principal(s))>> IN
           k \in LimitKeys /\ k[1] = Tier(s)
<1>1. Identity(Tier(s), s.ip, Principal(s)) \in {s.ip, s.subject}
  BY DEF Identity, Principal
<1>2. Tier(s) \in {"general", "auth"}
  BY DEF Tier
<1> QED
  BY <1>1, <1>2 DEF LimitKeys

LEMMA CheckedTypes ==
    ASSUME LimitTypes, now \in Nat, NEW s \in Shapes, NEW time \in Nat, NEW n \in Nat,
           NEW broken \in BOOLEAN, NEW allowed \in BOOLEAN,
           Checked(Tier(s), Identity(Tier(s), s.ip, Principal(s)), time, n, broken, allowed)
    PROVE  LimitTypes' /\ now' = now
<1> DEFINE k == <<Tier(s), Identity(Tier(s), s.ip, Principal(s))>>
<1>1. k \in LimitKeys
  BY KeyIsLimited
<1>2. CASE UNCHANGED limitVars
  BY <1>2 DEF limitVars, LimitTypes
<1>3. CASE Script(k, Limit[Tier(s)], time, n, allowed)
  <2> DEFINE kept == InWindow(Live(k), time)
  <2>1. kept \in SUBSET (Nat \X Nat) /\ <<time, n>> \in Nat \X Nat
    BY <1>1 DEF InWindow, Live, LimitTypes
  <2>2. zset' \in [LimitKeys -> SUBSET (Nat \X Nat)]
    <3> HIDE DEF kept, k
    <3> QED
    BY <1>1, <1>3, <2>1 DEF LimitTypes, Script, kept
  <2>3. expireAt' \in [LimitKeys -> Nat]
    <3> HIDE DEF k
    <3> QED
    BY <1>1, <1>3, Given DEF LimitTypes, Script
  <2>4. admitted' \subseteq LimitKeys \X Nat \X Nat
    <3> HIDE DEF k
    <3> QED
    BY <1>1, <1>3 DEF LimitTypes, Script
  <2> QED
    BY <2>2, <2>3, <2>4, <1>3 DEF LimitTypes, Script
<1> QED
  BY <1>2, <1>3 DEF Checked

(* The commands of the middleware, on the entry and the lock of a key.      *)
IdemTypes ==
    /\ entry \in [Keys -> Entries \cup {NoEntry}] /\ lock \in [Keys -> Entries \cup {NoLock}]

LEMMA CommandTypes ==
    ASSUME IdemTypes, NEW k \in Keys, NEW body \in Bodies, NEW n \in Numbers,
           NEW broken \in BOOLEAN, NEW got \in BOOLEAN
    PROVE  /\ SetNx(k, body, n, broken, got) => IdemTypes'
           /\ Store(k, body, n, broken) => IdemTypes'
           /\ CompareAndDelete(k, body, broken) => IdemTypes'
<1>1. ASSUME SetNx(k, body, n, broken, got) PROVE IdemTypes'
  <2>1. [body |-> body, by |-> n] \in Entries
    BY DEF Entries
  <2> QED
    BY <2>1, <1>1 DEF SetNx, IdemTypes
<1>2. ASSUME Store(k, body, n, broken) PROVE IdemTypes'
  <2>1. [body |-> body, by |-> n] \in Entries
    BY DEF Entries
  <2> QED
    BY <2>1, <1>2 DEF Store, IdemTypes
<1>3. ASSUME CompareAndDelete(k, body, broken) PROVE IdemTypes'
  BY <1>3 DEF CompareAndDelete, IdemTypes
<1> QED
  BY <1>1, <1>2, <1>3

-----------------------------------------------------------------------------
(* A step of thread t with its request in hand, from one of "from" to one   *)
(* of "to"; what it may do with the rest.                                   *)
Step(t, from, to) ==
    /\ pc[t] \in from /\ Goes(t, to)
    /\ pc'[t] \in {"read", "lock", "reread", "store", "release"} => Tracked(shape[t])
    /\ setup' = setup /\ now' = now /\ sent' = sent /\ crashes' = crashes
    /\ faults' \in 0..setup.faults /\ lapses' = lapses
    /\ stamp' \in [Threads -> Nat]
    /\ LimitTypes' /\ IdemTypes'

Middle == {"read", "lock", "reread", "handler", "store", "release"}

LEMMA TypesParts ==
    ASSUME Types
    PROVE  /\ LimitTypes /\ IdemTypes /\ now \in Nat /\ faults \in 0..setup.faults
           /\ setup \in Setups /\ DOMAIN stamp = Threads
           /\ \A t \in Threads : /\ shape[t] \in Shapes /\ shape[t].body \in Bodies
                                 /\ num[t] \in 0..setup.requests /\ num[t] \in Nat
                                 /\ stamp[t] \in Nat
                                 /\ num[t] # 0 => num[t] \in Numbers
  BY Given DEF Types, LimitTypes, IdemTypes

LEMMA LimitRateStep ==
    ASSUME Core, NEW t \in Threads, LimitRate(t)
    PROVE  Step(t, {"limit"}, {"read", "handler"})
<1>1. Types
  BY DEF Core
<1>2. Goes(t, {"read", "handler"}) /\ (pc'[t] = "read" => Tracked(shape[t]))
  <2>1. CASE Pass(t)
    BY <1>1, <2>1, PassGoes
  <2>2. CASE Answer(t, "429", 0)
    <3>1. Goes(t, {}) /\ pc'[t] = "idle"
      BY <1>1, <2>2, AnswerGoes DEF Kinds
    <3> QED
      BY <3>1, GoesWider
  <2> QED
    BY <2>1, <2>2 DEF LimitRate
<1>3. /\ faults' \in 0..setup.faults /\ sent' = sent /\ crashes' = crashes
      /\ LimitTypes' /\ now' = now
  <2>1. CASE UNCHANGED <<limitVars, countVars>>
    BY <1>1, <2>1, TypesParts DEF limitVars, countVars, LimitTypes
  <2>2. ASSUME NEW broken \in BOOLEAN, NEW allowed \in BOOLEAN, May(broken), Count(broken),
               Checked(Tier(shape[t]), Identity(Tier(shape[t]), shape[t].ip, Principal(shape[t])),
                       stamp[t], num[t], broken, allowed)
        PROVE  /\ Chance /\ LimitTypes' /\ now' = now
    BY <1>1, <2>2, TypesParts, CheckedTypes, Faults
  <2>3. Chance => faults' \in 0..setup.faults /\ sent' = sent /\ crashes' = crashes
    BY DEF Chance
  <2> QED
    BY <2>1, <2>2, <2>3 DEF LimitRate
<1>4. stamp' \in [Threads -> Nat]
  BY <1>1 DEF LimitRate, Types
<1>5. IdemTypes' /\ lapses' = lapses /\ setup' = setup /\ pc[t] = "limit"
  BY <1>1, TypesParts DEF LimitRate, idemVars, IdemTypes
<1> QED
  BY <1>2, <1>3, <1>4, <1>5 DEF Step, Goes

LEMMA HandlerIsUntracked ==
    ASSUME Core, NEW t \in Threads, LimitRate(t), pc'[t] = "handler" PROVE ~Tracked(shape[t])
<1>1. Types
  BY DEF Core
<1>2. CASE Pass(t)
  BY <1>1, <1>2, PassGoes
<1>3. CASE Answer(t, "429", 0)
  BY <1>1, <1>3, AnswerGoes DEF Kinds
<1> QED
  BY <1>2, <1>3 DEF LimitRate

(* The middleware sends one command, which may fail.                        *)
LEMMA CommandStep ==
    ASSUME Core, NEW t \in Threads, NEW from, NEW to, pc[t] \in from, Goes(t, to),
           pc'[t] \in {"read", "lock", "reread", "store", "release"} => Tracked(shape[t]),
           Chance \/ UNCHANGED countVars, IdemTypes', lapses' = lapses,
           UNCHANGED <<setup, limitVars, stamp>>
    PROVE  Step(t, from, to)
<1>1. Types
  BY DEF Core
<1>2. faults' \in 0..setup.faults /\ sent' = sent /\ crashes' = crashes
  BY <1>1, TypesParts DEF Chance, countVars
<1>3. LimitTypes' /\ now' = now
  BY <1>1, TypesParts DEF LimitTypes, limitVars
<1>4. stamp' \in [Threads -> Nat]
  BY <1>1 DEF Types
<1> QED
  BY <1>2, <1>3, <1>4 DEF Step

LEMMA NumberInHand ==
    ASSUME Core, NEW t \in Threads, pc[t] # "idle" PROVE num[t] \in Numbers /\ num[t] # 0
<1>1. Types /\ InHand(t) /\ sent \in Nat /\ setup.requests \in Nat /\ sent <= setup.requests
  BY Given DEF Core, Types
<1>2. num[t] \in 1..setup.requests
  <2>1. num[t] \in 1..sent
    BY <1>1 DEF InHand
  <2> QED
    BY <1>1, <2>1
<1>3. setup \in Setups
  BY <1>1 DEF Types
<1> QED
  BY <1>2, <1>3, Given

LEMMA EntryFields ==
    ASSUME Types, NEW s \in Shapes, Tracked(s), NEW broken \in BOOLEAN
    PROVE  LET e == Reply(KeyOf(s), broken)
               kind == FromEntry(e, s.body) IN
           /\ kind \in {"", "conflict", "replay"}
           /\ kind # "" => /\ e = entry[KeyOf(s)] /\ e # NoEntry /\ e.by \in Nat
                           /\ (kind = "replay") = (e.body = s.body)
<1> DEFINE k == KeyOf(s)
<1>0. k \in Keys
  BY Given
<1>1. entry[k] \in Entries \/ entry[k] = NoEntry
  BY <1>0 DEF Types
<1>2. entry[k] \in Entries => entry[k].by \in Nat
  BY Given DEF Entries
<1> QED
  BY <1>1, <1>2 DEF Reply, FromEntry

LEMMA ReadEntryStep ==
    ASSUME Core, NEW t \in Threads, ReadEntry(t)
    PROVE  /\ Step(t, {"read", "reread"}, {"lock"})
           /\ UNCHANGED <<limitVars, idemVars, served, stamp>>
<1>1. Types /\ InHand(t)
  BY DEF Core
<1> DEFINE k == KeyOf(shape[t])
<1>2. pc[t] \in {"read", "reread"} /\ Tracked(shape[t]) /\ k \in Keys
  BY <1>1, TypesParts, Given DEF InHand, ReadEntry
<1>3. PICK broken \in BOOLEAN :
          LET e == Reply(k, broken)
              kind == FromEntry(e, shape[t].body) IN
          /\ May(broken) /\ Count(broken)
          /\ \/ kind # "" /\ Answer(t, kind, e.by)
             \/ kind = "" /\ pc[t] = "read" /\ GoOn(t, "lock")
             \/ kind = "" /\ pc[t] = "reread" /\ Answer(t, "busy", 0)
  BY DEF ReadEntry
<1> DEFINE kind == FromEntry(Reply(k, broken), shape[t].body)
<1>4. Goes(t, {"lock"})
  <2>1. CASE kind # "" /\ Answer(t, kind, Reply(k, broken).by)
    <3>1. kind \in Kinds /\ Reply(k, broken).by \in Nat
      <4>1. /\ kind \in {"", "conflict", "replay"}
            /\ kind # "" => Reply(k, broken).by \in Nat
        BY <1>1, <1>2, TypesParts, EntryFields
      <4> QED
        BY <2>1, <4>1 DEF Kinds
    <3>2. Goes(t, {})
      BY <1>1, <2>1, <3>1, AnswerGoes
    <3> QED
      BY <3>2, GoesWider
  <2>2. CASE GoOn(t, "lock")
    BY <1>1, <2>2, GoOnGoes
  <2>3. CASE Answer(t, "busy", 0)
    <3>1. Goes(t, {})
      BY <1>1, <2>3, AnswerGoes DEF Kinds
    <3> QED
      BY <3>1, GoesWider
  <2> QED
    BY <1>3, <2>1, <2>2, <2>3
<1>5. Chance
  BY <1>1, <1>3, Faults
<1>6. UNCHANGED <<setup, limitVars, idemVars, stamp, served>>
  BY DEF ReadEntry
<1>7. IdemTypes' /\ lapses' = lapses
  BY <1>1, <1>6, TypesParts DEF IdemTypes, idemVars
<1> QED
  BY <1>2, <1>4, <1>5, <1>6, <1>7, CommandStep

LEMMA TakeLockStep ==
    ASSUME Core, NEW t \in Threads, TakeLock(t)
    PROVE  /\ Step(t, {"lock"}, {"handler", "reread"})
           /\ Tracked(shape[t]) /\ KeyOf(shape[t]) \in Keys
           /\ UNCHANGED <<limitVars, entry, lapses, served, stamp>>
           /\ \E broken, got \in BOOLEAN :
                 /\ SetNx(KeyOf(shape[t]), shape[t].body, num[t], broken, got)
                 /\ pc'[t] = IF got THEN "handler" ELSE "reread"
<1>1. Types /\ InHand(t)
  BY DEF Core
<1> DEFINE k == KeyOf(shape[t])
<1>2. pc[t] = "lock" /\ Tracked(shape[t]) /\ k \in Keys /\ shape[t].body \in Bodies
      /\ num[t] \in Numbers
  <2>1. pc[t] = "lock"
    BY DEF TakeLock
  <2>2. num[t] \in Numbers
    BY <2>1, NumberInHand
  <2> QED
    BY <1>1, <2>1, <2>2, TypesParts, Given DEF InHand
<1>3. PICK broken \in BOOLEAN, got \in BOOLEAN :
          /\ May(broken) /\ Count(broken)
          /\ SetNx(k, shape[t].body, num[t], broken, got)
          /\ GoOn(t, IF got THEN "handler" ELSE "reread")
  BY DEF TakeLock
<1>4. Goes(t, {"handler", "reread"}) /\ pc'[t] = IF got THEN "handler" ELSE "reread"
  <2>1. Goes(t, {IF got THEN "handler" ELSE "reread"})
    BY <1>1, <1>3, GoOnGoes
  <2>2. {IF got THEN "handler" ELSE "reread"} \subseteq {"handler", "reread"}
    OBVIOUS
  <2>3. pc'[t] = IF got THEN "handler" ELSE "reread"
    BY <1>1, <1>3 DEF GoOn, Goto, Types
  <2> QED
    BY <2>1, <2>2, <2>3, GoesWider
<1>5. Chance
  BY <1>1, <1>3, Faults
<1>6. UNCHANGED <<setup, limitVars, stamp, served>>
  BY DEF TakeLock
<1>7. IdemTypes' /\ lapses' = lapses /\ entry' = entry
  BY <1>1, <1>2, <1>3, TypesParts, CommandTypes DEF SetNx
<1> QED
  BY <1>2, <1>3, <1>4, <1>5, <1>6, <1>7, CommandStep

LEMMA HandleStep ==
    ASSUME Core, NEW t \in Threads, Handle(t)
    PROVE  /\ Step(t, {"handler"}, {"store", "release"})
           /\ UNCHANGED <<limitVars, idemVars, stamp>>
           /\ Tracked(shape[t]) => pc'[t] \in {"store", "release"}
           /\ \/ served' = served
              \/ served' = served \cup {[num |-> num[t], shape |-> shape[t]]}
           /\ pc'[t] = "store" => [num |-> num[t], shape |-> shape[t]] \in served'
<1>1. Types /\ InHand(t)
  BY DEF Core
<1>2. PICK outcome \in {"ok", "failed"} :
          /\ served' = IF outcome = "ok" THEN served \cup {[num |-> num[t], shape |-> shape[t]]}
                       ELSE served
          /\ \/ Tracked(shape[t]) /\ GoOn(t, IF outcome = "ok" THEN "store" ELSE "release")
             \/ ~Tracked(shape[t]) /\ Answer(t, "ran", num[t])
  BY DEF Handle
<1>3. /\ Goes(t, {"store", "release"})
      /\ pc'[t] = "store" => outcome = "ok"
      /\ Tracked(shape[t]) => pc'[t] \in {"store", "release"}
      /\ pc'[t] # "idle" => Tracked(shape[t])
  <2>1. CASE Tracked(shape[t]) /\ GoOn(t, IF outcome = "ok" THEN "store" ELSE "release")
    <3>1. Goes(t, {IF outcome = "ok" THEN "store" ELSE "release"})
      BY <1>1, <2>1, GoOnGoes
    <3>2. {IF outcome = "ok" THEN "store" ELSE "release"} \subseteq {"store", "release"}
      OBVIOUS
    <3>3. pc'[t] = IF outcome = "ok" THEN "store" ELSE "release"
      BY <1>1, <2>1 DEF GoOn, Goto, Types
    <3> QED
      BY <2>1, <3>1, <3>2, <3>3, GoesWider
  <2>2. CASE ~Tracked(shape[t]) /\ Answer(t, "ran", num[t])
    <3>1. Goes(t, {}) /\ pc'[t] = "idle"
      BY <1>1, <2>2, TypesParts, AnswerGoes DEF Kinds
    <3> QED
      BY <2>2, <3>1, GoesWider
  <2> QED
    BY <1>2, <2>1, <2>2
<1>4. UNCHANGED <<setup, limitVars, idemVars, stamp, countVars>> /\ pc[t] = "handler"
  BY DEF Handle
<1>5. IdemTypes' /\ lapses' = lapses
  BY <1>1, <1>4, TypesParts DEF IdemTypes, idemVars
<1>6. Step(t, {"handler"}, {"store", "release"})
  BY <1>3, <1>4, <1>5, CommandStep
<1> QED
  BY <1>2, <1>3, <1>4, <1>6

LEMMA StoreEntryStep ==
    ASSUME Core, NEW t \in Threads, StoreEntry(t)
    PROVE  /\ Step(t, {"store"}, {"release"})
           /\ Tracked(shape[t]) /\ KeyOf(shape[t]) \in Keys /\ num[t] \in Numbers
           /\ pc'[t] = "release"
           /\ UNCHANGED <<limitVars, lock, lapses, served, stamp>>
           /\ \E broken \in BOOLEAN : Store(KeyOf(shape[t]), shape[t].body, num[t], broken)
<1>1. Types /\ InHand(t)
  BY DEF Core
<1> DEFINE k == KeyOf(shape[t])
<1>2. pc[t] = "store" /\ Tracked(shape[t]) /\ k \in Keys /\ shape[t].body \in Bodies
      /\ num[t] \in Numbers
  <2>1. pc[t] = "store"
    BY DEF StoreEntry
  <2>2. num[t] \in Numbers
    BY <2>1, NumberInHand
  <2> QED
    BY <1>1, <2>1, <2>2, TypesParts, Given DEF InHand
<1>3. PICK broken \in BOOLEAN :
          May(broken) /\ Count(broken) /\ Store(k, shape[t].body, num[t], broken)
  BY DEF StoreEntry
<1>4. Goes(t, {"release"}) /\ pc'[t] = "release"
  <2>1. GoOn(t, "release")
    BY DEF StoreEntry
  <2> QED
    BY <1>1, <2>1, GoOnGoes DEF GoOn, Goto, Types
<1>5. Chance
  BY <1>1, <1>3, Faults
<1>6. UNCHANGED <<setup, limitVars, stamp, served>>
  BY DEF StoreEntry
<1>7. IdemTypes' /\ lapses' = lapses /\ lock' = lock
  BY <1>1, <1>2, <1>3, TypesParts, CommandTypes DEF Store
<1> QED
  BY <1>2, <1>3, <1>4, <1>5, <1>6, <1>7, CommandStep

LEMMA ReleaseLockStep ==
    ASSUME Core, NEW t \in Threads, ReleaseLock(t)
    PROVE  /\ Step(t, {"release"}, {})
           /\ Tracked(shape[t]) /\ KeyOf(shape[t]) \in Keys
           /\ UNCHANGED <<limitVars, entry, lapses, served, stamp>>
           /\ \E broken \in BOOLEAN : CompareAndDelete(KeyOf(shape[t]), shape[t].body, broken)
<1>1. Types /\ InHand(t)
  BY DEF Core
<1> DEFINE k == KeyOf(shape[t])
<1>2. pc[t] = "release" /\ Tracked(shape[t]) /\ k \in Keys /\ shape[t].body \in Bodies
      /\ num[t] \in Numbers
  <2>1. pc[t] = "release"
    BY DEF ReleaseLock
  <2>2. num[t] \in Numbers
    BY <2>1, NumberInHand
  <2> QED
    BY <1>1, <2>1, <2>2, TypesParts, Given DEF InHand
<1>3. PICK broken \in BOOLEAN :
          May(broken) /\ Count(broken) /\ CompareAndDelete(k, shape[t].body, broken)
  BY DEF ReleaseLock
<1>4. Goes(t, {})
  <2>1. Answer(t, "ran", num[t])
    BY DEF ReleaseLock
  <2> QED
    BY <1>1, <2>1, TypesParts, AnswerGoes DEF Kinds
<1>5. Chance
  BY <1>1, <1>3, Faults
<1>6. UNCHANGED <<setup, limitVars, stamp, served>>
  BY DEF ReleaseLock
<1>7. IdemTypes' /\ lapses' = lapses /\ entry' = entry
  BY <1>1, <1>2, <1>3, TypesParts, CommandTypes DEF CompareAndDelete
<1>8. Goes(t, {}) => ~(pc'[t] \in {"read", "lock", "reread", "store", "release"})
  BY DEF Goes
<1> QED
  BY <1>2, <1>3, <1>4, <1>5, <1>6, <1>7, <1>8, CommandStep

-----------------------------------------------------------------------------
(* Every request in hand stays what it is.                                  *)
ServedGrows(t) ==
    /\ \/ served' = served
       \/ served' = served \cup {[num |-> num[t], shape |-> shape[t]]}
    /\ pc'[t] = "store" => [num |-> num[t], shape |-> shape[t]] \in served'

LEMMA StepKeepsCore ==
    ASSUME Core, NEW t \in Threads, NEW from, NEW to, Step(t, from, to),
           from \subseteq Places \ {"idle"}, to \subseteq Places, ServedGrows(t)
    PROVE  Core'
<1>1. Types /\ (\A u \in Threads : InHand(u)) /\ OwnNumbers /\ pc[t] # "idle"
  BY DEF Core, Step
<1>2. num[t] \in Numbers /\ num[t] # 0
  BY <1>1, NumberInHand
<1>3. Types'
  <2>1. /\ pc' \in [Threads -> Places] /\ shape' \in [Threads -> Shapes]
        /\ answer' \in [Threads -> Answers]
    <3>1. pc'[t] \in Places /\ shape'[t] \in Shapes
      BY <1>1, Given DEF Types, Step, Goes, Places
    <3>2. /\ pc' = [pc EXCEPT ![t] = pc'[t]] /\ shape' = [shape EXCEPT ![t] = shape'[t]]
          /\ pc \in [Threads -> Places] /\ shape \in [Threads -> Shapes]
      BY <1>1 DEF Types, Step, Goes
    <3> QED
      BY <3>1, <3>2 DEF Step, Goes
  <2>2. num' \in [Threads -> 0..setup.requests]
    <3>1. num'[t] \in 0..setup.requests
      BY <1>1, Given DEF Types, Step, Goes
    <3>2. num' = [num EXCEPT ![t] = num'[t]] /\ num \in [Threads -> 0..setup.requests]
      BY <1>1 DEF Types, Step, Goes
    <3> QED
      BY <3>1, <3>2
  <2>3. served' \subseteq [num : Numbers, shape : Shapes]
    BY <1>1, <1>2 DEF Types, ServedGrows
  <2>4. /\ setup' = setup /\ now' = now /\ lapses' = lapses
        /\ sent' = sent /\ faults' \in 0..setup.faults /\ crashes' = crashes
        /\ stamp' \in [Threads -> Nat] /\ LimitTypes' /\ IdemTypes'
    BY DEF Step
  <2>5. /\ setup \in Setups /\ now \in 0..setup.time /\ lapses \in 0..setup.lapses
        /\ sent \in 0..setup.requests /\ crashes \in 0..setup.crashes
    BY <1>1 DEF Types
  <2> QED
    BY <2>1, <2>2, <2>3, <2>4, <2>5 DEF Types, LimitTypes, IdemTypes
<1>4. ASSUME NEW u \in Threads PROVE InHand(u)'
  <2>1. CASE u = t
    <3>1. pc'[t] # "idle" => shape'[t] = shape[t] /\ num'[t] = num[t]
      BY DEF Step, Goes
    <3>2. num[t] \in 1..sent /\ Refusal(shape[t]) = "" /\ sent' = sent
      BY <1>1 DEF InHand, Step
    <3>3. pc'[t] \in {"read", "lock", "reread", "store", "release"} => Tracked(shape[t])
      BY DEF Step
    <3>4. pc'[t] = "store" => [num |-> num[t], shape |-> shape[t]] \in served'
      BY DEF ServedGrows
    <3> QED
      BY <2>1, <3>1, <3>2, <3>3, <3>4 DEF InHand
  <2>2. CASE u # t
    <3>1. pc'[u] = pc[u] /\ shape'[u] = shape[u] /\ num'[u] = num[u]
      BY <1>1, <2>2 DEF Step, Goes, Types
    <3>2. sent' = sent /\ served \subseteq served'
      BY DEF Step, ServedGrows
    <3> QED
      BY <1>1, <3>1, <3>2 DEF InHand
  <2> QED
    BY <2>1, <2>2
<1>5. OwnNumbers'
  <2> SUFFICES ASSUME NEW u \in Threads, NEW v \in Threads, u # v,
                      pc'[u] # "idle", pc'[v] # "idle"
               PROVE  num'[u] # num'[v]
    BY DEF OwnNumbers
  <2>1. \A w \in Threads : pc'[w] # "idle" => num'[w] = num[w] /\ pc[w] # "idle"
    BY <1>1 DEF Step, Goes, Types
  <2> QED
    BY <1>1, <2>1 DEF OwnNumbers
<1> QED
  BY <1>3, <1>4, <1>5 DEF Core

LEMMA ServeKeepsCore ==
    ASSUME Core, NEW t \in Threads, Serve(t) PROVE Core' /\ ServedGrows(t)
<1>1. CASE LimitRate(t)
  <2>1. Step(t, {"limit"}, {"read", "handler"})
    BY <1>1, LimitRateStep
  <2>2. ServedGrows(t)
    BY <1>1, <2>1 DEF LimitRate, ServedGrows, Step, Goes
  <2> QED
    BY <2>1, <2>2, StepKeepsCore DEF Places
<1>2. CASE ReadEntry(t)
  <2>1. Step(t, {"read", "reread"}, {"lock"}) /\ served' = served
    BY <1>2, ReadEntryStep
  <2>2. ServedGrows(t)
    BY <2>1 DEF ServedGrows, Step, Goes
  <2> QED
    BY <2>1, <2>2, StepKeepsCore DEF Places
<1>3. CASE TakeLock(t)
  <2>1. Step(t, {"lock"}, {"handler", "reread"}) /\ served' = served
    BY <1>3, TakeLockStep
  <2>2. ServedGrows(t)
    BY <2>1 DEF ServedGrows, Step, Goes
  <2> QED
    BY <2>1, <2>2, StepKeepsCore DEF Places
<1>4. CASE Handle(t)
  <2>1. Step(t, {"handler"}, {"store", "release"}) /\ ServedGrows(t)
    BY <1>4, HandleStep DEF ServedGrows
  <2> QED
    BY <2>1, StepKeepsCore DEF Places
<1>5. CASE StoreEntry(t)
  <2>1. Step(t, {"store"}, {"release"}) /\ served' = served
    BY <1>5, StoreEntryStep
  <2>2. ServedGrows(t)
    BY <2>1 DEF ServedGrows, Step, Goes
  <2> QED
    BY <2>1, <2>2, StepKeepsCore DEF Places
<1>6. CASE ReleaseLock(t)
  <2>1. Step(t, {"release"}, {}) /\ served' = served
    BY <1>6, ReleaseLockStep
  <2>2. ServedGrows(t)
    BY <2>1 DEF ServedGrows, Step, Goes
  <2> QED
    BY <2>1, <2>2, StepKeepsCore DEF Places
<1> QED
  BY <1>1, <1>2, <1>3, <1>4, <1>5, <1>6 DEF Serve

LEMMA ArriveKeepsCore ==
    ASSUME Core, NEW t \in Threads, NEW s \in Shapes, Arrive(t, s)
    PROVE  Core'
<1>1. Types /\ (\A u \in Threads : InHand(u)) /\ OwnNumbers
  BY DEF Core
<1>2. /\ sent \in Nat /\ setup.requests \in Nat /\ sent <= setup.requests
      /\ sent < setup.requests /\ sent' = sent + 1 /\ pc[t] = "idle"
  <2>1. sent \in 0..setup.requests /\ setup.requests \in Nat
    BY <1>1, Given DEF Types
  <2>2. sent < setup.requests /\ sent' = sent + 1 /\ pc[t] = "idle"
    BY DEF Arrive
  <2> QED
    BY <2>1, <2>2
<1>8. /\ pc \in [Threads -> Places] /\ shape \in [Threads -> Shapes]
      /\ num \in [Threads -> 0..setup.requests] /\ stamp \in [Threads -> Nat]
      /\ answer \in [Threads -> Answers]
  BY <1>1 DEF Types
<1>3. now \in Nat /\ Skew[InstanceOf[t]] \in Nat
  BY <1>1, Given, TypesParts
<1>4. UNCHANGED <<setup, limitVars, idemVars, faults, crashes, served>>
  BY DEF Arrive
<1>5. NoAnswer \in Answers
  BY Given DEF NoAnswer, Answers, Kinds
<1>6. CASE /\ Refusal(s) = ""
           /\ num' = [num EXCEPT ![t] = sent + 1]
           /\ shape' = [shape EXCEPT ![t] = s]
           /\ Goto(t, "limit")
           /\ stamp' = [stamp EXCEPT ![t] = now + Skew[InstanceOf[t]]]
           /\ answer' = [answer EXCEPT ![t] = NoAnswer]
  <2>1. Types'
    <3>1. pc' \in [Threads -> Places] /\ shape' \in [Threads -> Shapes]
      BY <1>8, <1>6 DEF Goto, Places
    <3>2. num' \in [Threads -> 0..setup.requests] /\ sent' \in 0..setup.requests
      <4>1. sent + 1 \in 0..setup.requests
        BY <1>2
      <4> QED
        BY <1>2, <1>8, <1>6, <4>1
    <3>3. stamp' \in [Threads -> Nat] /\ answer' \in [Threads -> Answers]
      <4>1. now + Skew[InstanceOf[t]] \in Nat
        BY <1>3
      <4> QED
        BY <1>8, <1>5, <1>6, <4>1
    <3> QED
      BY <1>1, <1>4, <3>1, <3>2, <3>3 DEF Types, limitVars, idemVars
  <2>2. ASSUME NEW u \in Threads PROVE InHand(u)'
    <3>1. CASE u = t
      <4>1. num'[t] \in 1..sent' /\ shape'[t] = s /\ pc'[t] = "limit"
        <5>1. num'[t] = sent + 1 /\ shape'[t] = s /\ pc'[t] = "limit"
          BY <1>8, <1>6 DEF Goto
        <5> QED
          BY <1>2, <5>1
      <4> QED
        BY <3>1, <4>1, <1>6 DEF InHand
    <3>2. CASE u # t
      <4>1. pc'[u] = pc[u] /\ shape'[u] = shape[u] /\ num'[u] = num[u]
        BY <1>1, <1>6, <3>2 DEF Types, Goto
      <4>2. num[u] \in 1..sent => num[u] \in 1..sent'
        BY <1>2
      <4> QED
        BY <1>1, <1>4, <4>1, <4>2 DEF InHand
    <3> QED
      BY <3>1, <3>2
  <2>3. OwnNumbers'
    <3>1. \A u \in Threads : pc[u] # "idle" => num[u] \in 1..sent
      BY <1>1 DEF InHand
    <3>2. num'[t] = sent + 1
      BY <1>1, <1>6 DEF Types
    <3>3. \A u \in Threads \ {t} : pc'[u] = pc[u] /\ num'[u] = num[u]
      BY <1>1, <1>6 DEF Types, Goto
    <3>4. \A u \in Threads \ {t} : pc'[u] # "idle" => num'[u] # num'[t]
      BY <1>2, <3>1, <3>2, <3>3
    <3> QED
      BY <1>1, <3>3, <3>4 DEF OwnNumbers
  <2> QED
    BY <2>1, <2>2, <2>3 DEF Core
<1>7. CASE /\ Refusal(s) # ""
           /\ answer' = [answer EXCEPT ![t] =
                           [kind |-> Refusal(s), by |-> 0, of |-> sent + 1, shape |-> s]]
           /\ UNCHANGED <<pc, stamp, shape, num>>
  <2>1. Types'
    <3>1. [kind |-> Refusal(s), by |-> 0, of |-> sent + 1, shape |-> s] \in Answers
      <4>1. Refusal(s) \in Kinds
        BY <1>7 DEF Refusal, Kinds
      <4> QED
        BY <1>2, <4>1 DEF Answers
    <3>2. answer' \in [Threads -> Answers]
      BY <1>8, <1>7, <3>1
    <3>3. sent' \in 0..setup.requests
      BY <1>2
    <3> QED
      BY <1>1, <1>4, <1>7, <3>2, <3>3 DEF Types, limitVars, idemVars
  <2>2. ASSUME NEW u \in Threads PROVE InHand(u)'
    <3>1. num[u] \in 1..sent => num[u] \in 1..sent'
      BY <1>2
    <3> QED
      BY <1>1, <1>4, <1>7, <3>1 DEF InHand
  <2>3. OwnNumbers'
    BY <1>1, <1>7 DEF OwnNumbers
  <2> QED
    BY <2>1, <2>2, <2>3 DEF Core
<1> QED
  BY <1>6, <1>7 DEF Arrive

LEMMA CrashKeepsCore ==
    ASSUME Core, NEW i, Crash(i) PROVE Core'
<1>1. Types /\ (\A u \in Threads : InHand(u)) /\ OwnNumbers
  BY DEF Core
<1>2. crashes' \in 0..setup.crashes
  BY <1>1, Given DEF Types, Crash
<1>3. /\ UNCHANGED <<setup, limitVars, idemVars, answer, sent, faults, served>>
      /\ pc' \in [Threads -> Places] /\ shape' \in [Threads -> Shapes]
  BY <1>1, Given DEF Crash, Types, Places
<1>4. num' \in [Threads -> 0..setup.requests]
  <2>1. 0 \in 0..setup.requests
    BY <1>1, Given DEF Types
  <2> QED
    BY <1>1, <2>1 DEF Crash, Types
<1>5. stamp' \in [Threads -> Nat]
  BY <1>1 DEF Crash, Types
<1>6. Types'
  BY <1>1, <1>2, <1>3, <1>4, <1>5 DEF Types, limitVars, idemVars
<1>7. \A u \in Threads : pc'[u] # "idle" =>
          pc'[u] = pc[u] /\ shape'[u] = shape[u] /\ num'[u] = num[u]
  BY DEF Crash
<1>8. ASSUME NEW u \in Threads PROVE InHand(u)'
  BY <1>1, <1>3, <1>7 DEF InHand
<1>9. OwnNumbers'
  BY <1>1, <1>7 DEF OwnNumbers
<1> QED
  BY <1>6, <1>8, <1>9 DEF Core

(* The timers of Redis, the clock, and a step that changes nothing.         *)
LEMMA TimerKeepsCore ==
    ASSUME Core, (\E k \in Keys : LockTimeout(k) \/ EntryTimeout(k)) \/ TimePasses
                 \/ UNCHANGED vars
    PROVE  Core' /\ UNCHANGED <<setup, threadVars, countVars, served>>
<1>1. Types /\ (\A u \in Threads : InHand(u)) /\ OwnNumbers
  BY DEF Core
<1>2. UNCHANGED <<setup, threadVars, countVars, served>>
  BY DEF LockTimeout, EntryTimeout, TimePasses, vars
<1>3. LimitTypes' /\ IdemTypes' /\ now' \in 0..setup.time /\ lapses' \in 0..setup.lapses
  <2>1. CASE \E k \in Keys : LockTimeout(k)
    <3>1. PICK k \in Keys : LockTimeout(k)
      BY <2>1
    <3>2. IdemTypes' /\ UNCHANGED limitVars
      BY <1>1, <3>1 DEF LockTimeout, LockExpires, IdemTypes, Types
    <3>3. lapses' \in 0..setup.lapses
      BY <1>1, <3>1, Given DEF LockTimeout, LockExpires, Types
    <3> QED
      BY <1>1, <3>2, <3>3 DEF Types, LimitTypes, limitVars
  <2>2. CASE \E k \in Keys : EntryTimeout(k)
    BY <1>1, <2>2 DEF EntryTimeout, EntryExpires, IdemTypes, LimitTypes, Types, limitVars
  <2>3. CASE TimePasses
    <3>1. now' \in 0..setup.time
      BY <1>1, <2>3, Given DEF TimePasses, Tick, Types
    <3> QED
      BY <1>1, <2>3, <3>1 DEF TimePasses, Tick, IdemTypes, LimitTypes, Types, idemVars
  <2>4. CASE UNCHANGED vars
    BY <1>1, <2>4 DEF vars, IdemTypes, LimitTypes, Types, idemVars, limitVars
  <2> QED
    BY <2>1, <2>2, <2>3, <2>4
<1>4. Types'
  BY <1>1, <1>2, <1>3 DEF Types, LimitTypes, IdemTypes, threadVars, countVars
<1>5. ASSUME NEW u \in Threads PROVE InHand(u)'
  BY <1>1, <1>2 DEF InHand, threadVars, countVars
<1>6. OwnNumbers'
  BY <1>1, <1>2 DEF OwnNumbers, threadVars
<1> QED
  BY <1>2, <1>4, <1>5, <1>6 DEF Core

LEMMA InitCore == Init => Core
<1> SUFFICES ASSUME Init PROVE Core
  OBVIOUS
<1>1. setup \in Setups /\ 0 \in 0..setup.time /\ 0 \in 0..setup.lapses
      /\ 0 \in 0..setup.requests /\ 0 \in 0..setup.faults /\ 0 \in 0..setup.crashes
  BY Given DEF Init
<1>2. NoAnswer \in Answers /\ AnyShape \in Shapes
  BY Given DEF NoAnswer, Answers, Kinds
<1>3. zset = [k \in LimitKeys |-> {}] /\ expireAt = [k \in LimitKeys |-> 0]
  BY DEF Init, LimitKeys
<1>4. Types
  BY <1>1, <1>2, <1>3 DEF Init, Types, Places
<1>5. ASSUME NEW t \in Threads PROVE InHand(t)
  BY DEF Init, InHand
<1>6. OwnNumbers
  BY DEF Init, OwnNumbers
<1> QED
  BY <1>4, <1>5, <1>6 DEF Core

LEMMA CoreInvariant == Spec => []Core
<1>1. Core /\ [Next]_vars => Core'
  BY ServeKeepsCore, ArriveKeepsCore, CrashKeepsCore, TimerKeepsCore DEF Next
<1> QED
  BY InitCore, <1>1, PTL DEF Spec

(* The types of the server, of the middleware and of its bounds hold.       *)
THEOREM TypeCorrectness == Spec => []TypeOK
<1>1. Core => TypeOK
  BY DEF Core, Types, TypeOK
<1> QED
  BY <1>1, CoreInvariant, PTL

-----------------------------------------------------------------------------
(* The contract of OncePerKey.                                              *)
InMiddleware == {"handler", "store", "release"}
OfKey(t, k) == Tracked(shape[t]) /\ KeyOf(shape[t]) = k

(* A step of a thread moves that thread in or out, and no other.            *)
LEMMA StepMoves ==
    ASSUME Core, NEW t \in Threads, NEW from, NEW to, Step(t, from, to), NEW k
    PROVE  /\ Holders(k)' = IF pc'[t] \in InMiddleware /\ OfKey(t, k)
                            THEN Holders(k) \cup {t} ELSE Holders(k) \ {t}
           /\ \A u \in Holders(k)' : num'[u] = num[u] /\ shape'[u] = shape[u]
<1>1. \A u \in Threads \ {t} : pc'[u] = pc[u] /\ shape'[u] = shape[u] /\ num'[u] = num[u]
  BY DEF Core, Types, Step, Goes
<1>2. pc'[t] # "idle" => shape'[t] = shape[t] /\ num'[t] = num[t]
  BY DEF Step, Goes
<1> QED
  BY <1>1, <1>2 DEF Holders, OfKey, InMiddleware

(* Running(k) before and after a step that leaves the requests of its       *)
(* holders as they were.                                                    *)
LEMMA TicketsStay ==
    ASSUME NEW k, \A u \in Holders(k)' : num'[u] = num[u] /\ shape'[u] = shape[u]
    PROVE  Running(k)' = {Ticket(u) : u \in Holders(k)'}
<1>1. Running(k)' = {Ticket(u)' : u \in Holders(k)'}
  BY DEF Running
<1>2. \A u \in Holders(k)' : Ticket(u)' = Ticket(u)
  BY DEF Ticket
<1> HIDE DEF Ticket
<1> QED
  BY <1>1, <1>2

LEMMA TicketFields ==
    ASSUME NEW t PROVE Ticket(t).num = num[t] /\ Ticket(t).body = shape[t].body
  BY DEF Ticket

(* Each handler of a key has a number of its own.                           *)
LEMMA OwnTickets ==
    ASSUME Core, NEW t \in Threads, pc[t] # "idle", NEW k
    PROVE  /\ \A u \in Holders(k) \ {t} : Ticket(u).num # num[t]
           /\ Ticket(t) \in Running(k) <=> t \in Holders(k)
           /\ \A r \in Running(k) : r.num = num[t] => t \in Holders(k) /\ r = Ticket(t)
<1>1. \A u \in Holders(k) : u \in Threads /\ pc[u] # "idle" /\ Ticket(u).num = num[u]
  BY TicketFields DEF Holders
<1>2. \A u \in Holders(k) \ {t} : Ticket(u).num # num[t]
  BY <1>1 DEF Core, OwnNumbers
<1>3. \A u \in Holders(k) : Ticket(u).num = num[t] => u = t
  BY <1>2
<1>4. Running(k) = {Ticket(u) : u \in Holders(k)}
  BY DEF Running
<1>5. Ticket(t).num = num[t]
  BY TicketFields
<1> QED
  BY <1>2, <1>3, <1>4, <1>5

LEMMA TicketTypes ==
    ASSUME Core, NEW t \in Threads, pc[t] # "idle"
    PROVE  Ticket(t) \in [num : Numbers, body : Bodies]
<1>1. num[t] \in Numbers /\ shape[t].body \in Bodies
  BY NumberInHand, TypesParts, Given DEF Core
<1> QED
  BY <1>1 DEF Ticket

LEMMA RunningMoves ==
    ASSUME Core, NEW t \in Threads, NEW from, NEW to, Step(t, from, to), NEW k, pc[t] # "idle"
    PROVE  Running(k)' = IF pc'[t] \in InMiddleware /\ OfKey(t, k)
                         THEN Running(k) \cup {Ticket(t)} ELSE Running(k) \ {Ticket(t)}
<1>1. Running(k) = {Ticket(u) : u \in Holders(k)}
  BY DEF Running
<1>2. Running(k)' = {Ticket(u) : u \in Holders(k)'}
  BY StepMoves, TicketsStay
<1>3. \A u \in Holders(k) \ {t} : Ticket(u) # Ticket(t)
  BY OwnTickets, TicketFields
<1>4. CASE pc'[t] \in InMiddleware /\ OfKey(t, k)
  <2>1. Holders(k)' = Holders(k) \cup {t}
    BY <1>4, StepMoves
  <2> QED
    BY <1>1, <1>2, <1>4, <2>1
<1>5. CASE ~(pc'[t] \in InMiddleware /\ OfKey(t, k))
  <2>1. Holders(k)' = Holders(k) \ {t}
    BY <1>5, StepMoves
  <2> QED
    BY <1>1, <1>2, <1>3, <1>5, <2>1
<1> QED
  BY <1>4, <1>5

-----------------------------------------------------------------------------
(* Whose lock a lock is.                                                    *)
LEMMA NamedStays ==
    ASSUME LocksNamed, \A k \in Keys : lock'[k] \in {lock[k], NoLock},
           \A k \in Keys : /\ Holders(k)' \subseteq Holders(k)
                           /\ \A u \in Holders(k)' : num'[u] = num[u] /\ shape'[u] = shape[u]
    PROVE  LocksNamed'
  BY DEF LocksNamed, Owns

LEMMA TakeLockNamed ==
    ASSUME Core, LocksNamed, NEW t \in Threads, TakeLock(t) PROVE LocksNamed'
<1> DEFINE key == KeyOf(shape[t])
<1>1. Step(t, {"lock"}, {"handler", "reread"}) /\ Tracked(shape[t]) /\ key \in Keys
  BY TakeLockStep
<1>2. PICK broken \in BOOLEAN, got \in BOOLEAN :
          /\ SetNx(key, shape[t].body, num[t], broken, got)
          /\ pc'[t] = IF got THEN "handler" ELSE "reread"
  BY TakeLockStep
<1>3. lock \in [Keys -> Entries \cup {NoLock}] /\ pc[t] # "idle"
  BY <1>1 DEF Core, Types, Step
<1> SUFFICES ASSUME NEW k \in Keys, NEW u \in Holders(k)', Owns(u, k)'
             PROVE  lock'[k].body = shape'[u].body
  BY DEF LocksNamed
<1>4. /\ num'[u] = num[u] /\ shape'[u] = shape[u]
      /\ u \in Holders(k) \/ u = t
  BY <1>1, StepMoves
<1>5. u \in Threads /\ (u # t => pc[u] # "idle" /\ num[u] # num[t])
  BY <1>3, <1>4 DEF Holders, Core, OwnNumbers
<1>6. CASE lock'[k] = lock[k]
  <2>1. CASE u \in Holders(k)
    BY <1>4, <1>6, <2>1 DEF LocksNamed, Owns
  <2>2. CASE u \notin Holders(k)
    <3>1. u = t /\ pc'[t] \in InMiddleware /\ OfKey(t, k)
      BY <1>1, <1>4, <2>2, StepMoves
    <3>2. got /\ k = key
      BY <1>2, <3>1 DEF InMiddleware, OfKey
    <3>3. lock[k] = NoLock
      BY <1>2, <3>2 DEF SetNx
    <3> QED
      BY <1>6, <3>3 DEF Owns
  <2> QED
    BY <2>1, <2>2
<1>7. CASE lock'[k] # lock[k]
  <2>1. k = key /\ lock'[k] = [body |-> shape[t].body, by |-> num[t]]
    BY <1>1, <1>2, <1>3, <1>7 DEF SetNx
  <2>2. u = t
    BY <1>4, <1>5, <2>1 DEF Owns
  <2> QED
    BY <1>4, <2>1, <2>2
<1> QED
  BY <1>6, <1>7

(* A thread that does not enter the middleware.                             *)
LEMMA StepNamed ==
    ASSUME Core, LocksNamed, NEW t \in Threads, NEW from, NEW to, Step(t, from, to),
           \A k \in Keys : lock'[k] \in {lock[k], NoLock},
           pc'[t] \in InMiddleware => pc[t] \in InMiddleware \/ ~Tracked(shape[t])
    PROVE  LocksNamed'
<1> SUFFICES ASSUME NEW k \in Keys
             PROVE  /\ Holders(k)' \subseteq Holders(k)
                    /\ \A u \in Holders(k)' : num'[u] = num[u] /\ shape'[u] = shape[u]
  BY NamedStays
<1>1. pc'[t] \in InMiddleware /\ OfKey(t, k) => t \in Holders(k)
  BY DEF InMiddleware, OfKey, Holders
<1> QED
  BY <1>1, StepMoves

LEMMA NextNamed ==
    ASSUME Core, LocksNamed, [Next]_vars PROVE LocksNamed'
<1>0. DOMAIN lock = Keys
  BY DEF Core, Types
<1>1. ASSUME NEW t \in Threads, Serve(t) PROVE LocksNamed'
  <2>1. CASE LimitRate(t)
    <3>1. Step(t, {"limit"}, {"read", "handler"}) /\ lock' = lock
      BY <2>1, LimitRateStep DEF LimitRate, idemVars
    <3>2. pc'[t] \in InMiddleware => pc'[t] = "handler"
      BY <3>1 DEF Step, Goes, InMiddleware
    <3> QED
      BY <2>1, <3>1, <3>2, HandlerIsUntracked, StepNamed
  <2>2. CASE ReadEntry(t)
    <3>1. Step(t, {"read", "reread"}, {"lock"}) /\ lock' = lock
      BY <2>2, ReadEntryStep DEF idemVars
    <3>2. pc'[t] \notin InMiddleware
      BY <3>1 DEF Step, Goes, InMiddleware
    <3> QED
      BY <3>1, <3>2, StepNamed
  <2>3. CASE TakeLock(t)
    BY <2>3, TakeLockNamed
  <2>4. CASE Handle(t)
    <3>1. Step(t, {"handler"}, {"store", "release"}) /\ lock' = lock
      BY <2>4, HandleStep DEF idemVars
    <3> QED
      BY <3>1, StepNamed DEF Step, InMiddleware
  <2>5. CASE StoreEntry(t)
    <3>1. Step(t, {"store"}, {"release"}) /\ lock' = lock
      BY <2>5, StoreEntryStep
    <3> QED
      BY <3>1, StepNamed DEF Step, InMiddleware
  <2>6. CASE ReleaseLock(t)
    <3>1. Step(t, {"release"}, {})
      BY <2>6, ReleaseLockStep
    <3>2. \A k \in Keys : lock'[k] \in {lock[k], NoLock}
      BY <1>0, <2>6, ReleaseLockStep DEF CompareAndDelete
    <3> QED
      BY <3>1, <3>2, StepNamed DEF Step, InMiddleware
  <2> QED
    BY <1>1, <2>1, <2>2, <2>3, <2>4, <2>5, <2>6 DEF Serve
<1>2. ASSUME NEW t \in Threads, NEW s \in Shapes, Arrive(t, s) PROVE LocksNamed'
  <2>1. \A u \in Threads : \/ pc'[u] = pc[u] /\ shape'[u] = shape[u] /\ num'[u] = num[u]
                           \/ pc'[u] = "limit"
    BY <1>2 DEF Arrive, Goto, Core, Types
  <2>2. \A k \in Keys : /\ Holders(k)' \subseteq Holders(k)
                        /\ \A u \in Holders(k)' : num'[u] = num[u] /\ shape'[u] = shape[u]
    BY <2>1 DEF Holders
  <2>3. lock' = lock
    BY <1>2 DEF Arrive, idemVars
  <2> QED
    BY <2>2, <2>3, NamedStays
<1>3. ASSUME NEW i, Crash(i) PROVE LocksNamed'
  <2>1. \A u \in Threads : pc'[u] # "idle" =>
            pc'[u] = pc[u] /\ shape'[u] = shape[u] /\ num'[u] = num[u]
    BY <1>3 DEF Crash
  <2>2. \A k \in Keys : /\ Holders(k)' \subseteq Holders(k)
                        /\ \A u \in Holders(k)' : num'[u] = num[u] /\ shape'[u] = shape[u]
    BY <2>1 DEF Holders
  <2>3. lock' = lock
    BY <1>3 DEF Crash, idemVars
  <2> QED
    BY <2>2, <2>3, NamedStays
<1>4. ASSUME (\E k \in Keys : LockTimeout(k) \/ EntryTimeout(k)) \/ TimePasses
             \/ UNCHANGED vars
      PROVE  LocksNamed'
  <2>1. UNCHANGED threadVars
    BY <1>4, TimerKeepsCore
  <2>2. \A k \in Keys : lock'[k] \in {lock[k], NoLock}
    BY <1>0, <1>4 DEF LockTimeout, LockExpires, EntryTimeout, EntryExpires, TimePasses, vars,
                      idemVars
  <2>3. \A k \in Keys : /\ Holders(k)' \subseteq Holders(k)
                        /\ \A u \in Holders(k)' : num'[u] = num[u] /\ shape'[u] = shape[u]
    BY <2>1 DEF Holders, threadVars
  <2> QED
    BY <2>2, <2>3, NamedStays
<1> QED
  BY <1>1, <1>2, <1>3, <1>4 DEF Next

-----------------------------------------------------------------------------
(* Every step of the server is a step of the contract, or none.             *)
Runs == [k \in Keys |-> Running(k)]
Looses == [k \in Keys |-> Loose(k)]
Saved == [k \in Keys |-> IF entry[k] = NoEntry THEN 0 ELSE entry[k].by]
contractVars == <<Runs, Looses, Saved>>
Tickets == [num : Numbers, body : Bodies]

LEMMA BeginStep ==
    ASSUME NEW k \in Keys, NEW r \in Tickets, r \notin Running(k), Running(k) \subseteq Loose(k),
           Runs' = [Runs EXCEPT ![k] = @ \cup {r}], UNCHANGED <<Looses, Saved>>
    PROVE  Contract!Next
<1>1. Contract!Begin(k, r)
  BY DEF Contract!Begin, Runs, Looses, Saved
<1> QED
  BY <1>1 DEF Contract!Next, Tickets

LEMMA SaveStep ==
    ASSUME NEW k \in Keys, NEW r \in Tickets, r \in Running(k),
           Saved' = [Saved EXCEPT ![k] = r.num], UNCHANGED <<Runs, Looses>>
    PROVE  Contract!Next
<1>1. Contract!Save(k, r)
  BY DEF Contract!Save, Runs, Looses, Saved
<1> QED
  BY <1>1 DEF Contract!Next, Tickets

LEMMA FinishStep ==
    ASSUME NEW k \in Keys, NEW r \in Tickets, r \in Running(k),
           Runs' = [Runs EXCEPT ![k] = @ \ {r}], Looses' = [Looses EXCEPT ![k] = @ \ {r}],
           Saved' = Saved
    PROVE  Contract!Next
<1>1. Contract!Finish(k, r)
  BY DEF Contract!Finish, Runs, Looses, Saved
<1> QED
  BY <1>1 DEF Contract!Next, Tickets

LEMMA TwinStep ==
    ASSUME NEW k \in Keys, NEW r \in Tickets, r \in Loose(k),
           Runs' = [Runs EXCEPT ![k] = @ \ {r}],
           Looses' = [Looses EXCEPT ![k] =
                          (@ \cup {q \in Running(k) : q.body = r.body}) \ {r}],
           Saved' = Saved
    PROVE  Contract!Next
<1>1. Contract!FinishForTwin(k, r)
  BY DEF Contract!FinishForTwin, Contract!Twins, Runs, Looses, Saved
<1> QED
  BY <1>1 DEF Contract!Next, Tickets

LEMMA OtherSteps ==
    /\ \A k \in Keys : Looses' = [Looses EXCEPT ![k] = Running(k)] /\ UNCHANGED <<Runs, Saved>>
                       => Contract!Next
    /\ \A k \in Keys : Saved' = [Saved EXCEPT ![k] = 0] /\ UNCHANGED <<Runs, Looses>>
                       => Contract!Next
    /\ \A dead \in SUBSET Tickets :
          /\ Runs' = [k \in Keys |-> Running(k) \ dead]
          /\ Looses' = [k \in Keys |-> Loose(k) \ dead] /\ Saved' = Saved
          => Contract!Next
<1>1. ASSUME NEW k \in Keys, Looses' = [Looses EXCEPT ![k] = Running(k)],
             UNCHANGED <<Runs, Saved>>
      PROVE  Contract!Next
  <2>1. Contract!LockTimesOut(k)
    BY <1>1 DEF Contract!LockTimesOut, Runs, Looses, Saved
  <2> QED
    BY <2>1 DEF Contract!Next
<1>2. ASSUME NEW k \in Keys, Saved' = [Saved EXCEPT ![k] = 0], UNCHANGED <<Runs, Looses>>
      PROVE  Contract!Next
  <2>1. Contract!Forget(k)
    BY <1>2 DEF Contract!Forget, Runs, Looses, Saved
  <2> QED
    BY <2>1 DEF Contract!Next
<1>3. ASSUME NEW dead \in SUBSET Tickets, Runs' = [k \in Keys |-> Running(k) \ dead],
             Looses' = [k \in Keys |-> Loose(k) \ dead], Saved' = Saved
      PROVE  Contract!Next
  <2>1. Contract!Die
    BY <1>3 DEF Contract!Die, Runs, Looses, Saved, Tickets
  <2> QED
    BY <2>1 DEF Contract!Next
<1> QED
  BY <1>1, <1>2, <1>3

LEMMA SavedStays == entry' = entry => Saved' = Saved
  BY DEF Saved

(* Nobody enters or leaves, and no lock changes hands.                      *)
LEMMA LooseStays ==
    ASSUME lock' = lock, Runs' = Runs PROVE Looses' = Looses
<1>1. ASSUME NEW k \in Keys PROVE Loose(k)' = Loose(k)
  <2>1. Running(k)' = Running(k)
    BY DEF Runs
  <2> QED
    BY <2>1 DEF Loose
<1> QED
  BY <1>1 DEF Looses

LEMMA RunsStay ==
    ASSUME Core, NEW t \in Threads, NEW from, NEW to, Step(t, from, to), pc[t] # "idle",
           Tracked(shape[t]) => (pc'[t] \in InMiddleware <=> pc[t] \in InMiddleware)
    PROVE  Runs' = Runs
<1>1. ASSUME NEW k \in Keys PROVE Running(k)' = Running(k)
  <2>1. Running(k)' = IF pc'[t] \in InMiddleware /\ OfKey(t, k)
                      THEN Running(k) \cup {Ticket(t)} ELSE Running(k) \ {Ticket(t)}
    BY RunningMoves
  <2>2. Ticket(t) \in Running(k) <=> pc[t] \in InMiddleware /\ OfKey(t, k)
    BY OwnTickets DEF Holders, InMiddleware, OfKey
  <2> QED
    BY <2>1, <2>2 DEF OfKey
<1> QED
  BY <1>1 DEF Runs

LEMMA TakeLockMeets ==
    ASSUME Core, NEW t \in Threads, TakeLock(t)
    PROVE  Contract!Next \/ UNCHANGED contractVars
<1> DEFINE key == KeyOf(shape[t])
<1>1. /\ Step(t, {"lock"}, {"handler", "reread"}) /\ entry' = entry
      /\ Tracked(shape[t]) /\ key \in Keys
  BY TakeLockStep
<1>2. PICK broken \in BOOLEAN, got \in BOOLEAN :
          /\ SetNx(key, shape[t].body, num[t], broken, got)
          /\ pc'[t] = IF got THEN "handler" ELSE "reread"
  BY TakeLockStep
<1>3. pc[t] = "lock" /\ Ticket(t) \in Tickets /\ Ticket(t).num = num[t]
  BY <1>1, TicketTypes, TicketFields DEF Step, Tickets
<1>4. \A k \in Keys : t \notin Holders(k)
  BY <1>3 DEF Holders
<1>5. \A k \in Keys : Ticket(t) \notin Running(k) /\ \A r \in Running(k) : r.num # num[t]
  BY <1>3, <1>4, OwnTickets
<1>6. DOMAIN lock = Keys
  BY DEF Core, Types
(* A new lock is the thread's own, and was nobody's before.                 *)
<1>7. ASSUME NEW k \in Keys
      PROVE  /\ {r \in Running(k) : lock'[k] # NoLock => lock'[k].by # r.num} = Loose(k)
             /\ k # key => lock'[k] = lock[k]
  <2>1. CASE lock'[k] = lock[k]
    BY <2>1 DEF Loose
  <2>2. CASE lock'[k] # lock[k]
    <3>1. /\ k = key /\ lock[k] = NoLock
          /\ lock'[k] = [body |-> shape[t].body, by |-> num[t]]
      BY <1>1, <1>2, <1>6, <2>2 DEF SetNx
    <3>2. lock'[k].by = num[t]
      BY <3>1
    <3>3. Loose(k) = Running(k)
      BY <3>1 DEF Loose
    <3> QED
      BY <1>5, <3>1, <3>2, <3>3
  <2> QED
    BY <2>1, <2>2
<1>8. CASE ~got
  <2>1. pc'[t] = "reread"
    BY <1>2, <1>8
  <2>2. Runs' = Runs
    BY <1>1, <1>3, <2>1, RunsStay DEF InMiddleware
  <2>3. ASSUME NEW k \in Keys PROVE Loose(k)' = Loose(k)
    <3>1. Running(k)' = Running(k)
      BY <2>2 DEF Runs
    <3> QED
      BY <1>7, <3>1 DEF Loose
  <2>4. Looses' = Looses
    BY <2>3 DEF Looses
  <2> QED
    BY <1>1, <2>2, <2>4, SavedStays DEF contractVars
<1>9. CASE got
  <2>1. /\ lock[key] = NoLock /\ pc'[t] = "handler"
        /\ lock'[key] = [body |-> shape[t].body, by |-> num[t]]
    BY <1>1, <1>2, <1>6, <1>9 DEF SetNx
  <2>2. ASSUME NEW k \in Keys
        PROVE  Running(k)' = IF k = key THEN Running(k) \cup {Ticket(t)} ELSE Running(k)
    <3>1. Running(k)' = IF OfKey(t, k) THEN Running(k) \cup {Ticket(t)}
                        ELSE Running(k) \ {Ticket(t)}
      BY <1>1, <1>3, <2>1, RunningMoves DEF InMiddleware
    <3>2. Running(k) \ {Ticket(t)} = Running(k)
      BY <1>5
    <3> QED
      BY <1>1, <3>1, <3>2 DEF OfKey
  <2>3. Runs' = [Runs EXCEPT ![key] = @ \cup {Ticket(t)}]
    BY <1>1, <2>2 DEF Runs
  <2>4. ASSUME NEW k \in Keys PROVE Loose(k)' = Loose(k)
    <3>1. Loose(k)' = {r \in Running(k)' : lock'[k] # NoLock => lock'[k].by # r.num}
      BY DEF Loose
    <3>2. CASE k = key
      <4>1. lock'[key].by = Ticket(t).num /\ lock'[key] # NoLock
        <5>1. [body |-> shape[t].body, by |-> num[t]] \in Entries
          BY <1>3, NumberInHand, TypesParts, Given DEF Core, Entries
        <5> QED
          BY <1>3, <2>1, <5>1, Given
      <4>2. Running(k)' = Running(k) \cup {Ticket(t)}
        BY <2>2, <3>2
      <4>3. Loose(k)' = {r \in Running(k) : lock'[k] # NoLock => lock'[k].by # r.num}
        BY <3>1, <3>2, <4>1, <4>2
      <4> QED
        BY <1>7, <4>3
    <3>3. CASE k # key
      BY <1>7, <2>2, <3>1, <3>3
    <3> QED
      BY <3>2, <3>3
  <2>5. Looses' = Looses
    BY <2>4 DEF Looses
  <2>6. Running(key) \subseteq Loose(key)
    BY <2>1 DEF Loose
  <2> QED
    BY <1>1, <1>3, <1>5, <2>3, <2>5, <2>6, SavedStays, BeginStep
<1> QED
  BY <1>8, <1>9

LEMMA StoreEntryMeets ==
    ASSUME Core, NEW t \in Threads, StoreEntry(t)
    PROVE  Contract!Next \/ UNCHANGED contractVars
<1> DEFINE key == KeyOf(shape[t])
<1>1. /\ Step(t, {"store"}, {"release"}) /\ lock' = lock
      /\ Tracked(shape[t]) /\ key \in Keys /\ num[t] \in Numbers /\ pc'[t] = "release"
  BY StoreEntryStep
<1>2. PICK broken \in BOOLEAN : Store(key, shape[t].body, num[t], broken)
  BY StoreEntryStep
<1>3. pc[t] = "store"
  BY <1>1 DEF Step
<1>4. Runs' = Runs /\ Looses' = Looses
  BY <1>1, <1>3, RunsStay, LooseStays DEF InMiddleware
<1>5. Ticket(t) \in Tickets /\ Ticket(t) \in Running(key) /\ Ticket(t).num = num[t]
  <2>1. t \in Holders(key)
    BY <1>1, <1>3 DEF Holders
  <2> QED
    BY <1>3, <2>1, TicketTypes, TicketFields, OwnTickets DEF Tickets
<1>6. CASE broken
  BY <1>2, <1>4, <1>6, SavedStays DEF Store, contractVars
<1>7. CASE ~broken
  <2> DEFINE e == [body |-> shape[t].body, by |-> num[t]]
  <2>1. e # NoEntry
    <3>1. e \in Entries
      BY <1>1, TypesParts, Given DEF Core, Entries
    <3> QED
      BY <3>1, Given
  <2>2. entry' = [entry EXCEPT ![key] = e] /\ DOMAIN entry = Keys
    BY <1>2, <1>7 DEF Store, Core, Types
  <2>3. e.by = num[t]
    OBVIOUS
  <2> HIDE DEF e
  <2>4. Saved' = [Saved EXCEPT ![key] = num[t]]
    BY <1>1, <2>1, <2>2, <2>3 DEF Saved
  <2> QED
    BY <1>1, <1>4, <1>5, <2>4, SaveStep
<1> QED
  BY <1>6, <1>7

LEMMA LoosesAt ==
    ASSUME NEW key \in Keys, \A k \in Keys : k # key => Loose(k)' = Loose(k)
    PROVE  Looses' = [Looses EXCEPT ![key] = Loose(key)']
  BY DEF Looses

LEMMA ReleaseLockMeets ==
    ASSUME Core, LocksNamed, NEW t \in Threads, ReleaseLock(t) PROVE Contract!Next
<1>0. PICK key, r : key = KeyOf(shape[t]) /\ r = Ticket(t)
  OBVIOUS
<1>1. /\ Step(t, {"release"}, {}) /\ entry' = entry
      /\ Tracked(shape[t]) /\ key \in Keys
  BY <1>0, ReleaseLockStep
<1>2. PICK broken \in BOOLEAN : CompareAndDelete(key, shape[t].body, broken)
  BY <1>0, ReleaseLockStep
<1>3. pc[t] = "release" /\ pc'[t] \notin InMiddleware
  BY <1>1 DEF Step, Goes, InMiddleware
<1>4. /\ r \in Tickets /\ r \in Running(key) /\ r.num = num[t] /\ r.body = shape[t].body
      /\ t \in Holders(key)
  <2>1. t \in Holders(key)
    BY <1>0, <1>1, <1>3 DEF Holders
  <2> QED
    BY <1>0, <1>3, <2>1, TicketTypes, TicketFields, OwnTickets DEF Tickets
<1>5. \A k \in Keys : \A q \in Running(k) : q.num = r.num => q = r
  BY <1>0, <1>3, <1>4, OwnTickets
<1>6. DOMAIN lock = Keys
  BY DEF Core, Types
<1>7. ASSUME NEW k \in Keys
      PROVE  /\ Running(k)' = IF k = key THEN Running(k) \ {r} ELSE Running(k)
             /\ k # key => lock'[k] = lock[k]
  <2>1. Running(k)' = Running(k) \ {r}
    BY <1>0, <1>1, <1>3, RunningMoves
  <2>2. k # key => r \notin Running(k)
    <3>1. k # key => t \notin Holders(k)
      BY <1>0 DEF Holders
    <3> QED
      BY <1>0, <1>3, <3>1, OwnTickets
  <2>3. k # key => lock'[k] = lock[k]
    BY <1>1, <1>2, <1>6 DEF CompareAndDelete
  <2> QED
    BY <2>1, <2>2, <2>3
<1>8. Runs' = [Runs EXCEPT ![key] = @ \ {r}] /\ Saved' = Saved
  BY <1>1, <1>7, SavedStays DEF Runs
<1>9. ASSUME NEW k \in Keys, k # key PROVE Loose(k)' = Loose(k)
  BY <1>7, <1>9 DEF Loose
<1>10. CASE lock'[key] = lock[key] \/ (lock[key] # NoLock /\ lock[key].by = r.num
                                      /\ lock'[key] = NoLock)
  <2>1. Loose(key)' = Loose(key) \ {r}
    <3>1. Loose(key)' = {q \in Running(key) \ {r} : lock'[key] # NoLock => lock'[key].by # q.num}
      BY <1>1, <1>7 DEF Loose
    <3>2. CASE lock'[key] = lock[key]
      BY <3>1, <3>2 DEF Loose
    <3>3. CASE lock[key] # NoLock /\ lock[key].by = r.num /\ lock'[key] = NoLock
      <4>1. \A q \in Running(key) \ {r} : lock[key].by # q.num
        BY <1>1, <1>5, <3>3
      <4> QED
        BY <3>1, <3>3, <4>1 DEF Loose
    <3> QED
      BY <1>10, <3>2, <3>3
  <2>2. Looses' = [Looses EXCEPT ![key] = @ \ {r}]
    BY <1>1, <1>9, <2>1, LoosesAt DEF Looses
  <2> QED
    BY <1>1, <1>4, <1>8, <2>2, FinishStep
<1>11. CASE lock'[key] # lock[key] /\ lock[key].by # r.num
  <2>1. lock[key] # NoLock /\ lock[key].body = r.body /\ lock'[key] = NoLock
    BY <1>1, <1>2, <1>4, <1>6, <1>11 DEF CompareAndDelete
  <2>2. r \in Loose(key)
    BY <1>4, <1>11 DEF Loose
  (* Whoever owned the lock sent the same body.                             *)
  <2>3. ASSUME NEW q \in Running(key), q.num = lock[key].by PROVE q.body = r.body
    <3>1. PICK u \in Holders(key) : q = Ticket(u)
      BY DEF Running
    <3>2. Owns(u, key)
      BY <2>1, <2>3, <3>1, TicketFields DEF Owns
    <3>3. lock[key].body = shape[u].body
      BY <1>1, <3>1, <3>2 DEF LocksNamed
    <3> QED
      BY <2>1, <3>1, <3>3, TicketFields
  <2>4. Loose(key)' = (Loose(key) \cup {q \in Running(key) : q.body = r.body}) \ {r}
    <3>1. Loose(key)' = Running(key) \ {r}
      BY <1>1, <1>7, <2>1 DEF Loose
    <3>2. Loose(key) = {q \in Running(key) : q.num # lock[key].by}
      BY <2>1 DEF Loose
    <3> QED
      BY <2>3, <3>1, <3>2
  <2>5. Looses' = [Looses EXCEPT ![key] =
                       (@ \cup {q \in Running(key) : q.body = r.body}) \ {r}]
    BY <1>1, <1>9, <2>4, LoosesAt DEF Looses
  <2> QED
    BY <1>1, <1>4, <1>8, <2>2, <2>5, TwinStep
<1>12. lock'[key] # lock[key] => lock[key] # NoLock /\ lock'[key] = NoLock
  BY <1>1, <1>2, <1>6 DEF CompareAndDelete
<1> QED
  BY <1>10, <1>11, <1>12

LEMMA ServeMeets ==
    ASSUME Core, LocksNamed, NEW t \in Threads, Serve(t)
    PROVE  Contract!Next \/ UNCHANGED contractVars
<1>1. CASE LimitRate(t)
  <2>1. Step(t, {"limit"}, {"read", "handler"}) /\ UNCHANGED <<entry, lock>>
    BY <1>1, LimitRateStep DEF LimitRate, idemVars
  <2>2. Tracked(shape[t]) => pc'[t] \notin InMiddleware
    BY <1>1, <2>1, HandlerIsUntracked DEF Step, Goes, InMiddleware
  <2>3. Runs' = Runs
    BY <2>1, <2>2, RunsStay DEF Step, InMiddleware
  <2> QED
    BY <2>1, <2>3, SavedStays, LooseStays DEF contractVars
<1>2. CASE ReadEntry(t)
  <2>1. Step(t, {"read", "reread"}, {"lock"}) /\ UNCHANGED <<entry, lock>>
    BY <1>2, ReadEntryStep DEF idemVars
  <2>2. pc'[t] \notin InMiddleware /\ pc[t] \in {"read", "reread"}
    BY <2>1 DEF Step, Goes, InMiddleware
  <2>3. Runs' = Runs
    BY <2>1, <2>2, RunsStay DEF InMiddleware
  <2> QED
    BY <2>1, <2>3, SavedStays, LooseStays DEF contractVars
<1>3. CASE TakeLock(t)
  BY <1>3, TakeLockMeets
<1>4. CASE Handle(t)
  <2>1. /\ Step(t, {"handler"}, {"store", "release"}) /\ UNCHANGED <<entry, lock>>
        /\ Tracked(shape[t]) => pc'[t] \in {"store", "release"}
    BY <1>4, HandleStep DEF idemVars
  <2>2. Runs' = Runs
    BY <2>1, RunsStay DEF Step, InMiddleware
  <2> QED
    BY <2>1, <2>2, SavedStays, LooseStays DEF contractVars
<1>5. CASE StoreEntry(t)
  BY <1>5, StoreEntryMeets
<1>6. CASE ReleaseLock(t)
  BY <1>6, ReleaseLockMeets
<1> QED
  BY <1>1, <1>2, <1>3, <1>4, <1>5, <1>6 DEF Serve

LEMMA CrashMeets ==
    ASSUME Core, NEW i, Crash(i) PROVE Contract!Next
<1> DEFINE dead == {Ticket(t) : t \in {u \in Threads : pc[u] # "idle" /\ InstanceOf[u] = i}}
<1>1. dead \in SUBSET Tickets
  BY TicketTypes DEF Tickets
<1>2. UNCHANGED <<entry, lock>>
  BY DEF Crash, idemVars
<1>3. ASSUME NEW k \in Keys PROVE Running(k)' = Running(k) \ dead
  <2>1. Holders(k)' = {u \in Holders(k) : InstanceOf[u] # i}
    BY DEF Holders, Crash
  <2>2. Running(k)' = {Ticket(u) : u \in Holders(k)'}
    <3>1. \A u \in Holders(k)' : num'[u] = num[u] /\ shape'[u] = shape[u]
      BY <2>1 DEF Crash, Holders
    <3> QED
      BY <3>1, TicketsStay
  <2>3. \A u \in Holders(k) : Ticket(u) \in dead <=> InstanceOf[u] = i
    <3> SUFFICES ASSUME NEW u \in Holders(k), Ticket(u) \in dead PROVE InstanceOf[u] = i
      BY DEF Holders
    <3>1. PICK v \in Threads : pc[v] # "idle" /\ InstanceOf[v] = i /\ Ticket(v) = Ticket(u)
      OBVIOUS
    <3>2. u \in Threads /\ pc[u] # "idle" /\ num[v] = num[u]
      BY <3>1, TicketFields DEF Holders
    <3> QED
      BY <3>1, <3>2 DEF Core, OwnNumbers
  <2> HIDE DEF dead
  <2> QED
    BY <2>1, <2>2, <2>3 DEF Running
<1> HIDE DEF dead
<1>4. Runs' = [k \in Keys |-> Running(k) \ dead]
  BY <1>3 DEF Runs
<1>5. ASSUME NEW k \in Keys PROVE Loose(k)' = Loose(k) \ dead
  BY <1>2, <1>3 DEF Loose
<1>6. Looses' = [k \in Keys |-> Loose(k) \ dead]
  BY <1>5 DEF Looses
<1> QED
  BY <1>1, <1>2, <1>4, <1>6, SavedStays, OtherSteps

LEMMA TimerMeets ==
    ASSUME Core, (\E k \in Keys : LockTimeout(k) \/ EntryTimeout(k)) \/ TimePasses
                 \/ UNCHANGED vars
    PROVE  Contract!Next \/ UNCHANGED contractVars
<1>0. DOMAIN entry = Keys /\ DOMAIN lock = Keys
  BY DEF Core, Types
<1>1. Runs' = Runs
  <2>1. UNCHANGED threadVars
    BY TimerKeepsCore
  <2> QED
    BY <2>1 DEF threadVars, Runs, Running, Holders, Ticket
<1>2. CASE \E k \in Keys : LockTimeout(k)
  <2>1. PICK key \in Keys : LockTimeout(key)
    BY <1>2
  <2>2. entry' = entry /\ lock' = [lock EXCEPT ![key] = NoLock]
    BY <2>1 DEF LockTimeout, LockExpires
  <2>3. ASSUME NEW k \in Keys PROVE Loose(k)' = IF k = key THEN Running(k) ELSE Loose(k)
    <3>1. Running(k)' = Running(k)
      BY <1>1 DEF Runs
    <3>2. lock'[k] = IF k = key THEN NoLock ELSE lock[k]
      BY <1>0, <2>2
    <3> QED
      BY <3>1, <3>2 DEF Loose
  <2>4. Looses' = [Looses EXCEPT ![key] = Running(key)]
    BY <2>3 DEF Looses
  <2> QED
    BY <1>1, <2>2, <2>4, SavedStays, OtherSteps
<1>3. CASE \E k \in Keys : EntryTimeout(k)
  <2>1. PICK k \in Keys : EntryTimeout(k)
    BY <1>3
  <2>2. entry' = [entry EXCEPT ![k] = NoEntry] /\ lock' = lock
    BY <2>1 DEF EntryTimeout, EntryExpires
  <2>3. Saved' = [Saved EXCEPT ![k] = 0]
    BY <1>0, <2>2 DEF Saved
  <2> QED
    BY <1>1, <2>2, <2>3, LooseStays, OtherSteps
<1>4. CASE TimePasses \/ UNCHANGED vars
  <2>1. UNCHANGED <<entry, lock>>
    BY <1>4 DEF TimePasses, vars, idemVars
  <2> QED
    BY <1>1, <2>1, SavedStays, LooseStays DEF contractVars
<1> QED
  BY <1>2, <1>3, <1>4

LEMMA ArriveMeets ==
    ASSUME Core, NEW t \in Threads, NEW s \in Shapes, Arrive(t, s)
    PROVE  UNCHANGED contractVars
<1>1. UNCHANGED <<entry, lock>>
  BY DEF Arrive, idemVars
<1>2. ASSUME NEW k \in Keys PROVE Running(k)' = Running(k)
  <2>1. \A u \in Threads : \/ pc'[u] = pc[u] /\ shape'[u] = shape[u] /\ num'[u] = num[u]
                           \/ pc[u] = "idle" /\ pc'[u] = "limit"
    BY DEF Arrive, Goto, Core, Types
  <2>2. Holders(k)' = Holders(k)
    BY <2>1 DEF Holders
  <2>3. \A u \in Holders(k)' : num'[u] = num[u] /\ shape'[u] = shape[u]
    BY <2>1, <2>2 DEF Holders
  <2> QED
    BY <2>2, <2>3, TicketsStay DEF Running
<1>3. Runs' = Runs
  BY <1>2 DEF Runs
<1> QED
  BY <1>1, <1>3, SavedStays, LooseStays DEF contractVars

(* The middleware implements the contract of OncePerKey: a handler starts   *)
(* beside others of its key only when each of those has lost its lock, to a *)
(* timeout or to an earlier retry of its body that had outlived its own --  *)
(* through lost replies of Redis, crashes and failing releases -- and only  *)
(* a running handler, or the entry's own expiry, changes what is replayed.  *)
THEOREM MiddlewareKeepsContract == Spec => KeepsContract
<1>1. Init => LocksNamed
  BY DEF Init, LocksNamed, Owns
<1>2. Init => Contract!Init
  <2> SUFFICES ASSUME Init PROVE Contract!Init
    OBVIOUS
  <2>1. \A k \in Keys : Running(k) = {} /\ Loose(k) = {}
    BY DEF Init, Running, Loose, Holders
  <2> QED
    BY <2>1 DEF Init, Contract!Init
<1>3. Core /\ LocksNamed /\ [Next]_vars => LocksNamed'
  BY NextNamed
<1>4. Core /\ LocksNamed /\ [Next]_vars => [Contract!Next]_contractVars
  BY ServeMeets, ArriveMeets, CrashMeets, TimerMeets DEF Next
<1>5. [Contract!Next]_contractVars =>
          [Contract!Next]_<<[k \in Keys |-> Running(k)], [k \in Keys |-> Loose(k)],
                            [k \in Keys |-> IF entry[k] = NoEntry THEN 0 ELSE entry[k].by]>>
  BY DEF contractVars, Runs, Looses, Saved
<1> QED
  BY CoreInvariant, <1>1, <1>2, <1>3, <1>4, <1>5, PTL DEF Spec, KeepsContract, Contract!Spec

-----------------------------------------------------------------------------
(* What was stored was said to the same caller.                             *)
LEMMA SameCaller ==
    ASSUME NEW s, NEW r, Tracked(s), Tracked(r), Refusal(s) = "", Refusal(r) = "",
           KeyOf(s) = KeyOf(r)
    PROVE  /\ r.verb = s.verb /\ r.path = s.path /\ r.key = s.key
           /\ Public(r) \/ r.subject = s.subject
<1>1. Caller(r) = Caller(s) /\ r.verb = s.verb /\ r.path = s.path /\ r.key = s.key
  BY DEF KeyOf, CacheKey
<1>2. ASSUME ~Public(r) PROVE r.subject = s.subject
  <2>1. ~Public(s)
    BY <1>1, <1>2 DEF Public
  <2>2. r.subject # "anon" /\ s.subject # "anon"
    BY <1>2, <2>1 DEF Refusal, Unauthenticated, Tracked, Mutating
  <2> QED
    BY <1>1, <1>2, <2>1, <2>2 DEF Caller, Principal
<1> QED
  BY <1>1, <1>2

SaidTo(a) ==
    \E r \in served :
        /\ r.num = a.by
        /\ Public(r.shape) \/ r.shape.subject = a.shape.subject
        /\ r.shape.verb = a.shape.verb
        /\ r.shape.path = a.shape.path /\ r.shape.key = a.shape.key
        /\ (a.kind = "replay") = (r.shape.body = a.shape.body)
OwnAnswer(a) == a.kind \in {"replay", "conflict"} => SaidTo(a)

StoredFrom(k) ==
    entry[k] # NoEntry =>
        \E r \in served : /\ r.num = entry[k].by /\ r.shape.body = entry[k].body
                          /\ Tracked(r.shape) /\ KeyOf(r.shape) = k

OwnInv == SavedOnce /\ AnswersAreOwn

LEMMA OwnInvParts ==
    /\ AnswersAreOwn <=> \A t \in Threads : OwnAnswer(answer[t])
    /\ SavedOnce <=> /\ \A r \in served : Refusal(r.shape) = ""
                     /\ \A k \in Keys : StoredFrom(k)
  BY DEF AnswersAreOwn, SavedOnce, OwnAnswer, SaidTo, StoredFrom

LEMMA SaidToStays ==
    ASSUME served \subseteq served', NEW t, answer'[t] = answer[t], SaidTo(answer[t])
    PROVE  OwnAnswer(answer[t])'
<1>1. PICK r \in served :
          /\ r.num = answer[t].by
          /\ Public(r.shape) \/ r.shape.subject = answer[t].shape.subject
          /\ r.shape.verb = answer[t].shape.verb
          /\ r.shape.path = answer[t].shape.path /\ r.shape.key = answer[t].shape.key
          /\ (answer[t].kind = "replay") = (r.shape.body = answer[t].shape.body)
  BY DEF SaidTo
<1> QED
  BY <1>1 DEF OwnAnswer, SaidTo

(* Nothing new is stored, and no answer is made from an entry.              *)
LEMMA OwnInvStays ==
    ASSUME OwnInv, served \subseteq served',
           \A r \in served' \ served : Refusal(r.shape) = "",
           \A k \in Keys : entry'[k] \in {entry[k], NoEntry},
           \A t \in Threads : answer'[t] = answer[t]
                              \/ answer'[t].kind \notin {"replay", "conflict"}
    PROVE  OwnInv'
<1>1. ASSUME NEW t \in Threads PROVE OwnAnswer(answer[t])'
  <2>1. CASE answer'[t].kind \notin {"replay", "conflict"}
    BY <2>1 DEF OwnAnswer
  <2>2. CASE answer'[t] = answer[t] /\ answer[t].kind \in {"replay", "conflict"}
    <3>1. SaidTo(answer[t])
      BY <2>2 DEF OwnInv, AnswersAreOwn, SaidTo
    <3> QED
      BY <2>2, <3>1, SaidToStays
  <2> QED
    BY <2>1, <2>2
<1>2. ASSUME NEW k \in Keys PROVE StoredFrom(k)'
  BY OwnInvParts DEF OwnInv, StoredFrom
<1>3. \A r \in served' : Refusal(r.shape) = ""
  BY OwnInvParts DEF OwnInv
<1>4. AnswersAreOwn'
  BY <1>1 DEF AnswersAreOwn, OwnAnswer, SaidTo
<1>5. SavedOnce'
  BY <1>2, <1>3 DEF SavedOnce, StoredFrom
<1> QED
  BY <1>4, <1>5 DEF OwnInv

Quiet(t) ==
    \A u \in Threads : answer'[u] = answer[u] \/ answer'[u].kind \notin {"replay", "conflict"}

LEMMA QuietAnswers ==
    ASSUME Types, NEW t \in Threads
    PROVE  /\ \A kind, by : Answer(t, kind, by) =>
                  /\ \A u \in Threads \ {t} : answer'[u] = answer[u]
                  /\ answer'[t] = [kind |-> kind, by |-> by, of |-> num[t], shape |-> shape[t]]
           /\ \A kind, by : Answer(t, kind, by) /\ kind \notin {"replay", "conflict"} => Quiet(t)
           /\ \A place : GoOn(t, place) => Quiet(t)
           /\ Pass(t) => Quiet(t)
<1>1. answer \in [Threads -> Answers]
  BY DEF Types
<1>2. ASSUME NEW kind, NEW by, Answer(t, kind, by)
      PROVE  /\ \A u \in Threads \ {t} : answer'[u] = answer[u]
             /\ answer'[t] = [kind |-> kind, by |-> by, of |-> num[t], shape |-> shape[t]]
  BY <1>1, <1>2 DEF Answer
<1>3. ASSUME NEW kind, NEW by, Answer(t, kind, by), kind \notin {"replay", "conflict"}
      PROVE  Quiet(t)
  <2>1. /\ \A u \in Threads \ {t} : answer'[u] = answer[u]
        /\ answer'[t] = [kind |-> kind, by |-> by, of |-> num[t], shape |-> shape[t]]
    BY <1>2, <1>3
  <2>2. answer'[t].kind = kind
    BY <2>1
  <2> QED
    BY <1>3, <2>1, <2>2 DEF Quiet
<1>4. ASSUME NEW place, GoOn(t, place) PROVE Quiet(t)
  BY <1>4 DEF GoOn, Quiet
<1>5. ASSUME Pass(t) PROVE Quiet(t)
  <2>1. CASE Answer(t, "204", 0)
    BY <2>1, <1>3
  <2>2. CASE \E place : GoOn(t, place)
    BY <2>2, <1>4
  <2> QED
    BY <1>5, <2>1, <2>2 DEF Pass
<1> QED
  BY <1>2, <1>3, <1>4, <1>5

LEMMA ReadEntryOwn ==
    ASSUME Core, OwnInv, NEW t \in Threads, ReadEntry(t) PROVE OwnInv'
<1> DEFINE k == KeyOf(shape[t])
<1>1. Types /\ InHand(t)
  BY DEF Core
<1>2. Tracked(shape[t]) /\ Refusal(shape[t]) = "" /\ k \in Keys /\ shape[t] \in Shapes
  BY <1>1, TypesParts, Given DEF InHand, ReadEntry
<1>3. PICK broken \in BOOLEAN :
          LET e == Reply(k, broken)
              kind == FromEntry(e, shape[t].body) IN
          \/ kind # "" /\ Answer(t, kind, e.by)
          \/ kind = "" /\ pc[t] = "read" /\ GoOn(t, "lock")
          \/ kind = "" /\ pc[t] = "reread" /\ Answer(t, "busy", 0)
  BY DEF ReadEntry
<1> DEFINE kind == FromEntry(Reply(k, broken), shape[t].body)
<1>4. served' = served /\ entry' = entry
  BY ReadEntryStep DEF idemVars
<1>5. CASE kind # "" /\ Answer(t, kind, Reply(k, broken).by)
  <2>1. /\ Reply(k, broken) = entry[k] /\ entry[k] # NoEntry
        /\ (kind = "replay") = (entry[k].body = shape[t].body)
    BY <1>1, <1>2, <1>5, EntryFields
  <2>2. PICK r \in served : /\ r.num = entry[k].by /\ r.shape.body = entry[k].body
                            /\ Tracked(r.shape) /\ KeyOf(r.shape) = k
    BY <1>2, <2>1 DEF OwnInv, SavedOnce
  <2>3. Refusal(r.shape) = ""
    BY DEF OwnInv, SavedOnce
  <2>4. /\ Public(r.shape) \/ r.shape.subject = shape[t].subject
        /\ r.shape.verb = shape[t].verb
        /\ r.shape.path = shape[t].path /\ r.shape.key = shape[t].key
    BY <1>2, <2>2, <2>3, SameCaller
  <2>5. /\ answer'[t] = [kind |-> kind, by |-> entry[k].by, of |-> num[t], shape |-> shape[t]]
        /\ \A u \in Threads \ {t} : answer'[u] = answer[u]
    <3>1. Answer(t, kind, entry[k].by)
      BY <1>5, <2>1
    <3> HIDE DEF kind, k
    <3> QED
      BY <1>1, <3>1, QuietAnswers
  <2>6. SaidTo(answer[t])'
    <3> DEFINE a == answer'[t]
    <3>1. a.kind = kind /\ a.by = entry[k].by /\ a.shape = shape[t]
      BY <2>5
    <3> HIDE DEF a, kind
    <3>2. (a.kind = "replay") = (r.shape.body = a.shape.body)
      BY <2>1, <2>2, <3>1
    <3> QED
      BY <1>4, <2>2, <2>4, <3>1, <3>2 DEF SaidTo, a
  <2>7. ASSUME NEW u \in Threads PROVE OwnAnswer(answer[u])'
    <3>1. CASE u = t
      BY <2>6, <3>1 DEF OwnAnswer
    <3>2. CASE u # t /\ answer[u].kind \in {"replay", "conflict"}
      <4>1. SaidTo(answer[u])
        BY <3>2 DEF OwnInv, AnswersAreOwn, SaidTo
      <4>2. answer'[u] = answer[u]
        BY <2>5, <3>2
      <4> QED
        BY <1>4, <4>1, <4>2, SaidToStays
    <3>3. CASE u # t /\ answer[u].kind \notin {"replay", "conflict"}
      BY <2>5, <3>3 DEF OwnAnswer
    <3> QED
      BY <3>1, <3>2, <3>3
  <2>8. AnswersAreOwn'
    BY <2>7 DEF AnswersAreOwn, OwnAnswer, SaidTo
  <2> QED
    BY <1>4, <2>8 DEF OwnInv, SavedOnce
<1>6. CASE GoOn(t, "lock") \/ Answer(t, "busy", 0)
  <2>1. Quiet(t)
    BY <1>1, <1>6, QuietAnswers
  <2> QED
    BY <1>4, <2>1, OwnInvStays DEF Quiet
<1> QED
  BY <1>3, <1>5, <1>6

LEMMA StoreEntryOwn ==
    ASSUME Core, OwnInv, NEW t \in Threads, StoreEntry(t) PROVE OwnInv'
<1> DEFINE key == KeyOf(shape[t])
<1>1. Types /\ InHand(t)
  BY DEF Core
<1>2. pc[t] = "store" /\ served' = served
  BY DEF StoreEntry
<1>3. Tracked(shape[t]) /\ [num |-> num[t], shape |-> shape[t]] \in served
  BY <1>1, <1>2 DEF InHand
<1>4. key \in Keys /\ DOMAIN entry = Keys
  BY <1>1, <1>3, Given, TypesParts DEF Types
<1>5. Quiet(t)
  BY <1>1, QuietAnswers DEF StoreEntry
<1>6. PICK broken \in BOOLEAN : Store(key, shape[t].body, num[t], broken)
  BY DEF StoreEntry
<1>7. CASE broken
  BY <1>2, <1>5, <1>6, <1>7, OwnInvStays DEF Quiet, Store
<1>8. CASE ~broken
  <2> DEFINE e == [body |-> shape[t].body, by |-> num[t]]
  <2>1. entry'[key] = e /\ \A k \in Keys \ {key} : entry'[k] = entry[k]
    BY <1>4, <1>6, <1>8 DEF Store
  <2>2. ASSUME NEW k \in Keys PROVE StoredFrom(k)'
    <3>1. CASE k = key
      <4>1. entry'[key].body = shape[t].body /\ entry'[key].by = num[t]
        BY <2>1
      <4> DEFINE r == [num |-> num[t], shape |-> shape[t]]
      <4>2. r \in served' /\ r.num = num[t] /\ r.shape = shape[t]
        BY <1>2, <1>3
      <4> HIDE DEF r
      <4> QED
        BY <1>3, <3>1, <4>1, <4>2 DEF StoredFrom
    <3>2. CASE k # key
      BY <1>2, <2>1, <3>2, OwnInvParts DEF OwnInv, StoredFrom
    <3> QED
      BY <3>1, <3>2
  <2>3. SavedOnce'
    <3>1. \A r \in served' : Refusal(r.shape) = ""
      BY <1>2, OwnInvParts DEF OwnInv
    <3> QED
      BY <2>2, <3>1 DEF SavedOnce, StoredFrom
  <2>4. AnswersAreOwn'
    <3>1. answer' = answer
      BY DEF StoreEntry, GoOn
    <3> QED
      BY <1>2, <3>1 DEF OwnInv, AnswersAreOwn
  <2> QED
    BY <2>3, <2>4 DEF OwnInv
<1> QED
  BY <1>7, <1>8

LEMMA NextOwn ==
    ASSUME Core, OwnInv, [Next]_vars PROVE OwnInv'
<1>1. Types /\ DOMAIN entry = Keys
  BY DEF Core, Types
<1>2. ASSUME NEW t \in Threads, Serve(t) PROVE OwnInv'
  <2>1. CASE LimitRate(t)
    <3>1. Quiet(t)
      BY <1>1, <2>1, QuietAnswers DEF LimitRate
    <3>2. UNCHANGED <<entry, served>>
      BY <2>1 DEF LimitRate, idemVars
    <3> QED
      BY <3>1, <3>2, OwnInvStays DEF Quiet
  <2>2. CASE ReadEntry(t)
    BY <2>2, ReadEntryOwn
  <2>3. CASE TakeLock(t)
    <3>1. Quiet(t)
      BY <1>1, <2>3, QuietAnswers DEF TakeLock
    <3>2. UNCHANGED <<entry, served>>
      BY <2>3, TakeLockStep
    <3> QED
      BY <3>1, <3>2, OwnInvStays DEF Quiet
  <2>4. CASE Handle(t)
    <3>1. Quiet(t)
      BY <1>1, <2>4, QuietAnswers DEF Handle
    <3>2. entry' = entry
      BY <2>4 DEF Handle, idemVars
    <3>3. Refusal(shape[t]) = ""
      BY <2>4 DEF Handle, Core, InHand
    <3>4. /\ served \subseteq served'
          /\ \A r \in served' \ served : Refusal(r.shape) = ""
      <4>1. \/ served' = served
            \/ served' = served \cup {[num |-> num[t], shape |-> shape[t]]}
        BY <2>4, HandleStep
      <4>2. [num |-> num[t], shape |-> shape[t]].shape = shape[t]
        OBVIOUS
      <4> QED
        BY <3>3, <4>1, <4>2
    <3> QED
      BY <3>1, <3>2, <3>4, OwnInvStays DEF Quiet
  <2>5. CASE StoreEntry(t)
    BY <2>5, StoreEntryOwn
  <2>6. CASE ReleaseLock(t)
    <3>1. Quiet(t)
      BY <1>1, <2>6, QuietAnswers DEF ReleaseLock
    <3>2. UNCHANGED <<entry, served>>
      BY <2>6, ReleaseLockStep
    <3> QED
      BY <3>1, <3>2, OwnInvStays DEF Quiet
  <2> QED
    BY <1>2, <2>1, <2>2, <2>3, <2>4, <2>5, <2>6 DEF Serve
<1>3. ASSUME NEW t \in Threads, NEW s \in Shapes, Arrive(t, s) PROVE OwnInv'
  <2>1. UNCHANGED <<entry, served>>
    BY <1>3 DEF Arrive, idemVars
  <2>2. Refusal(s) \notin {"replay", "conflict"}
    BY DEF Refusal
  <2>3. Quiet(t)
    <3>1. answer \in [Threads -> Answers]
      BY <1>1 DEF Types
    <3>2. CASE answer' = [answer EXCEPT ![t] = NoAnswer]
      BY <3>1, <3>2 DEF Quiet, NoAnswer
    <3>3. CASE answer' = [answer EXCEPT ![t] =
                 [kind |-> Refusal(s), by |-> 0, of |-> sent + 1, shape |-> s]]
      BY <2>2, <3>1, <3>3 DEF Quiet
    <3> QED
      BY <1>3, <3>2, <3>3 DEF Arrive
  <2> QED
    BY <2>1, <2>3, OwnInvStays DEF Quiet
<1>4. ASSUME NEW i, Crash(i) PROVE OwnInv'
  <2>1. UNCHANGED <<entry, served, answer>>
    BY <1>4 DEF Crash, idemVars
  <2> QED
    BY <2>1, OwnInvStays
<1>5. ASSUME (\E k \in Keys : LockTimeout(k) \/ EntryTimeout(k)) \/ TimePasses
             \/ UNCHANGED vars
      PROVE  OwnInv'
  <2>1. UNCHANGED <<served, answer>>
    BY <1>5, TimerKeepsCore DEF threadVars
  <2>2. \A k \in Keys : entry'[k] \in {entry[k], NoEntry}
    BY <1>1, <1>5 DEF LockTimeout, LockExpires, EntryTimeout, EntryExpires, TimePasses, vars,
                      idemVars
  <2> QED
    BY <2>1, <2>2, OwnInvStays
<1> QED
  BY <1>2, <1>3, <1>4, <1>5 DEF Next

(* A replay repeats the success of the same caller with the same body, and  *)
(* a 422 is given only when that caller succeeded with another body, for    *)
(* every interleaving of retries, failing commands, expiries and crashes.   *)
THEOREM AnswersBelongToCaller == Spec => []AnswersAreOwn
<1>1. Init => OwnInv
  <2> SUFFICES ASSUME Init PROVE OwnInv
    OBVIOUS
  <2>1. SavedOnce
    BY DEF Init, SavedOnce
  <2>2. AnswersAreOwn
    BY DEF Init, AnswersAreOwn, NoAnswer
  <2> QED
    BY <2>1, <2>2 DEF OwnInv
<1>2. Core /\ OwnInv /\ [Next]_vars => OwnInv'
  BY NextOwn
<1>3. OwnInv => AnswersAreOwn
  BY DEF OwnInv
<1> QED
  BY CoreInvariant, <1>1, <1>2, <1>3, PTL DEF Spec

-----------------------------------------------------------------------------
(* Who spends the budgets and the keys.                                     *)
Known(k) == \E s \in Shapes : KeyOf(s) = k /\ (Public(s) \/ s.subject # "anon")
BudgetsKnown ==
    \A a \in admitted : a[1][1] = "general" =>
        \E s \in Shapes : s.subject = a[1][2] /\ s.subject # "anon"
KeysKnown == \A k \in Keys : (lock[k] # NoLock \/ entry[k] # NoEntry) => Known(k)

LEMMA SpendParts == AnonymousSpendNothing <=> BudgetsKnown /\ KeysKnown
  BY DEF AnonymousSpendNothing, BudgetsKnown, KeysKnown, Known

LEMMA TrackedIsKnown ==
    ASSUME Core, NEW t \in Threads, pc[t] # "idle", Tracked(shape[t])
    PROVE  Known(KeyOf(shape[t]))
<1>1. Refusal(shape[t]) = "" /\ shape[t] \in Shapes
  BY TypesParts DEF Core, InHand
<1>2. Public(shape[t]) \/ shape[t].subject # "anon"
  BY <1>1 DEF Refusal, Unauthenticated, Tracked, Mutating
<1> QED
  BY <1>1, <1>2 DEF Known

LEMMA KeysStayKnown ==
    ASSUME KeysKnown, NEW key, Known(key),
           \A k \in Keys \ {key} : /\ lock'[k] \in {lock[k], NoLock}
                                   /\ entry'[k] \in {entry[k], NoEntry}
    PROVE  KeysKnown'
  BY DEF KeysKnown, Known

LEMMA KeysQuiet ==
    ASSUME KeysKnown,
           \A k \in Keys : lock'[k] \in {lock[k], NoLock} /\ entry'[k] \in {entry[k], NoEntry}
    PROVE  KeysKnown'
  BY DEF KeysKnown, Known

LEMMA LimitRateSpends ==
    ASSUME Core, BudgetsKnown, NEW t \in Threads, LimitRate(t) PROVE BudgetsKnown'
<1> DEFINE s == shape[t]
<1> DEFINE k == <<Tier(s), Identity(Tier(s), s.ip, Principal(s))>>
<1>1. Refusal(s) = "" /\ s \in Shapes
  BY TypesParts DEF Core, InHand, LimitRate
<1>2. \/ UNCHANGED admitted
      \/ ~Unlimited(s) /\ (admitted' = admitted \cup {<<k, num[t], now>>})
  <2>1. CASE Unlimited(s)
    BY <2>1 DEF LimitRate, limitVars
  <2>2. CASE ~Unlimited(s)
    <3>1. PICK broken \in BOOLEAN, allowed \in BOOLEAN :
              Checked(Tier(s), Identity(Tier(s), s.ip, Principal(s)),
                      stamp[t], num[t], broken, allowed)
      BY <2>2 DEF LimitRate
    <3>2. UNCHANGED limitVars \/ Script(k, Limit[Tier(s)], stamp[t], num[t], allowed)
      BY <3>1 DEF Checked
    <3> HIDE DEF k
    <3> QED
      BY <2>2, <3>2 DEF Script, limitVars
  <2> QED
    BY <2>1, <2>2
<1>3. ASSUME ~Unlimited(s), k[1] = "general" PROVE s.subject = k[2] /\ s.subject # "anon"
  <2>1. ~Protected(s) /\ Tier(s) = "general"
    BY <1>3 DEF Tier
  <2>2. ~Public(s) /\ s.verb # "options"
    BY <1>3, <2>1 DEF Unlimited
  <2>3. s.subject # "anon"
    BY <1>1, <2>2 DEF Refusal, Unauthenticated
  <2>4. k[2] = Identity("general", s.ip, s.subject)
    BY <2>1, <2>2 DEF Principal
  <2> QED
    BY <2>3, <2>4 DEF Identity
<1> DEFINE new == <<k, num[t], now>>
<1>4. new[1] = k
  OBVIOUS
<1> HIDE DEF k
<1>5. CASE admitted' = admitted \cup {new} /\ ~Unlimited(s)
  <2> HIDE DEF new
  <2> QED
    BY <1>1, <1>3, <1>4, <1>5 DEF BudgetsKnown
<1> QED
  BY <1>2, <1>5 DEF BudgetsKnown

LEMMA NextSpends ==
    ASSUME Core, BudgetsKnown, KeysKnown, [Next]_vars PROVE BudgetsKnown' /\ KeysKnown'
<1>1. DOMAIN entry = Keys /\ DOMAIN lock = Keys
  BY DEF Core, Types
<1>2. UNCHANGED <<entry, lock>> => KeysKnown'
  BY DEF KeysKnown
<1>3. UNCHANGED admitted => BudgetsKnown'
  BY DEF BudgetsKnown
<1>4. ASSUME NEW t \in Threads, Serve(t) PROVE BudgetsKnown' /\ KeysKnown'
  <2>1. CASE LimitRate(t)
    BY <1>2, <2>1, LimitRateSpends DEF LimitRate, idemVars
  <2>2. CASE ReadEntry(t)
    BY <1>2, <1>3, <2>2 DEF ReadEntry, idemVars, limitVars
  <2>3. CASE TakeLock(t)
    <3> DEFINE key == KeyOf(shape[t])
    <3>1. Tracked(shape[t]) /\ key \in Keys /\ UNCHANGED <<limitVars, entry>>
      BY <2>3, TakeLockStep
    <3>2. \A k \in Keys \ {key} : lock'[k] = lock[k]
      <4>1. PICK broken \in BOOLEAN, got \in BOOLEAN :
                SetNx(key, shape[t].body, num[t], broken, got)
        BY <2>3, TakeLockStep
      <4> QED
        BY <1>1, <4>1 DEF SetNx
    <3>3. pc[t] = "lock"
      BY <2>3 DEF TakeLock
    <3>4. Known(key)
      BY <3>1, <3>3, TrackedIsKnown
    <3> HIDE DEF key
    <3> QED
      BY <1>3, <3>1, <3>2, <3>4, KeysStayKnown DEF limitVars
  <2>4. CASE Handle(t)
    BY <1>2, <1>3, <2>4 DEF Handle, idemVars, limitVars
  <2>5. CASE StoreEntry(t)
    <3> DEFINE key == KeyOf(shape[t])
    <3>1. Tracked(shape[t]) /\ key \in Keys /\ UNCHANGED <<limitVars, lock>>
      BY <2>5, StoreEntryStep
    <3>2. \A k \in Keys \ {key} : entry'[k] = entry[k]
      BY <1>1, <2>5, <3>1, StoreEntryStep DEF Store
    <3>3. pc[t] = "store"
      BY <2>5 DEF StoreEntry
    <3>4. Known(key)
      BY <3>1, <3>3, TrackedIsKnown
    <3> HIDE DEF key
    <3> QED
      BY <1>3, <3>1, <3>2, <3>4, KeysStayKnown DEF limitVars
  <2>6. CASE ReleaseLock(t)
    <3>1. UNCHANGED <<limitVars, entry>>
      BY <2>6, ReleaseLockStep
    <3>2. \A k \in Keys : lock'[k] \in {lock[k], NoLock}
      BY <1>1, <2>6, ReleaseLockStep DEF CompareAndDelete
    <3> QED
      BY <1>3, <3>1, <3>2, KeysQuiet DEF limitVars
  <2> QED
    BY <1>4, <2>1, <2>2, <2>3, <2>4, <2>5, <2>6 DEF Serve
<1>5. ASSUME NEW t \in Threads, NEW s \in Shapes, Arrive(t, s) PROVE BudgetsKnown' /\ KeysKnown'
  BY <1>2, <1>3, <1>5 DEF Arrive, idemVars, limitVars
<1>6. ASSUME NEW i, Crash(i) PROVE BudgetsKnown' /\ KeysKnown'
  BY <1>2, <1>3, <1>6 DEF Crash, idemVars, limitVars
<1>7. ASSUME (\E k \in Keys : LockTimeout(k) \/ EntryTimeout(k)) \/ TimePasses
             \/ UNCHANGED vars
      PROVE  BudgetsKnown' /\ KeysKnown'
  <2>1. UNCHANGED admitted
    BY <1>7 DEF LockTimeout, EntryTimeout, TimePasses, Tick, vars, limitVars
  <2>2. \A k \in Keys : lock'[k] \in {lock[k], NoLock} /\ entry'[k] \in {entry[k], NoEntry}
    BY <1>1, <1>7 DEF LockTimeout, LockExpires, EntryTimeout, EntryExpires, TimePasses, vars,
                      idemVars
  <2> QED
    BY <1>3, <2>1, <2>2, KeysQuiet
<1> QED
  BY <1>4, <1>5, <1>6, <1>7 DEF Next

(* Requests that are not authenticated spend neither the general budget of  *)
(* the limiter nor a lock or an entry of a key.                             *)
THEOREM AnonymousRequestsSpendNothing == Spec => []AnonymousSpendNothing
<1>1. Init => BudgetsKnown /\ KeysKnown
  BY DEF Init, BudgetsKnown, KeysKnown
<1>2. Core /\ (BudgetsKnown /\ KeysKnown) /\ [Next]_vars => (BudgetsKnown /\ KeysKnown)'
  BY NextSpends
<1> QED
  BY CoreInvariant, <1>1, <1>2, SpendParts, PTL DEF Spec

-----------------------------------------------------------------------------
(* The windows of the limiter.                                              *)
InWindowOf(a) == {b \in admitted : /\ b[1] = a[1] /\ b[3] <= a[3]
                                   /\ b[3] + Window > a[3] + MaxSkew + MaxDelay}
LateOf(k) == {b \in admitted : b[1] = k /\ Late(b)}

LEMMA CapIs == WindowCap <=> \A a \in admitted : Cardinality(InWindowOf(a)) <= Limit[a[1][1]]
  BY DEF WindowCap, InWindowOf

LEMMA AdmittedFields ==
    ASSUME Types
    PROVE  /\ \A a \in admitted : /\ a[1] \in LimitKeys /\ a[2] \in Nat /\ a[3] \in Nat
                                  /\ a[1][1] \in {"general", "auth"}
           /\ \A k \in LimitKeys : \A e \in zset[k] : e[1] \in Nat /\ e[2] \in Nat
           /\ \A k \in LimitKeys : expireAt[k] \in Nat
           /\ now \in Nat
<1>1. admitted \subseteq LimitKeys \X Nat \X Nat
  BY DEF Types
<1>2. zset \in [LimitKeys -> SUBSET (Nat \X Nat)] /\ expireAt \in [LimitKeys -> Nat]
  BY DEF Types
<1>3. \A k \in LimitKeys : k[1] \in {"general", "auth"}
  BY DEF LimitKeys
<1> QED
  BY <1>1, <1>2, <1>3, TypesParts

(* No script runs.                                                          *)
LEMMA WindowStays ==
    ASSUME Types, sent \in Nat, sent' \in Nat, WindowInv, UNCHANGED limitVars, sent <= sent',
           \A t \in Threads : FreshStamp(t)'
    PROVE  WindowInv'
<1>1. Admitted'
  <2>1. \A a \in admitted' : a[2] <= sent' /\ a[3] <= now'
    BY AdmittedFields DEF WindowInv, Admitted, limitVars
  <2>2. \A a \in admitted' : Late(a)' => Counted(a)'
    BY DEF WindowInv, Admitted, limitVars, Late, Counted
  <2> QED
    BY <2>1, <2>2 DEF WindowInv, Admitted, limitVars
<1>2. WindowCap'
  BY DEF WindowInv, WindowCap, limitVars
<1> QED
  BY <1>1, <1>2 DEF WindowInv, limitVars

(* What may still count is kept by the script.                              *)
LEMMA LateIsKept ==
    ASSUME Types, WindowInv, NEW k \in LimitKeys, NEW time \in Nat, time <= now + MaxSkew,
           NEW a \in admitted, a[1] = k, Late(a)
    PROVE  \E e \in InWindow(Live(k), time) : e[2] = a[2] /\ a[3] <= e[1] + MaxDelay
<1>1. Counted(a)
  BY DEF WindowInv, Admitted
<1>2. PICK e \in zset[k] : e[2] = a[2] /\ a[3] <= e[1] + MaxDelay
  BY <1>1 DEF Counted
<1>3. /\ a[3] \in Nat /\ e[1] \in Nat /\ expireAt[k] \in Nat /\ now \in Nat
      /\ Window \in Nat /\ MaxSkew \in Nat /\ MaxDelay \in Nat
  BY AdmittedFields, Given
<1>4. a[3] + Window < expireAt[k] /\ a[3] + Window > now + MaxSkew + MaxDelay
  BY <1>1 DEF Counted, Late
<1>5. ~(now > expireAt[k]) /\ e[1] + Window > time
  BY <1>2, <1>3, <1>4
<1>6. e \in InWindow(Live(k), time)
  BY <1>5 DEF Live, InWindow
<1> QED
  BY <1>2, <1>6

LEMMA LateAreFew ==
    ASSUME Types, WindowInv, NEW k \in LimitKeys, NEW time \in Nat, time <= now + MaxSkew
    PROVE  /\ IsFiniteSet(InWindow(Live(k), time))
           /\ IsFiniteSet(LateOf(k))
           /\ Cardinality(LateOf(k)) <= Cardinality(InWindow(Live(k), time))
<1> DEFINE kept == InWindow(Live(k), time)
<1>1. kept \in SUBSET zset[k]
  BY DEF Live, InWindow
<1>2. IsFiniteSet(kept)
  BY <1>1, FS_Subset DEF WindowInv
<1> DEFINE f == [b \in LateOf(k) |-> CHOOSE e \in kept : e[2] = b[2]]
<1>3. \A b \in LateOf(k) : f[b] \in kept /\ f[b][2] = b[2]
  <2> SUFFICES ASSUME NEW b \in LateOf(k) PROVE f[b] \in kept /\ f[b][2] = b[2]
    OBVIOUS
  <2>1. \E e \in kept : e[2] = b[2]
    BY LateIsKept DEF LateOf
  <2> HIDE DEF kept
  <2> QED
    BY <2>1
<1> HIDE DEF f, kept
<1>4. f \in [LateOf(k) -> kept]
  <2>1. f = [b \in LateOf(k) |-> f[b]]
    BY DEF f
  <2> QED
    BY <1>3, <2>1
<1>5. \A b, c \in LateOf(k) : f[b] = f[c] => b = c
  BY <1>3 DEF LateOf, WindowInv, Admitted
<1>6. f \in Injection(LateOf(k), kept)
  BY <1>4, <1>5 DEF Injection, IsInjective
<1>7. IsFiniteSet(LateOf(k)) /\ Cardinality(LateOf(k)) <= Cardinality(kept)
  BY <1>2, <1>6, FS_Injection
<1> QED
  BY <1>2, <1>7 DEF kept

(* A script that runs at k for the request of thread t.                     *)
LEMMA ScriptKeepsWindow ==
    ASSUME Core, WindowInv, NEW t \in Threads, NEW k \in LimitKeys, NEW allowed \in BOOLEAN,
           pc[t] = "limit", Script(k, Limit[k[1]], stamp[t], num[t], allowed),
           sent' = sent, Types', \A u \in Threads \ {t} : pc'[u] = pc[u] /\ num'[u] = num[u],
           \A u \in Threads \ {t} : stamp'[u] = stamp[u], pc'[t] # "limit"
    PROVE  WindowInv'
<1> DEFINE time == stamp[t]
           n == num[t]
           kept == InWindow(Live(k), time)
           mark == <<time, n>>
<1>0. PICK new : new = <<k, n, now>>
  OBVIOUS
<1>1. Types /\ FreshStamp(t) /\ Admitted
  BY DEF Core, WindowInv
<1>2. /\ now \in Nat /\ time \in Nat /\ n \in Nat /\ sent \in Nat /\ n <= sent
      /\ Window \in Nat /\ MaxSkew \in Nat /\ MaxDelay \in Nat
      /\ Skew[InstanceOf[t]] \in Nat /\ Skew[InstanceOf[t]] <= MaxSkew
  <2>1. n \in 1..sent
    BY DEF Core, InHand
  <2>2. sent \in Nat
    BY <1>1, Given DEF Types
  <2> QED
    BY <1>1, <2>1, <2>2, Given, TypesParts
<1>3. time <= now + MaxSkew /\ now <= time + MaxDelay /\ \A a \in admitted : a[2] # n
  BY <1>1, <1>2 DEF FreshStamp
<1>4. new[1] = k /\ new[2] = n /\ new[3] = now /\ mark[1] = time /\ mark[2] = n
  BY <1>0
<1>5. /\ allowed = (Cardinality(kept) < Limit[k[1]])
      /\ zset' = [zset EXCEPT ![k] = IF allowed THEN kept \cup {mark} ELSE kept]
      /\ expireAt' = [expireAt EXCEPT ![k] = IF allowed THEN now + Window + 1 ELSE @]
      /\ admitted' = IF allowed THEN admitted \cup {new} ELSE admitted
      /\ now' = now
  BY <1>0 DEF Script
<1>6. IsFiniteSet(kept) /\ Cardinality(kept) \in Nat
  BY <1>1, <1>2, <1>3, LateAreFew, FS_CardinalityType
<1>7. /\ zset'[k] = IF allowed THEN kept \cup {mark} ELSE kept
      /\ expireAt'[k] = IF allowed THEN now + Window + 1 ELSE expireAt[k]
      /\ \A kk \in LimitKeys \ {k} : zset'[kk] = zset[kk] /\ expireAt'[kk] = expireAt[kk]
  BY <1>1, <1>5 DEF Types
<1>8. \A a \in admitted : Late(a) /\ a[1] = k =>
          \E e \in kept : e[2] = a[2] /\ a[3] <= e[1] + MaxDelay
  BY <1>1, <1>2, <1>3, LateIsKept
<1> HIDE DEF mark, kept
<1>9. ASSUME NEW a \in admitted, Late(a) PROVE Counted(a)'
  <2>1. Counted(a) /\ a[3] \in Nat /\ a[3] <= now /\ a[1] \in LimitKeys
        /\ expireAt[a[1]] \in Nat
    BY <1>1, <1>9, AdmittedFields DEF Admitted
  <2>2. CASE a[1] = k
    <3>1. \E e \in zset'[k] : e[2] = a[2] /\ a[3] <= e[1] + MaxDelay
      BY <1>7, <1>8, <1>9, <2>2
    <3>2. a[3] + Window < expireAt'[k]
      BY <1>2, <1>7, <2>1, <2>2 DEF Counted
    <3> QED
      BY <2>2, <3>1, <3>2 DEF Counted
  <2>3. CASE a[1] # k
    BY <1>7, <2>1, <2>3 DEF Counted
  <2> QED
    BY <2>2, <2>3
<1>10. ASSUME allowed PROVE Counted(new)'
  <2>1. mark \in zset'[k] /\ now + Window < expireAt'[k]
    BY <1>2, <1>7, <1>10
  <2> QED
    BY <1>3, <1>4, <2>1 DEF Counted
<1>11. Admitted'
  <2>1. IsFiniteSet(admitted')
    BY <1>1, <1>5, FS_AddElement DEF Admitted
  <2>2. ASSUME NEW a \in admitted'
        PROVE  a[2] <= sent' /\ a[3] <= now' /\ (Late(a)' => Counted(a)')
    <3>1. CASE a \in admitted
      <4>1. Late(a)' => Late(a)
        BY <1>5 DEF Late
      <4> QED
        BY <1>1, <1>5, <1>9, <3>1, <4>1 DEF Admitted
    <3>2. CASE allowed /\ a = new
      BY <1>2, <1>4, <1>5, <1>10, <3>2
    <3> QED
      BY <1>5, <2>2, <3>1, <3>2
  <2>3. \A a, b \in admitted' : a[2] = b[2] => a = b
    BY <1>1, <1>3, <1>4, <1>5 DEF Admitted
  <2> QED
    BY <2>1, <2>2, <2>3 DEF Admitted
<1>12. ASSUME NEW kk \in LimitKeys PROVE IsFiniteSet(zset'[kk])
  <2>1. CASE kk = k
    BY <1>6, <1>7, <2>1, FS_AddElement
  <2>2. CASE kk # k
    BY <1>7, <2>2 DEF WindowInv
  <2> QED
    BY <2>1, <2>2
<1>13. ASSUME NEW a \in admitted' PROVE Cardinality(InWindowOf(a)') <= Limit[a[1][1]]
  <2>1. CASE a \in admitted /\ InWindowOf(a)' = InWindowOf(a)
    BY <2>1, CapIs DEF WindowInv
  <2>2. CASE allowed /\ a[1] = k /\ a[3] = now
    <3>1. InWindowOf(a)' \subseteq LateOf(k) \cup {new}
      BY <1>2, <1>5, <2>2 DEF InWindowOf, LateOf, Late
    <3>2. /\ IsFiniteSet(LateOf(k)) /\ Cardinality(LateOf(k)) <= Cardinality(kept)
      BY <1>1, <1>2, <1>3, LateAreFew DEF kept
    <3>3. /\ IsFiniteSet(LateOf(k) \cup {new})
          /\ Cardinality(LateOf(k) \cup {new}) <= Cardinality(LateOf(k)) + 1
          /\ Cardinality(LateOf(k)) \in Nat
      <4>1. /\ IsFiniteSet(LateOf(k) \cup {new})
            /\ Cardinality(LateOf(k) \cup {new}) =
                   IF new \in LateOf(k) THEN Cardinality(LateOf(k)) ELSE Cardinality(LateOf(k)) + 1
        BY <3>2, FS_AddElement
      <4>2. Cardinality(LateOf(k)) \in Nat
        BY <3>2, FS_CardinalityType
      <4> QED
        BY <4>1, <4>2
    <3>4. /\ Cardinality(InWindowOf(a)') <= Cardinality(LateOf(k) \cup {new})
          /\ Cardinality(InWindowOf(a)') \in Nat
      BY <3>1, <3>3, FS_Subset, FS_CardinalityType
    <3>5. Cardinality(LateOf(k) \cup {new}) \in Nat
      BY <3>3, FS_CardinalityType
    <3>6. Cardinality(kept) < Limit[k[1]] /\ Limit[k[1]] \in Nat
      BY <1>5, <2>2, Given DEF LimitKeys
    <3> QED
      BY <1>6, <2>2, <3>2, <3>3, <3>4, <3>5, <3>6
  <2>3. CASE a \in admitted /\ ~(allowed /\ a[1] = k /\ a[3] = now)
    <3>1. a[3] \in Nat /\ a[3] <= now
      BY <1>1, AdmittedFields, <2>3 DEF Admitted
    <3>2. allowed => ~(new[1] = a[1] /\ new[3] <= a[3])
      BY <1>2, <1>4, <2>3, <3>1
    <3>3. InWindowOf(a)' = InWindowOf(a)
      BY <1>5, <3>2 DEF InWindowOf
    <3> QED
      BY <2>1, <2>3, <3>3
  <2> QED
    BY <1>4, <1>5, <1>13, <2>2, <2>3
<1>14. ASSUME NEW u \in Threads PROVE FreshStamp(u)'
  <2>1. CASE u = t
    BY <2>1 DEF FreshStamp
  <2>2. CASE u # t /\ pc[u] = "limit"
    <3>1. num[u] # n
      BY <2>2 DEF Core, OwnNumbers
    <3>2. FreshStamp(u)
      BY DEF WindowInv
    <3> QED
      BY <1>4, <1>5, <2>2, <3>1, <3>2 DEF FreshStamp
  <2>3. CASE u # t /\ pc[u] # "limit"
    BY <2>3 DEF FreshStamp
  <2> QED
    BY <2>1, <2>2, <2>3
<1>15. WindowCap'
  BY <1>13 DEF WindowCap, InWindowOf
<1> QED
  BY <1>11, <1>12, <1>14, <1>15 DEF WindowInv

LEMMA LimitRateWindow ==
    ASSUME Core, WindowInv, NEW t \in Threads, LimitRate(t) PROVE WindowInv'
<1> DEFINE s == shape[t]
           k == <<Tier(s), Identity(Tier(s), s.ip, Principal(s))>>
<1>1. Types /\ Types' /\ sent' = sent /\ sent \in Nat /\ pc[t] = "limit" /\ now' = now
  <2>1. Core' /\ Step(t, {"limit"}, {"read", "handler"})
    BY LimitRateStep, ServeKeepsCore DEF Serve
  <2> QED
    BY <2>1, Given DEF Core, Step, Types
<1>2. /\ \A u \in Threads \ {t} : pc'[u] = pc[u] /\ num'[u] = num[u] /\ stamp'[u] = stamp[u]
      /\ pc'[t] # "limit"
  <2>1. Goes(t, {"read", "handler"})
    BY LimitRateStep DEF Step
  <2>2. stamp' = [stamp EXCEPT ![t] = 0]
    BY DEF LimitRate
  <2> QED
    BY <1>1, <2>1, <2>2 DEF Goes, Types
<1>3. CASE UNCHANGED limitVars
  <2>1. ASSUME NEW u \in Threads PROVE FreshStamp(u)'
    <3>1. FreshStamp(u) /\ UNCHANGED <<now, admitted>>
      BY <1>3 DEF WindowInv, limitVars
    <3> QED
      BY <1>2, <3>1 DEF FreshStamp
  <2> QED
    BY <1>1, <1>3, <2>1, WindowStays
<1>4. ASSUME NEW allowed \in BOOLEAN, Script(k, Limit[Tier(s)], stamp[t], num[t], allowed)
      PROVE  WindowInv'
  <2>1. k \in LimitKeys /\ k[1] = Tier(s)
    BY <1>1, KeyIsLimited, TypesParts
  <2> HIDE DEF k
  <2>2. Script(k, Limit[k[1]], stamp[t], num[t], allowed)
    BY <1>4, <2>1
  <2> QED
    BY <1>1, <1>2, <2>1, <2>2, ScriptKeepsWindow
<1>5. UNCHANGED limitVars \/
      \E allowed \in BOOLEAN : Script(k, Limit[Tier(s)], stamp[t], num[t], allowed)
  BY DEF LimitRate, Checked
<1> QED
  BY <1>3, <1>4, <1>5

LEMMA NextWindow ==
    ASSUME Core, Core', WindowInv, [Next]_vars PROVE WindowInv'
<1>1. Types /\ sent \in Nat /\ sent' \in Nat
  <2>1. Types /\ Types'
    BY DEF Core
  <2> QED
    BY <2>1, Given DEF Types
<1>2. ASSUME UNCHANGED <<limitVars, sent>>,
             \A t \in Threads : pc'[t] = "limit" =>
                 pc[t] = "limit" /\ num'[t] = num[t] /\ stamp'[t] = stamp[t]
      PROVE  WindowInv'
  <2>1. ASSUME NEW t \in Threads PROVE FreshStamp(t)'
    BY <1>2 DEF WindowInv, FreshStamp, limitVars
  <2> QED
    BY <1>1, <1>2, <2>1, WindowStays
<1>3. ASSUME NEW t \in Threads, Serve(t) PROVE WindowInv'
  <2>1. CASE LimitRate(t)
    BY <2>1, LimitRateWindow
  <2>2. ASSUME NEW from, NEW to, Step(t, from, to), "limit" \notin to,
               UNCHANGED <<limitVars, stamp>>
        PROVE  WindowInv'
    <3>1. \A u \in Threads \ {t} : pc'[u] = pc[u] /\ num'[u] = num[u]
      BY <1>1, <2>2 DEF Step, Goes, Types
    <3>2. pc'[t] # "limit" /\ sent' = sent
      BY <2>2 DEF Step, Goes
    <3> QED
      BY <1>2, <2>2, <3>1, <3>2
  <2>3. CASE ReadEntry(t)
    BY <2>2, <2>3, ReadEntryStep
  <2>4. CASE TakeLock(t)
    BY <2>2, <2>4, TakeLockStep
  <2>5. CASE Handle(t)
    BY <2>2, <2>5, HandleStep
  <2>6. CASE StoreEntry(t)
    BY <2>2, <2>6, StoreEntryStep
  <2>7. CASE ReleaseLock(t)
    BY <2>2, <2>7, ReleaseLockStep
  <2> QED
    BY <1>3, <2>1, <2>3, <2>4, <2>5, <2>6, <2>7 DEF Serve
<1>4. ASSUME NEW t \in Threads, NEW s \in Shapes, Arrive(t, s) PROVE WindowInv'
  <2>1. UNCHANGED limitVars /\ sent' = sent + 1
    BY <1>4 DEF Arrive
  <2>2. ASSUME NEW u \in Threads PROVE FreshStamp(u)'
    <3>1. CASE u = t /\ pc'[t] = "limit"
      <4>1. num'[t] = sent + 1 /\ stamp'[t] = now + Skew[InstanceOf[t]]
        BY <1>1, <1>4, <3>1 DEF Arrive, Goto, Types
      <4>2. \A a \in admitted : a[2] \in Nat /\ a[2] <= sent
        BY <1>1, AdmittedFields DEF WindowInv, Admitted
      <4>3. now \in Nat /\ Skew[InstanceOf[t]] \in Nat /\ MaxDelay \in Nat
        BY <1>1, Given, TypesParts
      <4> QED
        BY <1>1, <2>1, <3>1, <4>1, <4>2, <4>3 DEF FreshStamp, limitVars
    <3>2. CASE u = t /\ pc'[t] # "limit"
      BY <3>2 DEF FreshStamp
    <3>3. CASE u # t
      <4>1. pc'[u] = pc[u] /\ num'[u] = num[u] /\ stamp'[u] = stamp[u]
        BY <1>1, <1>4, <3>3 DEF Arrive, Goto, Types
      <4> QED
        BY <2>1, <4>1 DEF WindowInv, FreshStamp, limitVars
    <3> QED
      BY <3>1, <3>2, <3>3
  <2> QED
    BY <1>1, <2>1, <2>2, WindowStays
<1>5. ASSUME NEW i, Crash(i) PROVE WindowInv'
  <2>1. \A t \in Threads : pc'[t] = "limit" =>
            pc[t] = "limit" /\ num'[t] = num[t] /\ stamp'[t] = stamp[t]
    BY <1>5 DEF Crash
  <2> QED
    BY <1>2, <1>5, <2>1 DEF Crash
<1>6. CASE TimePasses
  <2>1. now' = now + 1 /\ UNCHANGED <<zset, expireAt, admitted, sent, pc, num, stamp>>
    BY <1>6 DEF TimePasses, Tick, threadVars, countVars
  <2>2. now \in Nat /\ Window \in Nat /\ MaxSkew \in Nat /\ MaxDelay \in Nat
    BY <1>1, Given, TypesParts
  <2>3. Admitted'
    <3>1. ASSUME NEW a \in admitted
          PROVE  a[2] <= sent' /\ a[3] <= now' /\ (Late(a)' => Counted(a)')
      <4>1. a[3] \in Nat /\ a[3] <= now /\ a[2] <= sent /\ (Late(a) => Counted(a))
        BY <1>1, AdmittedFields DEF WindowInv, Admitted
      <4>2. Late(a)' => Late(a)
        BY <2>1, <2>2, <4>1 DEF Late
      <4>3. Counted(a) => Counted(a)'
        BY <2>1 DEF Counted
      <4> QED
        BY <2>1, <2>2, <4>1, <4>2, <4>3
    <3> QED
      BY <2>1, <3>1 DEF WindowInv, Admitted
  <2>4. ASSUME NEW t \in Threads PROVE FreshStamp(t)'
    <3>1. FreshStamp(t)
      BY DEF WindowInv
    <3>2. pc[t] = "limit" => now + Skew[InstanceOf[t]] < stamp[t] + MaxDelay
      BY <1>6 DEF TimePasses
    <3>3. stamp[t] \in Nat /\ Skew[InstanceOf[t]] \in Nat
      BY <1>1, Given, TypesParts
    <3> QED
      BY <2>1, <2>2, <3>1, <3>2, <3>3 DEF FreshStamp
  <2>5. WindowCap'
    BY <2>1 DEF WindowInv, WindowCap
  <2> QED
    BY <2>1, <2>3, <2>4, <2>5 DEF WindowInv
<1>7. ASSUME (\E k \in Keys : LockTimeout(k) \/ EntryTimeout(k)) \/ UNCHANGED vars
      PROVE  WindowInv'
  <2>1. UNCHANGED <<limitVars, threadVars, countVars>>
    BY <1>7 DEF LockTimeout, EntryTimeout, vars
  <2> QED
    BY <1>2, <2>1 DEF threadVars, countVars
<1> QED
  BY <1>3, <1>4, <1>5, <1>6, <1>7 DEF Next

(* No client is let through more often in a window than its limit, but for  *)
(* the difference of the instances' clocks and the delay of a script.       *)
THEOREM WindowsAreCapped == Spec => []WindowCap
<1>1. Init => WindowInv
  <2> SUFFICES ASSUME Init PROVE WindowInv
    OBVIOUS
  <2>1. admitted = {} /\ \A k \in LimitKeys : zset[k] = {}
    BY DEF Init, LimitKeys
  <2>2. \A t \in Threads : FreshStamp(t)
    BY DEF Init, FreshStamp
  <2> QED
    BY <2>1, <2>2, FS_EmptySet DEF WindowInv, Admitted, WindowCap
<1>2. Core /\ Core' /\ WindowInv /\ [Next]_vars => WindowInv'
  BY NextWindow
<1>3. WindowInv => WindowCap
  BY DEF WindowInv
<1> QED
  BY CoreInvariant, <1>1, <1>2, <1>3, PTL DEF Spec
=============================================================================
