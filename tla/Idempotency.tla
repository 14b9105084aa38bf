---------------------------- MODULE Idempotency -----------------------------
(***************************************************************************)
(* The Idempotency-Key middleware of src/src/security/Idempotency.hpp and  *)
(* the commands of src/src/cache/Cache.hpp it is made of.  One action      *)
(* fragment per Redis command; Requests puts them into the life of a       *)
(* request.  A response is known by the number of the request that made it.*)
(***************************************************************************)
EXTENDS Naturals

CONSTANTS
    Keys,       \* cache keys: principal, method, path and the client's key
    NoEntry, NoLock

VARIABLES
    entry,      \* "idemp:..." -> the body hash and the response, or NoEntry
    lock,       \* "idemp:...:lock" -> the body hash, or NoLock; "by" is
                \* history: Redis does not know whose lock it is
    lapses      \* locks that timed out while a handler was running

idemVars == <<entry, lock, lapses>>

(* Slip: the caller is not part of the key. *)
CacheKeyShared(principal, method, path, key) == <<"anon", method, path, key>>

(* detail::cache_key() *)
CacheKey(principal, method, path, key) == <<principal, method, path, key>>

(* read_stored_entry(): a miss, and a failing Redis which Cache::get turns  *)
(* into one.                                                                *)
Reply(k, broken) == IF broken THEN NoEntry ELSE entry[k]

(* What pre_handle answers from an entry: "" where it goes on. *)
FromEntry(e, body) == CASE e = NoEntry -> ""
                        [] e # NoEntry /\ e.body # body -> "conflict"
                        [] OTHER -> "replay"

(* Cache::set_nx() of the lock, whose value is the body hash.  An error     *)
(* answers FALSE, whether or not Redis has set the key.                     *)
SetNx(k, body, n, broken, got) ==
    /\ got = (lock[k] = NoLock /\ ~broken)
    /\ \/ lock' = [lock EXCEPT ![k] = IF @ = NoLock THEN [body |-> body, by |-> n] ELSE @]
       \/ broken /\ UNCHANGED lock
    /\ UNCHANGED <<entry, lapses>>

(* Slip: the entry does not say which body it answers. *)
StoreUnhashed(k, body, n, broken) ==
    /\ entry' = IF broken THEN entry ELSE [entry EXCEPT ![k] = [body |-> "", by |-> n]]
    /\ UNCHANGED <<lock, lapses>>

(* Cache::set() of the entry, for a 2xx response that is not oversized.     *)
Store(k, body, n, broken) ==
    /\ entry' = IF broken THEN entry ELSE [entry EXCEPT ![k] = [body |-> body, by |-> n]]
    /\ UNCHANGED <<lock, lapses>>

(* Slip: an unconditional DEL.                                              *)
DeleteAnyway(k, body, broken) ==
    /\ lock' = IF broken THEN lock ELSE [lock EXCEPT ![k] = NoLock]
    /\ UNCHANGED <<entry, lapses>>

(* LockGuard: delete the lock if its value is this request's body hash,     *)
(* which it also is when a retry of the same request has taken it since.    *)
CompareAndDelete(k, body, broken) ==
    /\ lock' = IF lock[k] # NoLock /\ lock[k].body = body /\ ~broken
               THEN [lock EXCEPT ![k] = NoLock] ELSE lock
    /\ UNCHANGED <<entry, lapses>>

(* lock_ttl_sec is over; it counts as a lapse under a running handler.      *)
LockExpires(k, busy) ==
    /\ lock[k] # NoLock
    /\ lapses' = IF busy THEN lapses + 1 ELSE lapses
    /\ lock' = [lock EXCEPT ![k] = NoLock]
    /\ UNCHANGED entry

(* ttl_sec is over. *)
EntryExpires(k) ==
    /\ entry[k] # NoEntry
    /\ entry' = [entry EXCEPT ![k] = NoEntry]
    /\ UNCHANGED <<lock, lapses>>
=============================================================================
