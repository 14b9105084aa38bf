----------------------------- MODULE RateLimit ------------------------------
(***************************************************************************)
(* The sliding-window limiter of src/src/security/RateLimit.hpp.  The Lua  *)
(* script is one atomic step of Redis; the time it is given was read by an *)
(* application instance, by its own clock, some time before.               *)
(***************************************************************************)
EXTENDS Naturals, FiniteSets

CONSTANTS
    Window,     \* window_sec of both tiers
    Limit,      \* tier -> requests, protected_requests
    Exempt,     \* identities on the whitelist
    FailOpen,   \* fail_open
    MaxSkew,    \* how far an instance's clock is ahead, at most
    MaxDelay    \* how long a time that was read waits for its script

ASSUME LimitAssumption == \A tier \in {"general", "auth"} : Limit[tier] \in Nat \ {0}
ASSUME FailOpenAssumption == FailOpen \in BOOLEAN
ASSUME TimeAssumption == {Window, MaxSkew, MaxDelay} \subseteq Nat

VARIABLES
    now,        \* true time, in seconds
    zset,       \* rl:<tier>:<identity> -> the set of <<score, request>>
    expireAt,   \* when the key's PEXPIRE runs out
    admitted    \* history: <<key, request, time of the script>>

limitVars == <<now, zset, expireAt, admitted>>

(* client_ip(), identity_for(), ip_identity(): the protected tier counts by *)
(* address, the general one by user where there is one.                     *)
Identity(tier, ip, subject) == IF tier = "auth" \/ subject = "anon" THEN ip ELSE subject

(* What the key holds when the script runs. *)
Live(k) == IF now > expireAt[k] THEN {} ELSE zset[k]

(* ZREMRANGEBYSCORE key 0 (stamp - window). *)
InWindow(entries, stamp) == {e \in entries : e[1] + Window > stamp}

(* Slip: what has aged out is counted from the end of the window. *)
ScriptForgetful(k, limit, stamp, n, allowed) ==
    LET kept == {e \in Live(k) : e[1] + Window > stamp + 1} IN
    /\ allowed = (Cardinality(kept) < limit)
    /\ zset' = [zset EXCEPT ![k] = IF allowed THEN kept \cup {<<stamp, n>>} ELSE kept]
    /\ expireAt' = [expireAt EXCEPT ![k] = IF allowed THEN now + Window + 1 ELSE @]
    /\ admitted' = IF allowed THEN admitted \cup {<<k, n, now>>} ELSE admitted
    /\ UNCHANGED now

(* The script: prune, count, refuse or insert. *)
Script(k, limit, stamp, n, allowed) ==
    LET kept == InWindow(Live(k), stamp) IN
    /\ allowed = (Cardinality(kept) < limit)
    /\ zset' = [zset EXCEPT ![k] = IF allowed THEN kept \cup {<<stamp, n>>} ELSE kept]
    /\ expireAt' = [expireAt EXCEPT ![k] = IF allowed THEN now + Window + 1 ELSE @]
    /\ admitted' = IF allowed THEN admitted \cup {<<k, n, now>>} ELSE admitted
    /\ UNCHANGED now

(* check_window(): the whitelist, the script, or without Redis the setting. *)
Checked(tier, id, stamp, n, broken, allowed) ==
    \/ id \in Exempt /\ allowed = TRUE /\ UNCHANGED limitVars
    \/ id \notin Exempt /\ ~broken /\ Script(<<tier, id>>, Limit[tier], stamp, n, allowed)
    \/ id \notin Exempt /\ broken /\ allowed = FailOpen /\ UNCHANGED limitVars

Tick == now' = now + 1 /\ UNCHANGED <<zset, expireAt, admitted>>

(* The cap is honoured in every window, but for the difference of the      *)
(* clocks and the delay between reading the time and running the script:   *)
(* instances with different clocks count one client together.              *)
WindowCap ==
    \A a \in admitted :
        Cardinality({b \in admitted :
            /\ b[1] = a[1] /\ b[3] <= a[3]
            /\ b[3] + Window > a[3] + MaxSkew + MaxDelay}) <= Limit[a[1][1]]
=============================================================================
