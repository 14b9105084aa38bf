----------------------------- MODULE RequestsMC -----------------------------
(* Instances of Requests for TLC. *)
EXTENDS Requests, TLC

Post(who, at, idemKey, what) ==
    [verb |-> "post", path |-> at, subject |-> who, ip |-> "ip",
     key |-> idemKey, body |-> what, json |-> TRUE, csrf |-> TRUE]

(* Retries of one user, a different body under the same key, another user   *)
(* with the same key, nobody, a login, a preflight, a probe.                *)
Mine == Post("u1", "api", "k", "a")
Browse == [Mine EXCEPT !.verb = "get", !.key = "none"]
Login == Post("anon", "login", "none", "a")
Vip == Post("vip", "api", "k", "a")
AllShapes == {Mine, Browse, Login, Post("u1", "api", "k", "b"),
              Post("u2", "api", "k", "a"), Post("anon", "api", "k", "a"),
              [Mine EXCEPT !.csrf = FALSE], [Mine EXCEPT !.verb = "put"], [Mine EXCEPT !.verb = "options"],
              [Mine EXCEPT !.verb = "get", !.path = "health"]}

(* Time passes and clients browse and log in; retries meet failures; every  *)
(* kind of request is sent.                                                 *)
Setup(kinds, r, t, f, c, l) ==
    [shapes |-> kinds, requests |-> r, time |-> t, faults |-> f, crashes |-> c, lapses |-> l]
AllSetups == {Setup({Browse, Login}, 3, 4, 0, 0, 0),
              Setup({Vip, Post("vip", "api", "k", "b")}, 3, 0, 0, 1, 1),
              Setup({Vip}, 3, 0, 1, 0, 1),
              Setup(AllShapes, 2, 0, 0, 0, 0)}

(* Two retries, and nothing fails. *)
Calm == {Setup({Mine}, 2, 0, 0, 0, 0)}
CalmShapes == {Mine}

SentShapes == UNION {x.shapes : x \in AllSetups}
AllKeys == {KeyOf(s) : s \in {s \in SentShapes : Tracked(s)}}

TwoInstances == [t \in Threads |-> IF t = 1 THEN "i1" ELSE "i2"]
SkewOfOne == [i \in {"i1", "i2"} |-> IF i = "i2" THEN 1 ELSE 0]
NoSkew == [i \in {"i1", "i2"} |-> 0]
LimitOfTwo == [tier \in {"general", "auth"} |-> IF tier = "general" THEN 2 ELSE 1]
Generous == [tier \in {"general", "auth"} |-> 9]
=============================================================================
