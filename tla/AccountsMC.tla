----------------------------- MODULE AccountsMC -----------------------------
(* Instances of Accounts for TLC. *)
EXTENDS Accounts

CONSTANTS alice, bob, carol, member, admin

AllOps == {"login", "refresh", "logout", "register", "confirm", "reset", "email", "join",
           "change", "ask_reset", "ask_confirm", "ask_email", "create", "invite", "update",
           "delete", "role", "delete_role", "key"}
Row(e, p, r, c) == [email |-> e, password |-> p, role |-> r, confirmed |-> c]
Table(a, b) == [u \in Users |-> CASE u = alice -> a [] u = bob -> b [] OTHER -> NoUser]
TwoRoles == [r \in Roles |-> [admin |-> r = admin, default |-> r = member]]
Token(u, adm, c) == [user |-> u, admin |-> adm, confirmed |-> c]

Base == [ops |-> {}, calls |-> 3, links |-> 0, time |-> 0, faults |-> 0, lag |-> FALSE,
         expiry |-> FALSE, roles |-> TwoRoles, access |-> {Token(alice, FALSE, TRUE)},
         users |-> Table(Row("a", "p", member, TRUE), NoUser)]

(* Sessions and keys while the password changes; with a failing command; with *)
(* a replica that lags.                                                     *)
Sessions == [Base EXCEPT !.ops = {"login", "refresh", "logout", "change", "key"}, !.calls = 4]
SessionFaults == [Sessions EXCEPT !.calls = 3, !.faults = 1, !.expiry = TRUE]
Lagging == [Sessions EXCEPT !.calls = 3, !.lag = TRUE]
(* Links are asked for, delivered twice, used again and forgotten. *)
Resets == [Base EXCEPT !.ops = {"ask_reset", "reset", "login"}, !.links = 2, !.time = 3]
Confirms == [Base EXCEPT !.ops = {"ask_confirm", "ask_email", "confirm", "email"}, !.calls = 4,
                 !.links = 2, !.users = Table(Row("a", "p", member, FALSE), NoUser),
                 !.access = {Token(alice, FALSE, FALSE)}]
(* People register or are invited and join; addresses collide. *)
Joining == [Base EXCEPT !.ops = {"register", "invite", "join", "confirm", "ask_reset", "reset"},
                        !.links = 2, !.access = {Token(alice, TRUE, TRUE)}, !.calls = 3]
(* An administrator changes users and roles. *)
Administration ==
    [Base EXCEPT !.ops = {"create", "update", "delete", "role", "delete_role", "key", "refresh", "login"},
                 !.calls = 2, !.access = {Token(alice, TRUE, TRUE)},
                 !.users = Table(Row("a", "p", admin, TRUE), Row("b", "p", member, FALSE))]
(* A user is deleted while links, e-mails and handlers are under way. *)
Leaving ==
    [Base EXCEPT !.ops = {"delete", "ask_reset", "reset", "ask_email", "email", "ask_confirm",
                          "confirm", "refresh", "login", "key"},
                 !.links = 1, !.access = {Token(alice, TRUE, TRUE), Token(bob, FALSE, FALSE)},
                 !.users = Table(Row("a", "p", admin, TRUE), Row("b", "q", member, FALSE))]

AllSetups == {Leaving, Sessions, SessionFaults, Lagging, Resets, Confirms, Joining, Administration}
Lifetimes == [kind \in {"confirm", "reset", "email", "invite"} |-> IF kind \in {"reset", "email"} THEN 1 ELSE 2]
=============================================================================
