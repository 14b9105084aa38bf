------------------------------ MODULE Accounts ------------------------------
(***************************************************************************)
(* Users, roles, sessions, one-shot links and API keys: the controllers of *)
(* src/src/api/{Auth,Account,Admin,ApiKey}Controller.hpp, the repositories *)
(* and the Redis session store under them.  A handler is the sequence of   *)
(* commands that it still has to send to PostgreSQL and Redis ("todo");    *)
(* handlers on different threads interleave between the commands, and an   *)
(* early return drops the rest.  Passwords, addresses and permissions are  *)
(* members of small sets; a refresh token is known by its number.          *)
(***************************************************************************)
EXTENDS Naturals, Sequences, FiniteSets

CONSTANTS
    Threads,            \* the IO threads, as numbers
    Users, Roles, Emails, Passwords,
    NoUser, Gone,       \* an id that is not used yet; one of a deleted user
    NoRole, NoPassword,
    Ttl,                \* link kind -> its lifetime
    Kept,               \* link kind -> how long used_tokens remembers its use
    Setups              \* what a behaviour may hold: the ops, the bounds calls,
                        \* links, time and faults, a replica that lags, users, roles

VARIABLES
    setup,              \* one of Setups; never changes
    users, roles,       \* the tables; at most one role is the default
    replica,            \* the same, as reads from the replica see them
    keys,               \* API keys that are not revoked
    used,               \* the used_tokens table
    live, index,        \* Redis: live refresh tokens; user -> those to sweep
    sessions,           \* history: every refresh token minted
    links, mails,       \* links sent out; e-mails the worker has to send
    access,             \* access tokens that have not expired
    now, calls, faults, \* the clock; calls made; commands that failed
    call,               \* thread -> the handler it runs
    raced, vouched      \* history: what the properties excuse

tables == <<users, roles, replica>>
redisVars == <<live, index, sessions>>
mailVars == <<links, mails>>
history == <<raced, vouched>>

LinkKinds == {"confirm", "reset", "email", "invite"}
Rows == [email : Emails, password : Passwords \cup {NoPassword}, role : Roles,
         confirmed : BOOLEAN]
RoleRows == [admin : BOOLEAN, default : BOOLEAN]
Tokens == [user : Users, admin : BOOLEAN, confirmed : BOOLEAN]

Blank == [todo |-> <<>>, user |-> NoUser, email |-> "", password |-> NoPassword,
          link |-> 0, jti |-> 0, listed |-> {}, mail |-> "", role |-> NoRole,
          confirmed |-> FALSE, claims |-> NoUser]
IsRow(x) == x \notin {NoUser, Gone}

(* What the constraints of the tables keep: one address per user, roles that *)
(* exist, one default role at most.                                         *)
Consistent(db) ==
    /\ db \in [users : [Users -> {NoUser, Gone} \cup Rows], roles : [Roles -> {NoRole} \cup RoleRows]]
    /\ \A u \in Users : IsRow(db.users[u]) =>
          /\ db.roles[db.users[u].role] # NoRole
          /\ \A v \in Users : IsRow(db.users[v]) /\ db.users[v].email = db.users[u].email => v = u
    /\ \A r, s \in Roles :
          (/\ db.roles[r] # NoRole /\ db.roles[r].default
           /\ db.roles[s] # NoRole /\ db.roles[s].default) => r = s

ASSUME ThreadsAssumption == IsFiniteSet(Threads)
ASSUME NamesAssumption ==
    /\ {NoUser, Gone} \cap Rows = {} /\ NoUser # Gone /\ NoRole \notin Roles \cup RoleRows
    /\ NoPassword \notin Passwords /\ "" \notin Emails
(* used_tokens remembers a link for as long as it would be valid; the link of *)
(* an invitation is not put there.                                          *)
ASSUME LifetimesAssumption ==
    /\ \A kind \in LinkKinds : Ttl[kind] \in Nat
    /\ \A kind \in LinkKinds \ {"invite"} : Kept[kind] \in Nat /\ Ttl[kind] <= Kept[kind]
ASSUME SetupsAssumption ==
    \A s \in Setups : /\ Consistent([users |-> s.users, roles |-> s.roles])
                      /\ s.access \subseteq Tokens
                      /\ s.lag \in BOOLEAN /\ {s.calls, s.links, s.time, s.faults} \subseteq Nat

Exists(u) == IsRow(users[u])
Taken(rows, e) == \E u \in Users : IsRow(rows[u]) /\ rows[u].email = e
ByEmail(rows, e) == CHOOSE u \in Users : IsRow(rows[u]) /\ rows[u].email = e

(* A write commits on the primary; the replica follows at once or later.    *)
WriteUsers(rows) == /\ users' = rows
                    /\ replica' = IF setup.lag THEN replica
                                  ELSE [replica EXCEPT !.users = rows]
                    /\ UNCHANGED roles
WriteRoles(rows) == /\ roles' = rows
                    /\ replica' = IF setup.lag THEN replica
                                  ELSE [replica EXCEPT !.roles = rows]
                    /\ UNCHANGED users
(* One column of one user. *)
Update(u, row) == WriteUsers([users EXCEPT ![u] = row])

Head1(t) == IF call[t].todo = <<>> THEN "" ELSE Head(call[t].todo)
Has(t, step) == \E i \in DOMAIN call[t].todo : call[t].todo[i] = step
Return(t) == call' = [call EXCEPT ![t] = Blank]
Proceed(t, c) == call' = [call EXCEPT ![t] = IF Len(c.todo) = 1 THEN Blank
                                             ELSE [c EXCEPT !.todo = Tail(@)]]
GoOn(t) == Proceed(t, call[t])

-----------------------------------------------------------------------------
(* Who calls: a bearer of an access token, which says what its user was     *)
(* when it was minted, or of an API key, which is looked up in the tables.  *)
Claims(u, db) == [user |-> u, admin |-> db.roles[db.users[u].role].admin,
                  confirmed |-> db.users[u].confirmed]
Principals == access \cup {Claims(k.user, [users |-> users, roles |-> roles]) : k \in keys}

(* A request reaches the handler of op and the handler starts.  Idle threads *)
(* are alike: the first one takes it.                                       *)
Begin(t, op, c) ==
    /\ op \in setup.ops /\ calls < setup.calls /\ calls' = calls + 1
    /\ call[t] = Blank /\ \A u \in Threads : call[u] = Blank => t <= u
    /\ call' = [call EXCEPT ![t] = c]

(* Handlers that only send one command to PostgreSQL. *)
Quick(op) == /\ op \in setup.ops /\ calls < setup.calls /\ calls' = calls + 1
             /\ UNCHANGED call

Mint == <<"mark", "index">>
Drop == <<"recall", "drop", "unindex">>
(* What follows a new password: revoke_all() and revoke_api_keys(). *)
Evict == <<"list", "sweep", "keys">>

(* Tokens::verify(): the signature tells the purpose, then the expiry. *)
ValidLink(l, kind) == links[l].kind = kind /\ now <= links[l].exp
WithLink(l) == [Blank EXCEPT !.user = links[l].user, !.email = links[l].email, !.link = l]

(* The handlers of AuthController. *)
Login(t, e, p) ==
    Begin(t, "login", [Blank EXCEPT !.todo = <<"authenticate">> \o Mint,
                                    !.email = e, !.password = p])
Refresh(t, j) ==
    Begin(t, "refresh", [Blank EXCEPT !.todo = <<"check", "load">> \o Drop \o Mint,
                                      !.user = sessions[j].user, !.jti = j])
Logout(t, j) ==
    Begin(t, "logout", [Blank EXCEPT !.todo = Drop, !.user = sessions[j].user, !.jti = j])
(* RoleRepository::find_default() *)
IsDefault(r) == replica.roles[r] # NoRole /\ replica.roles[r].default
RegisterUser(t, u, e, p) ==
    \E r \in Roles :
        /\ IsDefault(r)
        /\ Begin(t, "register", [Blank EXCEPT !.todo = <<"create">>, !.user = u, !.email = e,
                                  !.password = p, !.role = r, !.mail = "confirm"])

(* The handlers of AccountController that are given a link. *)
Confirm(t, l) ==
    /\ ValidLink(l, "confirm")
    /\ Begin(t, "confirm", [WithLink(l) EXCEPT !.todo = <<"consume", "confirm">>])
ApplyReset(t, l, p) ==
    /\ ValidLink(l, "reset")
    /\ Begin(t, "reset", [WithLink(l) EXCEPT !.todo = <<"consume", "hash">> \o Evict,
                                             !.password = p])
ApplyChangeEmail(t, l) ==
    /\ ValidLink(l, "email")
    /\ Begin(t, "email", [WithLink(l) EXCEPT !.todo = <<"free", "consume", "move">>])
JoinFromInvite(t, l, p) ==
    /\ ValidLink(l, "invite")
    /\ Begin(t, "join", [WithLink(l) EXCEPT !.todo = <<"redeem">> \o Evict, !.password = p])

(* changePassword(): the old password is compared as soon as the row is read. *)
ChangePassword(t, c, old, new) ==
    LET row == replica.users[c.user] IN
    /\ c \in Principals /\ IsRow(row) /\ row.password = old /\ old # NoPassword
    /\ Begin(t, "change", [Blank EXCEPT !.todo = <<"hash">> \o Evict,
                                        !.user = c.user, !.password = new])

(* The handlers that only read a user and leave an e-mail to the worker. *)
Ask(kind, u, e) == /\ mails' = mails \cup {[kind |-> kind, user |-> u, email |-> e]}
                   /\ UNCHANGED <<tables, redisVars, keys, used, links, access>>
RequestReset(e) ==
    /\ Quick("ask_reset") /\ Taken(replica.users, e)
    /\ Ask("reset", ByEmail(replica.users, e), e)
ResendConfirm(c) ==
    /\ Quick("ask_confirm") /\ c \in Principals
    /\ IsRow(replica.users[c.user]) /\ ~replica.users[c.user].confirmed
    /\ Ask("confirm", c.user, replica.users[c.user].email)
RequestChangeEmail(c, e, p) ==
    LET row == replica.users[c.user] IN
    /\ Quick("ask_email") /\ c \in Principals
    /\ IsRow(row) /\ row.password = p /\ p # NoPassword
    /\ Ask("email", c.user, e)

(* The handlers of AdminController for users. *)
AdminBegin(t, op, c, todo) == c \in Principals /\ c.admin /\ Begin(t, op, todo)
CreateUser(t, c, u, e, p, r) ==
    /\ replica.roles[r] # NoRole
    /\ AdminBegin(t, "create", c, [Blank EXCEPT !.todo = <<"create">>, !.user = u, !.email = e,
                                   !.password = p, !.role = r, !.confirmed = TRUE])
InviteUser(t, c, u, e, r) ==
    /\ replica.roles[r] # NoRole
    /\ AdminBegin(t, "invite", c, [Blank EXCEPT !.todo = <<"create">>, !.user = u, !.email = e,
                                   !.role = r, !.mail = "invite"])
UpdateUser(t, c, u, e, r) ==
    /\ r # NoRole => u # c.user /\ replica.roles[r] # NoRole
    /\ AdminBegin(t, "update", c, [Blank EXCEPT !.todo = <<"patch">>, !.user = u,
                                   !.email = e, !.role = r])
DeleteUser(t, c, u) ==
    /\ u # c.user
    /\ AdminBegin(t, "delete", c, [Blank EXCEPT !.todo = <<"remove">>, !.user = u])

(* Slip: the old default stays. *)
AsDefaultToo(r, row) == [roles EXCEPT ![r] = row]

(* The handlers for roles.  A new default takes the place of the old one in  *)
(* the same transaction.                                                    *)
AsDefault(r, row) ==
    [s \in Roles |-> IF s = r THEN row
                     ELSE IF row.default /\ roles[s] # NoRole
                          THEN [roles[s] EXCEPT !.default = FALSE] ELSE roles[s]]
(* RoleRepository::create() and update() *)
PutRole(c, r, isNew, row) ==
    /\ Quick("role") /\ c \in Principals /\ c.admin /\ (roles[r] = NoRole) = isNew
    /\ WriteRoles(AsDefault(r, row))
    /\ UNCHANGED <<redisVars, mailVars, keys, used, access>>
DeleteRole(t, c, r) ==
    /\ ~IsDefault(r)
    /\ AdminBegin(t, "delete_role", c, [Blank EXCEPT !.todo = <<"remove_role">>, !.role = r])

(* The handlers of ApiKeyController.  A key goes back to the password its    *)
(* user has when it is made, also where the bearer's access token is older.  *)
CreateKey(c) ==
    /\ Quick("key") /\ c \in Principals /\ Exists(c.user)
    /\ keys' = keys \cup {[id |-> calls', user |-> c.user, password |-> users[c.user].password]}
    /\ UNCHANGED <<tables, redisVars, mailVars, used, access>>
RevokeKey(c, k) ==
    /\ Quick("key") /\ c \in Principals /\ k \in keys /\ k.user = c.user
    /\ keys' = keys \ {k}
    /\ UNCHANGED <<tables, redisVars, mailVars, used, access>>

-----------------------------------------------------------------------------
(* The commands of sessions. *)

(* login(): find_by_email() and the password. *)
Authenticate(t) ==
    LET c == call[t]
        u == ByEmail(replica.users, c.email) IN
    /\ Head1(t) = "authenticate"
    /\ IF Taken(replica.users, c.email) /\ replica.users[u].password = c.password
       THEN Proceed(t, [c EXCEPT !.user = u, !.claims = Claims(u, replica)])
       ELSE Return(t)
    /\ UNCHANGED <<tables, redisVars, mailVars, keys, used, access>>

(* Slip: a token that was revoked is good until it expires. *)
CheckNothing(t) ==
    /\ Head1(t) = "check" /\ GoOn(t)
    /\ UNCHANGED <<tables, redisVars, mailVars, keys, used, access>>

(* Sessions::is_live() *)
Check(t) ==
    /\ Head1(t) = "check"
    /\ IF call[t].jti \in live THEN GoOn(t) ELSE Return(t)
    /\ UNCHANGED <<tables, redisVars, mailVars, keys, used, access>>

(* refresh() loads the user; when it is gone the token is only revoked. *)
Load(t) ==
    /\ Head1(t) = "load"
    /\ LET u == call[t].user IN
       Proceed(t, IF IsRow(replica.users[u])
                  THEN [call[t] EXCEPT !.claims = Claims(u, replica)]
                  ELSE [call[t] EXCEPT !.todo = <<"load">> \o Drop])
    /\ UNCHANGED <<tables, redisVars, mailVars, keys, used, access>>

(* Sessions::revoke_jti(): GET, DEL, SREM. *)
Recall(t) ==
    /\ Head1(t) = "recall"
    /\ Proceed(t, [call[t] EXCEPT !.listed = {call[t].jti} \cap live])
    /\ UNCHANGED <<tables, redisVars, mailVars, keys, used, access>>
DropJti(t) ==
    /\ Head1(t) = "drop" /\ GoOn(t)
    /\ live' = live \ {call[t].jti}
    /\ UNCHANGED <<tables, index, sessions, mailVars, keys, used, access>>
Unindex(t) ==
    /\ Head1(t) = "unindex" /\ GoOn(t)
    /\ index' = [index EXCEPT ![call[t].user] = @ \ call[t].listed]
    /\ UNCHANGED <<tables, live, sessions, mailVars, keys, used, access>>

(* mint_session() and Sessions::record(): SET, then SADD.  A session keeps   *)
(* the password with which it, or the one it was refreshed from, began.     *)
Mark(t) ==
    LET c == call[t]
        j == Len(sessions) + 1 IN
    /\ Head1(t) = "mark"
    /\ sessions' = Append(sessions,
           [user |-> c.user, from |-> c.jti,
            password |-> IF c.jti = 0 THEN c.password ELSE sessions[c.jti].password])
    /\ live' = live \cup {j}
    /\ Proceed(t, [c EXCEPT !.jti = j])
    /\ UNCHANGED <<tables, index, mailVars, keys, used, access>>
Index(t) ==
    /\ Head1(t) = "index" /\ Return(t)
    /\ index' = [index EXCEPT ![call[t].user] = @ \cup {call[t].jti}]
    /\ access' = access \cup {call[t].claims}
    /\ UNCHANGED <<tables, live, sessions, mailVars, keys, used>>

(* Sessions::revoke_all(): SMEMBERS, then one DEL of the members and the set. *)
List(t) ==
    /\ Head1(t) = "list"
    /\ Proceed(t, [call[t] EXCEPT !.listed = index[call[t].user]])
    /\ UNCHANGED <<tables, redisVars, mailVars, keys, used, access>>
(* Slip: the index is deleted, the markers are not. *)
SweepIndex(t) ==
    /\ Head1(t) = "sweep" /\ GoOn(t)
    /\ index' = [index EXCEPT ![call[t].user] = {}]
    /\ UNCHANGED <<tables, live, sessions, mailVars, keys, used, access>>
Sweep(t) ==
    /\ Head1(t) = "sweep" /\ GoOn(t)
    /\ live' = live \ call[t].listed
    /\ index' = [index EXCEPT ![call[t].user] = {}]
    /\ UNCHANGED <<tables, sessions, mailVars, keys, used, access>>
(* ApiKeyRepository::revoke_all_for_user() *)
RevokeKeys(t) ==
    /\ Head1(t) = "keys" /\ Return(t)
    /\ keys' = {k \in keys : k.user # call[t].user}
    /\ UNCHANGED <<tables, redisVars, mailVars, used, access>>

-----------------------------------------------------------------------------
(* The commands of the repositories. *)
Effect(l) == links' = IF l = 0 THEN links ELSE [links EXCEPT ![l].effects = @ + 1]

(* Slip: a link that is already in used_tokens is let through. *)
ConsumeAgain(t) ==
    /\ Head1(t) = "consume" /\ GoOn(t)
    /\ used' = used \cup {[link |-> call[t].link, until |-> now + Kept[links[call[t].link].kind]]}
    /\ UNCHANGED <<tables, redisVars, mailVars, keys, access>>

(* consume_once(): INSERT ... ON CONFLICT DO NOTHING. *)
Consume(t) ==
    LET l == call[t].link IN
    /\ Head1(t) = "consume"
    /\ IF \E r \in used : r.link = l
       THEN Return(t) /\ UNCHANGED used
       ELSE GoOn(t) /\ used' = used \cup {[link |-> l, until |-> now + Kept[links[l].kind]]}
    /\ UNCHANGED <<tables, redisVars, mailVars, keys, access>>

(* UserRepository::mark_confirmed(), update_password_hash(), change_email()  *)
(* and redeem_invite(): no row, no effect and the handler answers.          *)
Write(t, step, possible, row) ==
    /\ Head1(t) = step
    /\ IF possible
       THEN GoOn(t) /\ Update(call[t].user, row) /\ Effect(call[t].link)
       ELSE Return(t) /\ UNCHANGED <<tables, links>>
    /\ UNCHANGED <<redisVars, mails, keys, used, access>>
MarkConfirmed(t) ==
    LET u == call[t].user IN
    Write(t, "confirm", Exists(u), [users[u] EXCEPT !.confirmed = TRUE])
UpdatePasswordHash(t) ==
    LET u == call[t].user IN
    Write(t, "hash", Exists(u), [users[u] EXCEPT !.password = call[t].password])
ChangeEmail(t) ==
    LET c == call[t] IN
    Write(t, "move", Exists(c.user) /\ ~Taken([users EXCEPT ![c.user] = NoUser], c.email),
          [users[c.user] EXCEPT !.email = c.email])
RedeemInvite(t) ==
    LET u == call[t].user IN
    Write(t, "redeem", Exists(u) /\ ~users[u].confirmed /\ users[u].password = NoPassword,
          [users[u] EXCEPT !.confirmed = TRUE, !.password = call[t].password])

(* applyChangeEmail() looks whether the address is free before it consumes. *)
LookFree(t) ==
    LET c == call[t] IN
    /\ Head1(t) = "free"
    /\ IF Taken([replica.users EXCEPT ![c.user] = NoUser], c.email) THEN Return(t) ELSE GoOn(t)
    /\ UNCHANGED <<tables, redisVars, mailVars, keys, used, access>>

(* create(), and the e-mail that registerUser() and inviteUser() ask for.   *)
Create(t) ==
    LET c == call[t] IN
    /\ Head1(t) = "create" /\ Return(t)
    /\ IF users[c.user] = NoUser /\ ~Taken(users, c.email) /\ roles[c.role] # NoRole
       THEN /\ Update(c.user, [email |-> c.email, password |-> c.password, role |-> c.role,
                               confirmed |-> c.confirmed])
            /\ mails' = IF c.mail = "" THEN mails
                        ELSE mails \cup {[kind |-> c.mail, user |-> c.user, email |-> c.email]}
       ELSE UNCHANGED <<tables, mails>>
    /\ UNCHANGED <<redisVars, links, keys, used, access>>

(* admin_update(): what the request leaves out is kept. *)
Patch(t) ==
    LET c == call[t]
        u == c.user IN
    /\ Head1(t) = "patch" /\ Return(t)
    /\ IF /\ Exists(u) /\ (c.role # NoRole => roles[c.role] # NoRole)
          /\ ~Taken([users EXCEPT ![u] = NoUser], c.email)
       THEN Update(u, [users[u] EXCEPT !.email = IF c.email = "" THEN @ ELSE c.email,
                                       !.role = IF c.role = NoRole THEN @ ELSE c.role])
       ELSE UNCHANGED tables
    /\ UNCHANGED <<redisVars, mailVars, keys, used, access>>

(* UserRepository::remove(): the API keys go with the user. *)
Remove(t) ==
    LET u == call[t].user IN
    /\ Head1(t) = "remove" /\ Return(t)
    /\ IF Exists(u) THEN Update(u, Gone) ELSE UNCHANGED tables
    /\ keys' = {k \in keys : k.user # u}
    /\ UNCHANGED <<redisVars, mailVars, used, access>>

(* RoleRepository::remove(): refused while a user has the role. *)
RemoveRole(t) ==
    LET r == call[t].role IN
    /\ Head1(t) = "remove_role" /\ Return(t)
    /\ IF \A u \in Users : Exists(u) => users[u].role # r
       THEN WriteRoles([roles EXCEPT ![r] = NoRole]) ELSE UNCHANGED tables
    /\ UNCHANGED <<redisVars, mailVars, keys, used, access>>

-----------------------------------------------------------------------------
(* Slip: a change-email link goes to the address the user has. *)
RecipientOld(m) == users[m.user].email

(* deliver_now(): a change-email link goes to the new address.  *)
Recipient(m) == IF m.kind = "email" THEN m.email ELSE users[m.user].email

(* Tokens::issue(): the purpose, the subject and the extra claims, signed.  *)
Issue(m) == [kind |-> m.kind, user |-> m.user, email |-> m.email,
             exp |-> now + Ttl[m.kind], to |-> Recipient(m), effects |-> 0]

(* process_job() of the worker reads the user again and issues the link now; *)
(* the job may be run again.                                                *)
Deliver(m) ==
    /\ m \in mails /\ Len(links) < setup.links
    /\ links' = IF Exists(m.user) THEN Append(links, Issue(m)) ELSE links
    /\ \/ mails' = mails \ {m}
       \/ Exists(m.user) /\ UNCHANGED mails
    /\ UNCHANGED <<tables, redisVars, keys, used, access, calls, faults, call, now>>

(* register_token_reaper_() *)
ReapUsed ==
    /\ \E r \in used : r.until < now
    /\ used' = {r \in used : r.until >= now}
    /\ UNCHANGED <<tables, redisVars, mailVars, keys, access, calls, faults, call, now>>

(* A link is consumed in the unit of time in which it was verified. *)
Tick == /\ now < setup.time /\ now' = now + 1
        /\ \A t \in Threads : ~Has(t, "consume")
        /\ UNCHANGED <<tables, redisVars, mailVars, keys, used, access, calls, faults, call>>

AccessExpires(a) ==
    /\ a \in access /\ setup.expiry /\ access' = access \ {a}
    /\ UNCHANGED <<tables, redisVars, mailVars, keys, used, calls, faults, call, now>>

CatchUp ==
    /\ replica # [users |-> users, roles |-> roles]
    /\ replica' = [users |-> users, roles |-> roles]
    /\ UNCHANGED <<users, roles, redisVars, mailVars, keys, used, access, calls, faults, call, now>>

(* A command fails and changes nothing.  Errors of the session store are     *)
(* swallowed, except that no session is minted without its mark and none is  *)
(* refreshed unless it is known to be live; an error of PostgreSQL ends the  *)
(* handler, which had nothing left to do if it was revoking the keys.       *)
Skipped == {"recall", "drop", "unindex", "index", "sweep"}
Fail(t) ==
    /\ call[t] # Blank /\ faults < setup.faults /\ faults' = faults + 1
    /\ CASE Head1(t) \in Skipped -> GoOn(t)
         [] Head1(t) = "list" -> Proceed(t, [call[t] EXCEPT !.todo = Tail(@)])
         [] OTHER -> Return(t)
    /\ access' = IF Head1(t) = "index" THEN access \cup {call[t].claims} ELSE access
    /\ UNCHANGED <<tables, redisVars, mailVars, keys, used, calls, now>>

-----------------------------------------------------------------------------
Handlers(t) ==
    \/ \E e \in Emails, p \in Passwords :
          Login(t, e, p) \/ \E u \in Users : users[u] = NoUser /\ RegisterUser(t, u, e, p)
    \/ \E j \in 1..Len(sessions) : Refresh(t, j) \/ Logout(t, j)
    \/ \E l \in 1..Len(links) :
          \/ Confirm(t, l) \/ ApplyChangeEmail(t, l)
          \/ \E p \in Passwords : ApplyReset(t, l, p) \/ JoinFromInvite(t, l, p)
    \/ \E c \in Principals :
          \/ \E old, new \in Passwords : ChangePassword(t, c, old, new)
          \/ \E u \in Users, e \in Emails, r \in Roles :
                \/ users[u] = NoUser /\ (InviteUser(t, c, u, e, r)
                                         \/ \E p \in Passwords : CreateUser(t, c, u, e, p, r))
                \/ UpdateUser(t, c, u, e, NoRole) \/ UpdateUser(t, c, u, "", r)
          \/ \E u \in Users : DeleteUser(t, c, u)
          \/ \E r \in Roles : DeleteRole(t, c, r)

QuickHandlers ==
    \/ \E e \in Emails : RequestReset(e)
    \/ \E c \in Principals :
          \/ ResendConfirm(c) \/ CreateKey(c) \/ \E k \in keys : RevokeKey(c, k)
          \/ \E e \in Emails, p \in Passwords : RequestChangeEmail(c, e, p)
          \/ \E r \in Roles, isNew, adm, dflt \in BOOLEAN :
                PutRole(c, r, isNew, [admin |-> adm, default |-> dflt])

Command(t) == \/ Authenticate(t) \/ Check(t) \/ Load(t) \/ Recall(t) \/ DropJti(t)
              \/ Unindex(t) \/ Mark(t) \/ Index(t) \/ List(t) \/ Sweep(t) \/ RevokeKeys(t)
              \/ Consume(t) \/ MarkConfirmed(t) \/ UpdatePasswordHash(t) \/ ChangeEmail(t)
              \/ RedeemInvite(t) \/ LookFree(t) \/ Create(t) \/ Patch(t) \/ Remove(t)
              \/ RemoveRole(t)

Step ==
    \/ \E t \in Threads :
          \/ Handlers(t)
             /\ UNCHANGED <<tables, redisVars, mailVars, keys, used, access, now, faults>>
          \/ Command(t) /\ UNCHANGED <<now, calls, faults>>
          \/ Fail(t)
    \/ QuickHandlers /\ UNCHANGED <<now, faults>>
    \/ \E m \in mails : Deliver(m)
    \/ \E a \in access : AccessExpires(a)
    \/ ReapUsed \/ Tick \/ CatchUp

(* The handlers that have begun to mint a session of u, or to put an end to  *)
(* its credentials; the threads that are about to rotate token j.           *)
Minting(u) == \E t \in Threads : /\ call[t].user = u /\ Has(t, "index")
                                 /\ Head1(t) \notin {"authenticate", "check"}
Changing(u) == \E t \in Threads : call[t].user = u /\ (Has(t, "hash") \/ Has(t, "keys"))
Rotating(j) == {t \in Threads : call[t].jti = j /\ Has(t, "drop") /\ Head1(t) # "check"}

(* What the properties excuse: a session minted while the password changed   *)
(* or the replica was behind, a token that two calls rotated at once.       *)
Overlaps ==
    {<<"user", u>> : u \in {x \in Users : Minting(x) /\ (Changing(x) \/ replica.users[x] # users[x])}}
    \cup {<<"token", j>> : j \in {i \in 1..Len(sessions) : Cardinality(Rotating(i)) > 1}}

(* Users whose address an administrator answers for. *)
ByAdmin == {call[t].user : t \in {x \in Threads : \/ Head1(x) = "patch"
                                                  \/ Head1(x) = "create" /\ call[x].confirmed}}

Next == Step /\ setup' = setup
        /\ raced' = raced \cup Overlaps' /\ vouched' = vouched \cup ByAdmin

Init ==
    /\ setup \in Setups
    /\ users = setup.users /\ roles = setup.roles
    /\ replica = [users |-> users, roles |-> roles]
    /\ keys = {} /\ used = {} /\ live = {} /\ index = [u \in Users |-> {}]
    /\ sessions = <<>> /\ links = <<>> /\ mails = {}
    /\ access = setup.access
    /\ now = 0 /\ calls = 0 /\ faults = 0
    /\ call = [t \in Threads |-> Blank] /\ raced = {}
    /\ vouched = {u \in Users : Exists(u) /\ users[u].confirmed}

vars == <<setup, tables, redisVars, mailVars, keys, used, access, now, calls, faults,
          call, history>>
Spec == Init /\ [][Next]_vars

-----------------------------------------------------------------------------
(* The type invariant. *)
TypeOK ==
    /\ Consistent([users |-> users, roles |-> roles]) /\ Consistent(replica)
    /\ live \subseteq 1..Len(sessions)
    /\ index \in [Users -> SUBSET (1..Len(sessions))]
    /\ \A k \in keys : Exists(k.user)
    /\ \A r \in used : r.link \in 1..Len(links)

(* A link takes effect once, whatever the other handlers do, though the      *)
(* table of used links is reaped while time passes; of the invites that a   *)
(* job delivered more than once, one does.                                  *)
LinkWorksOnce ==
    \A l \in 1..Len(links) :
        /\ links[l].effects <= 1
        /\ \A m \in 1..(l - 1) :
              /\ links[l].kind = "invite" /\ links[m].kind = "invite"
              /\ links[l].user = links[m].user
              => links[l].effects + links[m].effects <= 1

(* changePassword(), applyReset(): when the handler is done, no session and  *)
(* no API key made under the old password is left, unless a session was      *)
(* being minted meanwhile or a command failed.  Access tokens are not        *)
(* revoked: until they expire they open what they opened before.             *)
OldCredentialsDie ==
    LET Excused(u) == faults > 0 \/ Changing(u) \/ ~Exists(u) \/ <<"user", u>> \in raced IN
    /\ \A j \in live : LET s == sessions[j] IN
           Excused(s.user) \/ s.password = users[s.user].password
    /\ \A k \in keys : Excused(k.user) \/ k.password = users[k.user].password

(* refresh(): a token is rotated into one new session, unless two calls were *)
(* rotating it at once or a command failed.                                 *)
RotatesOnce ==
    \A j \in 1..Len(sessions) :
        \/ faults > 0 \/ <<"token", j>> \in raced
        \/ Cardinality({k \in 1..Len(sessions) : sessions[k].from = j}) <= 1

(* The address of a confirmed user was reached by a link that was used, or   *)
(* an administrator put it there, in whatever order links are sent and used. *)
ConfirmedIsProven ==
    \A u \in Users : Exists(u) /\ users[u].confirmed /\ u \notin vouched =>
        \E l \in 1..Len(links) : /\ links[l].user = u /\ links[l].to = users[u].email
                                 /\ links[l].effects > 0
=============================================================================
