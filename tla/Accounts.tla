------------------------------ MODULE Accounts ------------------------------
(***************************************************************************)
(* Accounts and their sessions.                                            *)
(*                                                                         *)
(* A session is a signed token with the account's auth_version; nothing on *)
(* the server lists the tokens, so an account is signed out by raising the *)
(* version of its row.  Every request reads the row once, at its start,    *)
(* and carries what it read to the place where it acts: a sign-in compares *)
(* a password with a row read before, a change of password writes a hash   *)
(* after a comparison, a chat is admitted long after its token was looked  *)
(* at.  One slot is one request being served; between two steps of a slot  *)
(* any other slot may move.                                                *)
(***************************************************************************)
EXTENDS Naturals, FiniteSets

CONSTANTS
  Users,        \* account names, each taken by at most one account
  Passwords,
  NoPassword,   \* the password of a name nobody has registered
  Slots,        \* requests served at the same time
  MaxChanges,   \* bound: accounts created or changed
  MaxRuns       \* bound: chats running at the same time

ASSUME AccountsAssumption ==
  /\ NoPassword \notin Passwords
  /\ MaxChanges \in Nat
  /\ MaxRuns \in Nat

VARIABLES
  users,     \* the rows; version 0 is a name without a row
  tokens,    \* the tokens handed out, with the proof each was given for
  runs,      \* the rows of running chats
  request,   \* what each slot is serving
  changes    \* bound: how many accounts were created or changed

accountVars == <<users, tokens, runs, request, changes>>

Roles == {"user", "admin"}
UserRow == [role: Roles, super: BOOLEAN, active: BOOLEAN,
            password: Passwords \union {NoPassword}, version: Nat]
Token == [user: Users, version: Nat, password: Passwords \union {NoPassword}, role: Roles]
Run == [user: Users, version: Nat]

Unregistered == [role |-> "user", super |-> FALSE, active |-> FALSE,
                 password |-> NoPassword, version |-> 0]

Idle == [kind |-> "none"]
SignIn == [kind: {"login", "register"}, user: Users, password: Passwords]
    \union [kind: {"compare"}, user: Users, password: Passwords, row: UserRow]
Chat == [kind: {"chat"}, user: Users, version: Nat]
NewPassword == [kind: {"password"}, phase: {"asked", "compared"},
                user: Users, old: Passwords, new: Passwords]
\* A patch holds the value a field gets, or nothing when the field is absent.
Optional(S) == {{}} \union {{v} : v \in S}
AdminRequest == [kind: {"create"}, user: Users, role: Roles, active: BOOLEAN, password: Passwords]
         \union [kind: {"update"}, user: Users, role: Optional(Roles), active: Optional(BOOLEAN)]
         \union [kind: {"reset"}, user: Users, password: Passwords]
Request == {Idle} \union SignIn \union Chat \union NewPassword \union AdminRequest

Exists(u) == users[u].version > 0
Patched(values, old) == IF values = {} THEN old ELSE CHOOSE v \in values : TRUE
MayChange == changes < MaxChanges

-----------------------------------------------------------------------------
(* What a committed change does to a row, to the tokens and to the runs.     *)

\* cancelRunningChatRuns: the running chats of one account.
Cancelled(u) == {r \in runs : r.user # u}

\* UpdatePasswordContext: a new hash signs out every token of the account.
WithPassword(row, p) == [row EXCEPT !.password = p, !.version = @ + 1]

\* UpdateFieldsContext: only a role or a state that really changes does.
WithFields(row, role, active) ==
  LET new == [row EXCEPT !.role = Patched(role, @), !.active = Patched(active, @)]
  IN IF new.role # row.role \/ new.active # row.active
     THEN [new EXCEPT !.version = @ + 1] ELSE new

\* Protection of the last administrator only.
IsProtectedIfLast(u, role, active) ==
  /\ users[u].active /\ users[u].role = "admin" /\ ("user" \in role \/ FALSE \in active)
  /\ Cardinality({v \in Users : users[v].active /\ users[v].role = "admin"}) <= 1

\* The owner stays an active administrator, and one always remains.
ActiveAdmins == {u \in Users : users[u].active /\ users[u].role = "admin"}
IsProtected(u, role, active) ==
  LET new == WithFields(users[u], role, active) IN
  \/ users[u].super /\ ("user" \in role \/ FALSE \in active)
  \/ /\ u \in ActiveAdmins
     /\ ~(new.active /\ new.role = "admin")
     /\ Cardinality(ActiveAdmins) <= 1

\* A sign-in that reads the version again when it signs.
TokenForNow(u, row) == [user |-> u, version |-> users[u].version, password |-> row.password, role |-> row.role]

\* The token of a row, with the password and the role it was given for.
TokenFor(u, row) == [user |-> u, version |-> row.version, password |-> row.password, role |-> row.role]

\* ResolveAuthenticatedUser: the row must be active and of the token's version.
IsValid(token) == users[token.user].active /\ users[token.user].version = token.version

Goes(t, to) == request' = [request EXCEPT ![t] = to]

-----------------------------------------------------------------------------
AccountsInit ==
  /\ users = [u \in Users |-> Unregistered]
  /\ tokens = {} /\ runs = {}
  /\ request = [t \in Slots |-> Idle]
  /\ changes = 0

(* Sign-in: RegisterHandler and LoginHandler.                                *)

SignInBegins(t, kind, u, p) ==
  /\ request[t].kind = "none"
  /\ Goes(t, [kind |-> kind, user |-> u, password |-> p])
  /\ UNCHANGED <<users, tokens, runs, changes>>

\* Login reads the row without a lock; an account waiting for approval fails.
LoginRead(t) ==
  LET q == request[t] IN
  /\ q.kind = "login"
  /\ Goes(t, IF users[q.user].active
             THEN [kind |-> "compare", user |-> q.user, password |-> q.password, row |-> users[q.user]]
             ELSE Idle)
  /\ UNCHANGED <<users, tokens, runs, changes>>

\* It compares the password with the row it read and signs that row's version.
LoginCompare(t) ==
  LET q == request[t] IN
  /\ q.kind = "compare"
  /\ tokens' = IF q.row.password = q.password
               THEN tokens \union {TokenFor(q.user, q.row)} ELSE tokens
  /\ Goes(t, Idle)
  /\ UNCHANGED <<users, runs, changes>>

\* CreateRegistrationUserContext: under the lock, the first account of all
\* becomes the owner; every other one waits for an administrator.
Registered(p) ==
  LET first == \A u \in Users : ~Exists(u) IN
  [role |-> IF first THEN "admin" ELSE "user", super |-> first, active |-> first,
   password |-> p, version |-> 1]

RegisterCreate(t) ==
  LET q == request[t] IN
  /\ q.kind = "register"
  /\ \/ /\ ~Exists(q.user) /\ MayChange
        /\ users' = [users EXCEPT ![q.user] = Registered(q.password)]
        /\ changes' = changes + 1
        /\ tokens' = IF Registered(q.password).active
                     THEN tokens \union {TokenFor(q.user, Registered(q.password))} ELSE tokens
     \/ Exists(q.user) /\ UNCHANGED <<users, changes, tokens>>
  /\ Goes(t, Idle)
  /\ UNCHANGED runs

-----------------------------------------------------------------------------
(* Requests of a signed-in user.                                             *)

\* What the holder of a token may ask for.  AdminMiddleware trusts the role
\* read here, even when the request acts after the role was taken away.
MayAsk(token) ==
  {[kind |-> "chat", user |-> token.user, version |-> token.version]}
  \union [kind: {"password"}, phase: {"asked"}, user: {token.user}, old: Passwords, new: Passwords]
  \union (IF users[token.user].role = "admin" THEN AdminRequest ELSE {})

\* AuthMiddleware looks at the token once, when the request begins.
Authenticate(t, token, q) ==
  /\ request[t].kind = "none"
  /\ token \in tokens /\ IsValid(token) /\ q \in MayAsk(token)
  /\ Goes(t, q)
  /\ UNCHANGED <<users, tokens, runs, changes>>

\* An admission that only asks whether the account is active.
MayRunActive(q) == users[q.user].active

\* lockChatRunUser: the admission looks at the account again, under its lock.
MayRun(q) == users[q.user].active /\ users[q.user].version = q.version

ChatAdmission(t) ==
  LET q == request[t] IN
  /\ q.kind = "chat"
  /\ IF MayRun(q)
     THEN /\ Cardinality(runs) < MaxRuns
          /\ runs' = runs \union {[user |-> q.user, version |-> q.version]}
     ELSE runs' = runs
  /\ Goes(t, Idle)
  /\ UNCHANGED <<users, tokens, changes>>

ChatEnds(r) ==
  /\ r \in runs
  /\ runs' = runs \ {r}
  /\ UNCHANGED <<users, tokens, request, changes>>

\* ChangePassword compares the old password with a row read without a lock ...
PasswordCompare(t) ==
  LET q == request[t] IN
  /\ q.kind = "password" /\ q.phase = "asked"
  /\ Goes(t, IF users[q.user].active /\ users[q.user].password = q.old
             THEN [q EXCEPT !.phase = "compared"] ELSE Idle)
  /\ UNCHANGED <<users, tokens, runs, changes>>

\* ... and writes the new hash whatever the row holds by then.
SetPassword(u, p) ==
  /\ MayChange
  /\ users' = [users EXCEPT ![u] = WithPassword(@, p)]
  /\ runs' = Cancelled(u)
  /\ changes' = changes + 1

PasswordWrite(t) ==
  LET q == request[t] IN
  /\ q.kind = "password" /\ q.phase = "compared"
  /\ SetPassword(q.user, q.new)
  /\ Goes(t, Idle)
  /\ UNCHANGED tokens

ResetPassword(t) ==
  LET q == request[t] IN
  /\ q.kind = "reset"
  /\ \/ Exists(q.user) /\ SetPassword(q.user, q.password)
     \/ ~Exists(q.user) /\ UNCHANGED <<users, runs, changes>>
  /\ Goes(t, Idle)
  /\ UNCHANGED tokens

CreateUser(t) ==
  LET q == request[t] IN
  /\ q.kind = "create"
  /\ \/ /\ ~Exists(q.user) /\ MayChange
        /\ users' = [users EXCEPT ![q.user] =
                       [role |-> q.role, super |-> FALSE, active |-> q.active,
                        password |-> q.password, version |-> 1]]
        /\ changes' = changes + 1
     \/ Exists(q.user) /\ UNCHANGED <<users, changes>>
  /\ Goes(t, Idle)
  /\ UNCHANGED <<tokens, runs>>

\* UpdateFieldsContext: row, version and runs change in one transaction.
UpdateUser(t) ==
  LET q == request[t]
      new == WithFields(users[q.user], q.role, q.active)
  IN
  /\ q.kind = "update"
  /\ \/ /\ Exists(q.user) /\ ~IsProtected(q.user, q.role, q.active) /\ MayChange
        /\ users' = [users EXCEPT ![q.user] = new]
        /\ runs' = IF new.version # users[q.user].version THEN Cancelled(q.user) ELSE runs
        /\ changes' = changes + 1
     \/ /\ ~Exists(q.user) \/ IsProtected(q.user, q.role, q.active)
        /\ UNCHANGED <<users, runs, changes>>
  /\ Goes(t, Idle)
  /\ UNCHANGED tokens

\* The process dies: its requests are gone, and the restart fails the runs
\* that were left running.  The tokens are with the clients.
AccountsCrash ==
  /\ request' = [t \in Slots |-> Idle]
  /\ runs' = {}
  /\ UNCHANGED <<users, tokens, changes>>

-----------------------------------------------------------------------------
SignInStep(t) ==
  \/ \E kind \in {"login", "register"}, u \in Users, p \in Passwords : SignInBegins(t, kind, u, p)
  \/ LoginRead(t) \/ LoginCompare(t) \/ RegisterCreate(t)

SignedInStep(t) ==
  \/ \E token \in tokens : \E q \in MayAsk(token) : Authenticate(t, token, q)
  \/ ChatAdmission(t)
  \/ PasswordCompare(t) \/ PasswordWrite(t)
  \/ ResetPassword(t) \/ CreateUser(t) \/ UpdateUser(t)

AccountsNext ==
  \/ \E t \in Slots : SignInStep(t) \/ SignedInStep(t)
  \/ \E r \in runs : ChatEnds(r)
  \/ AccountsCrash

AccountsSpec == AccountsInit /\ [][AccountsNext]_accountVars

-----------------------------------------------------------------------------
\* Every variable holds a value of its type.
AccountsTypeOK ==
  /\ users \in [Users -> UserRow]
  /\ tokens \subseteq Token
  /\ runs \subseteq Run
  /\ request \in [Slots -> Request]
  /\ changes \in Nat

\* A token that opens the door now was given for the password and the role
\* the account has now: no sign-in that read the row before a change of
\* either, and no token handed out before it, outlives the change.
SessionsAreCurrent ==
  \A token \in tokens :
    IsValid(token) => /\ token.password = users[token.user].password
                      /\ token.role = users[token.user].role

\* A chat that runs was admitted for the account as it is: a request whose
\* token was looked at before the account was changed starts nothing after it,
\* and what it had started is ended by the same transaction.
RunsAreCurrent == \A r \in runs : users[r.user].active /\ users[r.user].version = r.version

\* Once anybody is registered there is exactly one owner, an administrator who
\* can sign in, whatever registrations and demotions race.
OwnerRemains ==
  (\E u \in Users : Exists(u)) =>
    \E u \in Users : /\ users[u].super /\ users[u].active /\ users[u].role = "admin"
                     /\ \A other \in Users \ {u} : ~users[other].super
=============================================================================
