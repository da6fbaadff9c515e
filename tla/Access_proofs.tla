----------------------------- MODULE Access_proofs -----------------------------
(***************************************************************************)
(* Proofs about the components MCAccess checks side by side, each for all  *)
(* values of its constants: accounts and their sessions, the groups of the *)
(* accounts, their pictures, the titles of their sessions, the limiter of  *)
(* sign-ins, and the web tools; and that the composition keeps what the    *)
(* components do.                                                          *)
(***************************************************************************)
EXTENDS MCAccess, Counting

-----------------------------------------------------------------------------
(* The parts of a request *)

(* A request has the fields of its kind. *)
LEMMA RequestFields ==
  ASSUME NEW q \in Request
  PROVE  /\ q.kind \in {"login", "register"} => q.user \in Users /\ q.password \in Passwords
         /\ q.kind = "compare" => q.user \in Users /\ q.password \in Passwords /\ q.row \in UserRow
         /\ q.kind = "chat" => q.user \in Users /\ q.version \in Nat
         /\ q.kind = "password" => q \in NewPassword
         /\ q.kind = "create" => /\ q.user \in Users /\ q.role \in Roles
                                 /\ q.active \in BOOLEAN /\ q.password \in Passwords
         /\ q.kind = "update" => /\ q.user \in Users /\ q.role \in Optional(Roles)
                                 /\ q.active \in Optional(BOOLEAN)
         /\ q.kind = "reset" => q.user \in Users /\ q.password \in Passwords
<1>1. CASE q \in {Idle}
  BY <1>1 DEF Idle
<1>2. CASE q \in SignIn
  BY <1>2 DEF SignIn
<1>3. CASE q \in Chat
  BY <1>3 DEF Chat
<1>4. CASE q \in NewPassword
  BY <1>4 DEF NewPassword
<1>5. CASE q \in AdminRequest
  BY <1>5 DEF AdminRequest
<1>. QED
  BY <1>1, <1>2, <1>3, <1>4, <1>5 DEF Request

(* A field of a patch is the new value, or the old one where it is absent. *)
LEMMA PatchedValue ==
  ASSUME NEW S, NEW values \in Optional(S), NEW old \in S
  PROVE  Patched(values, old) \in S /\ \A v \in S : v \in values => Patched(values, old) = v
<1>1. CASE values = {}
  BY <1>1 DEF Patched
<1>2. CASE values # {}
  <2>1. PICK v \in S : values = {v}
    BY <1>2 DEF Optional
  <2>2. Patched(values, old) = v
    BY <2>1 DEF Patched
  <2>. QED
    BY <2>1, <2>2
<1>. QED
  BY <1>1, <1>2

(* Rows made or changed are rows; the version only goes up, and it does when *)
(* the password, the role or the state of the account is another one.       *)
LEMMA RowChanges ==
  ASSUME NEW row \in UserRow
  PROVE  /\ \A p \in Passwords :
              /\ WithPassword(row, p) \in UserRow
              /\ WithPassword(row, p).version = row.version + 1
              /\ WithPassword(row, p).role = row.role /\ WithPassword(row, p).super = row.super
              /\ WithPassword(row, p).active = row.active
         /\ \A role \in Optional(Roles), active \in Optional(BOOLEAN) :
              LET new == WithFields(row, role, active) IN
              /\ new \in UserRow
              /\ new.super = row.super /\ new.password = row.password
              /\ new.role = Patched(role, row.role) /\ new.active = Patched(active, row.active)
              /\ IF new.role = row.role /\ new.active = row.active
                 THEN new.version = row.version ELSE new.version = row.version + 1
<1>1. \A p \in Passwords :
              /\ WithPassword(row, p) \in UserRow
              /\ WithPassword(row, p).version = row.version + 1
              /\ WithPassword(row, p).role = row.role /\ WithPassword(row, p).super = row.super
              /\ WithPassword(row, p).active = row.active
  <2>. TAKE p \in Passwords
  <2>1. WithPassword(row, p) \in UserRow
    <3>. DEFINE hashed == [row EXCEPT !.password = p]
    <3>1. hashed \in UserRow /\ hashed.version = row.version
      BY DEF UserRow
    <3>2. WithPassword(row, p) = [hashed EXCEPT !.version = hashed.version + 1]
      BY DEF WithPassword, UserRow
    <3>. HIDE DEF hashed
    <3>. QED
      BY <3>1, <3>2 DEF UserRow
  <2>2. WithPassword(row, p).version = row.version + 1
    BY DEF WithPassword, UserRow
  <2>3. WithPassword(row, p).role = row.role /\ WithPassword(row, p).super = row.super
    BY DEF WithPassword, UserRow
  <2>4. WithPassword(row, p).active = row.active
    BY DEF WithPassword, UserRow
  <2>. QED
    BY <2>1, <2>2, <2>3, <2>4
<1>2. ASSUME NEW role \in Optional(Roles), NEW active \in Optional(BOOLEAN)
      PROVE  LET new == WithFields(row, role, active) IN
              /\ new \in UserRow
              /\ new.super = row.super /\ new.password = row.password
              /\ new.role = Patched(role, row.role) /\ new.active = Patched(active, row.active)
              /\ IF new.role = row.role /\ new.active = row.active
                 THEN new.version = row.version ELSE new.version = row.version + 1
  <2>1. row.role \in Roles /\ row.active \in BOOLEAN /\ row.version \in Nat
    BY DEF UserRow
  <2>2. Patched(role, row.role) \in Roles /\ Patched(active, row.active) \in BOOLEAN
    BY <2>1, PatchedValue
  <2>. DEFINE patched == [row EXCEPT !.role = Patched(role, @), !.active = Patched(active, @)]
              new == WithFields(row, role, active)
  <2>3. /\ patched \in UserRow
        /\ patched.super = row.super /\ patched.password = row.password
        /\ patched.role = Patched(role, row.role) /\ patched.active = Patched(active, row.active)
        /\ patched.version = row.version
    BY <2>1, <2>2 DEF UserRow
  <2>4. new = IF patched.role = row.role /\ patched.active = row.active
              THEN patched ELSE [patched EXCEPT !.version = patched.version + 1]
    BY DEF WithFields
  <2>. HIDE DEF patched, new
  <2>5. /\ new \in UserRow
        /\ new.super = patched.super /\ new.password = patched.password
        /\ new.role = patched.role /\ new.active = patched.active
        /\ IF patched.role = row.role /\ patched.active = row.active
           THEN new.version = row.version ELSE new.version = row.version + 1
    BY <2>3, <2>4 DEF UserRow
  <2>. QED
    BY <2>3, <2>5 DEF new
<1>. QED
  BY <1>1, <1>2

(* What the holder of a token may ask for are requests, which compare nothing. *)
LEMMA AskedRequests ==
  ASSUME NEW token \in Token, NEW q \in MayAsk(token)
  PROVE  q \in Request /\ q.kind # "compare"
<1>1. CASE q = [kind |-> "chat", user |-> token.user, version |-> token.version]
  BY <1>1 DEF Request, Chat, Token
<1>2. CASE q \in [kind: {"password"}, phase: {"asked"}, user: {token.user}, old: Passwords, new: Passwords]
  BY <1>2 DEF Request, NewPassword, Token
<1>3. CASE q \in AdminRequest
  BY <1>3 DEF Request, AdminRequest
<1>. QED
  BY <1>1, <1>2, <1>3 DEF MayAsk

-----------------------------------------------------------------------------
(* Type correctness *)

LEMMA TypeInit == AccountsInit => AccountsTypeOK
BY AccountsAssumption DEF AccountsInit, AccountsTypeOK, Unregistered, UserRow, Roles, Request, Idle

LEMMA TypeNext == AccountsTypeOK /\ [AccountsNext]_accountVars => AccountsTypeOK'
<1>. SUFFICES ASSUME AccountsTypeOK, [AccountsNext]_accountVars PROVE AccountsTypeOK'
  OBVIOUS
<1>. USE DEF AccountsTypeOK
<1>idle. Idle \in Request
  BY DEF Request
<1>slot. ASSUME NEW t \in Slots, NEW q \in Request, Goes(t, q)
         PROVE request' \in [Slots -> Request]
  BY <1>slot DEF Goes
<1>1. ASSUME NEW t \in Slots, NEW kind \in {"login", "register"}, NEW u \in Users, NEW p \in Passwords,
             SignInBegins(t, kind, u, p)
      PROVE  AccountsTypeOK'
  <2>1. [kind |-> kind, user |-> u, password |-> p] \in Request
    BY DEF Request, SignIn
  <2>. QED
    BY <1>1, <2>1, <1>slot DEF SignInBegins
<1>2. ASSUME NEW t \in Slots, LoginRead(t) PROVE AccountsTypeOK'
  <2>. DEFINE q == request[t]
  <2>1. q.user \in Users /\ q.password \in Passwords
    BY <1>2, RequestFields DEF LoginRead
  <2>2. [kind |-> "compare", user |-> q.user, password |-> q.password, row |-> users[q.user]] \in Request
    BY <2>1 DEF Request, SignIn
  <2>. HIDE DEF q
  <2>. QED
    BY <1>2, <2>2, <1>slot, <1>idle DEF LoginRead, q
<1>3. ASSUME NEW t \in Slots, LoginCompare(t) PROVE AccountsTypeOK'
  <2>1. request[t].user \in Users /\ request[t].row \in UserRow
    BY <1>3, RequestFields DEF LoginCompare
  <2>2. TokenFor(request[t].user, request[t].row) \in Token
    BY <2>1 DEF TokenFor, Token, UserRow
  <2>. QED
    BY <1>3, <2>2, <1>slot, <1>idle DEF LoginCompare
<1>4. ASSUME NEW t \in Slots, RegisterCreate(t) PROVE AccountsTypeOK'
  <2>1. request[t].user \in Users /\ request[t].password \in Passwords
    BY <1>4, RequestFields DEF RegisterCreate
  <2>2. Registered(request[t].password) \in UserRow
    BY <2>1 DEF Registered, UserRow, Roles
  <2>3. TokenFor(request[t].user, Registered(request[t].password)) \in Token
    BY <2>1, <2>2 DEF TokenFor, Token, UserRow
  <2>. QED
    BY <1>4, <2>1, <2>2, <2>3, <1>slot, <1>idle DEF RegisterCreate
<1>5. ASSUME NEW t \in Slots, NEW token \in tokens, NEW q \in MayAsk(token), Authenticate(t, token, q)
      PROVE  AccountsTypeOK'
  <2>1. q \in Request
    BY AskedRequests
  <2>. QED
    BY <1>5, <2>1, <1>slot DEF Authenticate
<1>6. ASSUME NEW t \in Slots, ChatAdmission(t) PROVE AccountsTypeOK'
  <2>1. [user |-> request[t].user, version |-> request[t].version] \in Run
    BY <1>6, RequestFields DEF ChatAdmission, Run
  <2>. QED
    BY <1>6, <2>1, <1>slot, <1>idle DEF ChatAdmission
<1>7. ASSUME NEW r \in runs, ChatEnds(r) PROVE AccountsTypeOK'
  BY <1>7 DEF ChatEnds
<1>8. ASSUME NEW t \in Slots, PasswordCompare(t) PROVE AccountsTypeOK'
  <2>1. [request[t] EXCEPT !.phase = "compared"] \in Request
    <3>1. request[t] \in NewPassword
      BY <1>8, RequestFields DEF PasswordCompare
    <3>. QED
      BY <3>1 DEF Request, NewPassword
  <2>. QED
    BY <1>8, <2>1, <1>slot, <1>idle DEF PasswordCompare
<1>set. ASSUME NEW u \in Users, NEW p \in Passwords, SetPassword(u, p)
        PROVE  users' \in [Users -> UserRow] /\ runs' \subseteq Run /\ changes' \in Nat
  BY <1>set, RowChanges DEF SetPassword, Cancelled
<1>9. ASSUME NEW t \in Slots, PasswordWrite(t) PROVE AccountsTypeOK'
  <2>1. request[t].user \in Users /\ request[t].new \in Passwords
    BY <1>9, RequestFields DEF PasswordWrite, NewPassword
  <2>. QED
    BY <1>9, <2>1, <1>set, <1>slot, <1>idle DEF PasswordWrite
<1>10. ASSUME NEW t \in Slots, ResetPassword(t) PROVE AccountsTypeOK'
  <2>1. request[t].user \in Users /\ request[t].password \in Passwords
    BY <1>10, RequestFields DEF ResetPassword
  <2>. QED
    BY <1>10, <2>1, <1>set, <1>slot, <1>idle DEF ResetPassword
<1>11. ASSUME NEW t \in Slots, CreateUser(t) PROVE AccountsTypeOK'
  <2>. DEFINE q == request[t]
  <2>1. /\ q.user \in Users /\ q.role \in Roles /\ q.active \in BOOLEAN /\ q.password \in Passwords
    BY <1>11, RequestFields DEF CreateUser
  <2>2. [role |-> q.role, super |-> FALSE, active |-> q.active,
         password |-> q.password, version |-> 1] \in UserRow
    BY <2>1 DEF UserRow
  <2>. QED
    BY <1>11, <2>1, <2>2, <1>slot, <1>idle DEF CreateUser
<1>12. ASSUME NEW t \in Slots, UpdateUser(t) PROVE AccountsTypeOK'
  <2>. DEFINE q == request[t]
  <2>1. q.user \in Users /\ q.role \in Optional(Roles) /\ q.active \in Optional(BOOLEAN)
    BY <1>12, RequestFields DEF UpdateUser
  <2>2. WithFields(users[q.user], q.role, q.active) \in UserRow
    BY <2>1, RowChanges
  <2>. QED
    BY <1>12, <2>1, <2>2, <1>slot, <1>idle DEF UpdateUser, Cancelled
<1>13. ASSUME AccountsCrash PROVE AccountsTypeOK'
  BY <1>13, <1>idle DEF AccountsCrash
<1>14. ASSUME UNCHANGED accountVars PROVE AccountsTypeOK'
  BY <1>14 DEF accountVars
<1>. QED
  BY <1>1, <1>2, <1>3, <1>4, <1>5, <1>6, <1>7, <1>8, <1>9, <1>10, <1>11, <1>12, <1>13, <1>14
     DEF AccountsNext, SignInStep, SignedInStep

(* Every reachable state is well typed. *)
THEOREM AccountsTypeCorrect == AccountsSpec => []AccountsTypeOK
BY TypeInit, TypeNext, PTL DEF AccountsSpec

-----------------------------------------------------------------------------
(* The inductive invariant *)

(* What was read of an account is of a version the account has had, and of   *)
(* the account as it is if that is still its version.                        *)
Fits(row, version, password, role) ==
  /\ version \in Nat /\ version > 0 /\ version <= row.version
  /\ version = row.version => password = row.password /\ role = row.role

TokensFit ==
  \A token \in tokens : Fits(users[token.user], token.version, token.password, token.role)

(* A sign-in that compares the password holds a row it has read. *)
ReadsFit ==
  \A t \in Slots : request[t].kind = "compare" =>
    Fits(users[request[t].user],
         request[t].row.version, request[t].row.password, request[t].row.role)

(* A name nobody has registered can neither sign in nor own the place. *)
NobodyIsActive == \A u \in Users : ~Exists(u) => ~users[u].active /\ ~users[u].super

Somebody == \E u \in Users : Exists(u)

(* Only an account that exists changes its password or creates accounts. *)
SendersExist ==
  \A t \in Slots : /\ request[t].kind = "create" => Somebody
                   /\ request[t].kind = "password" => Exists(request[t].user)

AccountInv == TokensFit /\ ReadsFit /\ NobodyIsActive /\ SendersExist /\ RunsAreCurrent /\ OwnerRemains

(* How a step changes rows: the version never falls, and while it stays so do *)
(* the password, the role and the state of the account.                      *)
Evolves ==
  \A u \in Users :
    /\ users[u].version <= users'[u].version
    /\ users'[u].version = users[u].version =>
         /\ users'[u].password = users[u].password /\ users'[u].role = users[u].role
         /\ users'[u].active = users[u].active

(* The changes of an account that exists; its owner's mark stays. *)
LEMMA PasswordSet ==
  ASSUME AccountsTypeOK, NEW u \in Users, NEW p \in Passwords, SetPassword(u, p)
  PROVE  /\ Evolves /\ users' \in [Users -> UserRow]
         /\ \A v \in Users : /\ users'[v].super = users[v].super /\ users'[v].role = users[v].role
                             /\ users'[v].active = users[v].active
         /\ \A v \in Users \ {u} : users'[v] = users[v]
         /\ runs' = Cancelled(u)
<1>1. users \in [Users -> UserRow] /\ users' = [users EXCEPT ![u] = WithPassword(users[u], p)]
  BY DEF AccountsTypeOK, SetPassword
<1>2. /\ WithPassword(users[u], p) \in UserRow
      /\ WithPassword(users[u], p).version = users[u].version + 1
      /\ WithPassword(users[u], p).role = users[u].role
      /\ WithPassword(users[u], p).super = users[u].super
      /\ WithPassword(users[u], p).active = users[u].active
  BY <1>1, RowChanges
<1>3. \A v \in Users : users[v].version \in Nat
  BY <1>1 DEF UserRow
<1>4. /\ users'[u] = WithPassword(users[u], p)
      /\ \A v \in Users \ {u} : users'[v] = users[v]
      /\ users' \in [Users -> UserRow]
  BY <1>1, <1>2
<1>5. Evolves
  BY <1>2, <1>3, <1>4 DEF Evolves
<1>. QED
  BY <1>2, <1>4, <1>5 DEF SetPassword

(* What fitted an account before a step fits it after. *)
LEMMA FitsStays ==
  ASSUME AccountsTypeOK, AccountsTypeOK', Evolves,
         NEW u \in Users, NEW version, NEW password, NEW role,
         Fits(users[u], version, password, role)
  PROVE  Fits(users'[u], version, password, role)
<1>1. users[u].version \in Nat /\ users'[u].version \in Nat
  BY DEF AccountsTypeOK, UserRow
<1>. QED
  BY <1>1 DEF Evolves, Fits

(* The row of a new account replaces one that was never registered. *)
LEMMA RowCreated ==
  ASSUME AccountsTypeOK, NEW u \in Users, NEW row \in UserRow, ~Exists(u), row.version = 1,
         users' = [users EXCEPT ![u] = row]
  PROVE  Evolves /\ users'[u] = row /\ \A v \in Users \ {u} : users'[v] = users[v]
<1>1. users \in [Users -> UserRow] /\ \A v \in Users : users[v].version \in Nat
  BY DEF AccountsTypeOK, UserRow
<1>2. users'[u] = row /\ \A v \in Users \ {u} : users'[v] = users[v]
  BY <1>1
<1>3. users[u].version = 0
  BY <1>1 DEF Exists
<1>. QED
  BY <1>1, <1>2, <1>3 DEF Evolves

(* An update changes fields of a row by its version; it never takes the owner's. *)
LEMMA RowUpdated ==
  ASSUME AccountsTypeOK, NEW t \in Slots, UpdateUser(t)
  PROVE  LET u == request[t].user IN
         \/ users' = users /\ runs' = runs
         \/ /\ Evolves /\ u \in Users /\ Exists(u)
            /\ \A v \in Users \ {u} : users'[v] = users[v]
            /\ users'[u].super = users[u].super
            /\ users[u].super /\ users[u].active /\ users[u].role = "admin" =>
                 users'[u].active /\ users'[u].role = "admin"
            /\ runs' = IF users'[u].version # users[u].version THEN Cancelled(u) ELSE runs
<1>. DEFINE q == request[t]
            u == request[t].user
            new == WithFields(users[u], q.role, q.active)
<1>1. u \in Users /\ q.role \in Optional(Roles) /\ q.active \in Optional(BOOLEAN)
  BY RequestFields DEF UpdateUser, AccountsTypeOK
<1>2. /\ users \in [Users -> UserRow] /\ users[u] \in UserRow
      /\ \A v \in Users : users[v].version \in Nat
  BY <1>1 DEF AccountsTypeOK, UserRow
<1>3. CASE users' = users /\ runs' = runs
  BY <1>3
<1>4. CASE /\ Exists(u) /\ ~IsProtected(u, q.role, q.active)
           /\ users' = [users EXCEPT ![u] = new]
           /\ runs' = IF new.version # users[u].version THEN Cancelled(u) ELSE runs
  <2>1. /\ new \in UserRow /\ new.super = users[u].super /\ new.password = users[u].password
        /\ new.role = Patched(q.role, users[u].role)
        /\ new.active = Patched(q.active, users[u].active)
        /\ IF new.role = users[u].role /\ new.active = users[u].active
           THEN new.version = users[u].version ELSE new.version = users[u].version + 1
    BY <1>1, <1>2, RowChanges
  <2>2. users'[u] = new /\ \A v \in Users \ {u} : users'[v] = users[v]
    BY <1>1, <1>2, <1>4
  <2>3. Evolves
    BY <1>1, <1>2, <2>1, <2>2 DEF Evolves
  <2>4. ASSUME users[u].super, users[u].active, users[u].role = "admin"
        PROVE  new.active /\ new.role = "admin"
    <3>1. "user" \notin q.role /\ FALSE \notin q.active
      BY <1>4, <2>4 DEF IsProtected
    <3>2. q.role = {} \/ q.role = {"admin"}
      BY <1>1, <3>1 DEF Optional, Roles
    <3>3. Patched(q.role, users[u].role) = "admin"
      BY <1>1, <2>4, <3>2 DEF Patched
    <3>4. q.active = {} \/ q.active = {TRUE}
      BY <1>1, <3>1 DEF Optional
    <3>5. Patched(q.active, users[u].active)
      BY <2>4, <3>4 DEF Patched
    <3>. QED
      BY <2>1, <3>3, <3>5
  <2>. HIDE DEF new
  <2>. QED
    BY <1>1, <1>4, <2>1, <2>2, <2>3, <2>4
<1>. QED
  BY <1>3, <1>4 DEF UpdateUser

(* Every step of the specification. *)
LEMMA Evolution ==
  ASSUME AccountsTypeOK, [AccountsNext]_accountVars
  PROVE  Evolves
<1>. USE DEF AccountsTypeOK
<1>same. ASSUME users' = users PROVE Evolves
  <2>1. \A u \in Users : users[u].version \in Nat
    BY DEF UserRow
  <2>. QED
    BY <1>same, <2>1 DEF Evolves
<1>1. ASSUME NEW t \in Slots, SignInStep(t) PROVE Evolves
  <2>1. CASE RegisterCreate(t)
    <3>1. request[t].user \in Users /\ request[t].password \in Passwords
      BY <2>1, RequestFields DEF RegisterCreate
    <3>2. Registered(request[t].password) \in UserRow /\ Registered(request[t].password).version = 1
      BY <3>1 DEF Registered, UserRow, Roles
    <3>. QED
      BY <2>1, <3>1, <3>2, <1>same, RowCreated DEF RegisterCreate
  <2>. QED
    BY <1>1, <2>1, <1>same DEF SignInStep, SignInBegins, LoginRead, LoginCompare
<1>2. ASSUME NEW t \in Slots, SignedInStep(t) PROVE Evolves
  <2>1. CASE PasswordWrite(t)
    <3>1. request[t].user \in Users /\ request[t].new \in Passwords
      BY <2>1, RequestFields DEF PasswordWrite, NewPassword
    <3>. QED
      BY <2>1, <3>1, PasswordSet DEF PasswordWrite
  <2>2. CASE ResetPassword(t)
    <3>1. request[t].user \in Users /\ request[t].password \in Passwords
      BY <2>2, RequestFields DEF ResetPassword
    <3>. QED
      BY <2>2, <3>1, <1>same, PasswordSet DEF ResetPassword
  <2>3. CASE CreateUser(t)
    <3>. DEFINE q == request[t]
                created == [role |-> q.role, super |-> FALSE, active |-> q.active,
                            password |-> q.password, version |-> 1]
    <3>1. q.user \in Users /\ created \in UserRow /\ created.version = 1
      BY <2>3, RequestFields DEF CreateUser, UserRow
    <3>. QED
      BY <2>3, <3>1, <1>same, RowCreated DEF CreateUser
  <2>4. CASE UpdateUser(t)
    BY <2>4, <1>same, RowUpdated
  <2>. QED
    BY <1>2, <2>1, <2>2, <2>3, <2>4, <1>same
       DEF SignedInStep, Authenticate, ChatAdmission, PasswordCompare
<1>. QED
  BY <1>1, <1>2, <1>same DEF AccountsNext, ChatEnds, AccountsCrash, accountVars

-----------------------------------------------------------------------------
(* One lemma for each part of the invariant *)

LEMMA InvInit == AccountsInit => AccountInv
BY SMTT(30) DEF AccountsInit, AccountInv, TokensFit, ReadsFit, NobodyIsActive, SendersExist,
       RunsAreCurrent, OwnerRemains, Idle, Unregistered, Exists

(* The tokens handed out are those that were, and those of a sign-in: of the *)
(* row it has read, or of the row it has just created.                      *)
LEMMA TokensNext ==
  ASSUME AccountsTypeOK, AccountsTypeOK', TokensFit, ReadsFit, [AccountsNext]_accountVars
  PROVE  TokensFit'
<1>. USE DEF AccountsTypeOK
<1>1. Evolves
  BY Evolution
<1>old. \A token \in tokens : Fits(users'[token.user], token.version, token.password, token.role)
  BY <1>1, FitsStays DEF TokensFit, Token
<1>2. CASE tokens' = tokens
  BY <1>2, <1>old DEF TokensFit
<1>3. ASSUME NEW t \in Slots, LoginCompare(t) PROVE TokensFit'
  <2>. DEFINE q == request[t]
  <2>1. q.user \in Users /\ Fits(users[q.user], q.row.version, q.row.password, q.row.role)
    BY <1>3, RequestFields DEF LoginCompare, ReadsFit
  <2>2. users' = users /\ tokens' \subseteq tokens \union {TokenFor(q.user, q.row)}
    BY <1>3 DEF LoginCompare
  <2>. HIDE DEF q
  <2>. QED
    BY <1>old, <2>1, <2>2 DEF TokensFit, TokenFor
<1>4. ASSUME NEW t \in Slots, RegisterCreate(t) PROVE TokensFit'
  <2>. DEFINE q == request[t]
              row == Registered(q.password)
  <2>1. q.user \in Users /\ row.version = 1
    BY <1>4, RequestFields DEF RegisterCreate, Registered
  <2>2. CASE users' = [users EXCEPT ![q.user] = row] /\ tokens' = tokens \union {TokenFor(q.user, row)}
    <3>1. users'[q.user] = row
      BY <2>1, <2>2
    <3>. HIDE DEF row
    <3>2. ASSUME NEW token \in tokens', token = TokenFor(q.user, row)
          PROVE  Fits(users'[token.user], token.version, token.password, token.role)
      BY <2>1, <3>1, <3>2 DEF TokenFor, Fits
    <3>. QED
      BY <2>2, <3>2, <1>old DEF TokensFit
  <2>. QED
    BY <1>2, <1>4, <2>2 DEF RegisterCreate
<1>. QED
  BY <1>2, <1>3, <1>4
     DEF AccountsNext, SignInStep, SignedInStep, SignInBegins, LoginRead, Authenticate, ChatAdmission,
         PasswordCompare, PasswordWrite, ResetPassword, CreateUser, UpdateUser, ChatEnds,
         AccountsCrash, accountVars

(* A sign-in reads the row of an account that is active, so one that exists. *)
LEMMA ReadsNext ==
  ASSUME AccountsTypeOK, AccountsTypeOK', ReadsFit, NobodyIsActive, [AccountsNext]_accountVars
  PROVE  ReadsFit'
<1>. USE DEF AccountsTypeOK
<1>1. Evolves
  BY Evolution
<1>old. \A t \in Slots : request[t].kind = "compare" =>
          Fits(users'[request[t].user],
               request[t].row.version, request[t].row.password, request[t].row.role)
  BY <1>1, FitsStays, RequestFields DEF ReadsFit
<1>quiet. ASSUME NEW t \in Slots, NEW q, q.kind # "compare", Goes(t, q) PROVE ReadsFit'
  BY <1>quiet, <1>old DEF Goes, ReadsFit
<1>idle. Idle.kind # "compare"
  BY DEF Idle
<1>2. CASE request' = request
  BY <1>2, <1>old DEF ReadsFit
<1>3. ASSUME NEW t \in Slots, LoginRead(t), users[request[t].user].active PROVE ReadsFit'
  <2>. DEFINE u == request[t].user
              q == [kind |-> "compare", user |-> u, password |-> request[t].password, row |-> users[u]]
  <2>1. u \in Users /\ users' = users /\ request' = [request EXCEPT ![t] = q]
    BY <1>3, RequestFields DEF LoginRead, Goes
  <2>2. /\ users[u].version \in Nat /\ users[u].version > 0
    BY <1>3, <2>1 DEF NobodyIsActive, Exists, UserRow
  <2>3. \A s \in Slots \ {t} : request'[s] = request[s]
    BY <2>1
  <2>4. request'[t] = q
    BY <2>1
  <2>. QED
    BY <1>old, <2>1, <2>2, <2>3, <2>4 DEF ReadsFit, Fits
<1>4. ASSUME NEW t \in Slots, SignInStep(t) PROVE ReadsFit'
  <2>1. ASSUME NEW kind \in {"login", "register"}, NEW u \in Users, NEW p \in Passwords,
               SignInBegins(t, kind, u, p)
        PROVE  ReadsFit'
    BY <2>1, <1>quiet DEF SignInBegins
  <2>. QED
    BY <1>3, <1>4, <2>1, <1>quiet, <1>idle DEF SignInStep, LoginRead, LoginCompare, RegisterCreate
<1>5. ASSUME NEW t \in Slots, SignedInStep(t) PROVE ReadsFit'
  <2>1. ASSUME NEW token \in tokens, NEW q \in MayAsk(token), Authenticate(t, token, q) PROVE ReadsFit'
    <3>1. q.kind # "compare"
      BY AskedRequests
    <3>. QED
      BY <2>1, <3>1, <1>quiet DEF Authenticate
  <2>2. CASE PasswordCompare(t)
    <3>1. request[t] \in NewPassword
      BY <2>2, RequestFields DEF PasswordCompare
    <3>2. [request[t] EXCEPT !.phase = "compared"].kind # "compare"
      BY <3>1 DEF NewPassword
    <3>. QED
      BY <2>2, <3>2, <1>quiet, <1>idle DEF PasswordCompare
  <2>. QED
    BY <1>5, <2>1, <2>2, <1>quiet, <1>idle
       DEF SignedInStep, ChatAdmission, PasswordWrite, ResetPassword, CreateUser, UpdateUser
<1>6. CASE AccountsCrash
  BY <1>6, <1>idle DEF AccountsCrash, ReadsFit
<1>. QED
  BY <1>2, <1>4, <1>5, <1>6 DEF AccountsNext, ChatEnds, accountVars

(* How the accounts that exist, and their owner, may change: nobody goes, who *)
(* comes after the first is not the owner, and an owner stays one.           *)
OwnerStep ==
  \/ \A u \in Users : /\ users'[u].super = users[u].super
                      /\ Exists(u) => Exists(u)'
                      /\ users[u].super /\ users[u].active /\ users[u].role = "admin" =>
                           users'[u].active /\ users'[u].role = "admin"
                      /\ Exists(u)' => Exists(u) \/ Somebody
  \/ /\ ~Somebody
     /\ \E u \in Users : /\ users'[u].super /\ users'[u].active /\ users'[u].role = "admin"
                         /\ Exists(u)'
                         /\ \A v \in Users \ {u} : users'[v] = users[v]

LEMMA OwnerSteps ==
  ASSUME AccountsTypeOK, AccountsTypeOK', AccountInv, [AccountsNext]_accountVars
  PROVE  OwnerStep
<1>. USE DEF AccountsTypeOK
<1>0. Evolves /\ \A u \in Users : users[u].version \in Nat /\ users'[u].version \in Nat
  BY Evolution DEF UserRow
<1>1. \A u \in Users : Exists(u) => Exists(u)'
  BY <1>0 DEF Evolves, Exists
<1>same. ASSUME users' = users PROVE OwnerStep
  BY <1>same DEF OwnerStep, Exists, Somebody
<1>2. ASSUME NEW t \in Slots, RegisterCreate(t) PROVE OwnerStep
  <2>. DEFINE u == request[t].user
              row == Registered(request[t].password)
  <2>1. u \in Users
    BY <1>2, RequestFields DEF RegisterCreate
  <2>2. CASE ~Exists(u) /\ users' = [users EXCEPT ![u] = row]
    <3>1. users'[u] = row /\ \A v \in Users \ {u} : users'[v] = users[v]
      BY <2>1, <2>2
    <3>2. row.version = 1
      BY DEF Registered
    <3>3. ~users[u].super /\ ~users[u].active
      BY <2>1, <2>2 DEF AccountInv, NobodyIsActive
    <3>4. CASE ~Somebody
      <4>1. row.super /\ row.active /\ row.role = "admin"
        BY <3>4 DEF Registered, Somebody
      <4>. HIDE DEF row
      <4>. QED
        BY <2>1, <3>1, <3>2, <3>4, <4>1 DEF OwnerStep, Exists
    <3>5. CASE Somebody
      <4>1. row.super = FALSE
        BY <3>5 DEF Registered, Somebody
      <4>2. users[u].super = FALSE
        BY <2>1, <3>3 DEF UserRow
      <4>. HIDE DEF row
      <4>. QED
        BY <1>1, <2>1, <3>1, <3>3, <3>5, <4>1, <4>2 DEF OwnerStep
    <3>. QED
      BY <3>4, <3>5
  <2>. QED
    BY <1>2, <2>2, <1>same DEF RegisterCreate
<1>set. ASSUME NEW u \in Users, NEW p \in Passwords, Exists(u), SetPassword(u, p) PROVE OwnerStep
  <2>1. /\ \A v \in Users : /\ users'[v].super = users[v].super /\ users'[v].role = users[v].role
                            /\ users'[v].active = users[v].active
        /\ \A v \in Users \ {u} : users'[v] = users[v]
    BY <1>set, PasswordSet
  <2>. QED
    BY <1>1, <1>set, <2>1 DEF OwnerStep, Somebody
<1>3. ASSUME NEW t \in Slots, PasswordWrite(t) PROVE OwnerStep
  <2>1. request[t].user \in Users /\ request[t].new \in Passwords /\ Exists(request[t].user)
    BY <1>3, RequestFields DEF PasswordWrite, NewPassword, AccountInv, SendersExist
  <2>. QED
    BY <1>3, <2>1, <1>set DEF PasswordWrite
<1>4. ASSUME NEW t \in Slots, ResetPassword(t) PROVE OwnerStep
  <2>1. request[t].user \in Users /\ request[t].password \in Passwords
    BY <1>4, RequestFields DEF ResetPassword
  <2>. QED
    BY <1>4, <2>1, <1>set, <1>same DEF ResetPassword
<1>5. ASSUME NEW t \in Slots, CreateUser(t) PROVE OwnerStep
  <2>. DEFINE q == request[t]
              row == [role |-> q.role, super |-> FALSE, active |-> q.active,
                      password |-> q.password, version |-> 1]
  <2>1. q.user \in Users /\ Somebody
    BY <1>5, RequestFields DEF CreateUser, AccountInv, SendersExist
  <2>2. CASE ~Exists(q.user) /\ users' = [users EXCEPT ![q.user] = row]
    <3>1. users'[q.user] = row /\ \A v \in Users \ {q.user} : users'[v] = users[v]
      BY <2>1, <2>2
    <3>2. users[q.user].super = FALSE /\ ~users[q.user].active
      BY <2>1, <2>2 DEF AccountInv, NobodyIsActive, UserRow
    <3>3. row.super = FALSE
      OBVIOUS
    <3>. HIDE DEF row
    <3>. QED
      BY <1>1, <2>1, <3>1, <3>2, <3>3 DEF OwnerStep
  <2>. QED
    BY <1>5, <2>2, <1>same DEF CreateUser
<1>6. ASSUME NEW t \in Slots, UpdateUser(t) PROVE OwnerStep
  <2>1. CASE users' # users
    <3>1. PICK u \in Users : /\ Exists(u) /\ \A v \in Users \ {u} : users'[v] = users[v]
                             /\ users'[u].super = users[u].super
                             /\ users[u].super /\ users[u].active /\ users[u].role = "admin" =>
                                  users'[u].active /\ users'[u].role = "admin"
      BY <1>6, <2>1, RowUpdated
    <3>. QED
      BY <1>1, <3>1 DEF OwnerStep, Somebody
  <2>. QED
    BY <2>1, <1>same
<1>. QED
  BY <1>2, <1>3, <1>4, <1>5, <1>6, <1>same
     DEF AccountsNext, SignInStep, SignedInStep, SignInBegins, LoginRead, LoginCompare, Authenticate,
         ChatAdmission, PasswordCompare, ChatEnds, AccountsCrash, accountVars

LEMMA OwnerNext ==
  ASSUME AccountsTypeOK, AccountsTypeOK', AccountInv, [AccountsNext]_accountVars
  PROVE  OwnerRemains' /\ (Somebody => Somebody')
<1>1. OwnerStep
  BY OwnerSteps
<1>2. CASE \A u \in Users : /\ users'[u].super = users[u].super
                            /\ Exists(u) => Exists(u)'
                            /\ users[u].super /\ users[u].active /\ users[u].role = "admin" =>
                                 users'[u].active /\ users'[u].role = "admin"
                            /\ Exists(u)' => Exists(u) \/ Somebody
  <2>1. Somebody' => Somebody
    BY <1>2 DEF Somebody
  <2>2. Somebody => Somebody'
    BY <1>2 DEF Somebody
  <2>3. ASSUME Somebody PROVE OwnerRemains'
    <3>1. PICK u \in Users : /\ users[u].super /\ users[u].active /\ users[u].role = "admin"
                             /\ \A other \in Users \ {u} : ~users[other].super
      BY <2>3 DEF AccountInv, OwnerRemains, Somebody
    <3>. QED
      BY <1>2, <3>1 DEF OwnerRemains
  <2>. QED
    BY <2>1, <2>2, <2>3 DEF OwnerRemains, Somebody
<1>3. CASE /\ ~Somebody
           /\ \E u \in Users : /\ users'[u].super /\ users'[u].active /\ users'[u].role = "admin"
                               /\ Exists(u)'
                               /\ \A v \in Users \ {u} : users'[v] = users[v]
  <2>1. \A v \in Users : ~users[v].super
    BY <1>3 DEF Somebody, AccountInv, NobodyIsActive
  <2>. QED
    BY <1>3, <2>1 DEF OwnerRemains
<1>. QED
  BY <1>1, <1>2, <1>3 DEF OwnerStep

(* A new row is the first of its account or an update of a row that exists. *)
LEMMA NobodyNext ==
  ASSUME AccountsTypeOK, AccountsTypeOK', AccountInv, [AccountsNext]_accountVars
  PROVE  NobodyIsActive'
<1>0. /\ Evolves
      /\ \A u \in Users : /\ users[u].version \in Nat /\ users'[u].version \in Nat
                          /\ users[u].active \in BOOLEAN /\ users'[u].active \in BOOLEAN
  BY Evolution DEF AccountsTypeOK, UserRow
<1>1. OwnerStep
  BY OwnerSteps
<1>2. \A u \in Users : ~Exists(u)' =>
        users[u].version = 0 /\ users'[u].version = 0
  BY <1>0 DEF Exists, Evolves
<1>3. \A u \in Users : ~Exists(u)' => ~users'[u].active
  BY <1>0, <1>2 DEF Evolves, AccountInv, NobodyIsActive, Exists
<1>4. \A u \in Users : ~Exists(u)' => ~users'[u].super
  BY <1>1, <1>2 DEF OwnerStep, AccountInv, NobodyIsActive, Exists
<1>. QED
  BY <1>3, <1>4 DEF NobodyIsActive

LEMMA SendersNext ==
  ASSUME AccountsTypeOK, AccountsTypeOK', AccountInv, [AccountsNext]_accountVars
  PROVE  SendersExist'
<1>. USE DEF AccountsTypeOK
<1>0. /\ Somebody => Somebody'
      /\ \A u \in Users : Exists(u) => Exists(u)'
  <2>1. Evolves /\ \A u \in Users : users[u].version \in Nat /\ users'[u].version \in Nat
    BY Evolution DEF UserRow
  <2>. QED
    BY <2>1, OwnerNext DEF Evolves, Exists
<1>old. \A t \in Slots : /\ request[t].kind = "create" => Somebody'
                         /\ request[t].kind = "password" => users'[request[t].user].version > 0
  <2>1. \A t \in Slots : request[t].kind = "password" =>
          request[t].user \in Users /\ Exists(request[t].user)
    BY RequestFields DEF NewPassword, AccountInv, SendersExist
  <2>. QED
    BY <1>0, <2>1 DEF AccountInv, SendersExist, Exists
<1>other. ASSUME NEW t \in Slots, NEW q, q.kind \notin {"create", "password"}, Goes(t, q)
          PROVE  SendersExist'
  <2>1. \A s \in Slots : request'[s] = IF s = t THEN q ELSE request[s]
    BY <1>other DEF Goes
  <2>. QED
    BY <1>old, <1>other, <2>1 DEF SendersExist, Exists
<1>idle. Idle.kind \notin {"create", "password"}
  BY DEF Idle
<1>2. CASE request' = request
  BY <1>2, <1>old DEF SendersExist, Exists
<1>3. ASSUME NEW t \in Slots, SignInStep(t) PROVE SendersExist'
  <2>1. ASSUME NEW kind \in {"login", "register"}, NEW u \in Users, NEW p \in Passwords,
               SignInBegins(t, kind, u, p)
        PROVE  SendersExist'
    BY <2>1, <1>other DEF SignInBegins
  <2>2. CASE LoginRead(t)
    <3>. DEFINE q == [kind |-> "compare", user |-> request[t].user, password |-> request[t].password,
                      row |-> users[request[t].user]]
    <3>1. q.kind \notin {"create", "password"}
      OBVIOUS
    <3>2. Goes(t, q) \/ Goes(t, Idle)
      BY <2>2 DEF LoginRead
    <3>. HIDE DEF q
    <3>. QED
      BY <3>1, <3>2, <1>other, <1>idle
  <2>. QED
    BY <1>3, <2>1, <2>2, <1>other, <1>idle DEF SignInStep, LoginCompare, RegisterCreate
<1>4. ASSUME NEW t \in Slots, NEW token \in tokens, NEW q \in MayAsk(token), Authenticate(t, token, q)
      PROVE  SendersExist'
  <2>1. token.user \in Users /\ users[token.user].version > 0
    BY <1>4 DEF Authenticate, AccountInv, TokensFit, Fits, IsValid, Token
  <2>2. users'[token.user].version > 0 /\ Somebody'
    BY <1>0, <2>1 DEF Exists, Somebody
  <2>3. q.kind = "password" => q.user = token.user
    <3>1. CASE q \in AdminRequest
      BY <3>1 DEF AdminRequest
    <3>. QED
      BY <3>1 DEF MayAsk
  <2>4. \A s \in Slots : request'[s] = IF s = t THEN q ELSE request[s]
    BY <1>4 DEF Authenticate, Goes
  <2>. QED
    BY <1>old, <2>2, <2>3, <2>4 DEF SendersExist, Exists
<1>5. ASSUME NEW t \in Slots, PasswordCompare(t) PROVE SendersExist'
  <2>. DEFINE q == [request[t] EXCEPT !.phase = "compared"]
  <2>1. request[t] \in NewPassword
    BY <1>5, RequestFields DEF PasswordCompare
  <2>2. q.user = request[t].user /\ users'[request[t].user].version > 0
    BY <1>5, <1>old, <2>1 DEF PasswordCompare, NewPassword
  <2>3. q.kind = "password"
    BY <2>1 DEF NewPassword
  <2>4. Goes(t, q) \/ Goes(t, Idle)
    BY <1>5 DEF PasswordCompare
  <2>. HIDE DEF q
  <2>5. CASE Goes(t, q)
    <3>1. \A s \in Slots : request'[s] = IF s = t THEN q ELSE request[s]
      BY <2>5 DEF Goes
    <3>. QED
      BY <1>old, <2>2, <2>3, <3>1 DEF SendersExist, Exists
  <2>. QED
    BY <2>4, <2>5, <1>other, <1>idle
<1>6. CASE AccountsCrash
  BY <1>6, <1>idle DEF AccountsCrash, SendersExist
<1>7. ASSUME NEW t \in Slots, SignedInStep(t) PROVE SendersExist'
  BY <1>4, <1>5, <1>7, <1>other, <1>idle
     DEF SignedInStep, ChatAdmission, PasswordWrite, ResetPassword, CreateUser, UpdateUser
<1>. QED
  BY <1>2, <1>3, <1>6, <1>7 DEF AccountsNext, ChatEnds, accountVars

(* A chat is admitted for the version it asked with, and a step that raises  *)
(* the version of an account ends its chats.                                *)
LEMMA RunsNext ==
  ASSUME AccountsTypeOK, AccountsTypeOK', AccountInv, [AccountsNext]_accountVars
  PROVE  RunsAreCurrent'
<1>. USE DEF AccountsTypeOK
<1>0. Evolves
  BY Evolution
<1>typed. \A r \in runs : r.user \in Users
  BY DEF Run
<1>same. ASSUME users' = users, runs' \subseteq runs PROVE RunsAreCurrent'
  BY <1>same DEF AccountInv, RunsAreCurrent
<1>1. ASSUME NEW t \in Slots, RegisterCreate(t) PROVE RunsAreCurrent'
  <2>1. request[t].user \in Users /\ runs' = runs
    BY <1>1, RequestFields DEF RegisterCreate
  <2>2. CASE ~Exists(request[t].user) /\ \A v \in Users \ {request[t].user} : users'[v] = users[v]
    BY <1>typed, <2>1, <2>2 DEF AccountInv, RunsAreCurrent, NobodyIsActive
  <2>. QED
    BY <1>1, <1>same, <2>1, <2>2 DEF RegisterCreate
<1>2. ASSUME NEW t \in Slots, CreateUser(t) PROVE RunsAreCurrent'
  <2>1. request[t].user \in Users /\ runs' = runs
    BY <1>2, RequestFields DEF CreateUser
  <2>2. CASE ~Exists(request[t].user) /\ \A v \in Users \ {request[t].user} : users'[v] = users[v]
    BY <1>typed, <2>1, <2>2 DEF AccountInv, RunsAreCurrent, NobodyIsActive
  <2>. QED
    BY <1>2, <1>same, <2>1, <2>2 DEF CreateUser
<1>3. ASSUME NEW t \in Slots, ChatAdmission(t) PROVE RunsAreCurrent'
  BY <1>3, <1>same DEF ChatAdmission, MayRun, AccountInv, RunsAreCurrent
<1>set. ASSUME NEW u \in Users, NEW p \in Passwords, SetPassword(u, p) PROVE RunsAreCurrent'
  <2>1. runs' = Cancelled(u) /\ \A v \in Users \ {u} : users'[v] = users[v]
    BY <1>set, PasswordSet
  <2>. QED
    BY <1>typed, <2>1 DEF Cancelled, AccountInv, RunsAreCurrent
<1>4. ASSUME NEW t \in Slots, PasswordWrite(t) PROVE RunsAreCurrent'
  <2>1. request[t].user \in Users /\ request[t].new \in Passwords
    BY <1>4, RequestFields DEF PasswordWrite, NewPassword
  <2>. QED
    BY <1>4, <2>1, <1>set DEF PasswordWrite
<1>5. ASSUME NEW t \in Slots, ResetPassword(t) PROVE RunsAreCurrent'
  <2>1. request[t].user \in Users /\ request[t].password \in Passwords
    BY <1>5, RequestFields DEF ResetPassword
  <2>. QED
    BY <1>5, <2>1, <1>set, <1>same DEF ResetPassword
<1>6. ASSUME NEW t \in Slots, UpdateUser(t) PROVE RunsAreCurrent'
  <2>1. CASE ~(users' = users /\ runs' = runs)
    <3>1. PICK u \in Users :
            /\ \A v \in Users \ {u} : users'[v] = users[v]
            /\ runs' = IF users'[u].version # users[u].version THEN Cancelled(u) ELSE runs
      BY <1>6, <2>1, RowUpdated
    <3>. QED
      BY <1>0, <1>typed, <3>1 DEF Evolves, Cancelled, AccountInv, RunsAreCurrent
  <2>. QED
    BY <2>1, <1>same
<1>. QED
  BY <1>1, <1>2, <1>3, <1>4, <1>5, <1>6, <1>same
     DEF AccountsNext, SignInStep, SignedInStep, SignInBegins, LoginRead, LoginCompare, Authenticate,
         PasswordCompare, ChatEnds, AccountsCrash, accountVars

-----------------------------------------------------------------------------
(* The theorems *)

LEMMA AccountsInductive == AccountsSpec => [](AccountsTypeOK /\ AccountInv)
<1>1. AccountsInit => AccountsTypeOK /\ AccountInv
  BY TypeInit, InvInit
<1>2. AccountsTypeOK /\ AccountInv /\ [AccountsNext]_accountVars => (AccountsTypeOK /\ AccountInv)'
  <2>. SUFFICES ASSUME AccountsTypeOK, AccountInv, [AccountsNext]_accountVars
                PROVE  (AccountsTypeOK /\ AccountInv)'
    OBVIOUS
  <2>1. AccountsTypeOK'
    BY TypeNext
  <2>2. TokensFit /\ ReadsFit /\ NobodyIsActive
    BY DEF AccountInv
  <2>3. TokensFit' /\ ReadsFit'
    BY <2>1, <2>2, TokensNext, ReadsNext
  <2>4. NobodyIsActive' /\ SendersExist' /\ RunsAreCurrent' /\ OwnerRemains'
    BY <2>1, NobodyNext, SendersNext, RunsNext, OwnerNext
  <2>. QED
    BY <2>1, <2>3, <2>4 DEF AccountInv
<1>. QED
  BY <1>1, <1>2, PTL DEF AccountsSpec

(* A token that is accepted was given for the password and the role that the *)
(* account has, however many sign-ins and changes run at the same time.     *)
THEOREM SessionsStayCurrent == AccountsSpec => []SessionsAreCurrent
<1>1. AccountInv => SessionsAreCurrent
  BY DEF AccountInv, TokensFit, Fits, SessionsAreCurrent, IsValid
<1>. QED
  BY <1>1, AccountsInductive, PTL

(* No chat runs for an account that was disabled, demoted or given another   *)
(* password since its request was let in.                                   *)
THEOREM RunsStayCurrent == AccountsSpec => []RunsAreCurrent
<1>1. AccountInv => RunsAreCurrent
  BY DEF AccountInv
<1>. QED
  BY <1>1, AccountsInductive, PTL

(* There is one owner once anybody has registered, and it can sign in. *)
THEOREM OwnerStays == AccountsSpec => []OwnerRemains
<1>1. AccountInv => OwnerRemains
  BY DEF AccountInv
<1>. QED
  BY <1>1, AccountsInductive, PTL

-----------------------------------------------------------------------------
(* User groups *)

(* There is exactly one default, it exists, and so does every assigned group. *)
OneDefault     == \E d \in DOMAIN level : default = {d}
AssignedExist  == \A m \in Members : assigned[m] \in Existing \union {NoGroup}

GroupsInv ==
  /\ DOMAIN level \subseteq Groups
  /\ assigned \in [Members -> Groups \union {NoGroup}]
  /\ OneDefault /\ AssignedExist

(* The migration's group is the only one, and the default. *)
LEMMA GroupsInitially == GroupsInit => GroupsInv
<1>. SUFFICES ASSUME GroupsInit PROVE GroupsInv
  OBVIOUS
<1>1. PICK d \in Groups : default = {d}
  BY GroupsAssumption DEF GroupsInit
<1>2. DOMAIN level = {d} /\ assigned = [m \in Members |-> NoGroup]
  BY <1>1 DEF GroupsInit
<1>. QED
  BY <1>1, <1>2 DEF GroupsInv, OneDefault, AssignedExist, Existing

(* While there is one default it is the one group that may not be taken from  *)
(* the defaults.                                                            *)
LEMMA DefaultIsKept ==
  ASSUME GroupsInv, NEW g \in Groups, MayLoseDefault(g)
  PROVE  g \notin default
BY DEF GroupsInv, OneDefault, MayLoseDefault, Existing

(* No change of the groups or of the accounts leaves another state. *)
LEMMA GroupsStep == GroupsInv /\ [GroupsNext]_groupVars => GroupsInv'
<1>. SUFFICES ASSUME GroupsInv, [GroupsNext]_groupVars PROVE GroupsInv'
  OBVIOUS
<1>. USE DEF GroupsInv, OneDefault, AssignedExist, Existing
<1>1. ASSUME NEW g \in Groups, NEW l \in Levels, NEW isDefault \in BOOLEAN,
             CreateGroup(g, l, isDefault)
      PROVE  GroupsInv'
  <2>1. DOMAIN level' = DOMAIN level \union {g} /\ UNCHANGED assigned
    BY <1>1 DEF CreateGroup
  <2>2. default' = {g} \/ default' = default
    BY <1>1 DEF CreateGroup
  <2>. QED
    BY <2>1, <2>2
<1>2. ASSUME NEW g \in Groups, NEW l \in Levels, NEW isDefault \in BOOLEAN,
             UpdateGroup(g, l, isDefault)
      PROVE  GroupsInv'
  <2>1. DOMAIN level' = DOMAIN level /\ g \in DOMAIN level /\ UNCHANGED assigned
    BY <1>2 DEF UpdateGroup
  <2>2. default' = {g} \/ (MayLoseDefault(g) /\ default' = default \ {g})
    BY <1>2 DEF UpdateGroup, WithDefault
  <2>3. default' = {g} \/ default' = default
    BY <2>2, DefaultIsKept
  <2>. QED
    BY <2>1, <2>3
<1>3. ASSUME NEW g \in Groups, NEW l \in Levels, UpdateLevel(g, l) PROVE GroupsInv'
  <2>1. DOMAIN level' = DOMAIN level /\ UNCHANGED assigned
    BY <1>3 DEF UpdateLevel, UpdateGroup
  <2>2. default' = IF g \in default THEN {g} ELSE default \ {g}
    BY <1>3 DEF UpdateLevel, UpdateGroup, WithDefault
  <2>3. default' = default
    BY <2>2
  <2>. QED
    BY <2>1, <2>3
<1>4. ASSUME NEW g \in Groups, DeleteGroup(g) PROVE GroupsInv'
  <2>1. DOMAIN level' = DOMAIN level \ {g}
    BY <1>4 DEF DeleteGroup
  <2>2. default' = default /\ g \notin default
    BY <1>4, DefaultIsKept DEF DeleteGroup
  <2>3. assigned' = [m \in Members |-> IF assigned[m] = g THEN NoGroup ELSE assigned[m]]
    BY <1>4 DEF DeleteGroup
  <2>. QED
    BY <2>1, <2>2, <2>3
<1>5. ASSUME NEW m \in Members, NEW g \in Groups \union {NoGroup}, SetGroup(m, g)
      PROVE  GroupsInv'
  BY <1>5 DEF SetGroup
<1>6. CASE UNCHANGED groupVars
  BY <1>6 DEF groupVars
<1>. QED
  BY <1>1, <1>2, <1>3, <1>4, <1>5, <1>6 DEF GroupsNext

(* Whatever administrators create, change, delete and assign, an account has  *)
(* exactly one group that limits it.                                        *)
THEOREM OneGroupEach == GroupsSpec => []EveryoneHasOneGroup
<1>1. ASSUME GroupsInv, NEW m \in Members PROVE Cardinality(Effective(m)) = 1
  <2>1. PICK d \in Existing : default = {d}
    BY <1>1 DEF GroupsInv, OneDefault, Existing
  <2>2. Effective(m) = {assigned[m]} \/ Effective(m) = {d}
    BY <2>1 DEF Effective
  <2>. QED
    BY <2>2, FS_Singleton
<1>2. GroupsInv => EveryoneHasOneGroup
  BY <1>1 DEF EveryoneHasOneGroup
<1>. QED
  BY <1>2, GroupsInitially, GroupsStep, PTL DEF GroupsSpec

-----------------------------------------------------------------------------
(* Avatars *)

UploadRecord ==
  [phase : {"none", "swap", "clean"}, owner : Owners \union {NoPicture},
   staged : Pictures \union {NoPicture}, check : SUBSET Pictures]

AvatarsTypeOK ==
  /\ DOMAIN avatar = Owners /\ DOMAIN upload = Uploads
  /\ \A t \in Uploads : upload[t] \in UploadRecord
  /\ named \subseteq Pictures /\ files \subseteq named
  /\ \A o \in Owners : avatar[o] \in named \union {NoPicture}

(* A file that is staged is there, in no row, and no other request's. *)
Stages(t) == upload[t].phase = "swap" /\ upload[t].staged # NoPicture
StagedAlone(t) ==
  /\ upload[t].staged \in files /\ ~Referenced(upload[t].staged)
  /\ \A u \in Uploads :
       /\ upload[t].staged \notin upload[u].check
       /\ Stages(u) /\ u # t => upload[u].staged # upload[t].staged
UploadFits(t) ==
  /\ upload[t].check \subseteq named
  /\ upload[t].phase = "swap" => upload[t].owner \in Owners
  /\ upload[t].phase # "clean" => upload[t].check = {}
  /\ Stages(t) => StagedAlone(t)

(* An address has its file, and a file without one has a request that removes  *)
(* it, or is written off.                                                      *)
AddressHasFile == \A o \in Owners : avatar[o] # NoPicture => avatar[o] \in files
Kept(p) == \/ Referenced(p) \/ p \in orphans
           \/ \E t \in Uploads : (Stages(t) /\ upload[t].staged = p) \/ p \in upload[t].check

AvatarsInv ==
  /\ AvatarsTypeOK /\ AddressHasFile
  /\ \A t \in Uploads : UploadFits(t)
  /\ \A p \in files : Kept(p)

(* A swap that writes the staged address, or leaves it, puts on the list of    *)
(* files to look at every file it may have taken from the row.                 *)
LEMMA SwapStep ==
  ASSUME AvatarsInv, NEW t \in Uploads, SwapCommitted(t) \/ SwapUnknown(t)
  PROVE  AvatarsInv'
<1> DEFINE o0 == upload[t].owner
           p0 == upload[t].staged
           old == avatar[o0]
<1>1. /\ upload[t].phase = "swap" /\ o0 \in Owners /\ p0 \in Pictures \union {NoPicture}
      /\ DOMAIN avatar = Owners /\ DOMAIN upload = Uploads
      /\ upload[t].check = {} /\ (Stages(t) <=> p0 # NoPicture)
  BY DEF SwapCommitted, SwapUnknown, AvatarsInv, AvatarsTypeOK, UploadFits, UploadRecord, Stages
<1>2. /\ files' = files /\ named' = named /\ orphans' = orphans
      /\ DOMAIN avatar' = Owners /\ DOMAIN upload' = Uploads
      /\ \A u \in Uploads : u # t => upload'[u] = upload[u]
      /\ \A o \in Owners : o # o0 => avatar'[o] = avatar[o]
      /\ avatar'[o0] \in {old, p0}
  BY <1>1, SMTT(30) DEF SwapCommitted, SwapUnknown
<1>3. PICK check : /\ upload'[t] = [upload[t] EXCEPT !.phase = "clean", !.check = check]
                   /\ check \subseteq ({old, p0} \ {NoPicture})
                   /\ avatar'[o0] # old => old \in check \union {NoPicture}
                   /\ avatar'[o0] # p0 => p0 \in check \union {NoPicture}
  <2>1. CASE SwapCommitted(t)
    BY <1>1, <2>1 DEF SwapCommitted, Replaced
  <2>2. CASE SwapUnknown(t)
    BY <1>1, <2>2, ZenonT(60) DEF SwapUnknown, Replaced, Candidates
  <2>3. QED
    BY <2>1, <2>2
<1>4. upload[t] \in UploadRecord /\ old \in named \union {NoPicture} /\ named \subseteq Pictures
      /\ p0 \in named \union {NoPicture}
  BY <1>1 DEF AvatarsInv, AvatarsTypeOK, UploadFits, StagedAlone
<1>5. /\ upload'[t] \in UploadRecord /\ upload'[t].phase = "clean" /\ upload'[t].check = check
      /\ upload'[t].staged = p0
  <2>1. check \in SUBSET Pictures
    BY <1>3, <1>4
  <2> HIDE DEF old
  <2>2. QED
    BY <1>3, <1>4, <2>1 DEF UploadRecord
<1> HIDE DEF o0, p0, old
<1>6. AvatarsTypeOK'
  BY <1>2, <1>4, <1>5 DEF AvatarsInv, AvatarsTypeOK, UploadRecord
<1>7. AddressHasFile'
  BY <1>1, <1>2 DEF AvatarsInv, AddressHasFile, UploadFits, StagedAlone, p0, old
<1>8. ASSUME NEW u \in Uploads PROVE UploadFits(u)'
  <2>1. CASE u = t
    BY <1>2, <1>3, <1>4, <1>5, <2>1, ZenonT(60) DEF UploadFits, Stages
  <2>2. CASE u # t
    <3>1. UploadFits(u) /\ upload'[u] = upload[u] /\ (Stages(u)' <=> Stages(u))
      BY <1>2, <2>2 DEF AvatarsInv, Stages
    <3>2. Stages(u) => StagedAlone(u)'
      <4>1. SUFFICES ASSUME Stages(u) PROVE StagedAlone(u)'
        OBVIOUS
      <4>2. StagedAlone(u) /\ upload[u].staged # NoPicture
        BY <3>1, <4>1 DEF UploadFits, Stages
      <4>3. upload[u].staged # p0
        BY <1>1, <2>2, <4>2 DEF StagedAlone, p0
      <4>4. upload[u].staged # old /\ \A o \in Owners : avatar'[o] # upload[u].staged
        BY <1>1, <1>2, <4>2, <4>3 DEF StagedAlone, Referenced, old
      <4>5. \A v \in Uploads : Stages(v)' => Stages(v) /\ upload'[v] = upload[v]
        BY <1>2, <1>5 DEF Stages
      <4>6. \A v \in Uploads : upload[u].staged \notin upload'[v].check
        BY <1>2, <1>3, <1>5, <4>2, <4>3, <4>4 DEF StagedAlone
      <4>7. QED
        BY <1>2, <3>1, <4>2, <4>4, <4>5, <4>6 DEF StagedAlone, Referenced
    <3>3. QED
      BY <1>2, <3>1, <3>2 DEF UploadFits
  <2>3. QED
    BY <2>1, <2>2
<1>9. ASSUME NEW p \in files PROVE Kept(p)'
  <2>1. Kept(p) /\ p # NoPicture
    BY AvatarsAssumption DEF AvatarsInv, AvatarsTypeOK
  <2>2. CASE Referenced(p)
    <3>1. PICK o \in Owners : avatar[o] = p
      BY <2>2 DEF Referenced
    <3>2. CASE avatar'[o] = p
      BY <3>2 DEF Kept, Referenced
    <3>3. CASE avatar'[o] # p
      <4>1. o = o0 /\ p = old
        BY <1>2, <3>1, <3>3 DEF old
      <4>2. p \in upload'[t].check
        BY <1>3, <1>5, <2>1, <3>3, <4>1
      <4>3. QED
        BY <4>2 DEF Kept
    <3>4. QED
      BY <3>2, <3>3
  <2>3. CASE p \in orphans
    BY <1>2, <2>3 DEF Kept
  <2>4. ASSUME NEW u \in Uploads, (Stages(u) /\ upload[u].staged = p) \/ p \in upload[u].check
        PROVE  Kept(p)'
    <3>1. CASE u # t
      BY <1>2, <2>4, <3>1 DEF Kept, Stages
    <3>2. CASE u = t
      <4>1. p = p0
        BY <1>1, <2>4, <3>2 DEF p0
      <4>2. avatar'[o0] = p0 \/ p0 \in upload'[t].check
        BY <1>3, <1>5, <2>1, <4>1
      <4>3. QED
        BY <1>1, <4>1, <4>2 DEF Kept, Referenced
    <3>3. QED
      BY <3>1, <3>2
  <2>5. QED
    BY <2>1, <2>2, <2>3, <2>4 DEF Kept
<1>10. QED
  BY <1>2, <1>6, <1>7, <1>8, <1>9 DEF AvatarsInv

(* A file that is removed is nobody's, and one that is left to nobody is       *)
(* written off.                                                                *)
LEMMA CleanStep ==
  ASSUME AvatarsInv, NEW t \in Uploads, NEW p \in upload[t].check, CleanAvatar(t, p)
  PROVE  AvatarsInv'
<1>1. /\ upload[t].phase = "clean" /\ avatar' = avatar /\ named' = named
      /\ upload' = [upload EXCEPT ![t].check = @ \ {p}]
      /\ \/ Referenced(p) /\ files' = files /\ orphans' = orphans
         \/ ~Referenced(p) /\ files' = files \ {p} /\ orphans' = orphans
         \/ ~Referenced(p) /\ orphans' = orphans \union {p} /\ files' = files
  BY DEF CleanAvatar
<1>2. /\ DOMAIN upload' = Uploads /\ \A u \in Uploads : u # t => upload'[u] = upload[u]
      /\ upload'[t] \in UploadRecord /\ upload'[t].phase = "clean"
      /\ upload'[t].check = upload[t].check \ {p}
  BY <1>1 DEF AvatarsInv, AvatarsTypeOK, UploadRecord
<1>3. AvatarsTypeOK'
  BY <1>1, <1>2 DEF AvatarsInv, AvatarsTypeOK, UploadRecord
<1>4. \A x : Referenced(x)' <=> Referenced(x)
  BY <1>1 DEF Referenced
<1>5. AddressHasFile'
  BY <1>1 DEF AvatarsInv, AddressHasFile, Referenced
<1>6. \A u \in Uploads : /\ (Stages(u)' <=> Stages(u))
                         /\ Stages(u) => upload'[u] = upload[u]
                         /\ upload'[u].check \subseteq upload[u].check
  BY <1>1, <1>2 DEF Stages
<1>7. ASSUME NEW u \in Uploads PROVE UploadFits(u)'
  <2>1. Stages(u) => StagedAlone(u)'
    <3>1. SUFFICES ASSUME Stages(u) PROVE StagedAlone(u)'
      OBVIOUS
    <3>2. StagedAlone(u) /\ upload'[u] = upload[u]
      BY <1>6, <3>1 DEF AvatarsInv, UploadFits
    <3>3. upload[u].staged # p
      BY <3>2 DEF StagedAlone
    <3>4. ~Referenced(upload[u].staged)'
      BY <1>1, <3>2 DEF StagedAlone, Referenced
    <3>5. QED
      BY <1>1, <1>6, <3>2, <3>3, <3>4 DEF StagedAlone
  <2>2. QED
    BY <1>1, <1>2, <1>6, <2>1 DEF AvatarsInv, UploadFits
<1>8. ASSUME NEW x \in files' PROVE Kept(x)'
  <2>1. x \in files /\ Kept(x)
    BY <1>1, <1>8 DEF AvatarsInv
  <2>2. CASE x = p
    BY <1>1, <1>4, <1>8, <2>2 DEF Kept
  <2>3. CASE x # p
    BY <1>1, <1>2, <1>4, <1>6, <2>1, <2>3 DEF Kept
  <2>4. QED
    BY <2>2, <2>3
<1>9. QED
  BY <1>3, <1>5, <1>7, <1>8 DEF AvatarsInv

(* A file is written under a name nobody has had. *)
LEMMA StoreStep ==
  ASSUME AvatarsInv, NEW t \in Uploads, NEW o \in Owners, NEW p \in Pictures, StoreAvatar(t, o, p)
  PROVE  AvatarsInv'
<1>0. /\ upload[t].phase = "none" /\ p \notin named /\ avatar' = avatar
      /\ named' = named \union {p} /\ files' = files \union {p}
      /\ p # NoPicture /\ upload[t].check = {}
  BY AvatarsAssumption DEF StoreAvatar, AvatarsInv, UploadFits
<1>1. /\ \A x : Referenced(x)' <=> Referenced(x)
      /\ ~Referenced(p)
      /\ \A u \in Uploads : p \notin upload[u].check /\ (Stages(u) => upload[u].staged # p)
  BY <1>0 DEF Referenced, AvatarsInv, AvatarsTypeOK, UploadFits, StagedAlone
<1>2. CASE /\ upload' = [upload EXCEPT ![t] = [phase |-> "swap", owner |-> o, staged |-> p, check |-> {}]]
           /\ orphans' = orphans
  <2>1. /\ DOMAIN upload' = Uploads /\ \A u \in Uploads : u # t => upload'[u] = upload[u]
        /\ upload'[t].phase = "swap" /\ upload'[t].owner = o /\ upload'[t].staged = p
        /\ upload'[t].check = {} /\ upload'[t] \in UploadRecord
    BY <1>2 DEF AvatarsInv, AvatarsTypeOK, UploadRecord
  <2>2. AvatarsTypeOK' /\ AddressHasFile'
    BY <1>0, <2>1 DEF AvatarsInv, AvatarsTypeOK, AddressHasFile, UploadRecord
  <2>3. \A u \in Uploads : u # t => (Stages(u)' <=> Stages(u))
    BY <2>1 DEF Stages
  <2>4. ~Stages(t)
    BY <1>0 DEF Stages
  <2>5. ASSUME NEW u \in Uploads, u # t PROVE UploadFits(u)'
    BY <1>0, <1>1, <2>1, <2>3, <2>5 DEF AvatarsInv, UploadFits, StagedAlone, Referenced
  <2>6. UploadFits(t)'
    BY <1>0, <1>1, <2>1, <2>3 DEF UploadFits, StagedAlone, Referenced
  <2>7. Kept(p)'
    BY <1>0, <2>1 DEF Kept, Stages
  <2>8. ASSUME NEW x \in files PROVE Kept(x)'
    BY <1>0, <1>1, <1>2, <2>1, <2>3, <2>4 DEF AvatarsInv, Kept
  <2>9. QED
    BY <1>0, <2>2, <2>5, <2>6, <2>7, <2>8 DEF AvatarsInv
<1>3. CASE upload' = upload /\ orphans' = orphans \union {p}
  <2>1. AvatarsTypeOK' /\ AddressHasFile'
    BY <1>0, <1>3 DEF AvatarsInv, AvatarsTypeOK, AddressHasFile
  <2>2. \A u \in Uploads : Stages(u)' <=> Stages(u)
    BY <1>3 DEF Stages
  <2>3. ASSUME NEW u \in Uploads PROVE UploadFits(u)'
    BY <1>0, <1>3, <2>2 DEF AvatarsInv, UploadFits, StagedAlone, Referenced
  <2>4. ASSUME NEW x \in files' PROVE Kept(x)'
    BY <1>0, <1>1, <1>3, <2>2, <2>4 DEF AvatarsInv, Kept
  <2>5. QED
    BY <2>1, <2>3, <2>4 DEF AvatarsInv
<1>4. QED
  BY <1>2, <1>3 DEF StoreAvatar

(* A request that has no file of its own may begin or end. *)
LEMMA QuietStep ==
  ASSUME AvatarsInv, NEW t \in Uploads, DeleteAvatar(t, upload'[t].owner) \/ AvatarAnswered(t),
         upload'[t].owner \in Owners \union {NoPicture},
         DeleteAvatar(t, upload'[t].owner) => upload'[t].owner \in Owners
  PROVE  AvatarsInv'
<1>1. /\ avatar' = avatar /\ files' = files /\ named' = named /\ orphans' = orphans
      /\ DOMAIN upload' = Uploads /\ \A u \in Uploads : u # t => upload'[u] = upload[u]
      /\ ~Stages(t) /\ upload[t].check = {}
      /\ upload'[t].phase \in {"none", "swap"} /\ upload'[t].staged = NoPicture /\ upload'[t].check = {}
      /\ upload'[t] \in UploadRecord
      /\ upload'[t].phase = "swap" => upload'[t].owner \in Owners
  <2>1. DOMAIN upload = Uploads /\ UploadFits(t)
    BY DEF AvatarsInv, AvatarsTypeOK
  <2>2. CASE DeleteAvatar(t, upload'[t].owner)
    BY <2>1, <2>2 DEF DeleteAvatar, UploadRecord, UploadFits, Stages
  <2>3. CASE AvatarAnswered(t)
    BY <2>1, <2>3 DEF AvatarAnswered, NoUpload, UploadRecord, UploadFits, Stages
  <2>4. QED
    BY <2>2, <2>3
<1>2. AvatarsTypeOK' /\ AddressHasFile'
  BY <1>1 DEF AvatarsInv, AvatarsTypeOK, AddressHasFile, UploadRecord
<1>3. ~Stages(t)' /\ \A u \in Uploads : u # t => (Stages(u)' <=> Stages(u))
  BY <1>1 DEF Stages
<1>4. \A u \in Uploads : UploadFits(u)'
  BY <1>1, <1>3 DEF AvatarsInv, UploadFits, StagedAlone, Referenced
<1>5. \A p \in files : Kept(p)'
  BY <1>1, <1>3 DEF AvatarsInv, Kept, Referenced
<1>6. QED
  BY <1>1, <1>2, <1>4, <1>5 DEF AvatarsInv

(* A request whose swap failed takes its own file away, which is in no row. *)
LEMMA SwapFailedStep ==
  ASSUME AvatarsInv, NEW t \in Uploads, SwapFailed(t)
  PROVE  AvatarsInv'
<1> DEFINE p0 == upload[t].staged
<1>1. /\ avatar' = avatar /\ files' = files \ {p0} /\ named' = named /\ orphans' = orphans
      /\ DOMAIN upload' = Uploads /\ \A u \in Uploads : u # t => upload'[u] = upload[u]
      /\ upload'[t] = NoUpload /\ upload[t].check = {}
      /\ p0 # NoPicture => Stages(t)
      /\ upload[t] \in UploadRecord
  BY DEF SwapFailed, AvatarsInv, AvatarsTypeOK, UploadFits, Stages
<1>2. /\ NoUpload \in UploadRecord /\ NoUpload.phase = "none" /\ NoUpload.check = {}
      /\ NoUpload.staged = NoPicture
  BY DEF NoUpload, UploadRecord
<1>3. ~Stages(t)' /\ \A u \in Uploads : u # t => (Stages(u)' <=> Stages(u))
  BY <1>1, <1>2 DEF Stages
<1>4. p0 # NoPicture => StagedAlone(t)
  BY <1>1 DEF AvatarsInv, UploadFits
<1>5. AvatarsTypeOK'
  BY <1>1, <1>2 DEF AvatarsInv, AvatarsTypeOK, UploadRecord
<1>6. AddressHasFile'
  BY <1>1, <1>4 DEF AvatarsInv, AddressHasFile, StagedAlone, Referenced
<1>7. ASSUME NEW u \in Uploads PROVE UploadFits(u)'
  <2>1. CASE u = t
    BY <1>1, <1>2, <1>3, <2>1 DEF UploadFits
  <2>2. CASE u # t
    <3>1. UploadFits(u) /\ upload'[u] = upload[u] /\ (Stages(u)' <=> Stages(u))
      BY <1>1, <1>3, <2>2 DEF AvatarsInv
    <3>2. Stages(u) => StagedAlone(u)'
      <4>1. SUFFICES ASSUME Stages(u) PROVE StagedAlone(u)'
        OBVIOUS
      <4>2. StagedAlone(u) /\ upload[u].staged # NoPicture
        BY <3>1, <4>1 DEF UploadFits, Stages
      <4>3. upload[u].staged # p0
        BY <1>1, <1>4, <2>2, <4>1, <4>2 DEF StagedAlone
      <4>4. QED
        BY <1>1, <1>2, <1>3, <3>1, <4>2, <4>3 DEF StagedAlone, Referenced
    <3>3. QED
      BY <1>1, <3>1, <3>2 DEF UploadFits
  <2>3. QED
    BY <2>1, <2>2
<1>8. ASSUME NEW p \in files' PROVE Kept(p)'
  <2>1. p # p0 /\ Kept(p)
    BY <1>1, <1>8 DEF AvatarsInv
  <2>2. QED
    BY <1>1, <1>3, <2>1 DEF Kept, Referenced
<1>9. QED
  BY <1>5, <1>6, <1>7, <1>8 DEF AvatarsInv

(* A crash forgets the requests, and what they would have removed is written   *)
(* off.                                                                        *)
LEMMA AvatarsCrashStep ==
  ASSUME AvatarsInv, AvatarsCrash
  PROVE  AvatarsInv'
<1>1. /\ avatar' = avatar /\ files' = files /\ named' = named
      /\ DOMAIN upload' = Uploads /\ \A u \in Uploads : upload'[u] = NoUpload
      /\ \A p \in files : Referenced(p) \/ p \in orphans'
  BY DEF AvatarsCrash
<1>2. /\ NoUpload \in UploadRecord /\ NoUpload.phase = "none" /\ NoUpload.check = {}
  BY DEF NoUpload, UploadRecord
<1>3. AvatarsTypeOK' /\ AddressHasFile'
  BY <1>1, <1>2 DEF AvatarsInv, AvatarsTypeOK, AddressHasFile, UploadRecord
<1>4. \A u \in Uploads : UploadFits(u)'
  BY <1>1, <1>2 DEF UploadFits, Stages
<1>5. \A p \in files : Kept(p)'
  BY <1>1 DEF Kept, Referenced
<1>6. QED
  BY <1>1, <1>3, <1>4, <1>5 DEF AvatarsInv

(* Whatever uploads and deletions race and however their commits end, an       *)
(* address has its file, and every file without one is somebody's to remove or *)
(* was left by an error or a crash.  (UserService.)                            *)
THEOREM AvatarsAgree == AvatarsSpec => []AvatarsMatchFiles
<1>1. AvatarsInit => AvatarsInv
  BY DEF AvatarsInit, AvatarsInv, AvatarsTypeOK, AddressHasFile, UploadFits, Stages, NoUpload, UploadRecord
<1>2. ASSUME AvatarsInv, [AvatarsNext]_avatarVars PROVE AvatarsInv'
  <2>1. ASSUME NEW t \in Uploads, NEW o \in Owners, NEW p \in Pictures, StoreAvatar(t, o, p)
        PROVE  AvatarsInv'
    BY <1>2, <2>1, StoreStep
  <2>2. ASSUME NEW t \in Uploads, NEW o \in Owners, DeleteAvatar(t, o)
        PROVE  AvatarsInv'
    <3>1. upload'[t].owner = o
      BY <1>2, <2>2 DEF DeleteAvatar, AvatarsInv, AvatarsTypeOK
    <3>2. QED
      BY <1>2, <2>2, <3>1, QuietStep
  <2>3. ASSUME NEW t \in Uploads, AvatarAnswered(t) PROVE AvatarsInv'
    <3>1. upload'[t].owner = NoPicture
      BY <1>2, <2>3 DEF AvatarAnswered, NoUpload, AvatarsInv, AvatarsTypeOK
    <3>2. ~DeleteAvatar(t, upload'[t].owner)
      BY <2>3 DEF AvatarAnswered, DeleteAvatar
    <3>3. QED
      BY <1>2, <2>3, <3>1, <3>2, QuietStep
  <2>4. ASSUME NEW t \in Uploads, SwapCommitted(t) \/ SwapUnknown(t) PROVE AvatarsInv'
    BY <1>2, <2>4, SwapStep
  <2>5. ASSUME NEW t \in Uploads, SwapFailed(t) PROVE AvatarsInv'
    BY <1>2, <2>5, SwapFailedStep
  <2>6. ASSUME NEW t \in Uploads, NEW p \in upload[t].check, CleanAvatar(t, p) PROVE AvatarsInv'
    BY <1>2, <2>6, CleanStep
  <2>7. CASE AvatarsCrash
    BY <1>2, <2>7, AvatarsCrashStep
  <2>8. CASE UNCHANGED avatarVars
    BY <1>2, <2>8 DEF avatarVars, AvatarsInv, AvatarsTypeOK, AddressHasFile, UploadFits, StagedAlone, Stages,
                      Kept, Referenced
  <2>9. QED
    BY <1>2, <2>1, <2>2, <2>3, <2>4, <2>5, <2>6, <2>7, <2>8 DEF AvatarsNext
<1>3. AvatarsInv => AvatarsMatchFiles
  BY DEF AvatarsInv, AddressHasFile, Kept, Stages, AvatarsMatchFiles
<1>4. AvatarsSpec => []AvatarsInv
  BY <1>1, <1>2, PTL DEF AvatarsSpec
<1>5. QED
  BY <1>3, <1>4, PTL

-----------------------------------------------------------------------------
(* Titles *)

(* What a task expects is what it has read: no selection since its claim can   *)
(* be taken for the one it claimed, and what it read of the messages is no     *)
(* older than its claim.                                                       *)
TitlesInv ==
  /\ talk.revision \in Nat /\ DOMAIN talk = {"turns", "revision", "deleted"}
  /\ DOMAIN task = Tasks
  /\ \A t \in Tasks :
       /\ DOMAIN task[t] = {"step", "expected", "basis"}
       /\ task[t].expected \in Nat /\ task[t].basis \in Nat
       /\ task[t].step = "list" => task[t].expected <= talk.revision
       /\ task[t].step \in {"ask", "store", "fallback"} =>
            task[t].expected <= task[t].basis /\ task[t].basis <= talk.revision
  /\ TitlesFitTheTalk

(* A task goes on: it keeps what it expects in order, and stores a title that  *)
(* fits or none.                                                               *)
LEMMA TaskStep ==
  ASSUME TitlesInv, NEW t \in Tasks, NEW entry,
         task' = [task EXCEPT ![t] = entry], UNCHANGED <<talk, drain>>,
         titled'.kind = "auto" => titled'.basis = titled'.stored /\ titled'.over = "default",
         DOMAIN entry = {"step", "expected", "basis"},
         entry.expected \in Nat, entry.basis \in Nat,
         entry.step = "list" => entry.expected <= talk.revision,
         entry.step \in {"ask", "store", "fallback"} =>
           entry.expected <= entry.basis /\ entry.basis <= talk.revision,
         drain = "done" => entry.step = "idle"
  PROVE  TitlesInv'
<1>1. /\ DOMAIN task' = Tasks /\ task'[t] = entry
      /\ \A u \in Tasks : u # t => task'[u] = task[u]
  BY DEF TitlesInv
<1>2. TitlesFitTheTalk'
  BY <1>1 DEF TitlesInv, TitlesFitTheTalk, Finished
<1>3. QED
  BY <1>1, <1>2 DEF TitlesInv

(* A title a task stores was made from the answers selected now. *)
LEMMA StoredTitleFits ==
  ASSUME TitlesInv, NEW t \in Tasks, task[t].step \in {"store", "fallback"},
         \/ titled' = titled \/ titled' = NewTitle
         \/ MayTitle(t) /\ titled' = Automatic(t)
  PROVE  titled'.kind = "auto" => titled'.basis = titled'.stored /\ titled'.over = "default"
<1>1. CASE titled' = titled
  BY <1>1 DEF TitlesInv, TitlesFitTheTalk
<1>2. CASE titled' = NewTitle
  BY <1>2 DEF NewTitle
<1>3. CASE MayTitle(t) /\ titled' = Automatic(t)
  <2>1. /\ titled.kind = "default" /\ talk.revision = task[t].expected
        /\ task[t].expected \in Nat /\ task[t].basis \in Nat /\ talk.revision \in Nat
        /\ task[t].expected <= task[t].basis /\ task[t].basis <= talk.revision
    BY <1>3 DEF MayTitle, ExpectedRevision, TitlesInv
  <2>2. task[t].basis = talk.revision
    BY <2>1
  <2>3. QED
    BY <1>3, <2>1, <2>2 DEF Automatic
<1>4. QED
  BY <1>1, <1>2, <1>3

(* A task that is under way at its next step has read nothing new. *)
LEMMA TaskMoves ==
  ASSUME TitlesInv, NEW t \in Tasks, NEW step,
         Moves(t, step), UNCHANGED <<titled, talk, drain>>,
         \/ step \in {"evaluate", "count", "claim"} /\ drain # "done"
         \/ step \in {"store", "fallback"} /\ task[t].step = "ask" /\ drain # "done"
  PROVE  TitlesInv'
<1> DEFINE entry == [task[t] EXCEPT !.step = step]
<1>1. task' = [task EXCEPT ![t] = entry]
  BY DEF Moves
<1>2. /\ DOMAIN task[t] = {"step", "expected", "basis"}
      /\ task[t].expected \in Nat /\ task[t].basis \in Nat
      /\ task[t].step = "ask" => task[t].expected <= task[t].basis /\ task[t].basis <= talk.revision
  BY DEF TitlesInv
<1>3. /\ DOMAIN entry = {"step", "expected", "basis"} /\ entry.step = step
      /\ entry.expected = task[t].expected /\ entry.basis = task[t].basis
  BY <1>2
<1>4. titled'.kind = "auto" => titled'.basis = titled'.stored /\ titled'.over = "default"
  BY DEF TitlesInv, TitlesFitTheTalk
<1> HIDE DEF entry
<1>5. QED
  BY <1>1, <1>2, <1>3, <1>4, TaskStep

(* A task that ends leaves nothing. *)
LEMMA TaskEnds ==
  ASSUME TitlesInv, NEW t \in Tasks, Ends(t), UNCHANGED <<talk, drain>>,
         titled'.kind = "auto" => titled'.basis = titled'.stored /\ titled'.over = "default"
  PROVE  TitlesInv'
<1>1. PICK entry : entry = NoTask
  OBVIOUS
<1>2. /\ task' = [task EXCEPT ![t] = entry]
      /\ DOMAIN entry = {"step", "expected", "basis"} /\ entry.step = "idle"
      /\ entry.expected \in Nat /\ entry.basis \in Nat
  BY <1>1 DEF Ends, NoTask
<1>3. QED
  BY <1>2, TaskStep

(* However long the model thinks while the user talks, renames, switches and   *)
(* deletes, an automatic title was made from the answers selected when it was  *)
(* stored and takes no title of the user's, and a finished drain leaves no     *)
(* task.  (TitleService.)                                                      *)
THEOREM TitlesFit == TitlesSpec => []TitlesFitTheTalk
<1>1. TitlesInit => TitlesInv
  BY DEF TitlesInit, TitlesInv, TitlesFitTheTalk, NewTitle, NoTask, Finished
<1>2. ASSUME TitlesInv, [TitlesNext]_titleVars PROVE TitlesInv'
  <2>0. /\ titled.kind = "auto" => titled.basis = titled.stored /\ titled.over = "default"
        /\ drain = "done" => \A t \in Tasks : task[t].step = "idle"
    BY <1>2 DEF TitlesInv, TitlesFitTheTalk, Finished
  <2>1. ASSUME NEW t \in Tasks, StartTask(t) PROVE TitlesInv'
    BY <1>2, <2>1, TaskMoves DEF StartTask
  <2>2. ASSUME NEW t \in Tasks, Evaluate(t) PROVE TitlesInv'
    BY <1>2, <2>0, <2>2, TaskMoves, TaskEnds DEF Evaluate
  <2>3. ASSUME NEW t \in Tasks, NEW trigger \in Triggers, Count(t, trigger) PROVE TitlesInv'
    BY <1>2, <2>0, <2>3, TaskMoves, TaskEnds DEF Count
  <2>4. ASSUME NEW t \in Tasks, Claim(t) PROVE TitlesInv'
    <3>1. CASE Ends(t)
      BY <1>2, <2>0, <2>4, <3>1, TaskEnds DEF Claim
    <3>2. CASE task' = [task EXCEPT ![t] = [step |-> "list", expected |-> talk.revision, basis |-> 0]]
      <4> DEFINE entry == [step |-> "list", expected |-> talk.revision, basis |-> 0]
      <4>1. /\ DOMAIN entry = {"step", "expected", "basis"} /\ entry.step = "list"
            /\ entry.expected = talk.revision /\ entry.basis = 0
        OBVIOUS
      <4>2. talk.revision \in Nat /\ talk.revision <= talk.revision /\ drain # "done"
        BY <1>2, <2>0, <2>4 DEF TitlesInv, Claim
      <4> HIDE DEF entry
      <4>3. QED
        BY <1>2, <2>0, <2>4, <3>2, <4>1, <4>2, TaskStep DEF Claim, entry
    <3>3. QED
      BY <2>4, <3>1, <3>2 DEF Claim
  <2>5. ASSUME NEW t \in Tasks, ListMessages(t) PROVE TitlesInv'
    <3>1. CASE Ends(t)
      BY <1>2, <2>0, <2>5, <3>1, TaskEnds DEF ListMessages
    <3>2. ASSUME NEW step \in {"ask", "fallback"},
                 task' = [task EXCEPT ![t].step = step, ![t].basis = talk.revision]
          PROVE  TitlesInv'
      <4> DEFINE entry == [task[t] EXCEPT !.step = step, !.basis = talk.revision]
      <4>1. /\ DOMAIN task[t] = {"step", "expected", "basis"} /\ task[t].expected \in Nat
            /\ task[t].expected <= talk.revision /\ talk.revision \in Nat
            /\ UNCHANGED <<titled, talk, drain>> /\ drain # "done"
        BY <1>2, <2>0, <2>5 DEF ListMessages, TitlesInv
      <4>2. /\ DOMAIN entry = {"step", "expected", "basis"} /\ entry.step = step
            /\ entry.expected = task[t].expected /\ entry.basis = talk.revision
        BY <4>1
      <4>3. task' = [task EXCEPT ![t] = entry]
        BY <1>2, <3>2 DEF TitlesInv
      <4> HIDE DEF entry
      <4>4. /\ titled'.kind = "auto" => titled'.basis = titled'.stored /\ titled'.over = "default"
            /\ entry.expected \in Nat /\ entry.basis \in Nat
            /\ entry.expected <= entry.basis /\ entry.basis <= talk.revision
            /\ entry.step # "list"
        BY <2>0, <4>1, <4>2
      <4>5. QED
        BY <1>2, <4>1, <4>2, <4>3, <4>4, TaskStep
    <3>3. QED
      BY <2>5, <3>1, <3>2 DEF ListMessages
  <2>6. ASSUME NEW t \in Tasks, AskModel(t) PROVE TitlesInv'
    BY <1>2, <2>0, <2>6, TaskMoves DEF AskModel
  <2>7. ASSUME NEW t \in Tasks, StoreTitle(t) \/ StoreFallback(t) PROVE TitlesInv'
    <3>1. task[t].step \in {"store", "fallback"} /\ Ends(t) /\ UNCHANGED <<talk, drain>>
      BY <2>7 DEF StoreTitle, StoreFallback
    <3>2. \/ titled' = titled \/ titled' = NewTitle
          \/ MayTitle(t) /\ titled' = Automatic(t)
      BY <2>7 DEF StoreTitle, StoreFallback
    <3>3. titled'.kind = "auto" => titled'.basis = titled'.stored /\ titled'.over = "default"
      BY <1>2, <3>1, <3>2, StoredTitleFits
    <3>4. QED
      BY <1>2, <3>1, <3>3, TaskEnds
  <2>8. ASSUME NEW new \in {NewTitle, UserTitle}, Rename(new) PROVE TitlesInv'
    BY <1>2, <2>8 DEF Rename, TitlesInv, TitlesFitTheTalk, Finished, NewTitle, UserTitle
  <2>9. CASE Talk \/ Reselect \/ DeleteSession
    <3>1. /\ talk'.revision \in Nat /\ talk.revision <= talk'.revision /\ talk.revision \in Nat
          /\ DOMAIN talk' = {"turns", "revision", "deleted"} /\ UNCHANGED <<titled, task, drain>>
      BY <1>2, <2>9 DEF Talk, Reselect, DeleteSession, TitlesInv
    <3>2. QED
      BY <1>2, <3>1 DEF TitlesInv, TitlesFitTheTalk, Finished
  <2>10. CASE WaitExpires \/ DrainTasks \/ DrainEnds
    BY <1>2, <2>10 DEF WaitExpires, DrainTasks, DrainEnds, TitlesInv, TitlesFitTheTalk, Finished
  <2>11. CASE UNCHANGED titleVars
    BY <1>2, <2>11 DEF titleVars, TitlesInv, TitlesFitTheTalk, Finished
  <2>12. QED
    BY <1>2, <2>1, <2>2, <2>3, <2>4, <2>5, <2>6, <2>7, <2>8, <2>9, <2>10, <2>11 DEF TitlesNext
<1>3. TitlesInv => TitlesFitTheTalk
  BY DEF TitlesInv
<1>4. TitlesSpec => []TitlesInv
  BY <1>1, <1>2, PTL DEF TitlesSpec
<1>5. QED
  BY <1>3, <1>4, PTL

-----------------------------------------------------------------------------
(* The inductive invariant of the limiter *)

LimiterEntry == [failures : [AccountKeys -> Nat], open : BOOLEAN, blocked : BOOLEAN]

\* The failures of an entry that count: those of an open window.
Live(e) == IF e.open THEN e.failures ELSE [n \in AccountKeys |-> 0]
Total(f) == SumFunctionOnSet(f, AccountKeys)

\* Requests that were let in and may still add a failure, and those that will.
InFlight(s) == {t \in Attempts : attempt[t].phase \in {"allowed", "failed"} /\ attempt[t].source = s}
Failing(s) == {t \in Attempts : attempt[t].phase = "failed" /\ attempt[t].source = s}
Pending(s) == [n \in AccountKeys |-> Cardinality({t \in Failing(s) : KeyOf[attempt[t].name] = n})]

(* An account was guessed at no more often than counts or is about to; what    *)
(* counts and what may still be added is never more than one request at a time *)
(* can do to a source that was open; and a source that is open has attempts    *)
(* left.                                                                       *)
SourceFits(e, guessed, pending, flying) ==
  /\ \A n \in AccountKeys : guessed[n] <= Live(e)[n] + pending[n]
  /\ Total(Live(e)) + flying < MaxAttempts + Cardinality(Attempts)
  /\ ~e.blocked => Total(Live(e)) < MaxAttempts

LimiterInv ==
  /\ attempt \in [Attempts -> Attempt]
  /\ guesses \in [Sources -> [AccountKeys -> Nat]]
  /\ limiter \in [Sources -> LimiterEntry]
  /\ \A s \in Sources : SourceFits(limiter[s], guesses[s], Pending(s), Cardinality(InFlight(s)))

(* What counts is a number for each account, and so is its sum. *)
LEMMA LiveType ==
  ASSUME NEW e \in LimiterEntry
  PROVE  /\ Live(e) \in [AccountKeys -> Nat] /\ e.failures \in [AccountKeys -> Nat]
         /\ e.open \in BOOLEAN /\ e.blocked \in BOOLEAN
BY DEF Live, LimiterEntry

(* The total of what counts is the sum of its values. *)
LEMMA TotalType ==
  ASSUME NEW f \in [AccountKeys -> Nat]
  PROVE  /\ Total(f) \in Nat /\ Total(f) = SumFunction(f)
         /\ \A n \in AccountKeys : f[n] <= Total(f)
         /\ (\A n \in AccountKeys : f[n] = 0) => Total(f) = 0
<1>1. DOMAIN f = AccountKeys /\ IsFiniteSet(AccountKeys) /\ \A n \in AccountKeys : f[n] \in Nat
  BY LimiterAssumption
<1>2. SumFunction(f) = Total(f)
  BY <1>1, Zenon DEF SumFunction, Total
<1>3. QED
  BY <1>1, <1>2, SumBounds DEF Total

(* Counting one failure more adds one to the total. *)
LEMMA TotalGrows ==
  ASSUME NEW f \in [AccountKeys -> Nat], NEW n \in AccountKeys, NEW k \in Nat
  PROVE  Total([f EXCEPT ![n] = k]) = Total(f) - f[n] + k
<1> DEFINE g == [f EXCEPT ![n] = k]
<1>1. /\ \A x \in AccountKeys : f[x] \in Int /\ g[x] \in Int
      /\ (\A x \in AccountKeys \ {n} : f[x] = g[x]) /\ g[n] = k
  OBVIOUS
<1> HIDE DEF g
<1>2. IsFiniteSet(AccountKeys)
  BY LimiterAssumption
<1>3. SumFunctionOnSet(g, AccountKeys) = SumFunctionOnSet(f, AccountKeys) - f[n] + g[n]
  BY <1>1, <1>2, SumChanges
<1>4. QED
  BY <1>1, <1>3, Zenon DEF Total, g

(* The sets of requests are finite, and no larger than all of them.            *)
LEMMA FlightType ==
  ASSUME NEW s, NEW n
  PROVE  /\ IsFiniteSet(InFlight(s)) /\ Cardinality(InFlight(s)) \in Nat
         /\ Cardinality(InFlight(s)) <= Cardinality(Attempts)
         /\ IsFiniteSet({t \in Failing(s) : KeyOf[attempt[t].name] = n})
         /\ Cardinality({t \in Failing(s) : KeyOf[attempt[t].name] = n}) \in Nat
         /\ Cardinality(Attempts) \in Nat
<1>1. /\ IsFiniteSet(Attempts) /\ InFlight(s) \subseteq Attempts
      /\ {t \in Failing(s) : KeyOf[attempt[t].name] = n} \subseteq Attempts
  BY LimiterAssumption DEF InFlight, Failing
<1>2. /\ IsFiniteSet(InFlight(s)) /\ Cardinality(InFlight(s)) <= Cardinality(Attempts)
      /\ IsFiniteSet({t \in Failing(s) : KeyOf[attempt[t].name] = n})
  BY <1>1, FS_Subset
<1>3. QED
  BY <1>1, <1>2, FS_CardinalityType

(* The bound of the source, from what is kept of it. *)
LEMMA LimiterSafe == LimiterInv => AttemptsAreBounded
<1> SUFFICES ASSUME LimiterInv, NEW s \in Sources
             PROVE  SumFunction(guesses[s]) < MaxAttempts + Cardinality(Attempts)
  BY DEF AttemptsAreBounded
<1>1. /\ guesses[s] \in [AccountKeys -> Nat] /\ limiter[s] \in LimiterEntry
      /\ SourceFits(limiter[s], guesses[s], Pending(s), Cardinality(InFlight(s)))
  BY DEF LimiterInv
<1> DEFINE g == guesses[s]
           k == Live(limiter[s])
           p == Pending(s)
<1>2. k \in [AccountKeys -> Nat] /\ Total(k) \in Nat /\ Total(g) \in Nat /\ SumFunction(g) = Total(g)
  BY <1>1, LiveType, TotalType
<1>3. p \in [AccountKeys -> Nat]
  BY FlightType DEF Pending
<1>4. \A n \in AccountKeys : g[n] <= k[n] + p[n]
  BY <1>1 DEF SourceFits
<1>5. Total(k) + Cardinality(InFlight(s)) < MaxAttempts + Cardinality(Attempts)
  BY <1>1 DEF SourceFits
<1>6. Total(p) \in Nat /\ Total(p) <= Cardinality(InFlight(s))
  <2> DEFINE account == [t \in Attempts |-> KeyOf[attempt[t].name]]
  <2>1. IsFiniteSet(Failing(s)) /\ Failing(s) \subseteq InFlight(s) /\ Failing(s) \subseteq Attempts
    <3>1. Failing(s) \subseteq InFlight(s) /\ Failing(s) \subseteq Attempts
      BY DEF Failing, InFlight
    <3>2. IsFiniteSet(InFlight(s))
      BY FlightType
    <3>3. QED
      BY <3>1, <3>2, FS_Subset
  <2>2. \A n : {t \in Failing(s) : KeyOf[attempt[t].name] = n} = {t \in Failing(s) : account[t] = n}
    BY <2>1
  <2>3. p = [n \in AccountKeys |-> Cardinality({t \in Failing(s) : account[t] = n})]
    BY <2>2 DEF Pending
  <2> HIDE DEF account, p
  <2>4. SumFunctionOnSet(p, AccountKeys) \in Nat /\ SumFunctionOnSet(p, AccountKeys) <= Cardinality(Failing(s))
    BY <2>1, <2>3, LimiterAssumption, SumOfCounts
  <2>5. /\ Cardinality(Failing(s)) <= Cardinality(InFlight(s))
        /\ Cardinality(Failing(s)) \in Nat /\ Cardinality(InFlight(s)) \in Nat
    BY <2>1, FlightType, FS_Subset, FS_CardinalityType
  <2>6. QED
    BY <2>4, <2>5 DEF Total
<1> HIDE DEF g, k, p
<1>7. Total(g) <= Total(k) + Total(p)
  <2>1. g \in [AccountKeys -> Nat]
    BY <1>1 DEF g
  <2>2. \A n \in AccountKeys : g[n] \in Nat /\ k[n] \in Nat /\ p[n] \in Nat /\ g[n] <= k[n] + p[n]
    BY <1>2, <1>3, <1>4, <2>1
  <2>3. QED
    BY <2>2, LimiterAssumption, SumAtMost DEF Total
<1>8. Total(g) < MaxAttempts + Cardinality(Attempts)
  <2> DEFINE flying == Cardinality(InFlight(s))
             all == Cardinality(Attempts)
  <2>1. flying \in Nat /\ all \in Nat /\ MaxAttempts \in Nat
    BY FlightType, LimiterAssumption
  <2>2. Total(k) + flying < MaxAttempts + all /\ Total(p) <= flying
    BY <1>5, <1>6
  <2> HIDE DEF flying, all
  <2>3. Total(g) < MaxAttempts + all
    BY <1>2, <1>6, <1>7, <2>1, <2>2
  <2>4. QED
    BY <2>3 DEF all
<1>9. QED
  BY <1>2, <1>8 DEF g

-----------------------------------------------------------------------------
(* Steps of the limiter *)

(* At first nothing has failed. *)
LEMMA LimiterStarts == LimiterInit => LimiterInv
<1> SUFFICES ASSUME LimiterInit PROVE LimiterInv
  OBVIOUS
<1>1. Forgotten \in LimiterEntry /\ NoAttempt \in Attempt
  BY DEF Forgotten, LimiterEntry, Attempt
<1>2. /\ attempt \in [Attempts -> Attempt] /\ limiter \in [Sources -> LimiterEntry]
      /\ guesses \in [Sources -> [AccountKeys -> Nat]]
  BY <1>1 DEF LimiterInit
<1>3. ASSUME NEW s \in Sources
      PROVE  SourceFits(limiter[s], guesses[s], Pending(s), Cardinality(InFlight(s)))
  <2>1. limiter[s] = Forgotten /\ \A n \in AccountKeys : guesses[s][n] = 0
    BY DEF LimiterInit
  <2>2. Live(limiter[s]) = [n \in AccountKeys |-> 0] /\ Live(limiter[s]) \in [AccountKeys -> Nat]
    BY <2>1 DEF Live, Forgotten
  <2>3. Total(Live(limiter[s])) = 0
    BY <2>2, TotalType
  <2>4. InFlight(s) = {}
    BY DEF LimiterInit, NoAttempt, InFlight
  <2>5. Cardinality(InFlight(s)) = 0
    BY <2>4, FS_EmptySet
  <2>6. \A n \in AccountKeys : Pending(s)[n] \in Nat
    BY FlightType DEF Pending
  <2>7. MaxAttempts \in Nat \ {0} /\ Cardinality(Attempts) \in Nat
    BY FlightType, LimiterAssumption
  <2>8. QED
    BY <2>1, <2>2, <2>3, <2>5, <2>6, <2>7 DEF SourceFits
<1>4. QED
  BY <1>2, <1>3 DEF LimiterInv

\* One request comes to be a.
Becomes(t, a) ==
  /\ attempt \in [Attempts -> Attempt] /\ t \in Attempts /\ a \in Attempt
  /\ attempt' = [attempt EXCEPT ![t] = a]

(* The requests of a source, when one request changes. *)
LEMMA RequestsOf ==
  ASSUME NEW t, NEW a, Becomes(t, a), NEW s
  PROVE  /\ InFlight(s)' = IF a.phase \in {"allowed", "failed"} /\ a.source = s
                           THEN InFlight(s) \union {t} ELSE InFlight(s) \ {t}
         /\ Failing(s)' = IF a.phase = "failed" /\ a.source = s
                          THEN Failing(s) \union {t} ELSE Failing(s) \ {t}
         /\ t \in InFlight(s) <=> attempt[t].phase \in {"allowed", "failed"} /\ attempt[t].source = s
         /\ t \in Failing(s) <=> attempt[t].phase = "failed" /\ attempt[t].source = s
         /\ t \in InFlight(s)' <=> a.phase \in {"allowed", "failed"} /\ a.source = s
         /\ t \in Failing(s)' <=> a.phase = "failed" /\ a.source = s
         /\ attempt'[t] = a /\ \A u \in Attempts \ {t} : attempt'[u] = attempt[u]
         /\ attempt' \in [Attempts -> Attempt]
<1>1. attempt'[t] = a /\ (\A u \in Attempts \ {t} : attempt'[u] = attempt[u]) /\ t \in Attempts
  BY DEF Becomes
<1>2. attempt' \in [Attempts -> Attempt]
  BY DEF Becomes
<1>3. \A u \in Attempts : /\ u \in InFlight(s) <=> attempt[u].phase \in {"allowed", "failed"} /\ attempt[u].source = s
                          /\ u \in Failing(s) <=> attempt[u].phase = "failed" /\ attempt[u].source = s
                          /\ u \in InFlight(s)' <=> attempt'[u].phase \in {"allowed", "failed"} /\ attempt'[u].source = s
                          /\ u \in Failing(s)' <=> attempt'[u].phase = "failed" /\ attempt'[u].source = s
  BY DEF InFlight, Failing
<1>4. InFlight(s) \subseteq Attempts /\ InFlight(s)' \subseteq Attempts
      /\ Failing(s) \subseteq Attempts /\ Failing(s)' \subseteq Attempts
  BY DEF InFlight, Failing
<1>5. InFlight(s)' = IF a.phase \in {"allowed", "failed"} /\ a.source = s
                     THEN InFlight(s) \union {t} ELSE InFlight(s) \ {t}
  BY <1>1, <1>3, <1>4
<1>6. Failing(s)' = IF a.phase = "failed" /\ a.source = s
                    THEN Failing(s) \union {t} ELSE Failing(s) \ {t}
  BY <1>1, <1>3, <1>4
<1>7. QED
  BY <1>1, <1>2, <1>3, <1>5, <1>6

(* A request that does not fail, or stops to do so, leaves the others.         *)
LEMMA PendingOf ==
  ASSUME NEW t, NEW a, Becomes(t, a), NEW s, NEW n \in AccountKeys
  PROVE  /\ Pending(s)[n] \in Nat /\ Pending(s)'[n] \in Nat
         /\ ~(t \in Failing(s)) /\ ~(t \in Failing(s)') => Pending(s)'[n] = Pending(s)[n]
         /\ ~(t \in Failing(s)) /\ t \in Failing(s)' =>
              Pending(s)'[n] = Pending(s)[n] + (IF KeyOf[a.name] = n THEN 1 ELSE 0)
         /\ t \in Failing(s) /\ ~(t \in Failing(s)') =>
              Pending(s)'[n] = Pending(s)[n] - (IF KeyOf[attempt[t].name] = n THEN 1 ELSE 0)
<1> DEFINE old == {u \in Failing(s) : KeyOf[attempt[u].name] = n}
           new == {u \in Failing(s)' : KeyOf[attempt'[u].name] = n}
<1>1. Pending(s)[n] = Cardinality(old) /\ Pending(s)'[n] = Cardinality(new)
  BY DEF Pending
<1>2. /\ IsFiniteSet(old) /\ Cardinality(old) \in Nat
      /\ IsFiniteSet(new) /\ Cardinality(new) \in Nat
  <2>1. IsFiniteSet(old) /\ Cardinality(old) \in Nat
    BY FlightType
  <2>2. IsFiniteSet(new)
    <3>1. new \subseteq Attempts
      BY DEF Failing
    <3> HIDE DEF new
    <3>2. QED
      BY <3>1, LimiterAssumption, FS_Subset
  <2>3. QED
    BY <2>1, <2>2, FS_CardinalityType
<1>3. \A u \in Attempts \ {t} : /\ attempt'[u] = attempt[u]
                                /\ u \in Failing(s)' <=> u \in Failing(s)
  <2>1. Failing(s)' = Failing(s) \union {t} \/ Failing(s)' = Failing(s) \ {t}
    BY RequestsOf
  <2>2. \A u \in Attempts \ {t} : attempt'[u] = attempt[u]
    BY RequestsOf
  <2>3. QED
    BY <2>1, <2>2
<1>4. attempt'[t] = a /\ t \in Attempts /\ Failing(s) \subseteq Attempts /\ Failing(s)' \subseteq Attempts
  BY DEF Failing, Becomes
<1>5. CASE ~(t \in Failing(s)) /\ ~(t \in Failing(s)')
  <2>1. new = old
    BY <1>3, <1>4, <1>5
  <2>2. QED
    BY <1>1, <1>2, <1>5, <2>1
<1>6. CASE ~(t \in Failing(s)) /\ t \in Failing(s)'
  <2>1. new = (IF KeyOf[a.name] = n THEN old \union {t} ELSE old) /\ t \notin old
    BY <1>3, <1>4, <1>6
  <2> HIDE DEF new, old
  <2>2. CASE KeyOf[a.name] = n
    <3>1. Cardinality(new) = Cardinality(old) + 1
      BY <1>2, <2>1, <2>2, FS_AddElement
    <3>2. QED
      BY <1>1, <1>2, <1>6, <2>2, <3>1
  <2>3. CASE KeyOf[a.name] # n
    BY <1>1, <1>2, <1>6, <2>1, <2>3
  <2>4. QED
    BY <2>2, <2>3
<1>7. CASE t \in Failing(s) /\ ~(t \in Failing(s)')
  <2>1. new = (IF KeyOf[attempt[t].name] = n THEN old \ {t} ELSE old) /\ (KeyOf[attempt[t].name] = n => t \in old)
    BY <1>3, <1>4, <1>7
  <2> HIDE DEF new, old
  <2>2. CASE KeyOf[attempt[t].name] = n
    <3>1. Cardinality(new) = Cardinality(old) - 1
      BY <1>2, <2>1, <2>2, FS_RemoveElement
    <3>2. QED
      BY <1>1, <1>2, <1>7, <2>2, <3>1
  <2>3. CASE KeyOf[attempt[t].name] # n
    BY <1>1, <1>2, <1>7, <2>1, <2>3
  <2>4. QED
    BY <2>2, <2>3
<1>8. CASE t \in Failing(s) /\ t \in Failing(s)'
  BY <1>1, <1>2, <1>8
<1>9. QED
  BY <1>5, <1>6, <1>7, <1>8

(* How many of its requests a source has, when one changes.                    *)
LEMMA FlightOf ==
  ASSUME NEW t, NEW a, Becomes(t, a), NEW s
  PROVE  /\ Cardinality(InFlight(s)) \in Nat /\ Cardinality(InFlight(s)') \in Nat
         /\ Cardinality(InFlight(s)') <= Cardinality(Attempts)
         /\ (t \in InFlight(s) <=> t \in InFlight(s)') =>
               Cardinality(InFlight(s)') = Cardinality(InFlight(s))
         /\ t \in InFlight(s) /\ ~(t \in InFlight(s)') =>
               Cardinality(InFlight(s)') = Cardinality(InFlight(s)) - 1
<1>1. InFlight(s)' = InFlight(s) \union {t} \/ InFlight(s)' = InFlight(s) \ {t}
  BY RequestsOf
<1>2. IsFiniteSet(InFlight(s)) /\ Cardinality(InFlight(s)) \in Nat
  BY FlightType
<1>3. InFlight(s)' \subseteq Attempts
  BY DEF InFlight
<1> DEFINE I == InFlight(s)
           J == InFlight(s)'
<1> HIDE DEF I, J
<1>4. IsFiniteSet(J) /\ Cardinality(J) \in Nat /\ Cardinality(J) <= Cardinality(Attempts)
  <2>1. IsFiniteSet(J) /\ Cardinality(J) <= Cardinality(Attempts)
    BY <1>3, LimiterAssumption, FS_Subset DEF J
  <2>2. QED
    BY <2>1, FS_CardinalityType
<1>5. (t \in I <=> t \in J) => Cardinality(J) = Cardinality(I)
  <2>1. (t \in I <=> t \in J) => I = J
    BY <1>1 DEF I, J
  <2>2. QED
    BY <2>1
<1>6. t \in I /\ ~(t \in J) => Cardinality(J) = Cardinality(I) - 1
  <2>1. SUFFICES ASSUME t \in I, ~(t \in J) PROVE Cardinality(J) = Cardinality(I) - 1
    OBVIOUS
  <2>2. J = I \ {t}
    BY <1>1, <2>1 DEF I, J
  <2>3. IsFiniteSet(I)
    BY <1>2 DEF I
  <2>4. QED
    BY <2>1, <2>2, <2>3, FS_RemoveElement
<1>7. QED
  BY <1>2, <1>4, <1>5, <1>6 DEF I, J

-----------------------------------------------------------------------------
(* The actions *)

(* What a request has the fields of its phase. *)
LEMMA AttemptFields ==
  ASSUME NEW a \in Attempt
  PROVE  /\ a.phase \in {"none", "allowed", "failed", "passed"}
         /\ a.phase # "none" => a.source \in Sources /\ a.name \in Names /\ KeyOf[a.name] \in AccountKeys
BY LimiterAssumption DEF Attempt, NoAttempt

(* Only its phase changes when it is decided. *)
LEMMA DecidedFields ==
  ASSUME NEW a \in Attempt, a.phase # "none", NEW phase \in {"allowed", "failed", "passed"},
         NEW b, b = [a EXCEPT !.phase = phase]
  PROVE  b \in Attempt /\ b.phase = phase /\ b.source = a.source /\ b.name = a.name
<1>1. PICK old \in {"allowed", "failed", "passed"}, s \in Sources, n \in Names :
        a = [phase |-> old, source |-> s, name |-> n]
  BY DEF Attempt, NoAttempt
<1>2. b = [phase |-> phase, source |-> s, name |-> n]
  BY <1>1
<1>3. QED
  BY <1>1, <1>2 DEF Attempt

(* Parts of the invariant for one source. *)
LEMMA SourceInv ==
  ASSUME LimiterInv, NEW s \in Sources
  PROVE  /\ limiter[s] \in LimiterEntry /\ guesses[s] \in [AccountKeys -> Nat]
         /\ Live(limiter[s]) \in [AccountKeys -> Nat] /\ Total(Live(limiter[s])) \in Nat
         /\ \A n \in AccountKeys : guesses[s][n] <= Live(limiter[s])[n] + Pending(s)[n]
         /\ Total(Live(limiter[s])) + Cardinality(InFlight(s)) < MaxAttempts + Cardinality(Attempts)
         /\ ~limiter[s].blocked => Total(Live(limiter[s])) < MaxAttempts
<1>1. /\ limiter[s] \in LimiterEntry /\ guesses[s] \in [AccountKeys -> Nat]
      /\ SourceFits(limiter[s], guesses[s], Pending(s), Cardinality(InFlight(s)))
  BY DEF LimiterInv
<1>2. QED
  BY <1>1, LiveType, TotalType DEF SourceFits

(* A source of which nothing gets worse stays fit: what counts is no more, but *)
(* for accounts that are forgiven, and no request of it flies that did not.    *)
LEMMA SourceStays ==
  ASSUME LimiterInv, NEW s \in Sources, NEW e \in LimiterEntry, NEW g \in [AccountKeys -> Nat],
         NEW pending \in [AccountKeys -> Nat], NEW flying \in Nat, flying <= Cardinality(InFlight(s)),
         \A n \in AccountKeys : g[n] <= Live(e)[n] + pending[n],
         Total(Live(e)) <= Total(Live(limiter[s])),
         ~e.blocked => Total(Live(e)) < MaxAttempts
  PROVE  SourceFits(e, g, pending, flying)
<1> DEFINE old == Total(Live(limiter[s]))
           new == Total(Live(e))
           many == Cardinality(InFlight(s))
           all == Cardinality(Attempts)
<1>1. /\ old \in Nat /\ new \in Nat /\ many \in Nat /\ all \in Nat /\ MaxAttempts \in Nat
      /\ new <= old /\ flying <= many /\ old + many < MaxAttempts + all
  BY SourceInv, LiveType, TotalType, FlightType, LimiterAssumption
<1> HIDE DEF old, new, many, all
<1>2. new + flying < MaxAttempts + all
  BY <1>1
<1>3. QED
  BY <1>2 DEF SourceFits, new, all

(* Forgetting an entry that has no window forgets nothing that counts. *)
LEMMA ForgottenCounts ==
  /\ Forgotten \in LimiterEntry /\ Live(Forgotten) = [n \in AccountKeys |-> 0] /\ Total(Live(Forgotten)) = 0
  /\ ~Forgotten.blocked /\ MaxAttempts > 0
<1>1. Forgotten \in LimiterEntry /\ Live(Forgotten) = [n \in AccountKeys |-> 0] /\ ~Forgotten.blocked
  BY DEF Forgotten, LimiterEntry, Live
<1>2. [n \in AccountKeys |-> 0] \in [AccountKeys -> Nat] /\ \A n \in AccountKeys : [m \in AccountKeys |-> 0][n] = 0
  OBVIOUS
<1>3. Total([n \in AccountKeys |-> 0]) = 0
  BY <1>2, TotalType
<1>4. QED
  BY <1>1, <1>3, LimiterAssumption

(* A request is let in. *)
LEMMA AllowStep ==
  ASSUME LimiterInv, NEW t \in Attempts, NEW s \in Sources, NEW n \in Names, Allow(t, s, n)
  PROVE  LimiterInv'
<1>1. /\ attempt[t].phase = "none" /\ ~limiter[s].blocked /\ guesses' = guesses
      /\ limiter' = [limiter EXCEPT ![s] = Counted(s)]
      /\ attempt' = [attempt EXCEPT ![t] = [phase |-> "allowed", source |-> s, name |-> n]]
  BY DEF Allow
<1>2. /\ attempt \in [Attempts -> Attempt] /\ limiter \in [Sources -> LimiterEntry]
      /\ guesses \in [Sources -> [AccountKeys -> Nat]]
  BY DEF LimiterInv
<1>3. PICK a : a = [phase |-> "allowed", source |-> s, name |-> n]
  OBVIOUS
<1>4. a \in Attempt /\ a.phase = "allowed" /\ a.source = s /\ Becomes(t, a)
  <2>1. a \in Attempt /\ a.phase = "allowed" /\ a.source = s
    BY <1>3 DEF Attempt
  <2>2. QED
    BY <1>1, <1>2, <1>3, <2>1 DEF Becomes
<1>5. Counted(s) \in LimiterEntry /\ Live(Counted(s)) = Live(limiter[s]) /\ ~Counted(s).blocked
  BY <1>1, <1>2, ForgottenCounts DEF Counted, Live
<1>6. ASSUME NEW x \in Sources
      PROVE  SourceFits(limiter'[x], guesses'[x], Pending(x)', Cardinality(InFlight(x)'))
  <2>1. limiter'[x] \in LimiterEntry /\ Live(limiter'[x]) = Live(limiter[x])
        /\ (~limiter'[x].blocked => ~limiter[x].blocked)
    BY <1>1, <1>2, <1>5
  <2>2. \A m \in AccountKeys : Pending(x)'[m] = Pending(x)[m]
    <3>1. ~(t \in Failing(x)) /\ ~(t \in Failing(x)')
      BY <1>1, <1>2, <1>4, RequestsOf
    <3>2. QED
      BY <1>2, <1>4, <3>1, PendingOf
  <2>3. Cardinality(InFlight(x)') \in Nat /\ Cardinality(InFlight(x)') <= Cardinality(Attempts)
    BY <1>2, <1>4, FlightOf
  <2>4. \A m \in AccountKeys : guesses'[x][m] <= Live(limiter'[x])[m] + Pending(x)'[m]
    BY <1>1, <2>1, <2>2, SourceInv
  <2>5. ~limiter'[x].blocked => Total(Live(limiter'[x])) < MaxAttempts
    BY <2>1, SourceInv
  <2>6. Total(Live(limiter'[x])) + Cardinality(InFlight(x)') < MaxAttempts + Cardinality(Attempts)
    <3>1. CASE x = s
      <4> DEFINE total == Total(Live(limiter'[x]))
                 flying == Cardinality(InFlight(x)')
                 all == Cardinality(Attempts)
      <4>1. total < MaxAttempts /\ total \in Nat /\ flying \in Nat /\ all \in Nat /\ flying <= all
            /\ MaxAttempts \in Nat
        BY <1>1, <2>1, <2>3, <3>1, SourceInv, FlightType, LimiterAssumption
      <4> HIDE DEF total, flying, all
      <4>2. total + flying < MaxAttempts + all
        BY <4>1
      <4>3. QED
        BY <4>2 DEF total, flying, all
    <3>2. CASE x # s
      <4>1. ~(t \in InFlight(x)) /\ ~(t \in InFlight(x)')
        BY <1>1, <1>2, <1>4, <3>2, RequestsOf
      <4>2. Cardinality(InFlight(x)') = Cardinality(InFlight(x))
        BY <1>2, <1>4, <4>1, FlightOf
      <4>3. QED
        BY <2>1, <4>2, SourceInv
    <3>3. QED
      BY <3>1, <3>2
  <2>7. QED
    BY <2>4, <2>5, <2>6 DEF SourceFits
<1>7. attempt' \in [Attempts -> Attempt] /\ limiter' \in [Sources -> LimiterEntry]
  BY <1>1, <1>2, <1>4, <1>5, RequestsOf
<1>8. QED
  BY <1>1, <1>2, <1>6, <1>7 DEF LimiterInv

(* The service decides about a request. *)
LEMMA DecideStep ==
  ASSUME LimiterInv, NEW t \in Attempts, NEW passed \in BOOLEAN, Decide(t, passed)
  PROVE  LimiterInv'
<1>1. PICK old \in Attempt : old = attempt[t]
  BY DEF LimiterInv
<1>2. PICK a : a = [old EXCEPT !.phase = IF passed THEN "passed" ELSE "failed"]
  OBVIOUS
<1>3. /\ old.phase = "allowed" /\ limiter' = limiter
      /\ attempt' = [attempt EXCEPT ![t].phase = IF passed THEN "passed" ELSE "failed"]
      /\ guesses' = IF passed THEN guesses ELSE [guesses EXCEPT ![old.source][KeyOf[old.name]] = @ + 1]
  BY <1>1 DEF Decide
<1>4. /\ attempt \in [Attempts -> Attempt] /\ limiter \in [Sources -> LimiterEntry]
      /\ guesses \in [Sources -> [AccountKeys -> Nat]]
  BY DEF LimiterInv
<1>5. /\ a \in Attempt /\ a.phase = (IF passed THEN "passed" ELSE "failed")
      /\ a.source = old.source /\ a.name = old.name /\ old.source \in Sources /\ KeyOf[old.name] \in AccountKeys
  <2>1. PICK phase \in {"allowed", "failed", "passed"} : phase = IF passed THEN "passed" ELSE "failed"
    OBVIOUS
  <2>2. old.phase # "none"
    BY <1>3
  <2>3. a = [old EXCEPT !.phase = phase]
    BY <1>2, <2>1, Zenon
  <2>4. a \in Attempt /\ a.phase = phase /\ a.source = old.source /\ a.name = old.name
    BY <2>2, <2>3, DecidedFields, ZenonT(60)
  <2>5. QED
    BY <2>1, <2>2, <2>4, AttemptFields, Zenon
<1>6. Becomes(t, a)
  BY <1>1, <1>2, <1>3, <1>4, <1>5 DEF Becomes
<1>7. guesses' \in [Sources -> [AccountKeys -> Nat]]
  BY <1>3, <1>4, <1>5
<1>8. ASSUME NEW x \in Sources
      PROVE  SourceFits(limiter'[x], guesses'[x], Pending(x)', Cardinality(InFlight(x)'))
  <2>1. limiter'[x] = limiter[x]
    BY <1>3
  <2>2. ~(t \in Failing(x)) /\ (t \in Failing(x)' <=> ~passed /\ old.source = x)
        /\ (t \in InFlight(x)' => t \in InFlight(x))
    BY <1>1, <1>3, <1>4, <1>5, <1>6, RequestsOf
  <2>3. Cardinality(InFlight(x)') \in Nat /\ Cardinality(InFlight(x)') <= Cardinality(InFlight(x))
    <3> DEFINE I == Cardinality(InFlight(x))
               J == Cardinality(InFlight(x)')
    <3>1. I \in Nat /\ J \in Nat /\ (J = I \/ J = I - 1)
      BY <1>4, <1>5, <1>6, <2>2, FlightOf
    <3> HIDE DEF I, J
    <3>2. J <= I
      BY <3>1
    <3>3. QED
      BY <3>1, <3>2 DEF I, J
  <2>4. ASSUME NEW n \in AccountKeys PROVE guesses'[x][n] <= Live(limiter'[x])[n] + Pending(x)'[n]
    <3>1. Pending(x)'[n] = Pending(x)[n] + (IF ~passed /\ old.source = x /\ KeyOf[old.name] = n THEN 1 ELSE 0)
          /\ Pending(x)[n] \in Nat
      BY <1>4, <1>5, <1>6, <2>2, PendingOf
    <3>2. guesses'[x][n] = guesses[x][n] + (IF ~passed /\ old.source = x /\ KeyOf[old.name] = n THEN 1 ELSE 0)
      BY <1>3, <1>4, <1>5
    <3>3. /\ guesses[x][n] <= Live(limiter[x])[n] + Pending(x)[n]
          /\ guesses[x][n] \in Nat /\ Live(limiter[x])[n] \in Nat
      BY SourceInv
    <3>4. QED
      BY <2>1, <3>1, <3>2, <3>3
  <2>5. Pending(x)' \in [AccountKeys -> Nat]
    BY <1>4, <1>5, <1>6, PendingOf DEF Pending
  <2>6. /\ limiter'[x] \in LimiterEntry /\ guesses'[x] \in [AccountKeys -> Nat]
        /\ Total(Live(limiter'[x])) <= Total(Live(limiter[x]))
        /\ ~limiter'[x].blocked => Total(Live(limiter'[x])) < MaxAttempts
    BY <1>7, <2>1, SourceInv
  <2>7. QED
    BY <2>3, <2>4, <2>5, <2>6, SourceStays
<1>9. attempt' \in [Attempts -> Attempt]
  BY <1>6, RequestsOf
<1>10. QED
  BY <1>3, <1>4, <1>7, <1>8, <1>9 DEF LimiterInv

(* A failure is counted: one request less flies, and at most one failure more  *)
(* counts.                                                                     *)
LEMMA RecordFailureStep ==
  ASSUME LimiterInv, NEW t \in Attempts, RecordFailure(t)
  PROVE  LimiterInv'
<1>1. PICK old \in Attempt : old = attempt[t]
  BY DEF LimiterInv
<1> DEFINE s == old.source
           n == KeyOf[old.name]
           kept == Live(limiter[s])
           more == [kept EXCEPT ![n] = @ + 1]
<1>2. /\ old.phase = "failed" /\ limiter' = [limiter EXCEPT ![s] = Failed(s, old.name)]
      /\ attempt' = [attempt EXCEPT ![t] = NoAttempt] /\ guesses' = guesses
  BY <1>1 DEF RecordFailure
<1>3. /\ attempt \in [Attempts -> Attempt] /\ limiter \in [Sources -> LimiterEntry]
      /\ guesses \in [Sources -> [AccountKeys -> Nat]]
  BY DEF LimiterInv
<1>4. s \in Sources /\ n \in AccountKeys
  BY <1>2, AttemptFields
<1>5. NoAttempt \in Attempt /\ NoAttempt.phase = "none"
  BY DEF Attempt, NoAttempt
<1>6. PICK a : a = NoAttempt
  OBVIOUS
<1>7. Becomes(t, a) /\ a.phase = "none"
  BY <1>2, <1>3, <1>5, <1>6 DEF Becomes
<1>8. kept \in [AccountKeys -> Nat] /\ more \in [AccountKeys -> Nat] /\ Total(kept) \in Nat /\ Total(more) = Total(kept) + 1
  <2>1. kept \in [AccountKeys -> Nat] /\ Total(kept) \in Nat
    BY <1>4, SourceInv
  <2> HIDE DEF kept
  <2>2. kept[n] \in Nat /\ kept[n] + 1 \in Nat /\ more = [kept EXCEPT ![n] = kept[n] + 1]
    BY <1>4, <2>1
  <2>3. more \in [AccountKeys -> Nat]
    BY <2>1, <2>2
  <2>4. Total(more) = Total(kept) - kept[n] + (kept[n] + 1)
    BY <1>4, <2>1, <2>2, TotalGrows
  <2>5. QED
    BY <2>1, <2>2, <2>3, <2>4
<1>9. PICK e : e = Failed(s, old.name)
  OBVIOUS
<1>10. /\ e \in LimiterEntry /\ Live(e) = more
       /\ (~e.blocked => Total(more) < MaxAttempts)
  <2>1. Counted(s).failures = kept /\ Counted(s).blocked \in BOOLEAN
    BY <1>3, <1>4 DEF Counted, Live, Forgotten, LimiterEntry
  <2>2. Failed(s, old.name) = [failures |-> more, open |-> TRUE,
                        blocked |-> Counted(s).blocked \/ SumFunction(more) >= MaxAttempts]
    BY <2>1, Zenon DEF Failed
  <2> HIDE DEF more, kept, s, n
  <2>3. PICK blocked \in BOOLEAN : blocked = (Counted(s).blocked \/ SumFunction(more) >= MaxAttempts)
    OBVIOUS
  <2>4. e = [failures |-> more, open |-> TRUE, blocked |-> blocked]
    BY <1>9, <2>2, <2>3, Zenon
  <2>5. e \in LimiterEntry /\ e.open = TRUE /\ e.failures = more /\ e.blocked = blocked
    BY <1>8, <2>4 DEF LimiterEntry
  <2>6. SumFunction(more) = Total(more) /\ Total(more) \in Nat /\ MaxAttempts \in Nat
    BY <1>8, TotalType, LimiterAssumption
  <2>7. Live(e) = more
    BY <2>5 DEF Live
  <2>a. SumFunction(more) >= MaxAttempts => blocked
    BY <2>3, Zenon
  <2>8. ~blocked => Total(more) < MaxAttempts
    BY <2>a, <2>6
  <2>9. QED
    BY <2>5, <2>7, <2>8
<1>11. limiter' = [limiter EXCEPT ![s] = e]
  BY <1>2, <1>9, Zenon
<1> HIDE DEF more
<1>12. ASSUME NEW x \in Sources
       PROVE  SourceFits(limiter'[x], guesses'[x], Pending(x)', Cardinality(InFlight(x)'))
  <2>1. /\ (t \in InFlight(x) <=> x = s) /\ (t \in Failing(x) <=> x = s)
        /\ ~(t \in InFlight(x)') /\ ~(t \in Failing(x)')
    BY <1>1, <1>2, <1>7, RequestsOf
  <2>2. CASE x = s
    <3>1. limiter'[x] = e
      BY <1>3, <1>4, <1>11, <2>2
    <3>2. Total(more) + Cardinality(InFlight(x)') < MaxAttempts + Cardinality(Attempts)
      <4> DEFINE I == Cardinality(InFlight(x))
                 J == Cardinality(InFlight(x)')
                 all == Cardinality(Attempts)
      <4>1. /\ I \in Nat /\ J = I - 1 /\ Total(kept) + I < MaxAttempts + all /\ all \in Nat
        BY <1>4, <1>7, <2>1, <2>2, FlightOf, FlightType, SourceInv
      <4> HIDE DEF I, J, all, kept
      <4>2. Total(more) + J < MaxAttempts + all
        BY <1>8, <4>1, LimiterAssumption
      <4>3. QED
        BY <4>2 DEF J, all
    <3>3. ASSUME NEW m \in AccountKeys PROVE guesses'[x][m] <= more[m] + Pending(x)'[m]
      <4>1. Pending(x)'[m] = Pending(x)[m] - (IF n = m THEN 1 ELSE 0) /\ Pending(x)[m] \in Nat
        BY <1>1, <1>7, <2>1, <2>2, PendingOf
      <4>2. guesses[x][m] <= kept[m] + Pending(x)[m] /\ guesses[x][m] \in Nat
        BY <1>4, <2>2, SourceInv
      <4> HIDE DEF kept, n
      <4>3. more[m] = kept[m] + (IF n = m THEN 1 ELSE 0) /\ kept[m] \in Nat
        BY <1>4, <1>8 DEF more
      <4>4. QED
        BY <1>2, <4>1, <4>2, <4>3
    <3>4. QED
      BY <1>10, <3>1, <3>2, <3>3 DEF SourceFits
  <2>3. CASE x # s
    <3>1. limiter'[x] = limiter[x] /\ guesses'[x] = guesses[x]
      BY <1>2, <1>3, <1>11, <2>3
    <3>2. Cardinality(InFlight(x)') = Cardinality(InFlight(x))
      BY <1>7, <2>1, <2>3, FlightOf
    <3>3. \A m \in AccountKeys : Pending(x)'[m] = Pending(x)[m]
      BY <1>7, <2>1, <2>3, PendingOf
    <3>4. QED
      BY <3>1, <3>2, <3>3, SourceInv DEF SourceFits
  <2>4. QED
    BY <2>2, <2>3
<1>13. attempt' \in [Attempts -> Attempt] /\ limiter' \in [Sources -> LimiterEntry]
  BY <1>3, <1>4, <1>7, <1>10, <1>11, RequestsOf
<1>14. QED
  BY <1>2, <1>3, <1>12, <1>13 DEF LimiterInv

WithFailures(e, g, still) == [e EXCEPT !.failures = g, !.blocked = still]

(* An entry of which the failures and the block change. *)
LEMMA EntryChanges ==
  ASSUME NEW e, NEW f, NEW open, NEW blocked, NEW g, NEW still,
         e = [failures |-> f, open |-> open, blocked |-> blocked]
  PROVE  WithFailures(e, g, still) = [failures |-> g, open |-> open, blocked |-> still]
<1> DEFINE new == [failures |-> g, open |-> open, blocked |-> still]
           got == [e EXCEPT !.failures = g, !.blocked = still]
           names == {"failures", "open", "blocked"}
<1>1. DOMAIN e = names /\ e.open = open
  OBVIOUS
<1>2. /\ DOMAIN got = names /\ got = [x \in names |-> got[x]]
      /\ got["failures"] = g /\ got["blocked"] = still /\ got["open"] = open
  BY <1>1
<1>3. /\ DOMAIN new = names /\ new = [x \in names |-> new[x]]
      /\ new["failures"] = g /\ new["blocked"] = still /\ new["open"] = open
  OBVIOUS
<1> HIDE DEF new, got
<1>4. \A x \in names : got[x] = new[x]
  BY <1>2, <1>3
<1> HIDE DEF names
<1>5. QED
  <2>1. got = new
    BY <1>2, <1>3, <1>4
  <2>2. QED
    BY <2>1 DEF got, new, WithFailures

(* What one key failed is taken back, and no more counts.                       *)
LEMMA TakenBackKeeps ==
  ASSUME LimiterInv, NEW s \in Sources, NEW n \in AccountKeys
  PROVE  /\ TakenBack(s, n) \in LimiterEntry
         /\ \A m \in AccountKeys \ {n} : Live(TakenBack(s, n))[m] = Live(limiter[s])[m]
         /\ Total(Live(TakenBack(s, n))) <= Total(Live(limiter[s]))
         /\ ~TakenBack(s, n).blocked => Total(Live(TakenBack(s, n))) < MaxAttempts
<1>1. /\ limiter[s] \in LimiterEntry /\ Live(limiter[s]) \in [AccountKeys -> Nat] /\ Total(Live(limiter[s])) \in Nat
      /\ ~limiter[s].blocked => Total(Live(limiter[s])) < MaxAttempts
  BY SourceInv
<1>2. PICK f \in [AccountKeys -> Nat], open \in BOOLEAN, blocked \in BOOLEAN :
        limiter[s] = [failures |-> f, open |-> open, blocked |-> blocked]
  BY <1>1 DEF LimiterEntry
<1>3. /\ limiter[s].failures = f /\ limiter[s].open = open /\ limiter[s].blocked = blocked
      /\ Live(limiter[s]) = IF open THEN f ELSE [m \in AccountKeys |-> 0]
  BY <1>2 DEF Live
<1>4. PICK g : g = [f EXCEPT ![n] = 0]
  OBVIOUS
<1>5. g \in [AccountKeys -> Nat] /\ Total(g) = Total(f) - f[n] + 0 /\ (\A m \in AccountKeys \ {n} : g[m] = f[m])
      /\ SumFunction(g) = Total(g) /\ Total(g) \in Nat /\ Total(f) \in Nat /\ Total(g) <= Total(f)
      /\ (\A m \in AccountKeys : g[m] <= Total(g)) /\ f[n] \in Nat
  <2>1. g \in [AccountKeys -> Nat] /\ (\A m \in AccountKeys \ {n} : g[m] = f[m]) /\ f[n] \in Nat
    BY <1>4
  <2>2. Total(g) = Total(f) - f[n] + 0
    BY <1>4, TotalGrows
  <2>3. SumFunction(g) = Total(g) /\ Total(g) \in Nat /\ Total(f) \in Nat /\ (\A m \in AccountKeys : g[m] <= Total(g))
    BY <2>1, TotalType
  <2>4. QED
    BY <2>1, <2>2, <2>3
<1>6. PICK still \in BOOLEAN : still = (blocked /\ SumFunction(g) >= MaxAttempts)
  OBVIOUS
<1>7. PICK e : e = TakenBack(s, n)
  OBVIOUS
<1>8. e = IF f[n] = 0 THEN limiter[s] ELSE IF SumFunction(g) = 0 THEN Forgotten
          ELSE [failures |-> g, open |-> open, blocked |-> still]
  <2>1. WithFailures(limiter[s], g, still) = [failures |-> g, open |-> open, blocked |-> still]
    BY <1>2, EntryChanges
  <2>2. [limiter[s] EXCEPT !.failures = g, !.blocked = @ /\ SumFunction(g) >= MaxAttempts]
        = WithFailures(limiter[s], g, still)
    BY <1>3, <1>6, Zenon DEF WithFailures
  <2>3. e = IF f[n] = 0 THEN limiter[s] ELSE IF SumFunction(g) = 0 THEN Forgotten
            ELSE [limiter[s] EXCEPT !.failures = g, !.blocked = @ /\ SumFunction(g) >= MaxAttempts]
    BY <1>3, <1>4, <1>7, Zenon DEF TakenBack
  <2>4. QED
    BY <2>1, <2>2, <2>3, Zenon
<1>9. CASE f[n] = 0
  BY <1>1, <1>7, <1>8, <1>9
<1>10. CASE f[n] # 0 /\ SumFunction(g) = 0
  <2>1. e = Forgotten
    BY <1>8, <1>10
  <2>2. \A m \in AccountKeys \ {n} : f[m] = 0
    <3>1. ASSUME NEW m \in AccountKeys \ {n} PROVE f[m] = 0
      <4>1. g[m] <= 0 /\ g[m] \in Nat /\ g[m] = f[m]
        BY <1>5, <1>10
      <4>2. QED
        BY <4>1
    <3>2. QED
      BY <3>1
  <2>3. \A m \in AccountKeys \ {n} : Live(limiter[s])[m] = 0
    BY <1>3, <2>2
  <2>4. QED
    BY <1>1, <1>7, <2>1, <2>3, ForgottenCounts
<1>11. CASE f[n] # 0 /\ SumFunction(g) # 0
  <2>1. e = [failures |-> g, open |-> open, blocked |-> still]
    BY <1>8, <1>11
  <2>2. e \in LimiterEntry /\ Live(e) = (IF open THEN g ELSE [m \in AccountKeys |-> 0]) /\ e.blocked = still
    BY <1>5, <2>1 DEF LimiterEntry, Live
  <2>3. MaxAttempts \in Nat \ {0} /\ SumFunction(g) = Total(g)
    BY <1>5, LimiterAssumption
  <2>4. CASE open
    <3>1. Live(e) = g /\ Live(limiter[s]) = f
      BY <1>3, <2>2, <2>4
    <3>2. ~still => Total(g) < MaxAttempts
      BY <1>1, <1>3, <1>5, <1>6, <2>3, <3>1
    <3>3. QED
      BY <1>5, <1>7, <2>2, <3>1, <3>2
  <2>5. CASE ~open
    <3>1. Live(e) = [m \in AccountKeys |-> 0] /\ Live(limiter[s]) = [m \in AccountKeys |-> 0]
      BY <1>3, <2>2, <2>5
    <3>2. Total(Live(e)) = 0 /\ Total(Live(limiter[s])) = 0
      BY <3>1, ForgottenCounts
    <3>3. QED
      BY <1>7, <2>2, <2>3, <3>1, <3>2
  <2>6. QED
    BY <2>4, <2>5
<1>12. QED
  BY <1>9, <1>10, <1>11

(* A source of which one account is forgiven, and no request changes. *)
LEMMA ForgivenFits ==
  ASSUME LimiterInv, NEW s \in Sources, NEW n \in Names,
         NEW g, g = Unguessed(s, n),
         NEW pending, pending \in [AccountKeys -> Nat], \A m \in AccountKeys : pending[m] = Pending(s)[m],
         NEW flying, flying = Cardinality(InFlight(s))
  PROVE  /\ SourceFits(Forgiven(s, n), g, pending, flying) /\ g \in [AccountKeys -> Nat]
         /\ Forgiven(s, n) \in LimiterEntry
<1>1. PICK e, k : e = Forgiven(s, n) /\ k = KeyOf[n]
  OBVIOUS
<1>2. /\ e \in LimiterEntry /\ (\A m \in AccountKeys \ {k} : Live(e)[m] = Live(limiter[s])[m])
      /\ Total(Live(e)) <= Total(Live(limiter[s]))
      /\ (~e.blocked => Total(Live(e)) < MaxAttempts)
      /\ k = BlankKey => e = limiter[s]
  <2>1. k \in AccountKeys
    BY <1>1, LimiterAssumption
  <2>2. CASE k = BlankKey
    <3>1. e = limiter[s]
      BY <1>1, <2>2 DEF Forgiven
    <3>2. \A x \in Nat : x <= x
      OBVIOUS
    <3>3. QED
      BY <3>1, <3>2, SourceInv
  <2>3. CASE k # BlankKey
    <3>1. e = TakenBack(s, k)
      BY <1>1, <2>3 DEF Forgiven
    <3>2. QED
      BY <2>1, <2>3, <3>1, TakenBackKeeps
  <2>4. QED
    BY <2>2, <2>3
<1>3. /\ guesses[s] \in [AccountKeys -> Nat] /\ Live(limiter[s]) \in [AccountKeys -> Nat]
      /\ \A m \in AccountKeys : guesses[s][m] <= Live(limiter[s])[m] + Pending(s)[m]
  BY SourceInv
<1>4. /\ g \in [AccountKeys -> Nat] /\ \A m \in AccountKeys \ {k} : g[m] = guesses[s][m]
      /\ g[k] = 0 \/ (k = BlankKey /\ g = guesses[s])
  BY <1>1, <1>3, LimiterAssumption DEF Unguessed
<1>5. Live(e) \in [AccountKeys -> Nat]
  BY <1>2, LiveType
<1>6. ASSUME NEW m \in AccountKeys PROVE g[m] <= Live(e)[m] + pending[m]
  <2>1. Live(e)[m] \in Nat /\ pending[m] \in Nat
    BY <1>5
  <2>2. CASE m = k
    BY <1>2, <1>3, <1>4, <2>1, <2>2
  <2>3. CASE m # k
    BY <1>2, <1>3, <1>4, <2>3
  <2>4. QED
    BY <2>2, <2>3
<1>7. flying \in Nat /\ flying <= Cardinality(InFlight(s))
  <2>1. flying \in Nat
    BY FlightType
  <2>2. flying <= flying
    BY <2>1
  <2>3. QED
    BY <2>1, <2>2, Zenon
<1>8. SourceFits(e, g, pending, flying)
  BY <1>2, <1>4, <1>6, <1>7, SourceStays
<1>9. QED
  BY <1>1, <1>2, <1>4, <1>8

(* Where requests stay as they are, so do those of each source. *)
LEMMA PendingType ==
  ASSUME NEW s
  PROVE  Pending(s) \in [AccountKeys -> Nat]
BY FlightType DEF Pending

(* A success is told to the limiter. *)
LEMMA ResetStep ==
  ASSUME LimiterInv, NEW t \in Attempts, Reset(t)
  PROVE  LimiterInv'
<1>1. PICK old \in Attempt : old = attempt[t]
  BY DEF LimiterInv
<1>2. PICK s, n : s = old.source /\ n = old.name
  OBVIOUS
<1>3. /\ old.phase = "passed" /\ limiter' = [limiter EXCEPT ![s] = Forgiven(s, n)]
      /\ attempt' = [attempt EXCEPT ![t] = NoAttempt]
      /\ guesses' = [guesses EXCEPT ![s] = Unguessed(s, n)]
  BY <1>1, <1>2 DEF Reset
<1>4. /\ attempt \in [Attempts -> Attempt] /\ limiter \in [Sources -> LimiterEntry]
      /\ guesses \in [Sources -> [AccountKeys -> Nat]]
  BY DEF LimiterInv
<1>5. s \in Sources /\ n \in Names
  BY <1>2, <1>3, AttemptFields
<1>6. PICK a : a = NoAttempt
  OBVIOUS
<1>7. Becomes(t, a) /\ a.phase = "none"
  <2>1. NoAttempt \in Attempt /\ NoAttempt.phase = "none"
    BY DEF Attempt, NoAttempt
  <2>2. QED
    BY <1>3, <1>4, <1>6, <2>1 DEF Becomes
<1>8. ASSUME NEW x \in Sources
      PROVE  /\ \A m \in AccountKeys : Pending(x)'[m] = Pending(x)[m]
             /\ Pending(x)' \in [AccountKeys -> Nat]
             /\ Cardinality(InFlight(x)') = Cardinality(InFlight(x))
  <2>1. /\ ~(t \in InFlight(x)) /\ ~(t \in Failing(x))
        /\ ~(t \in InFlight(x)') /\ ~(t \in Failing(x)')
    BY <1>1, <1>3, <1>7, RequestsOf
  <2>2. \A m \in AccountKeys : Pending(x)'[m] = Pending(x)[m] /\ Pending(x)'[m] \in Nat
    BY <1>7, <2>1, PendingOf
  <2>3. QED
    BY <1>7, <2>1, <2>2, FlightOf DEF Pending
<1>9. PICK g : g = Unguessed(s, n)
  OBVIOUS
<1>10. g \in [AccountKeys -> Nat] /\ Forgiven(s, n) \in LimiterEntry
  BY <1>5, <1>9, PendingType, ForgivenFits
<1>11. guesses' = [guesses EXCEPT ![s] = g]
  BY <1>3, <1>4, <1>5, <1>9
<1>12. ASSUME NEW x \in Sources
       PROVE  SourceFits(limiter'[x], guesses'[x], Pending(x)', Cardinality(InFlight(x)'))
  <2>1. CASE x = s
    <3>1. limiter'[x] = Forgiven(s, n) /\ guesses'[x] = g
      BY <1>3, <1>4, <1>5, <1>11, <2>1
    <3> DEFINE pending == Pending(x)'
               flying == Cardinality(InFlight(x)')
    <3>2. pending \in [AccountKeys -> Nat] /\ (\A m \in AccountKeys : pending[m] = Pending(s)[m])
          /\ flying = Cardinality(InFlight(s))
      BY <1>8, <2>1
    <3> HIDE DEF pending, flying
    <3>3. SourceFits(Forgiven(s, n), g, pending, flying)
      BY <1>5, <1>9, <3>2, ForgivenFits
    <3>4. QED
      BY <3>1, <3>3, Zenon DEF pending, flying
  <2>2. CASE x # s
    <3>1. limiter'[x] = limiter[x] /\ guesses'[x] = guesses[x]
      BY <1>3, <1>4, <1>11, <2>2
    <3>2. QED
      BY <1>8, <3>1, SourceInv DEF SourceFits
  <2>3. QED
    BY <2>1, <2>2
<1>13. attempt' \in [Attempts -> Attempt]
  BY <1>7, RequestsOf
<1>14. limiter' \in [Sources -> LimiterEntry] /\ guesses' \in [Sources -> [AccountKeys -> Nat]]
  BY <1>3, <1>4, <1>10, <1>11
<1>15. QED
  BY <1>12, <1>13, <1>14 DEF LimiterInv

(* An account is forgiven everywhere. *)
LEMMA ResetAccountStep ==
  ASSUME LimiterInv, NEW n \in Names, ResetAccount(n)
  PROVE  LimiterInv'
<1>1. /\ limiter' = [s \in Sources |-> Forgiven(s, n)]
      /\ guesses' = [s \in Sources |-> Unguessed(s, n)]
      /\ attempt' = attempt
  BY DEF ResetAccount
<1>2. /\ attempt \in [Attempts -> Attempt] /\ limiter \in [Sources -> LimiterEntry]
      /\ guesses \in [Sources -> [AccountKeys -> Nat]]
  BY DEF LimiterInv
<1>3. ASSUME NEW x \in Sources
      PROVE  /\ SourceFits(limiter'[x], guesses'[x], Pending(x)', Cardinality(InFlight(x)'))
             /\ limiter'[x] \in LimiterEntry /\ guesses'[x] \in [AccountKeys -> Nat]
  <2>1. limiter'[x] = Forgiven(x, n)
    BY <1>1
  <2>2. PICK g : g = Unguessed(x, n)
    OBVIOUS
  <2>3. guesses'[x] = g
    BY <1>1, <2>2
  <2>4. Pending(x)' = Pending(x) /\ InFlight(x)' = InFlight(x)
    BY <1>1 DEF Pending, InFlight, Failing
  <2>5. SourceFits(Forgiven(x, n), g, Pending(x), Cardinality(InFlight(x))) /\ g \in [AccountKeys -> Nat]
    BY <2>2, PendingType, ForgivenFits
  <2>6. Forgiven(x, n) \in LimiterEntry
    BY <2>2, PendingType, ForgivenFits
  <2>7. QED
    BY <2>1, <2>3, <2>4, <2>5, <2>6, Zenon
<1>4. limiter' \in [Sources -> LimiterEntry] /\ guesses' \in [Sources -> [AccountKeys -> Nat]]
  <2>1. limiter' = [s \in Sources |-> limiter'[s]] /\ guesses' = [s \in Sources |-> guesses'[s]]
    BY <1>1
  <2>2. QED
    BY <1>3, <2>1
<1>5. QED
  BY <1>1, <1>2, <1>3, <1>4 DEF LimiterInv

(* An entry of which the window has ended is one. *)
LEMMA ClosedEntry ==
  ASSUME NEW e \in LimiterEntry, NEW c, c = [e EXCEPT !.open = FALSE]
  PROVE  c \in LimiterEntry /\ c.open = FALSE
BY DEF LimiterEntry

(* The window, and later the block, of a source ends. *)
LEMMA TimePasses ==
  ASSUME LimiterInv, NEW s \in Sources, WindowEnds(s) \/ BlockEnds(s)
  PROVE  LimiterInv'
<1>1. /\ attempt \in [Attempts -> Attempt] /\ limiter \in [Sources -> LimiterEntry]
      /\ guesses \in [Sources -> [AccountKeys -> Nat]]
  BY DEF LimiterInv
<1>2. PICK e : e = limiter'[s]
  OBVIOUS
<1>3. /\ e \in LimiterEntry /\ Live(e) = [n \in AccountKeys |-> 0] /\ attempt' = attempt
      /\ limiter' = [limiter EXCEPT ![s] = e]
      /\ guesses' = [guesses EXCEPT ![s] = guesses'[s]] /\ guesses'[s] \in [AccountKeys -> Nat]
      /\ \A n \in AccountKeys : guesses'[s][n] = 0 \/ (guesses'[s][n] = guesses[s][n] /\ Live(limiter[s])[n] = 0)
  <2>1. PICK f \in [AccountKeys -> Nat], open \in BOOLEAN, blocked \in BOOLEAN :
          limiter[s] = [failures |-> f, open |-> open, blocked |-> blocked]
    BY <1>1 DEF LimiterEntry
  <2>2. CASE WindowEnds(s)
    <3>1. /\ limiter' = [limiter EXCEPT ![s] = IF limiter[s].blocked THEN [limiter[s] EXCEPT !.open = FALSE] ELSE Forgotten]
          /\ guesses' = [guesses EXCEPT ![s] = [n \in AccountKeys |-> 0]] /\ attempt' = attempt
      BY <2>2 DEF WindowEnds
    <3>2. PICK c : c = [limiter[s] EXCEPT !.open = FALSE]
      OBVIOUS
    <3>3. e = c \/ e = Forgotten
      <4>1. limiter' = [limiter EXCEPT ![s] = IF limiter[s].blocked THEN c ELSE Forgotten]
        BY <3>1, <3>2, Zenon
      <4>2. QED
        BY <1>1, <1>2, <4>1
    <3>4. e \in LimiterEntry /\ e.open = FALSE
      <4>1. c \in LimiterEntry /\ c.open = FALSE
        BY <1>1, <3>2, ClosedEntry
      <4>2. Forgotten.open = FALSE
        BY DEF Forgotten
      <4>3. QED
        BY <3>3, <4>1, <4>2, ForgottenCounts
    <3>5. Live(e) = [n \in AccountKeys |-> 0]
      BY <3>4 DEF Live
    <3>6. guesses'[s] = [n \in AccountKeys |-> 0]
      BY <1>1, <3>1
    <3>7. limiter' = [limiter EXCEPT ![s] = e]
      <4>1. PICK next : next = IF limiter[s].blocked THEN [limiter[s] EXCEPT !.open = FALSE] ELSE Forgotten
        OBVIOUS
      <4>2. limiter' = [limiter EXCEPT ![s] = next]
        BY <3>1, <4>1, Zenon
      <4>3. QED
        BY <1>1, <1>2, <4>2
    <3>8. guesses' = [guesses EXCEPT ![s] = guesses'[s]]
      BY <3>1, <3>6, Zenon
    <3>9. guesses'[s] \in [AccountKeys -> Nat] /\ \A n \in AccountKeys : guesses'[s][n] = 0
      BY <3>6
    <3>10. QED
      BY <3>1, <3>4, <3>5, <3>7, <3>8, <3>9, Zenon
  <2>3. CASE BlockEnds(s)
    <3>1. ~limiter[s].open /\ limiter' = [limiter EXCEPT ![s] = Forgotten] /\ attempt' = attempt /\ guesses' = guesses
      BY <2>3 DEF BlockEnds
    <3>2. e = Forgotten
      BY <1>1, <1>2, <3>1
    <3>3. Live(limiter[s]) = [n \in AccountKeys |-> 0]
      BY <3>1 DEF Live
    <3>4. QED
      BY <1>1, <3>1, <3>2, <3>3, ForgottenCounts
  <2>4. QED
    BY <2>2, <2>3
<1>4. ASSUME NEW x \in Sources
      PROVE  SourceFits(limiter'[x], guesses'[x], Pending(x)', Cardinality(InFlight(x)'))
  <2>1. Pending(x)' = Pending(x) /\ InFlight(x)' = InFlight(x)
    BY <1>3 DEF Pending, InFlight, Failing
  <2>2. CASE x = s
    <3>1. Total(Live(e)) = 0
      BY <1>3, ForgottenCounts
    <3>2. PICK g : g = guesses'[s]
      OBVIOUS
    <3>3. \A n \in AccountKeys : g[n] <= Live(e)[n] + Pending(s)[n]
      <4>1. ASSUME NEW n \in AccountKeys PROVE g[n] <= Live(e)[n] + Pending(s)[n]
        <5>1. Pending(s)[n] \in Nat /\ Live(e)[n] = 0
          BY <1>3, PendingType
        <5>2. guesses[s][n] <= Live(limiter[s])[n] + Pending(s)[n]
          BY SourceInv
        <5>3. g[n] = 0 \/ (g[n] = guesses[s][n] /\ Live(limiter[s])[n] = 0)
          BY <1>3, <3>2
        <5>4. QED
          BY <5>1, <5>2, <5>3
      <4>2. QED
        BY <4>1
    <3>4. Total(Live(e)) <= Total(Live(limiter[s])) /\ Total(Live(e)) < MaxAttempts
      BY <3>1, SourceInv, LimiterAssumption
    <3>5. g \in [AccountKeys -> Nat] /\ Pending(s) \in [AccountKeys -> Nat]
          /\ Cardinality(InFlight(s)) \in Nat /\ Cardinality(InFlight(s)) <= Cardinality(InFlight(s))
      <4> DEFINE flying == Cardinality(InFlight(s))
      <4>1. g \in [AccountKeys -> Nat] /\ Pending(s) \in [AccountKeys -> Nat] /\ flying \in Nat
        BY <1>3, <3>2, PendingType, FlightType
      <4> HIDE DEF flying
      <4>2. flying <= flying
        BY <4>1
      <4>3. QED
        BY <4>1, <4>2 DEF flying
    <3>6. SourceFits(e, g, Pending(s), Cardinality(InFlight(s)))
      BY <1>3, <3>3, <3>4, <3>5, SourceStays
    <3>7. QED
      BY <1>2, <2>1, <2>2, <3>2, <3>6, Zenon
  <2>3. CASE x # s
    <3>1. limiter'[x] = limiter[x] /\ guesses'[x] = guesses[x]
      BY <1>1, <1>3, <2>3
    <3>2. QED
      BY <2>1, <3>1, SourceInv DEF SourceFits
  <2>4. QED
    BY <2>2, <2>3
<1>5. limiter' \in [Sources -> LimiterEntry] /\ guesses' \in [Sources -> [AccountKeys -> Nat]]
  BY <1>1, <1>3
<1>6. QED
  BY <1>1, <1>3, <1>4, <1>5 DEF LimiterInv

(* Every step keeps the invariant of the limiter. *)
LEMMA LimiterStep == LimiterInv /\ [LimiterNext]_limiterVars => LimiterInv'
<1> SUFFICES ASSUME LimiterInv, [LimiterNext]_limiterVars PROVE LimiterInv'
  OBVIOUS
<1>1. ASSUME NEW t \in Attempts, NEW s \in Sources, NEW n \in Names, Allow(t, s, n) PROVE LimiterInv'
  BY <1>1, AllowStep
<1>2. ASSUME NEW t \in Attempts, NEW passed \in BOOLEAN, Decide(t, passed) PROVE LimiterInv'
  BY <1>2, DecideStep
<1>3. ASSUME NEW t \in Attempts, RecordFailure(t) \/ Reset(t) PROVE LimiterInv'
  BY <1>3, RecordFailureStep, ResetStep
<1>4. ASSUME NEW n \in Names, ResetAccount(n) PROVE LimiterInv'
  BY <1>4, ResetAccountStep
<1>5. ASSUME NEW s \in Sources, WindowEnds(s) \/ BlockEnds(s) PROVE LimiterInv'
  BY <1>5, TimePasses
<1>6. CASE UNCHANGED limiterVars
  <2>1. limiter' = limiter /\ attempt' = attempt /\ guesses' = guesses
    BY <1>6 DEF limiterVars
  <2>2. ASSUME NEW x \in Sources
        PROVE  SourceFits(limiter'[x], guesses'[x], Pending(x)', Cardinality(InFlight(x)'))
    <3>1. Pending(x)' = Pending(x) /\ InFlight(x)' = InFlight(x)
      BY <2>1 DEF Pending, InFlight, Failing
    <3>2. QED
      BY <2>1, <3>1, SourceInv DEF SourceFits
  <2>3. QED
    BY <2>1, <2>2 DEF LimiterInv
<1>7. QED
  BY <1>1, <1>2, <1>3, <1>4, <1>5, <1>6 DEF LimiterNext

(* ... so it holds always. *)
LEMMA LimiterInvariant == LimiterSpec => []LimiterInv
BY LimiterStarts, LimiterStep, PTL DEF LimiterSpec

(* However many sign-ins are served at once, and whichever of them succeed or  *)
(* are forgiven, a source fails in one window at most the attempts it has and  *)
(* once for each request served meanwhile (Allow, RecordFailure, Reset and     *)
(* ResetAccount of the limiter).                                               *)
THEOREM GuessesAreBounded == LimiterSpec => []AttemptsAreBounded
BY LimiterInvariant, LimiterSafe, PTL

-----------------------------------------------------------------------------
(* The services of a call and their time *)

(* Sequences grow at their end. *)
LEMMA SequencesGrow ==
  ASSUME NEW T
  PROVE  <<>> \in Seq(T) /\ \A s \in Seq(T), x \in T : Append(s, x) \in Seq(T)
OBVIOUS

(* The list of page services is what its definition says. *)
LEMMA ProvidersUnfold ==
  /\ Providers = [i \in 0 .. Len(Crawlers) |->
                    IF i = 0 THEN <<>> ELSE IF Crawlers[i] = "basic" THEN Providers[i - 1]
                    ELSE Append(Providers[i - 1], Crawlers[i])]
  /\ \A i \in 0 .. Len(Crawlers) : Providers[i] \in Seq(STRING)
<1> DEFINE n == Len(Crawlers)
           step == [p \in (1 .. n) \X Seq(STRING) |->
                      IF Crawlers[p[1]] = "basic" THEN p[2] ELSE Append(p[2], Crawlers[p[1]])]
<1>1. n \in Nat /\ \A i \in 1 .. n : Crawlers[i] \in STRING
  BY CallsAssumption
<1> HIDE DEF n
<1>2. PICK g : Recurs(n, <<>>, step, g)
  <2> HIDE DEF step
  <2>1. QED
    BY <1>1, NumberRecursion, SMTT(30)
<1>3. \A i \in 0 .. n : g[i] = IF i = 0 THEN <<>> ELSE step[<<i, g[i - 1]>>]
  BY <1>2 DEF Recurs
<1> DEFINE Good == {i \in Nat : i \in 0 .. n => g[i] \in Seq(STRING)}
<1>4. 0 \in Good
  <2> HIDE DEF step
  <2>1. 0 \in 0 .. n => g[0] = <<>>
    BY <1>3
  <2>2. <<>> \in Seq(STRING)
    BY SequencesGrow, Zenon
  <2>3. QED
    BY <2>1, <2>2
<1>5. ASSUME NEW i \in Nat, i \in Good PROVE i + 1 \in Good
  <2>1. SUFFICES ASSUME i + 1 \in 0 .. n PROVE g[i + 1] \in Seq(STRING)
    OBVIOUS
  <2>2. i \in 0 .. n /\ i + 1 \in 1 .. n /\ i + 1 # 0 /\ (i + 1) - 1 = i
    BY <1>1, <2>1
  <2>3. g[i] \in Seq(STRING)
    BY <1>5, <2>2
  <2>4. g[i + 1] = step[<<i + 1, g[i]>>]
    BY <1>3, <2>1, <2>2
  <2>5. step[<<i + 1, g[i]>>] =
          IF Crawlers[i + 1] = "basic" THEN g[i] ELSE Append(g[i], Crawlers[i + 1])
    BY <2>2, <2>3
  <2>6. PICK x \in STRING : x = Crawlers[i + 1]
    BY <1>1, <2>2
  <2> HIDE DEF step
  <2>7. g[i + 1] = g[i] \/ g[i + 1] = Append(g[i], x)
    BY <2>4, <2>5, <2>6, Zenon
  <2>8. QED
    BY <2>3, <2>6, <2>7, SequencesGrow, Zenon
<1>6. \A i \in 0 .. n : g[i] \in Seq(STRING)
  <2> HIDE DEF Good
  <2>1. Nat \subseteq Good
    BY <1>4, <1>5, NumberInduction
  <2>2. QED
    BY <1>1, <2>1 DEF Good
<1>7. \A i \in 0 .. n : g[i] = IF i = 0 THEN <<>> ELSE IF Crawlers[i] = "basic" THEN g[i - 1]
                                   ELSE Append(g[i - 1], Crawlers[i])
  <2>1. ASSUME NEW i \in 0 .. n, i # 0
        PROVE  g[i] = IF Crawlers[i] = "basic" THEN g[i - 1] ELSE Append(g[i - 1], Crawlers[i])
    <3>1. i \in 1 .. n /\ i - 1 \in 0 .. n
      BY <1>1, <2>1
    <3>2. g[i - 1] \in Seq(STRING) /\ g[i] = step[<<i, g[i - 1]>>]
      BY <1>3, <1>6, <2>1, <3>1
    <3>3. QED
      BY <3>1, <3>2
  <2>2. QED
    BY <1>3, <2>1
<1>8. g = [i \in 0 .. n |-> IF i = 0 THEN <<>> ELSE IF Crawlers[i] = "basic" THEN g[i - 1]
                              ELSE Append(g[i - 1], Crawlers[i])]
  <2> HIDE DEF step
  <2> DEFINE h == [i \in 0 .. n |-> IF i = 0 THEN <<>> ELSE IF Crawlers[i] = "basic" THEN g[i - 1]
                              ELSE Append(g[i - 1], Crawlers[i])]
  <2>1. DOMAIN g = 0 .. n /\ g = [i \in 0 .. n |-> g[i]]
    BY <1>2 DEF Recurs
  <2>2. \A i \in 0 .. n : g[i] = h[i]
    BY <1>7
  <2>3. QED
    BY <2>1, <2>2
<1>9. Providers = [i \in 0 .. n |-> IF i = 0 THEN <<>> ELSE IF Crawlers[i] = "basic" THEN Providers[i - 1]
                              ELSE Append(Providers[i - 1], Crawlers[i])]
  BY <1>8, Zenon DEF Providers, n
<1> DEFINE Typed == {i \in Nat : i \in 0 .. n => Providers[i] \in Seq(STRING)}
<1>10. 0 \in Typed
  BY <1>1, <1>9
<1>11. ASSUME NEW i \in Nat, i \in Typed PROVE i + 1 \in Typed
  <2>1. SUFFICES ASSUME i + 1 \in 0 .. n PROVE Providers[i + 1] \in Seq(STRING)
    OBVIOUS
  <2>2. i \in 0 .. n /\ i + 1 \in 1 .. n /\ i + 1 # 0 /\ (i + 1) - 1 = i
    BY <1>1, <2>1
  <2>3. Providers[i] \in Seq(STRING) /\ Crawlers[i + 1] \in STRING
    BY <1>1, <1>11, <2>2
  <2>4. Providers[i + 1] = IF Crawlers[i + 1] = "basic" THEN Providers[i] ELSE Append(Providers[i], Crawlers[i + 1])
    BY <1>9, <2>1, <2>2
  <2>5. PICK x \in STRING : x = Crawlers[i + 1]
    BY <2>3
  <2>6. Providers[i + 1] = Providers[i] \/ Providers[i + 1] = Append(Providers[i], x)
    BY <2>4, <2>5, Zenon
  <2>7. QED
    BY <2>3, <2>5, <2>6, SequencesGrow, Zenon
<1>12. \A i \in 0 .. n : Providers[i] \in Seq(STRING)
  <2> HIDE DEF Typed
  <2>1. Nat \subseteq Typed
    BY <1>10, <1>11, NumberInduction
  <2>2. QED
    BY <1>1, <2>1 DEF Typed
<1>13. QED
  BY <1>9, <1>12 DEF n

(* A call has a first service to ask. *)
LEMMA ChainHasService ==
  \A kind \in {"search", "extract"} : Len(Chain(kind)) \in Nat \ {0}
<1>1. Len(Crawlers) \in Nat /\ Len(Searchers) \in Nat \ {0}
  BY CallsAssumption
<1>2. Providers[Len(Crawlers)] \in Seq(STRING)
  BY <1>1, ProvidersUnfold
<1>3. QED
  BY <1>1, <1>2 DEF Chain

(* The weight of one service and of those from it on, as a sum. *)
Weights == [i \in Nat |-> Weight(i)]

(* Each service has some weight. *)
LEMMA WeightType == \A i \in Nat : Weight(i) \in Nat \ {0} /\ Weights[i] = Weight(i)
  BY DEF Weight, Weights

(* The weight of several services is the sum of theirs. *)
LEMMA WeightsAreSummed ==
  ASSUME NEW i \in Nat, NEW total \in Nat
  PROVE  WeightFrom(i, total) = SumFunctionOnSet(Weights, i .. total)
<1> DEFINE S == i .. total
           Eq(h) == h = [s \in SUBSET S |-> IF s = {} THEN 0
                           ELSE Weight(CHOOSE y \in s : TRUE) + h[s \ {CHOOSE y \in s : TRUE}]]
           it == CHOOSE h : Eq(h)
<1>1. IsFiniteSet(S) /\ S \subseteq Nat
  BY FS_Interval
<1>2. WeightFrom(i, total) = it[S]
  BY Zenon DEF WeightFrom, MapThenSumSet, MapThenFoldSet
<1> HIDE DEF S
<1>3. ASSUME NEW s \in SUBSET S, s # {}
      PROVE  Weights[CHOOSE y \in s : TRUE] = Weight(CHOOSE y \in s : TRUE)
  <2>1. (CHOOSE y \in s : TRUE) \in Nat
    BY <1>1, <1>3
  <2>2. QED
    BY <2>1, WeightType
<1>4. ASSUME NEW h
      PROVE  Adds(S, Weights, h) <=> Eq(h)
  <2> DEFINE A(s) == IF s = {} THEN 0 ELSE Weights[CHOOSE y \in s : TRUE] + h[s \ {CHOOSE y \in s : TRUE}]
             B(s) == IF s = {} THEN 0 ELSE Weight(CHOOSE y \in s : TRUE) + h[s \ {CHOOSE y \in s : TRUE}]
  <2>1. \A s \in SUBSET S : A(s) = B(s)
    <3>1. ASSUME NEW s \in SUBSET S PROVE A(s) = B(s)
      <4>1. CASE s = {}
        BY <4>1
      <4>2. CASE s # {}
        <5>1. Weights[CHOOSE y \in s : TRUE] = Weight(CHOOSE y \in s : TRUE)
          BY <1>3, <4>2, Zenon
        <5>2. QED
          BY <5>1, Zenon
      <4>3. QED
        BY <4>1, <4>2
    <3>2. QED
      BY <3>1
  <2>2. Adds(S, Weights, h) <=> h = [s \in SUBSET S |-> A(s)]
    BY Zenon DEF Adds, Next0
  <2>3. Eq(h) <=> h = [s \in SUBSET S |-> B(s)]
    BY Zenon
  <2> HIDE DEF A, B, Eq
  <2>4. [s \in SUBSET S |-> A(s)] = [s \in SUBSET S |-> B(s)]
    BY <2>1
  <2>5. QED
    BY <2>2, <2>3, <2>4
<1>5. PICK h : Adds(S, Weights, h)
  BY <1>1, AddsExists
<1>6. Eq(it)
  <2>1. Eq(h)
    BY <1>4, <1>5
  <2> HIDE DEF Eq
  <2>2. QED
    BY <2>1, Zenon
<1> HIDE DEF it, Eq
<1>7. Adds(S, Weights, it)
  BY <1>4, <1>6
<1>8. PICK g : Adds(S, Weights, g) /\ SumFunctionOnSet(Weights, S) = g[S]
  BY <1>1, AddsIsSum
<1>9. g[S] = it[S]
  BY <1>1, <1>7, <1>8, AddsAgree
<1>10. QED
  BY <1>2, <1>8, <1>9 DEF S

(* What an interval holds. *)
LEMMA IntervalBounds == ASSUME NEW n, NEW i \in 0 .. n PROVE i \in Int /\ i <= n
OBVIOUS

(* A service that is not the last leaves time for those after it. *)
LEMMA TimeIsLeft ==
  ASSUME NEW left \in Nat \ {0}, NEW i \in Nat, NEW total \in Nat, i < total
  PROVE  Budget(left, i, total) \in Int /\ Budget(left, i, total) < left
<1> DEFINE S == i .. total
           Sum(T) == SumFunctionOnSet(Weights, T)
<1>1. IsFiniteSet(S) /\ S \subseteq Nat /\ i \in S /\ total \in S \ {i} /\ IsFiniteSet(S \ {i})
  <2>1. IsFiniteSet(S) /\ i \in S /\ total \in S \ {i} /\ S \subseteq Nat
    BY FS_Interval
  <2> HIDE DEF S
  <2>2. QED
    BY <2>1, FS_Subset
<1> HIDE DEF S
<1>2. \A x \in S : Weights[x] \in Nat /\ Weights[x] \in Int /\ Weights[x] # 0
  BY <1>1, WeightType
<1>3. Sum(S) = Weights[i] + Sum(S \ {i})
  BY <1>1, <1>2, SumTakesOut
<1>4. Sum(S \ {i}) \in Nat /\ Weights[total] <= Sum(S \ {i})
  BY <1>1, <1>2, SumBounds
<1> HIDE DEF Sum
<1>5. Weight(i) \in Nat \ {0} /\ Sum(S) \in Nat /\ Weight(i) < Sum(S)
  <2>1. Weights[total] \in Nat \ {0} /\ Weights[i] \in Nat \ {0} /\ Weights[i] = Weight(i)
    BY WeightType
  <2>2. QED
    BY <1>3, <1>4, <2>1
<1>6. WeightFrom(i, total) = Sum(S)
  BY WeightsAreSummed DEF Sum, S
<1> DEFINE w == Weight(i)
           s == Sum(S)
<1>7. w \in Nat \ {0} /\ s \in Nat /\ w < s
  BY <1>5
<1> HIDE DEF w, s
<1>8. (left * w) \div s \in Int /\ (left * w) \div s < left
  BY <1>7
<1>9. QED
  BY <1>6, <1>8 DEF Budget, w, s

-----------------------------------------------------------------------------
(* The inductive invariant *)

CallKinds == {"search", "extract"}
\* The steps at which a call holds the model, and those after it was asked.
Holding == {"check", "ask model", "mark", "release"}
Asked == {"mark", "release", "record", "refined"}
Reasons == {"none", "disabled", "cooldown", "unavailable", "failed", "source_truncated"}

Results ==
  [kind : {"error", "refused", "found"}]
    \union [kind : {"failed"}, of : CallKinds, tried : Nat]
    \union [kind : {"page"}, summarized : BOOLEAN, reason : Reasons, truncated : BOOLEAN]
CallEntry ==
  [step : {"new"}]
    \union [step : {"ask"}, kind : CallKinds, at : Nat, left : Int]
    \union [step : {"read"}, cut : BOOLEAN, long : BOOLEAN, basic : BOOLEAN]
    \union [step : {"queue", "check", "ask model"}, cut : BOOLEAN, long : BOOLEAN]
    \union [step : Asked, cut : BOOLEAN, long : BOOLEAN, answered : BOOLEAN, over : BOOLEAN]
    \union [step : {"done"}, result : Results, late : BOOLEAN]

(* A call that asks services has time and a service to ask; only with a model  *)
(* does it come to one; the model is said to have answered it, or not, as it   *)
(* was, unless the run is over; and its result says what happened to it.       *)
CallFits(e, out, over, model) ==
  /\ e \in CallEntry
  /\ e.step = "ask" => e.left > 0 /\ e.at \in 1 .. Len(Chain(e.kind))
  /\ e.step \in {"queue", "check", "ask model"} \union Asked => model # 0
  /\ e.step \in {"new", "ask", "read", "queue", "check", "ask model"} => ~out
  /\ e.step \in Asked => (e.answered => ~out) /\ (~e.answered /\ ~over => out)
  /\ e.step = "mark" => ~e.answered
  /\ e.step = "done" =>
       /\ e.result.kind = "failed" => e.result.tried = Len(Chain(e.result.of)) \/ e.late
       /\ e.result.kind = "page" =>
            /\ ~e.late
            /\ e.result.reason = "failed" => out
            /\ e.result.summarized => ~out /\ model # 0

Holders == {c \in Calls : Step(c) \in Holding}
Asking == {c \in Calls : Step(c) = "ask model"}

(* Every call that the model failed, or may still fail, has held it, and of    *)
(* those there are no more at a time than slots; until the first of them has   *)
(* told the run, all it failed hold it still.                                  *)
SlotsAreKept ==
  /\ Cardinality(Holders) <= SlotCount
  /\ Cardinality(outages \union Asking) <= SlotCount
  /\ ~down /\ ~stopped => \A c \in outages : Step(c) = "mark"

OutageIsKnown == down \/ cooldown = "now" => outages # {}

WebInv ==
  /\ call = [c \in Calls |-> call[c]]
  /\ down \in BOOLEAN /\ stopped \in BOOLEAN /\ outages \subseteq Calls
  /\ \A c \in Calls : CallFits(call[c], c \in outages, stopped, refiner)
  /\ SlotsAreKept
  /\ OutageIsKnown

(* The entry of a call has the fields of its step. *)
LEMMA EntryFields ==
  ASSUME NEW e \in CallEntry
  PROVE  /\ e.step \in {"new", "ask", "read", "queue", "check", "ask model", "done"} \union Asked
         /\ e.step = "ask" => e.kind \in CallKinds /\ e.at \in Nat /\ e.left \in Int
         /\ e.step \in {"read", "queue", "check", "ask model"} \union Asked => e.cut \in BOOLEAN /\ e.long \in BOOLEAN
         /\ e.step = "read" => e.basic \in BOOLEAN
         /\ e.step \in Asked => e.answered \in BOOLEAN /\ e.over \in BOOLEAN
         /\ e.step = "done" => e.result \in Results /\ e.late \in BOOLEAN
BY DEF CallEntry, Asked

(* What is said of a call stays true when the run is over. *)
LEMMA CallFitsLater ==
  ASSUME NEW e, NEW out, NEW model, CallFits(e, out, FALSE, model)
  PROVE  CallFits(e, out, TRUE, model)
BY DEF CallFits

(* At first nothing has been asked. *)
LEMMA WebStarts == WebInit => WebInv
<1> SUFFICES ASSUME WebInit PROVE WebInv
  OBVIOUS
<1> USE DEF WebInit, NewCall
<1>1. /\ call = [c \in Calls |-> call[c]]
      /\ down \in BOOLEAN /\ stopped \in BOOLEAN /\ outages \subseteq Calls
  OBVIOUS
<1>2. ASSUME NEW c \in Calls PROVE CallFits(call[c], c \in outages, stopped, refiner)
  <2>1. call[c] = [step |-> "new"] /\ c \notin outages
    OBVIOUS
  <2>2. QED
    BY <2>1 DEF CallFits, CallEntry, Asked
<1>3. SlotsAreKept
  <2>1. \A c \in Calls : Step(c) = "new"
    BY DEF Step
  <2>2. Holders = {} /\ outages \union Asking = {}
    BY <2>1 DEF Holders, Asking, Holding
  <2>3. QED
    BY <2>2, FS_EmptySet, WebAssumption DEF SlotsAreKept
<1>4. OutageIsKnown
  BY DEF OutageIsKnown
<1>5. QED
  BY <1>1, <1>2, <1>3, <1>4 DEF WebInv

-----------------------------------------------------------------------------
(* Steps of a call *)

(* What is not above a number is not above a greater one. *)
LEMMA NoGreater == \A l, m, n \in Nat : l <= m /\ m <= n => l <= n
OBVIOUS

(* One call moves on to e: what is said of it is true of e; only from its wait *)
(* does it take the model, only from its check does it ask it, and only when   *)
(* it was asked is it failed by it; and an outage is told only after one.      *)
Proceeds(c, e) ==
  /\ Steps(c, e)
  /\ CallFits(e, c \in outages', stopped, refiner)
  /\ outages' = outages \/ (outages' = outages \union {c} /\ Step(c) = "ask model" /\ e.step = "mark")
  /\ e.step \in Holding => Step(c) \in Holding \/ Cardinality(Holders) < SlotCount
  /\ e.step = "ask model" => Step(c) = "check" /\ ~down /\ ~stopped
  /\ c \in outages' /\ ~down' /\ ~stopped => e.step = "mark"
  /\ down' \in BOOLEAN /\ (down => down')
  /\ down' \/ cooldown' = "now" => outages # {}

(* ... and then the invariant is kept. *)
LEMMA CallProceeds ==
  ASSUME WebInv, NEW c \in Calls, NEW e, Proceeds(c, e)
  PROVE  WebInv'
<1>a. /\ call' = [call EXCEPT ![c] = e] /\ refiner' = refiner /\ stopped' = stopped
      /\ outages' = outages \/ (outages' = outages \union {c} /\ Step(c) = "ask model" /\ e.step = "mark")
  BY Zenon DEF Proceeds, Steps
<1>b. /\ e.step \in Holding => Step(c) \in Holding \/ Cardinality(Holders) < SlotCount
      /\ e.step = "ask model" => Step(c) = "check" /\ ~down /\ ~stopped
      /\ c \in outages' /\ ~down' /\ ~stopped => e.step = "mark"
  BY Zenon DEF Proceeds
<1>c. /\ CallFits(e, c \in outages', stopped, refiner)
      /\ down' \in BOOLEAN /\ (down => down')
      /\ down' \/ cooldown' = "now" => outages # {}
  BY Zenon DEF Proceeds
<1>d. /\ call = [d \in Calls |-> call[d]] /\ down \in BOOLEAN /\ stopped \in BOOLEAN /\ outages \subseteq Calls
      /\ SlotsAreKept /\ OutageIsKnown
      /\ \A d \in Calls : CallFits(call[d], d \in outages, stopped, refiner)
  BY Zenon DEF WebInv
<1>1. /\ call'[c] = e /\ (\A d \in Calls \ {c} : call'[d] = call[d])
      /\ call' = [d \in Calls |-> call'[d]]
      /\ refiner' = refiner /\ stopped' = stopped
  BY <1>a, <1>d
<1>2. /\ outages' = outages \/ (outages' = outages \union {c} /\ Step(c) = "ask model" /\ e.step = "mark")
      /\ outages' \subseteq Calls /\ outages \subseteq Calls
  BY <1>a, <1>d
<1>3. ASSUME NEW d \in Calls
      PROVE  CallFits(call[d], d \in outages, stopped, refiner)'
  <2>1. CASE d = c
    BY <1>1, <1>c, <2>1, Zenon
  <2>2. CASE d # c
    <3>1. (d \in outages') <=> (d \in outages)
      BY <1>2, <2>2
    <3>2. CallFits(call[d], d \in outages, stopped, refiner)
      BY <1>d
    <3>3. call'[d] = call[d]
      BY <1>1, <2>2
    <3> DEFINE entry == call[d]
    <3>4. CallFits(entry, d \in outages, stopped, refiner) /\ entry' = entry
      BY <3>2, <3>3
    <3> HIDE DEF entry
    <3>5. CallFits(entry, d \in outages, stopped, refiner)'
      <4>1. CASE d \in outages
        BY <1>1, <3>1, <3>4, <4>1 DEF CallFits
      <4>2. CASE d \notin outages
        BY <1>1, <3>1, <3>4, <4>2 DEF CallFits
      <4>3. QED
        BY <4>1, <4>2
    <3>6. QED
      BY <3>5 DEF entry
  <2>3. QED
    BY <2>1, <2>2
<1>4. /\ IsFiniteSet(Calls) /\ SlotCount \in Nat
      /\ Cardinality(Holders) <= SlotCount /\ Cardinality(outages \union Asking) <= SlotCount
  BY <1>d, CallsAssumption, WebAssumption DEF SlotsAreKept
<1>5. /\ IsFiniteSet(Holders) /\ IsFiniteSet(outages \union Asking) /\ IsFiniteSet(Holders')
      /\ Cardinality(Holders) \in Nat /\ Cardinality(outages \union Asking) \in Nat
  <2>1. Holders \subseteq Calls /\ outages \union Asking \subseteq Calls /\ Holders' \subseteq Calls
    BY <1>2 DEF Holders, Asking
  <2>2. IsFiniteSet(Holders) /\ IsFiniteSet(outages \union Asking) /\ IsFiniteSet(Holders')
    BY <1>4, <2>1, FS_Subset
  <2>3. QED
    BY <2>2, FS_CardinalityType
<1>6. \A d \in Calls \ {c} : Step(d)' = Step(d)
  BY <1>1 DEF Step
<1>7. Step(c)' = e.step
  BY <1>1 DEF Step
<1>8. (Cardinality(Holders) <= SlotCount)'
  <2>1. CASE e.step \in Holding /\ Step(c) \notin Holding
    <3>1. Holders' = Holders \union {c} /\ c \notin Holders /\ Cardinality(Holders) < SlotCount
      BY <1>b, <1>6, <1>7, <2>1 DEF Holders
    <3>2. Cardinality(Holders') = Cardinality(Holders) + 1
      BY <1>5, <3>1, FS_AddElement
    <3> DEFINE old == Cardinality(Holders)
               new == Cardinality(Holders')
    <3>3. old \in Nat /\ new = old + 1 /\ old < SlotCount /\ SlotCount \in Nat
      BY <1>4, <1>5, <3>1, <3>2
    <3> HIDE DEF old, new
    <3>4. new <= SlotCount
      BY <3>3
    <3>5. QED
      BY <3>4 DEF new
  <2>2. CASE ~(e.step \in Holding /\ Step(c) \notin Holding)
    <3>1. Holders' \subseteq Holders
      BY <1>6, <1>7, <2>2 DEF Holders
    <3>2. Cardinality(Holders') <= Cardinality(Holders) /\ Cardinality(Holders') \in Nat
      BY <1>5, <3>1, FS_Subset, FS_CardinalityType
    <3>3. QED
      BY <1>4, <1>5, <3>2, NoGreater, Zenon
  <2>3. QED
    BY <2>1, <2>2
<1>9. (Cardinality(outages \union Asking) <= SlotCount)'
  <2>1. CASE e.step = "ask model"
    <3>1. \A d \in outages : Step(d) = "mark"
      BY <1>b, <1>d, <2>1 DEF SlotsAreKept
    <3>2. outages' = outages
      BY <1>2, <2>1
    <3>3. (outages \union Asking)' \subseteq Holders'
      <4>1. ASSUME NEW d \in Calls, d \in outages' \/ d \in Asking' PROVE d \in Holders'
        <5>1. CASE d = c
          BY <1>7, <2>1, <5>1 DEF Holders, Holding
        <5>2. CASE d # c
          <6>1. Step(d) = "mark" \/ Step(d) = "ask model"
            BY <1>6, <3>1, <3>2, <4>1, <5>2 DEF Asking
          <6>2. QED
            BY <1>6, <5>2, <6>1 DEF Holders, Holding
        <5>3. QED
          BY <5>1, <5>2
      <4>2. QED
        BY <1>2, <4>1 DEF Asking
    <3>4. Cardinality((outages \union Asking)') <= Cardinality(Holders') /\ Cardinality(Holders') \in Nat
          /\ Cardinality((outages \union Asking)') \in Nat
      BY <1>5, <3>3, FS_Subset, FS_CardinalityType
    <3>5. QED
      BY <1>4, <1>8, <3>4, NoGreater, Zenon
  <2>2. CASE e.step # "ask model"
    <3>1. (outages \union Asking)' \subseteq outages \union Asking
      <4>1. Asking' \subseteq Asking
        BY <1>6, <1>7, <2>2 DEF Asking
      <4>2. QED
        BY <1>2, <4>1 DEF Asking
    <3>2. /\ Cardinality((outages \union Asking)') <= Cardinality(outages \union Asking)
          /\ Cardinality((outages \union Asking)') \in Nat
      BY <1>5, <3>1, FS_Subset, FS_CardinalityType
    <3>3. QED
      BY <1>4, <1>5, <3>2, NoGreater, Zenon
  <2>3. QED
    BY <2>1, <2>2
<1>10. (~down /\ ~stopped => \A d \in outages : Step(d) = "mark")'
  <2>1. SUFFICES ASSUME ~down', ~stopped', NEW d \in outages' PROVE Step(d)' = "mark"
    OBVIOUS
  <2>2. CASE d = c
    BY <1>1, <1>7, <1>b, <2>1, <2>2
  <2>3. CASE d # c
    <3>1. ~down /\ ~stopped /\ d \in outages /\ d \in Calls
      BY <1>1, <1>2, <1>c, <2>1, <2>3
    <3>2. Step(d) = "mark"
      BY <1>d, <3>1 DEF SlotsAreKept
    <3>3. QED
      BY <1>6, <2>3, <3>1, <3>2
  <2>4. QED
    BY <2>2, <2>3
<1>11. OutageIsKnown'
  BY <1>2, <1>c DEF OutageIsKnown
<1>12. stopped' \in BOOLEAN /\ down' \in BOOLEAN
  BY <1>1, <1>c, <1>d
<1>13. QED
  BY <1>1, <1>2, <1>3, <1>8, <1>9, <1>10, <1>11, <1>12 DEF WebInv, SlotsAreKept

(* A step that tells nobody anything keeps the invariant if its entry fits.    *)
LEMMA QuietCall ==
  ASSUME WebInv, NEW c \in Calls, NEW e, Steps(c, e), Untouched, Step(c) # "mark",
         CallFits(e, c \in outages, stopped, refiner),
         e.step \in Holding => Step(c) \in Holding \/ Cardinality(Holders) < SlotCount,
         e.step = "ask model" => Step(c) = "check" /\ ~down /\ ~stopped
  PROVE  WebInv'
<1>1. outages' = outages /\ down' = down /\ cooldown' = cooldown
  BY DEF Untouched
<1>2. c \in outages /\ ~down /\ ~stopped => e.step = "mark"
  BY DEF WebInv, SlotsAreKept
<1>3. down \in BOOLEAN /\ (down \/ cooldown = "now" => outages # {})
  BY DEF WebInv, OutageIsKnown
<1>4. CallFits(e, c \in outages', stopped, refiner)
  BY <1>1, Zenon
<1>5. c \in outages' /\ ~down' /\ ~stopped => e.step = "mark"
  BY <1>1, <1>2
<1>6. down' \in BOOLEAN /\ (down => down') /\ (down' \/ cooldown' = "now" => outages # {})
  BY <1>1, <1>3
<1>7. Proceeds(c, e)
  BY <1>1, <1>4, <1>5, <1>6, Zenon DEF Proceeds
<1>8. QED
  BY <1>7, CallProceeds

(* The entry of a call, with what is said of it. *)
LEMMA EntryOf ==
  ASSUME WebInv, NEW c \in Calls
  PROVE  \E e \in CallEntry : /\ call[c] = e /\ Step(c) = e.step
                              /\ CallFits(e, c \in outages, stopped, refiner)
<1>1. CallFits(call[c], c \in outages, stopped, refiner)
  BY DEF WebInv
<1>2. call[c] \in CallEntry
  BY <1>1, Zenon DEF CallFits
<1>3. QED
  BY <1>1, <1>2, Zenon DEF Step

(* A result that is honest may be given. *)
Honest(result, late, out, model) ==
  /\ result.kind = "failed" => result.tried = Len(Chain(result.of)) \/ late
  /\ result.kind = "page" =>
       /\ ~late
       /\ result.reason = "failed" => out
       /\ result.summarized => ~out /\ model # 0

(* ... by a call that does not have to tell the run of a failure. *)
LEMMA ResultIsGiven ==
  ASSUME WebInv, NEW c \in Calls, NEW result \in Results, Gives(c, result), Untouched, Step(c) # "mark",
         Honest(result, stopped, c \in outages, refiner)
  PROVE  WebInv'
<1>1. stopped \in BOOLEAN
  BY DEF WebInv
<1>2. PICK late \in BOOLEAN : late = stopped
  BY <1>1
<1>3. PICK e : e = [step |-> "done", result |-> result, late |-> late]
  OBVIOUS
<1>4. Steps(c, e)
  BY <1>2, <1>3, Zenon DEF Gives
<1>5. e.step = "done" /\ e.result = result /\ e.late = late /\ e \in CallEntry
  BY <1>3 DEF CallEntry
<1>6. CallFits(e, c \in outages, stopped, refiner)
  BY <1>2, <1>5 DEF CallFits, Honest, Asked
<1>7. QED
  BY <1>4, <1>5, <1>6, QuietCall DEF Holding

(* An error says nothing that could be wrong. *)
LEMMA ErrorIsGiven ==
  ASSUME WebInv, NEW c \in Calls, Gives(c, Error), Untouched, Step(c) # "mark"
  PROVE  WebInv'
<1>1. PICK result : result = Error
  OBVIOUS
<1>2. result \in Results /\ result.kind = "error"
  BY <1>1 DEF Results, Error
<1>3. Honest(result, stopped, c \in outages, refiner)
  BY <1>2 DEF Honest
<1>4. Gives(c, result)
  BY <1>1, Zenon
<1>5. QED
  BY <1>2, <1>3, <1>4, ResultIsGiven

(* A call begins with all its time and the first service. *)
LEMMA BeginStep ==
  ASSUME WebInv, NEW c \in Calls, NEW kind \in CallKinds, BeginCall(c, kind)
  PROVE  WebInv'
<1>1. Step(c) = "new" /\ Untouched
  BY DEF BeginCall, GiveUp
<1>2. CASE Steps(c, [step |-> "ask", kind |-> kind, at |-> 1, left |-> Timeout])
  <2>1. PICK old \in CallEntry : call[c] = old /\ Step(c) = old.step /\ CallFits(old, c \in outages, stopped, refiner)
    BY EntryOf
  <2>2. PICK e : e = [step |-> "ask", kind |-> kind, at |-> 1, left |-> Timeout]
    OBVIOUS
  <2>3. e \in CallEntry /\ e.step = "ask" /\ e.left > 0 /\ e.at = 1 /\ e.kind = kind
    <3>1. /\ e \in [step : {"ask"}, kind : CallKinds, at : Nat, left : Int]
          /\ e.step = "ask" /\ e.left > 0 /\ e.at = 1 /\ e.kind = kind
      BY <2>2, WebAssumption
    <3>2. QED
      BY <3>1, Zenon DEF CallEntry
  <2>4. 1 \in 1 .. Len(Chain(kind))
    BY ChainHasService DEF CallKinds
  <2>5. c \notin outages
    BY <1>1, <2>1 DEF CallFits
  <2>6. CallFits(e, c \in outages, stopped, refiner)
    BY <2>3, <2>4, <2>5 DEF CallFits, Asked
  <2>7. Steps(c, e)
    BY <1>2, <2>2, Zenon
  <2>8. QED
    BY <1>1, <2>3, <2>6, <2>7, QuietCall DEF Holding
<1>3. CASE Gives(c, Error)
  BY <1>1, <1>3, ErrorIsGiven
<1>4. CASE Gives(c, [kind |-> "refused"])
  <2>1. PICK result : result = [kind |-> "refused"]
    OBVIOUS
  <2>2. result \in Results /\ result.kind = "refused"
    BY <2>1 DEF Results
  <2>3. Honest(result, stopped, c \in outages, refiner)
    BY <2>2 DEF Honest
  <2>4. Gives(c, result)
    BY <1>4, <2>1, Zenon
  <2>5. QED
    BY <1>1, <2>2, <2>3, <2>4, ResultIsGiven
<1>5. QED
  BY <1>2, <1>3, <1>4 DEF BeginCall, GiveUp

(* A call says that all services failed when none of them is left to ask. *)
LEMMA FailureStep ==
  ASSUME WebInv, NEW c \in Calls, Step(c) = "ask", Untouched, NEW left \in Int, ServiceFailed(c, left),
         call[c].at < Len(Chain(call[c].kind)) => left > 0
  PROVE  WebInv'
<1>1. PICK old \in CallEntry : call[c] = old /\ Step(c) = old.step /\ CallFits(old, c \in outages, stopped, refiner)
  BY EntryOf
<1>2. /\ old.step = "ask" /\ old.kind \in CallKinds /\ old.at \in Nat /\ old.left \in Int
      /\ old.at \in 1 .. Len(Chain(old.kind)) /\ c \notin outages
  BY <1>1, EntryFields DEF CallFits
<1>3. Len(Chain(old.kind)) \in Nat
  BY <1>2, ChainHasService DEF CallKinds
<1>4. CASE old.kind = "extract" /\ stopped
  <2>1. Gives(c, Error)
    BY <1>1, <1>4, Zenon DEF ServiceFailed
  <2>2. QED
    BY <1>1, <1>2, <2>1, ErrorIsGiven
<1>5. CASE ~(old.kind = "extract" /\ stopped) /\ old.at < Len(Chain(old.kind)) /\ left > 0 /\ ~stopped
  <2>1. PICK e : e = [old EXCEPT !.at = old.at + 1, !.left = left]
    OBVIOUS
  <2>2. Steps(c, e)
    BY <1>1, <1>5, <2>1, Zenon DEF ServiceFailed
  <2>3. old \in [step : {"ask"}, kind : CallKinds, at : Nat, left : Int]
    BY <1>2 DEF CallEntry, Asked
  <2>4. /\ e.step = "ask" /\ e.kind = old.kind /\ e.at = old.at + 1 /\ e.left = left
        /\ e \in [step : {"ask"}, kind : CallKinds, at : Nat, left : Int]
    <3>1. PICK kind \in CallKinds, at \in Nat, time \in Int :
            old = [step |-> "ask", kind |-> kind, at |-> at, left |-> time]
      BY <2>3
    <3>2. e = [step |-> "ask", kind |-> kind, at |-> at + 1, left |-> left]
      BY <2>1, <3>1
    <3>3. old.kind = kind /\ old.at = at
      BY <3>1
    <3>4. QED
      BY <3>2, <3>3
  <2>5. e \in CallEntry
    BY <2>4, Zenon DEF CallEntry
  <2>6. old.at + 1 \in 1 .. Len(Chain(old.kind))
    BY <1>2, <1>3, <1>5
  <2>7. CallFits(e, c \in outages, stopped, refiner)
    BY <1>2, <1>5, <2>4, <2>5, <2>6 DEF CallFits, Asked
  <2>8. QED
    BY <1>1, <1>2, <2>2, <2>4, <2>7, QuietCall DEF Holding
<1>6. CASE ~(old.kind = "extract" /\ stopped) /\ ~(old.at < Len(Chain(old.kind)) /\ left > 0 /\ ~stopped)
  <2>1. PICK result : result = [kind |-> "failed", of |-> old.kind, tried |-> old.at]
    OBVIOUS
  <2>2. Gives(c, result)
    BY <1>1, <1>6, <2>1, Zenon DEF ServiceFailed
  <2>3. result \in Results /\ result.kind = "failed" /\ result.of = old.kind /\ result.tried = old.at
    BY <1>2, <2>1 DEF Results
  <2>4. old.at = Len(Chain(old.kind)) \/ stopped
    BY <1>1, <1>2, <1>3, <1>6
  <2>5. Honest(result, stopped, c \in outages, refiner)
    BY <2>3, <2>4 DEF Honest
  <2>6. QED
    BY <1>1, <1>2, <2>2, <2>3, <2>5, ResultIsGiven
<1>7. QED
  BY <1>4, <1>5, <1>6

(* What services answer has these fields. *)
Answer == [ok : BOOLEAN, cut : BOOLEAN, long : BOOLEAN]

(* Whichever service was asked. *)
LEMMA AnswerType ==
  ASSUME NEW kind, NEW service
  PROVE  Answers(kind, service) \subseteq Answer
<1>1. Nothing \in Answer /\ Found \in Answer /\ Pages \subseteq Answer
  BY DEF Nothing, Found, Pages, Answer
<1>2. SearchAnswers(service) \subseteq Answer
  BY <1>1 DEF SearchAnswers, SearXNGAnswers, TavilySearchAnswers, BraveAnswers, ExaSearchAnswers, BochaAnswers, Needs
<1>3. PageAnswers(service) \subseteq Answer
  BY <1>1 DEF PageAnswers, JinaAnswers, FirecrawlAnswers, TavilyAnswers, ExaAnswers, BasicAnswers, Needs
<1>4. QED
  BY <1>2, <1>3, Zenon DEF Answers

(* A service is asked, for no longer than its share of the time. *)
LEMMA AskStep ==
  ASSUME WebInv, NEW c \in Calls, AskService(c)
  PROVE  WebInv'
<1>1. PICK old \in CallEntry : call[c] = old /\ Step(c) = old.step /\ CallFits(old, c \in outages, stopped, refiner)
  BY EntryOf
<1>2. Step(c) = "ask" /\ Untouched
  BY DEF AskService
<1>3. /\ old.step = "ask" /\ old.kind \in CallKinds /\ old.at \in Nat /\ old.left \in Int /\ old.left > 0
      /\ old.at \in 1 .. Len(Chain(old.kind)) /\ c \notin outages
  BY <1>1, <1>2, EntryFields DEF CallFits
<1>4. Len(Chain(old.kind)) \in Nat
  BY <1>3, ChainHasService DEF CallKinds
<1> DEFINE given == Budget(old.left, old.at, Len(Chain(old.kind)))
           service == Chain(old.kind)[old.at]
<1>5. PICK answer \in Answers(old.kind, service), used \in 0 .. given :
        IF ~answer.ok \/ (old.kind = "extract" /\ stopped) THEN ServiceFailed(c, old.left - used)
        ELSE IF old.kind = "search" THEN Gives(c, [kind |-> "found"])
        ELSE Steps(c, [step |-> "read", cut |-> answer.cut, long |-> answer.long,
                       basic |-> service = "basic"])
  BY <1>1, Zenon DEF AskService
<1>6. answer \in Answer
  BY AnswerType
<1>7. CASE ~answer.ok \/ (old.kind = "extract" /\ stopped)
  <2>1. used \in Int /\ used <= given
    BY Zenon, IntervalBounds
  <2>2. old.left - used \in Int
    BY <1>3, <2>1
  <2>3. old.at < Len(Chain(old.kind)) => old.left - used > 0
    <3>1. SUFFICES ASSUME old.at < Len(Chain(old.kind)) PROVE old.left - used > 0
      OBVIOUS
    <3> DEFINE total == Len(Chain(old.kind))
               at == old.at
               time == old.left
    <3>a. at \in Nat /\ total \in Nat /\ at < total /\ time \in Nat \ {0} /\ given = Budget(time, at, total)
      BY <1>3, <1>4, <3>1
    <3> HIDE DEF total, at, time, given
    <3>b. given \in Int /\ given < time
      BY <3>a, TimeIsLeft
    <3>2. given \in Int /\ given < old.left
      BY <3>b DEF time
    <3> HIDE DEF given
    <3>3. QED
      BY <1>3, <2>1, <3>2
  <2>4. ServiceFailed(c, old.left - used)
    BY <1>5, <1>7, Zenon
  <2>5. QED
    BY <1>1, <1>2, <2>2, <2>3, <2>4, FailureStep
<1>8. CASE ~(~answer.ok \/ (old.kind = "extract" /\ stopped)) /\ old.kind = "search"
  <2>1. PICK result : result = [kind |-> "found"]
    OBVIOUS
  <2>2. result \in Results /\ result.kind = "found"
    BY <2>1 DEF Results
  <2>3. Honest(result, stopped, c \in outages, refiner)
    BY <2>2 DEF Honest
  <2>4. Gives(c, result)
    BY <1>5, <1>8, <2>1, Zenon
  <2>5. QED
    BY <1>2, <2>2, <2>3, <2>4, ResultIsGiven
<1>9. CASE ~(~answer.ok \/ (old.kind = "extract" /\ stopped)) /\ old.kind # "search"
  <2>1. PICK basic \in BOOLEAN : basic = (service = "basic")
    OBVIOUS
  <2>2. PICK e : e = [step |-> "read", cut |-> answer.cut, long |-> answer.long, basic |-> basic]
    OBVIOUS
  <2>3. Steps(c, e)
    BY <1>5, <1>9, <2>1, <2>2, Zenon
  <2>4. e \in CallEntry /\ e.step = "read"
    BY <1>6, <2>2 DEF CallEntry, Answer
  <2>5. CallFits(e, c \in outages, stopped, refiner)
    BY <1>3, <2>4 DEF CallFits, Asked
  <2>6. QED
    BY <1>2, <2>3, <2>4, <2>5, QuietCall DEF Holding
<1>10. QED
  BY <1>7, <1>8, <1>9

(* A page of its own text is given while the run goes on; it is said to be for *)
(* a failure of the model only if that failed the call.                        *)
LEMMA TextIsGiven ==
  ASSUME WebInv, NEW c \in Calls, NEW reason \in Reasons, Falls(c, reason), Untouched,
         Step(c) \in {"read", "queue", "check", "ask model"} \union (Asked \ {"mark"}), ~stopped,
         reason = "failed" => c \in outages
  PROVE  WebInv'
<1>1. PICK old \in CallEntry : call[c] = old /\ Step(c) = old.step /\ CallFits(old, c \in outages, stopped, refiner)
  BY EntryOf
<1>2. old.cut \in BOOLEAN /\ old.long \in BOOLEAN
  BY <1>1, EntryFields
<1>3. PICK truncated \in BOOLEAN : truncated = (old.cut \/ old.long)
  BY <1>2
<1>4. PICK result : result = [kind |-> "page", summarized |-> FALSE, reason |-> reason, truncated |-> truncated]
  OBVIOUS
<1>5. Gives(c, result)
  BY <1>1, <1>3, <1>4, Zenon DEF Falls, Page
<1>6. /\ result \in Results /\ result.kind = "page" /\ result.reason = reason
      /\ result.summarized = FALSE
  BY <1>4 DEF Results
<1>7. Honest(result, stopped, c \in outages, refiner)
  BY <1>6 DEF Honest
<1>8. Step(c) # "mark"
  BY DEF Asked
<1>9. QED
  BY <1>5, <1>6, <1>7, <1>8, ResultIsGiven

(* What becomes of a page that was read. *)
LEMMA FinalizeStep ==
  ASSUME WebInv, NEW c \in Calls, NEW source \in BOOLEAN, Finalize(c, source)
  PROVE  WebInv'
<1>1. PICK old \in CallEntry : call[c] = old /\ Step(c) = old.step /\ CallFits(old, c \in outages, stopped, refiner)
  BY EntryOf
<1>2. Step(c) = "read" /\ Untouched
  BY DEF Finalize
<1>3. old.cut \in BOOLEAN /\ old.long \in BOOLEAN /\ c \notin outages
  BY <1>1, <1>2, EntryFields DEF CallFits
<1>4. CASE Gives(c, Error)
  BY <1>2, <1>4, ErrorIsGiven
<1>5. CASE ~stopped /\ \E reason \in {"none", "disabled"} : Falls(c, reason)
  <2>1. PICK reason \in {"none", "disabled"} : Falls(c, reason)
    BY <1>5
  <2>2. reason \in Reasons /\ reason # "failed"
    BY DEF Reasons
  <2>3. QED
    BY <1>2, <1>5, <2>1, <2>2, TextIsGiven
<1>6. CASE refiner # 0 /\ Steps(c, [step |-> "queue", cut |-> call[c].cut, long |-> call[c].long])
  <2>1. PICK e : e = [step |-> "queue", cut |-> old.cut, long |-> old.long]
    OBVIOUS
  <2>2. Steps(c, e)
    BY <1>1, <1>6, <2>1, Zenon
  <2>3. e \in CallEntry /\ e.step = "queue"
    BY <1>3, <2>1 DEF CallEntry
  <2>4. CallFits(e, c \in outages, stopped, refiner)
    BY <1>3, <1>6, <2>3 DEF CallFits, Asked
  <2>5. QED
    BY <1>2, <2>2, <2>3, <2>4, QuietCall DEF Holding
<1>7. QED
  BY <1>4, <1>5, <1>6 DEF Finalize

At(old, step) == [old EXCEPT !.step = step]
Follows(old, new) ==
  \/ old \in {"queue", "check"} /\ new \in {"check", "ask model"}
  \/ old \in {"mark", "release", "record"} /\ new \in {"release", "record", "refined"}

(* The entry of a call that waits for the model or asks it. *)
LEMMA WaitingEntry ==
  ASSUME NEW S, NEW step \in S, NEW cut \in BOOLEAN, NEW long \in BOOLEAN,
         NEW e, e = [step |-> step, cut |-> cut, long |-> long]
  PROVE  e.step = step /\ e \in [step : S, cut : BOOLEAN, long : BOOLEAN]
OBVIOUS

(* A call that moves on with what it has fits its next step, if that asks no   *)
(* more of it.                                                                 *)
LEMMA Moved ==
  ASSUME NEW old \in CallEntry, NEW step, NEW e, e = At(old, step),
         Follows(old.step, step), NEW c \in Calls, CallFits(old, c \in outages, stopped, refiner)
  PROVE  e.step = step /\ CallFits(e, c \in outages, stopped, refiner)
<1>1. CASE old.step \in {"queue", "check"} /\ step \in {"check", "ask model"}
  <2>1. PICK at \in {"queue", "check", "ask model"}, cut \in BOOLEAN, long \in BOOLEAN :
          old = [step |-> at, cut |-> cut, long |-> long]
    BY <1>1 DEF CallEntry, Asked
  <2>2. e = [step |-> step, cut |-> cut, long |-> long]
    BY <2>1 DEF At
  <2>3. e \in CallEntry /\ e.step = step
    <3> DEFINE Waits == {"queue", "check", "ask model"}
    <3>a. step \in Waits
      BY <1>1
    <3> HIDE DEF Waits
    <3>1. e.step = step /\ e \in [step : Waits, cut : BOOLEAN, long : BOOLEAN]
      BY <2>2, <3>a, WaitingEntry, ZenonT(60)
    <3>2. QED
      BY <3>1, Zenon DEF CallEntry, Waits
  <2>4. refiner # 0 /\ c \notin outages
    BY <1>1 DEF CallFits
  <2>5. QED
    BY <1>1, <2>3, <2>4 DEF CallFits, Asked
<1>2. CASE old.step \in {"mark", "release", "record"} /\ step \in {"release", "record", "refined"}
  <2>1. PICK at \in Asked, cut \in BOOLEAN, long \in BOOLEAN, answered \in BOOLEAN, more \in BOOLEAN :
          old = [step |-> at, cut |-> cut, long |-> long, answered |-> answered, over |-> more]
    BY <1>2 DEF CallEntry
  <2>2. e = [step |-> step, cut |-> cut, long |-> long, answered |-> answered, over |-> more]
    BY <2>1 DEF At
  <2>3. e \in CallEntry /\ e.step = step /\ e.answered = old.answered
    <3>1. /\ e.step = step /\ e.answered = old.answered
          /\ e \in [step : Asked, cut : BOOLEAN, long : BOOLEAN, answered : BOOLEAN, over : BOOLEAN]
      BY <1>2, <2>1, <2>2 DEF Asked
    <3>2. QED
      BY <3>1, Zenon DEF CallEntry
  <2>4. refiner # 0 /\ (old.answered => c \notin outages) /\ (~old.answered /\ ~stopped => c \in outages)
    BY <1>2 DEF CallFits, Asked
  <2>5. QED
    BY <1>2, <2>3, <2>4 DEF CallFits, Asked
<1>3. QED
  BY <1>1, <1>2 DEF Follows

(* A call waits for the model, and takes it if a slot is free. *)
LEMMA AcquireStep ==
  ASSUME WebInv, NEW c \in Calls, AcquireRefinement(c)
  PROVE  WebInv'
<1>1. PICK old \in CallEntry : call[c] = old /\ Step(c) = old.step /\ CallFits(old, c \in outages, stopped, refiner)
  BY EntryOf
<1>2. Step(c) = "queue" /\ Untouched
  BY DEF AcquireRefinement
<1>3. CASE Cardinality({d \in Calls : HoldsSlot(d)}) < SlotCount /\ Advances(c, "check")
  <2>1. Cardinality(Holders) < SlotCount
    BY <1>3, Zenon DEF Holders, Holding, HoldsSlot
  <2>2. PICK e : e = At(old, "check")
    OBVIOUS
  <2>3. Steps(c, e)
    BY <1>1, <1>3, <2>2, Zenon DEF Advances, At
  <2>4. e.step = "check" /\ CallFits(e, c \in outages, stopped, refiner)
    <3>1. Follows(old.step, "check")
      BY <1>1, <1>2, <2>2 DEF Follows
    <3>2. QED
      BY <1>1, <1>2, <2>2, <3>1, Moved, ZenonT(60)
  <2>5. QED
    BY <1>2, <2>1, <2>3, <2>4, QuietCall
<1>4. CASE Gives(c, Error)
  BY <1>2, <1>4, ErrorIsGiven
<1>5. QED
  BY <1>3, <1>4 DEF AcquireRefinement

(* It asks the model only if no outage is known. *)
LEMMA CheckStep ==
  ASSUME WebInv, NEW c \in Calls, CheckModel(c)
  PROVE  WebInv'
<1>1. PICK old \in CallEntry : call[c] = old /\ Step(c) = old.step /\ CallFits(old, c \in outages, stopped, refiner)
  BY EntryOf
<1>2. Step(c) = "check" /\ Untouched
  BY DEF CheckModel
<1>3. CASE Gives(c, Error)
  BY <1>2, <1>3, ErrorIsGiven
<1>4. CASE ~stopped /\ \E reason \in {"cooldown", "unavailable"} : Falls(c, reason)
  <2>1. PICK reason \in {"cooldown", "unavailable"} : Falls(c, reason)
    BY <1>4
  <2>2. reason \in Reasons /\ reason # "failed"
    BY DEF Reasons
  <2>3. QED
    BY <1>2, <1>4, <2>1, <2>2, TextIsGiven
<1>5. CASE ~stopped /\ ~down /\ Advances(c, "ask model")
  <2>1. PICK e : e = At(old, "ask model")
    OBVIOUS
  <2>2. Steps(c, e)
    BY <1>1, <1>5, <2>1, Zenon DEF Advances, At
  <2>3. e.step = "ask model" /\ CallFits(e, c \in outages, stopped, refiner)
    <3>1. Follows(old.step, "ask model")
      BY <1>1, <1>2, <2>1 DEF Follows
    <3>2. QED
      BY <1>1, <1>2, <2>1, <3>1, Moved, ZenonT(60)
  <2>4. Step(c) \in Holding
    BY <1>2 DEF Holding
  <2>5. QED
    BY <1>2, <1>5, <2>2, <2>3, <2>4, QuietCall
<1>6. QED
  BY <1>3, <1>4, <1>5 DEF CheckModel, Fallback

(* The model answers, or fails the call. *)
LEMMA AskModelStep ==
  ASSUME WebInv, NEW c \in Calls, AskRefiner(c)
  PROVE  WebInv'
<1>1. PICK old \in CallEntry : call[c] = old /\ Step(c) = old.step /\ CallFits(old, c \in outages, stopped, refiner)
  BY EntryOf
<1>2. Step(c) = "ask model" /\ down' = down /\ cooldown' = cooldown
  BY DEF AskRefiner
<1>3. old.cut \in BOOLEAN /\ old.long \in BOOLEAN /\ c \notin outages /\ refiner # 0
  BY <1>1, <1>2, EntryFields DEF CallFits
<1>4. Step(c) \in Holding
  BY <1>2 DEF Holding
<1>5. down \in BOOLEAN /\ (down \/ cooldown = "now" => outages # {})
  BY DEF WebInv, OutageIsKnown
<1>6. CASE /\ \E long \in BOOLEAN : Steps(c, [step |-> "release", cut |-> call[c].cut, long |-> call[c].long,
                                              answered |-> TRUE, over |-> long])
           /\ UNCHANGED outages
  <2>1. PICK long \in BOOLEAN : Steps(c, [step |-> "release", cut |-> call[c].cut, long |-> call[c].long,
                                          answered |-> TRUE, over |-> long])
    BY <1>6
  <2>2. PICK e : e = [step |-> "release", cut |-> old.cut, long |-> old.long, answered |-> TRUE, over |-> long]
    OBVIOUS
  <2>3. Steps(c, e)
    BY <1>1, <2>1, <2>2, Zenon
  <2>4. e \in CallEntry /\ e.step = "release" /\ e.answered = TRUE
    BY <1>3, <2>2 DEF CallEntry, Asked
  <2>5. CallFits(e, c \in outages, stopped, refiner)
    BY <1>3, <2>4 DEF CallFits, Asked
  <2>6. Untouched
    BY <1>2, <1>6 DEF Untouched
  <2>7. QED
    BY <1>2, <1>4, <2>3, <2>4, <2>5, <2>6, QuietCall
<1>7. CASE /\ Steps(c, [step |-> "mark", cut |-> call[c].cut, long |-> call[c].long, answered |-> FALSE, over |-> FALSE])
           /\ outages' \in {outages \union {c}} \union (IF stopped THEN {outages} ELSE {})
  <2>1. PICK e : e = [step |-> "mark", cut |-> old.cut, long |-> old.long, answered |-> FALSE, over |-> FALSE]
    OBVIOUS
  <2>2. Steps(c, e)
    BY <1>1, <1>7, <2>1, Zenon
  <2>3. e \in CallEntry /\ e.step = "mark" /\ e.answered = FALSE
    BY <1>3, <2>1 DEF CallEntry, Asked
  <2>4. outages' = outages \union {c} \/ (stopped /\ outages' = outages)
    BY <1>7
  <2>5. CallFits(e, c \in outages', stopped, refiner)
    BY <1>3, <2>3, <2>4 DEF CallFits, Asked
  <2>6. Proceeds(c, e)
    BY <1>2, <1>4, <1>5, <2>2, <2>3, <2>4, <2>5 DEF Proceeds
  <2>7. QED
    BY <2>6, CallProceeds
<1>8. QED
  BY <1>6, <1>7 DEF AskRefiner

(* A failed call has told the run when it releases the model: from then on the *)
(* model is known to be out, unless the run is over.                           *)
LEMMA MarkStep ==
  ASSUME WebInv, NEW c \in Calls, MarkUnavailable(c)
  PROVE  WebInv'
<1>1. PICK old \in CallEntry : call[c] = old /\ Step(c) = old.step /\ CallFits(old, c \in outages, stopped, refiner)
  BY EntryOf
<1>2. /\ Step(c) = "mark" /\ down' = (down \/ ~stopped) /\ Advances(c, "release")
      /\ cooldown' = cooldown /\ outages' = outages
  BY DEF MarkUnavailable
<1>3. PICK e : e = At(old, "release")
  OBVIOUS
<1>4. Steps(c, e)
  BY <1>1, <1>2, <1>3, Zenon DEF Advances, At
<1>5. e.step = "release" /\ CallFits(e, c \in outages, stopped, refiner)
  <2>1. Follows(old.step, "release")
    BY <1>1, <1>2, <1>3 DEF Follows
  <2>2. QED
    BY <1>1, <1>2, <1>3, <2>1, Moved, Zenon
<1>6. Step(c) \in Holding
  BY <1>2 DEF Holding
<1>7. down \in BOOLEAN /\ stopped \in BOOLEAN /\ (down \/ cooldown = "now" => outages # {})
  BY DEF WebInv, OutageIsKnown
<1>8. ~stopped => outages # {}
  BY <1>1, <1>2 DEF CallFits, Asked
<1>9. Proceeds(c, e)
  BY <1>2, <1>4, <1>5, <1>6, <1>7, <1>8 DEF Proceeds
<1>10. QED
  BY <1>9, CallProceeds

(* The slot is given back. *)
LEMMA ReleaseStep ==
  ASSUME WebInv, NEW c \in Calls, ReleaseRefinement(c)
  PROVE  WebInv'
<1>1. PICK old \in CallEntry : call[c] = old /\ Step(c) = old.step /\ CallFits(old, c \in outages, stopped, refiner)
  BY EntryOf
<1>2. Step(c) = "release" /\ Advances(c, "record") /\ Untouched
  BY DEF ReleaseRefinement
<1>3. PICK e : e = At(old, "record")
  OBVIOUS
<1>4. Steps(c, e)
  BY <1>1, <1>2, <1>3, Zenon DEF Advances, At
<1>5. e.step = "record" /\ CallFits(e, c \in outages, stopped, refiner)
  <2>1. Follows(old.step, "record")
    BY <1>1, <1>2, <1>3 DEF Follows
  <2>2. QED
    BY <1>1, <1>2, <1>3, <2>1, Moved, ZenonT(60)
<1>6. QED
  BY <1>2, <1>4, <1>5, QuietCall DEF Holding

(* The record of an outage asks the session to wait only after one. *)
LEMMA RecordStep ==
  ASSUME WebInv, NEW c \in Calls, RecordTaskRun(c)
  PROVE  WebInv'
<1>1. PICK old \in CallEntry : call[c] = old /\ Step(c) = old.step /\ CallFits(old, c \in outages, stopped, refiner)
  BY EntryOf
<1>2. /\ Step(c) = "record" /\ Advances(c, "refined") /\ down' = down /\ outages' = outages
      /\ cooldown' = cooldown \/ (cooldown' = "now" /\ ~call[c].answered /\ ~stopped) \/ cooldown' = "no"
  BY DEF RecordTaskRun
<1>3. PICK e : e = At(old, "refined")
  OBVIOUS
<1>4. Steps(c, e)
  BY <1>1, <1>2, <1>3, Zenon DEF Advances, At
<1>5. e.step = "refined" /\ CallFits(e, c \in outages, stopped, refiner)
  <2>1. Follows(old.step, "refined")
    BY <1>1, <1>2, <1>3 DEF Follows
  <2>2. QED
    BY <1>1, <1>2, <1>3, <2>1, Moved, ZenonT(60)
<1>6. ~call[c].answered /\ ~stopped => outages # {}
  BY <1>1, <1>2 DEF CallFits, Asked
<1>7. /\ down \in BOOLEAN /\ (down \/ cooldown = "now" => outages # {})
      /\ (~down /\ ~stopped => \A d \in outages : Step(d) = "mark")
  BY DEF WebInv, OutageIsKnown, SlotsAreKept
<1>8. down' \/ cooldown' = "now" => outages # {}
  BY <1>2, <1>6, <1>7
<1>9. Proceeds(c, e)
  BY <1>2, <1>4, <1>5, <1>7, <1>8 DEF Proceeds, Holding
<1>10. QED
  BY <1>9, CallProceeds

(* The call ends with what the model gave, or with the text of the page. *)
LEMMA FinishStep ==
  ASSUME WebInv, NEW c \in Calls, FinishRefinement(c)
  PROVE  WebInv'
<1>1. PICK old \in CallEntry : call[c] = old /\ Step(c) = old.step /\ CallFits(old, c \in outages, stopped, refiner)
  BY EntryOf
<1>2. Step(c) = "refined" /\ Untouched /\ Step(c) # "mark"
  BY DEF FinishRefinement
<1>3. /\ old.cut \in BOOLEAN /\ old.over \in BOOLEAN /\ old.answered \in BOOLEAN /\ refiner # 0
      /\ (old.answered => c \notin outages) /\ (~old.answered /\ ~stopped => c \in outages)
  BY <1>1, <1>2, EntryFields DEF CallFits, Asked
<1>4. CASE stopped
  <2>1. Gives(c, Error)
    BY <1>4, Zenon DEF FinishRefinement
  <2>2. QED
    BY <1>2, <2>1, ErrorIsGiven
<1>5. CASE ~stopped /\ old.answered
  <2>1. PICK reason \in Reasons : reason = IF old.cut THEN "source_truncated" ELSE "none"
    BY DEF Reasons
  <2>2. PICK truncated \in BOOLEAN : truncated = (old.cut \/ old.over)
    BY <1>3
  <2>3. PICK result : result = [kind |-> "page", summarized |-> TRUE, reason |-> reason, truncated |-> truncated]
    OBVIOUS
  <2>4. Gives(c, result)
    BY <1>1, <1>5, <2>1, <2>2, <2>3, Zenon DEF FinishRefinement, Page
  <2>5. result \in Results /\ result.kind = "page" /\ result.reason # "failed"
    BY <2>1, <2>3 DEF Results
  <2>6. Honest(result, stopped, c \in outages, refiner)
    BY <1>3, <1>5, <2>5 DEF Honest
  <2>7. QED
    BY <1>2, <2>4, <2>5, <2>6, ResultIsGiven
<1>6. CASE ~stopped /\ ~old.answered
  <2>1. Falls(c, "failed")
    BY <1>1, <1>6, Zenon DEF FinishRefinement
  <2>2. "failed" \in Reasons /\ Step(c) \in Asked \ {"mark"}
    BY <1>2 DEF Reasons, Asked
  <2>3. PICK reason \in Reasons : reason = "failed"
    BY <2>2
  <2>4. Falls(c, reason)
    BY <2>1, <2>3, Zenon
  <2>5. QED
    BY <1>2, <1>3, <1>6, <2>2, <2>3, <2>4, TextIsGiven
<1>7. QED
  BY <1>3, <1>4, <1>5, <1>6

-----------------------------------------------------------------------------
(* The invariant of the run, and the theorem *)

(* The run ends, or the session may ask the model again. *)
LEMMA StopStep ==
  ASSUME WebInv, StopRun \/ CooldownEnds
  PROVE  WebInv'
<1>1. CASE StopRun
  <2>1. /\ ~stopped /\ stopped' = TRUE /\ call' = call /\ refiner' = refiner
        /\ down' = down /\ cooldown' = cooldown /\ outages' = outages
    BY <1>1 DEF StopRun
  <2>2. ASSUME NEW c \in Calls PROVE CallFits(call[c], c \in outages, stopped, refiner)'
    <3>1. PICK old \in CallEntry : call[c] = old /\ Step(c) = old.step /\ CallFits(old, c \in outages, stopped, refiner)
      BY EntryOf
    <3>2. CallFits(old, c \in outages, TRUE, refiner)
      BY <2>1, <3>1 DEF CallFits
    <3>3. call'[c] = old
      BY <2>1, <3>1
    <3>4. QED
      BY <2>1, <3>2, <3>3 DEF CallFits
  <2>3. SlotsAreKept'
    BY <2>1 DEF WebInv, SlotsAreKept, Holders, Asking, Step
  <2>4. QED
    BY <2>1, <2>2, <2>3 DEF WebInv, OutageIsKnown
<1>2. CASE CooldownEnds
  <2>1. /\ call' = call /\ refiner' = refiner /\ stopped' = stopped
        /\ down' = down /\ cooldown' = "no" /\ outages' = outages
    BY <1>2 DEF CooldownEnds
  <2>2. ASSUME NEW c \in Calls PROVE CallFits(call[c], c \in outages, stopped, refiner)'
    <3>1. CallFits(call[c], c \in outages, stopped, refiner)
      BY DEF WebInv
    <3>2. QED
      BY <2>1, <3>1 DEF CallFits
  <2>3. SlotsAreKept'
    BY <2>1 DEF WebInv, SlotsAreKept, Holders, Asking, Step
  <2>4. QED
    BY <2>1, <2>2, <2>3 DEF WebInv, OutageIsKnown
<1>3. QED
  BY <1>1, <1>2

(* Where nothing changes, the invariant stays. *)
LEMMA WebStutters ==
  ASSUME WebInv, UNCHANGED webVars
  PROVE  WebInv'
<1>1. /\ call' = call /\ refiner' = refiner /\ stopped' = stopped
      /\ down' = down /\ cooldown' = cooldown /\ outages' = outages
  BY DEF webVars
<1>2. ASSUME NEW c \in Calls PROVE CallFits(call[c], c \in outages, stopped, refiner)'
  <2>1. CallFits(call[c], c \in outages, stopped, refiner)
    BY DEF WebInv
  <2>2. QED
    BY <1>1, <2>1 DEF CallFits
<1>3. SlotsAreKept'
  BY <1>1 DEF WebInv, SlotsAreKept, Holders, Asking, Step
<1>4. QED
  BY <1>1, <1>2, <1>3 DEF WebInv, OutageIsKnown

(* Every step keeps the invariant of the web tools. *)
LEMMA WebStep == WebInv /\ [WebNext]_webVars => WebInv'
<1> SUFFICES ASSUME WebInv, [WebNext]_webVars PROVE WebInv'
  OBVIOUS
<1>1. ASSUME NEW c \in Calls, NEW kind \in {"search", "extract"}, BeginCall(c, kind) PROVE WebInv'
  BY <1>1, BeginStep DEF CallKinds
<1>2. ASSUME NEW c \in Calls, NEW source \in BOOLEAN, Finalize(c, source) PROVE WebInv'
  BY <1>2, FinalizeStep
<1>3. ASSUME NEW c \in Calls,
             \/ AskService(c) \/ AcquireRefinement(c) \/ CheckModel(c) \/ AskRefiner(c)
             \/ MarkUnavailable(c) \/ ReleaseRefinement(c) \/ RecordTaskRun(c) \/ FinishRefinement(c)
      PROVE  WebInv'
  BY <1>3, AskStep, AcquireStep, CheckStep, AskModelStep, MarkStep, ReleaseStep, RecordStep, FinishStep
<1>4. CASE StopRun \/ CooldownEnds
  BY <1>4, StopStep
<1>5. CASE UNCHANGED webVars
  BY <1>5, WebStutters
<1>6. QED
  BY <1>1, <1>2, <1>3, <1>4, <1>5 DEF WebNext

(* What the invariant says of the model and of the results is what is promised. *)
LEMMA WebSafe == WebInv => ReadingIsHonest
<1> SUFFICES ASSUME WebInv PROVE ReadingIsHonest
  OBVIOUS
<1>1. OutageStopsTheBatch
  <2>1. /\ outages \union Asking \subseteq Calls /\ outages \subseteq outages \union Asking
        /\ Cardinality(outages \union Asking) <= SlotCount /\ SlotCount \in Nat
        /\ (down \/ cooldown = "now" => outages # {})
    BY WebAssumption DEF WebInv, Asking, SlotsAreKept, OutageIsKnown
  <2>2. IsFiniteSet(outages \union Asking)
    BY <2>1, CallsAssumption, FS_Subset
  <2>3. /\ Cardinality(outages) <= Cardinality(outages \union Asking)
        /\ Cardinality(outages) \in Nat /\ Cardinality(outages \union Asking) \in Nat
    BY <2>1, <2>2, FS_Subset, FS_CardinalityType
  <2>4. Cardinality(outages) <= SlotCount
    BY <2>1, <2>3, NoGreater, Zenon
  <2>5. QED
    BY <2>1, <2>4 DEF OutageStopsTheBatch
<1>2. ResultIsHonest
  <2>1. ASSUME NEW c \in Calls, Step(c) = "done"
        PROVE  LET result == call[c].result IN
               /\ result.kind = "failed" => result.tried = Len(Chain(result.of)) \/ call[c].late
               /\ result.kind = "page" =>
                    /\ ~call[c].late
                    /\ result.reason = "failed" => c \in outages
                    /\ result.summarized => c \notin outages /\ refiner # 0
    <3>1. PICK old \in CallEntry : call[c] = old /\ Step(c) = old.step /\ CallFits(old, c \in outages, stopped, refiner)
      BY EntryOf
    <3>2. QED
      BY <2>1, <3>1 DEF CallFits
  <2>2. QED
    BY <2>1, Zenon DEF ResultIsHonest
<1>3. QED
  BY <1>1, <1>2 DEF ReadingIsHonest

(* ... so it always holds. *)
LEMMA WebInvariant == WebSpec => []WebInv
BY WebStarts, WebStep, PTL DEF WebSpec

(* Whatever the services and the model do, and however the reads of a run wait *)
(* for it, what a call of the web tools says of them is what happened          *)
(* (fallbackServiceBudget, finalizeContent, refineWithMarker).                 *)
THEOREM ReadingsAreHonest == WebSpec => []ReadingIsHonest
BY WebInvariant, WebSafe, PTL

-----------------------------------------------------------------------------
(* The composition *)

(* A behaviour of the composition is one of each component. *)
LEMMA AccessIsGroups == AccessSpec => GroupsSpec
<1>1. AccessInit => GroupsInit
  BY DEF AccessInit
<1>2. [AccessNext]_allVars => [GroupsNext]_groupVars
  BY DEF AccessNext, allVars
<1>3. QED
  BY <1>1, <1>2, PTL DEF AccessSpec, GroupsSpec

(* ... of the pictures too. *)
LEMMA AccessIsAvatars == AccessSpec => AvatarsSpec
<1>1. AccessInit => AvatarsInit
  BY DEF AccessInit
<1>2. [AccessNext]_allVars => [AvatarsNext]_avatarVars
  BY DEF AccessNext, allVars
<1>3. QED
  BY <1>1, <1>2, PTL DEF AccessSpec, AvatarsSpec

(* Whatever administrators, users and lost commits do, everybody has a group,  *)
(* and every picture in use its file (group and avatar repositories).          *)
THEOREM BelongingsStay == AccessSpec => []BelongingsAreKept
BY AccessIsGroups, AccessIsAvatars, OneGroupEach, AvatarsAgree, PTL DEF BelongingsAreKept

=============================================================================
