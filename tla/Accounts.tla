------------------------------ MODULE Accounts -------------------------------
(***************************************************************************)
(* AuthService, UsersService, TenantsService and SuperAdminService over the*)
(* table users and the row of one tenant: who may sign in, the counter of  *)
(* failed logins with its lock, and the refresh token a user row stores.   *)
(*                                                                         *)
(* A password is right or wrong.  Any signed refresh token of a user       *)
(* matches the hash in the row, since bcrypt looks at 72 bytes and those   *)
(* hold the header and the user's id; so a row stores a token or it does   *)
(* not.  Profiles, the audit log and the roles of users (module Roles) are *)
(* left out.                                                               *)
(***************************************************************************)
EXTENDS Handlers, Integers

CONSTANTS
  User,         \* ids a user of the tenant may get
  Founder,      \* users that the bootstrap of the database makes
  MaxAttempts,  \* MAX_LOGIN_ATTEMPTS
  MaxFailed     \* bound: wrong passwords are given while the counter is below it

ASSUME AccountsAssumption ==
  /\ Founder \subseteq User
  /\ Founder # {}
  /\ MaxAttempts \in Nat \ {0}
  /\ MaxFailed \in Nat
  /\ Null \notin User

VARIABLES
  user,     \* table users
  tenant,   \* the row of the tenant
  holder,   \* users whose client has been given tokens
  (*************************** history variables ***************************)
  wrong,    \* wrong passwords for each user since its counter was reset
  tries,    \* wrong passwords for each user ever, counted up to MaxAttempts
  shut      \* users whose row got a status or a lock by hand

accounts == <<user, tenant, holder, wrong, tries, shut>>
accountVars == <<handlers, accounts>>

-----------------------------------------------------------------------------
\* INACTIVE and SUSPENDED are treated alike; `token` says whether refreshToken is set.
UserRow == [made : BOOLEAN, active : BOOLEAN, deleted : BOOLEAN,
            failed : Nat, locked : BOOLEAN, token : BOOLEAN]
TenantRow == [active : BOOLEAN, deleted : BOOLEAN]

AccountsInit ==
  /\ user = [u \in User |-> [made |-> u \in Founder, active |-> TRUE, deleted |-> FALSE,
                             failed |-> 0, locked |-> FALSE, token |-> FALSE]]
  /\ tenant = [active |-> TRUE, deleted |-> FALSE]
  /\ holder = {}
  /\ wrong = [u \in User |-> 0]
  /\ tries = [u \in User |-> 0]
  /\ shut = {}

\* A lookup of a user that is not deleted.
Known(u) == user[u].made /\ ~user[u].deleted
Admitted(u) == Known(u) /\ user[u].active

\* The next statement of handler r is `step`, on user u.
Serving(r, step, u) == At(r, step) /\ u = req[r].on
ReadOnly == UNCHANGED accounts

-----------------------------------------------------------------------------
(* AuthService                                                             *)

Login(r, u) ==
  /\ "login" \in mix
  /\ tenant.active /\ ~tenant.deleted
  /\ Start(r, "findUser", u, Null)
  /\ ReadOnly

\* The handler answers with an error and has written nothing but the audit log.
RefuseLogin(r, u) ==
  /\ Serving(r, "findUser", u)
  /\ ~Admitted(u) \/ user[u].locked
  /\ Finish(r)
  /\ ReadOnly

RefuseWrongPassword(r, u) ==
  /\ "wrong" \in mix
  /\ Serving(r, "findUser", u)
  /\ Known(u) /\ ~user[u].locked
  /\ user[u].failed < MaxFailed
  /\ Proceed(r, "countFailure", user[u].failed + 1)
  /\ ReadOnly

\* [mutant] the lock falls one attempt too early
CountedEarly(row, n) ==
  [row EXCEPT !.failed = n, !.locked = @ \/ n >= MaxAttempts - 1]

\* The row after the n-th failure in a row.
Counted(row, n) ==
  [row EXCEPT !.failed = n, !.locked = @ \/ n >= MaxAttempts]

CountFailure(r, u) ==
  /\ Serving(r, "countFailure", u)
  /\ user' = [user EXCEPT ![u] = Counted(@, req[r].seen)]
  /\ wrong' = [wrong EXCEPT ![u] = @ + 1]
  /\ tries' = [tries EXCEPT ![u] = IF @ < MaxAttempts THEN @ + 1 ELSE @]
  /\ Finish(r)
  /\ UNCHANGED <<tenant, holder, shut>>

AcceptPassword(r, u) ==
  /\ Serving(r, "findUser", u)
  /\ Admitted(u) /\ ~user[u].locked
  /\ Proceed(r, "openSession", Null)
  /\ ReadOnly

\* [mutant] a login does not reset the counter
OpenSessionOnly(r, u) ==
  /\ Serving(r, "openSession", u)
  /\ user' = [user EXCEPT ![u] = [@ EXCEPT !.locked = FALSE, !.token = TRUE]]
  /\ holder' = holder \cup {u}
  /\ wrong' = [wrong EXCEPT ![u] = 0]
  /\ Finish(r)
  /\ UNCHANGED <<tenant, tries, shut>>

\* generateTokens and the update of the user, whatever has happened to it meanwhile.
OpenSession(r, u) ==
  /\ Serving(r, "openSession", u)
  /\ user' = [user EXCEPT ![u] = [@ EXCEPT !.failed = 0, !.locked = FALSE, !.token = TRUE]]
  /\ holder' = holder \cup {u}
  /\ wrong' = [wrong EXCEPT ![u] = 0]
  /\ Finish(r)
  /\ UNCHANGED <<tenant, tries, shut>>

\* lockedUntil has passed.
LockExpires(u) ==
  /\ user[u].locked
  /\ user' = [user EXCEPT ![u].locked = FALSE]
  /\ UNCHANGED <<handlers, tenant, holder, wrong, tries, shut>>

\* [mutant] the refresh does not ask whether the row still stores a token
RefreshAny(r, u) ==
  /\ "refresh" \in mix
  /\ u \in holder
  /\ Admitted(u)
  /\ Start(r, "rotate", u, Null)
  /\ ReadOnly

\* JwtRefreshStrategy accepts any refresh token that was signed for u.
Refresh(r, u) ==
  /\ "refresh" \in mix
  /\ u \in holder
  /\ Admitted(u) /\ user[u].token
  /\ Start(r, "rotate", u, Null)
  /\ ReadOnly

Rotate(r, u) ==
  /\ Serving(r, "rotate", u)
  /\ user' = [user EXCEPT ![u].token = TRUE]
  /\ Finish(r)
  /\ UNCHANGED <<tenant, holder, wrong, tries, shut>>

\* JwtStrategy.validate: `who` makes a request whose handler begins with `step` on user u.
Authenticate(r, who, step, u) ==
  /\ who \in holder
  /\ Admitted(who)
  /\ Start(r, step, u, who)
  /\ ReadOnly

AuthenticateForOwn(r, u) ==
  /\ "own" \in mix
  /\ \E step \in {"logout", "changePassword"} : Authenticate(r, u, step, u)

Logout(r, u) ==
  /\ Serving(r, "logout", u)
  /\ user' = [user EXCEPT ![u].token = FALSE]
  /\ Finish(r)
  /\ UNCHANGED <<tenant, holder, wrong, tries, shut>>

\* The user has been removed meanwhile, or gives a wrong password.
RefuseChange(r, u) ==
  /\ Serving(r, "changePassword", u)
  /\ Finish(r)
  /\ ReadOnly

ChangePassword(r, u) ==
  /\ Serving(r, "changePassword", u)
  /\ Known(u)
  /\ Proceed(r, "writePassword", Null)
  /\ ReadOnly

WritePassword(r, u) ==
  /\ Serving(r, "writePassword", u)
  /\ user' = [user EXCEPT ![u].token = FALSE]
  /\ Finish(r)
  /\ UNCHANGED <<tenant, holder, wrong, tries, shut>>

-----------------------------------------------------------------------------
(* UsersService                                                            *)

UserSteps == {"createUser", "updateUser", "toggleStatus", "removeUser"}

AuthenticateForUser(r, who, u) ==
  /\ "users" \in mix
  /\ \E step \in UserSteps : Authenticate(r, who, step, u)

\* findOne does not find the user, the address is taken, or users meet themselves.
RefuseOnUser(r, u) ==
  /\ \/ Serving(r, "createUser", u) /\ user[u].made
     \/ Serving(r, "updateUser", u) /\ ~Known(u)
     \/ Serving(r, "toggleStatus", u) /\ (~Known(u) \/ req[r].seen = u)
     \/ Serving(r, "removeUser", u) /\ (~Known(u) \/ req[r].seen = u)
  /\ Finish(r)
  /\ ReadOnly

CreateUser(r, u, active) ==
  /\ Serving(r, "createUser", u)
  /\ ~user[u].made
  /\ user' = [user EXCEPT ![u] = [@ EXCEPT !.made = TRUE, !.active = active]]
  /\ Finish(r)
  /\ UNCHANGED <<tenant, holder, wrong, tries, shut>>

\* A PATCH may bring a status; one without changes nothing here.
UpdateUser(r, u, active) ==
  /\ Serving(r, "updateUser", u)
  /\ Known(u)
  /\ Proceed(r, "patchStatus", active)
  /\ ReadOnly

PatchStatus(r, u) ==
  /\ Serving(r, "patchStatus", u)
  /\ user' = [user EXCEPT ![u].active = req[r].seen]
  /\ shut' = shut \cup {u}
  /\ Finish(r)
  /\ UNCHANGED <<tenant, holder, wrong, tries>>

\* [mutant] users may toggle their own status
ToggleStatusAny(r, u) ==
  /\ Serving(r, "toggleStatus", u)
  /\ Known(u)
  /\ Proceed(r, "writeStatus", ~user[u].active)
  /\ ReadOnly

ToggleStatus(r, u) ==
  /\ Serving(r, "toggleStatus", u)
  /\ Known(u) /\ req[r].seen # u
  /\ Proceed(r, "writeStatus", ~user[u].active)
  /\ ReadOnly

WriteStatus(r, u) ==
  /\ Serving(r, "writeStatus", u)
  /\ user' = [user EXCEPT ![u].active = req[r].seen]
  /\ Finish(r)
  /\ UNCHANGED <<tenant, holder, wrong, tries, shut>>

RemoveUser(r, u) ==
  /\ Serving(r, "removeUser", u)
  /\ Known(u) /\ req[r].seen # u
  /\ Proceed(r, "writeDeleted", Null)
  /\ ReadOnly

WriteDeleted(r, u) ==
  /\ Serving(r, "writeDeleted", u)
  /\ user' = [user EXCEPT ![u] = [@ EXCEPT !.deleted = TRUE, !.token = FALSE]]
  /\ Finish(r)
  /\ UNCHANGED <<tenant, holder, wrong, tries, shut>>

-----------------------------------------------------------------------------
(* SuperAdminService and TenantsService, used by an administrator of the   *)
(* whole installation, who is not a user of the tenant.  No row is ever    *)
(* removed from the table, so what they look up before they write is there.*)

\* suspendTenant, activateTenant, or isActive in an update.
SetTenantActive(active) ==
  /\ "tenant" \in mix
  /\ AtOnce
  /\ tenant' = [tenant EXCEPT !.active = active]
  /\ UNCHANGED <<user, holder, wrong, tries, shut>>

ToggleActiveRead(r) ==
  /\ "tenant" \in mix
  /\ ~tenant.deleted
  /\ Start(r, "toggleTenant", Null, ~tenant.active)
  /\ ReadOnly

ToggleActiveWrite(r) ==
  /\ At(r, "toggleTenant")
  /\ tenant' = [tenant EXCEPT !.active = req[r].seen]
  /\ Finish(r)
  /\ UNCHANGED <<user, holder, wrong, tries, shut>>

RemoveTenant ==
  /\ "tenant" \in mix
  /\ AtOnce
  /\ tenant' = [tenant EXCEPT !.deleted = TRUE]
  /\ UNCHANGED <<user, holder, wrong, tries, shut>>

BlockUser(u) ==
  /\ "support" \in mix
  /\ user[u].made
  /\ AtOnce
  /\ user' = [user EXCEPT ![u] = [@ EXCEPT !.active = FALSE, !.locked = TRUE]]
  /\ shut' = shut \cup {u}
  /\ UNCHANGED <<tenant, holder, wrong, tries>>

UnblockUser(u) ==
  /\ "support" \in mix
  /\ user[u].made
  /\ AtOnce
  /\ user' = [user EXCEPT ![u] = [@ EXCEPT !.active = TRUE, !.locked = FALSE, !.failed = 0]]
  /\ wrong' = [wrong EXCEPT ![u] = 0]
  /\ UNCHANGED <<tenant, holder, tries, shut>>

ResetUserPassword(u) ==
  /\ "support" \in mix
  /\ user[u].made
  /\ AtOnce
  /\ user' = [user EXCEPT ![u].token = FALSE]
  /\ UNCHANGED <<tenant, holder, wrong, tries, shut>>

\* ensureOwnerTenant, when a server starts again.
EnsureOwner ==
  /\ AtOnce
  /\ user' = [u \in User |-> IF u \in Founder THEN [user[u] EXCEPT !.active = TRUE] ELSE user[u]]
  /\ tenant' = [tenant EXCEPT !.active = TRUE]
  /\ UNCHANGED <<holder, wrong, tries, shut>>

-----------------------------------------------------------------------------
AccountStep(r, u) ==
  \/ RefuseLogin(r, u) \/ RefuseWrongPassword(r, u) \/ CountFailure(r, u)
  \/ AcceptPassword(r, u) \/ OpenSession(r, u) \/ Rotate(r, u)
  \/ Logout(r, u) \/ RefuseChange(r, u) \/ ChangePassword(r, u) \/ WritePassword(r, u)
  \/ RefuseOnUser(r, u)
  \/ \E active \in BOOLEAN : CreateUser(r, u, active) \/ UpdateUser(r, u, active)
  \/ PatchStatus(r, u) \/ ToggleStatus(r, u) \/ WriteStatus(r, u)
  \/ RemoveUser(r, u) \/ WriteDeleted(r, u)
  \/ ToggleActiveWrite(r)

AccountRequest(r, u) ==
  \/ Login(r, u) \/ Refresh(r, u)
  \/ AuthenticateForOwn(r, u)
  \/ \E who \in User : AuthenticateForUser(r, who, u)
  \/ ToggleActiveRead(r)

AdministerAccounts ==
  \/ \E active \in BOOLEAN : SetTenantActive(active)
  \/ RemoveTenant
  \/ \E u \in User : BlockUser(u) \/ UnblockUser(u) \/ ResetUserPassword(u) \/ LockExpires(u)
  \/ EnsureOwner

AccountsNext ==
  \/ \E r \in Request, u \in User : AccountRequest(r, u) \/ AccountStep(r, u)
  \/ \E r \in Request : Fail(r) /\ ReadOnly
  \/ AdministerAccounts

AccountsSpec == HandlersInit /\ AccountsInit /\ [][AccountsNext]_accountVars

-----------------------------------------------------------------------------
(* Properties                                                              *)

\* Rows, the tenant and the counters are of their types, and a user whose row stores a token
\* has been made and given tokens.
AccountsTypeOK ==
  /\ user \in [User -> UserRow]
  /\ tenant \in TenantRow
  /\ holder \subseteq User
  /\ wrong \in [User -> Nat]
  /\ tries \in [User -> 0..MaxAttempts]
  /\ shut \subseteq User
  /\ \A u \in User : user[u].token => user[u].made /\ u \in holder

\* failedLoginAttempts is the number of wrong passwords since the last login that succeeded,
\* as long as requests do not overlap; attempts that do count as one, and a late one brings
\* back a counter that a login has reset.
FailuresCount == calm => \A u \in User : user[u].failed = wrong[u]

\* Whatever overlaps, nobody is locked out by fewer wrong passwords than MAX_LOGIN_ATTEMPTS.
LockIsEarned == \A u \in User : user[u].locked /\ u \notin shut => tries[u] = MaxAttempts

\* The tenant keeps a user who may sign in, as long as requests do not overlap and nobody sets
\* a status through a PATCH or blocks a user: nobody can toggle or remove themselves.  A lock
\* after wrong passwords passes by itself and is left aside.
SomeoneIsLeft == calm /\ shut = {} => \E u \in User : Admitted(u)

OpenSessions == {u \in User : user[u].token}
MaySignIn == {u \in User : Admitted(u) /\ ~user[u].locked}
TakesLogins == tenant.active /\ ~tenant.deleted

\* Users with a request whose next statement is `step`.
Under(step) == {u \in User : \E r \in Request : Serving(r, step, u)}

Session ==
  INSTANCE Sessions WITH
    open <- OpenSessions,
    admitted <- MaySignIn,
    agency <- TakesLogins,
    asking <- Under("findUser"),
    accepted <- Under("openSession"),
    renewing <- Under("rotate")

\* A session that a step opens is that of a login under way, whose user may sign in.
OpenedByLogin ==
  \A u \in OpenSessions' \ OpenSessions : u \in Under("openSession") \cap MaySignIn /\ TakesLogins

\* Whatever overlaps or breaks off, a session is opened only by a login that was asked for while
\* the tenant took logins and whose password was accepted while the user was admitted, or again
\* by a refresh that began while the session was open.  As long as requests do not overlap it is
\* the login alone: no refresh brings back a session that a logout, a new password or a removal
\* has ended.
SessionsAreOpenedByLogin ==
  [][[Session!Next]_(Session!vars) /\ (calm' => OpenedByLogin)]_accountVars
=============================================================================
