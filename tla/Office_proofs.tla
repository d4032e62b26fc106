---------------------------- MODULE Office_proofs ----------------------------
(***************************************************************************)
(* Proofs about the components of Office, each with the specification of   *)
(* its own module, for any number of users, calls, messages, documents and *)
(* overlapping requests.                                                   *)
(***************************************************************************)
EXTENDS Office, TLAPS

-----------------------------------------------------------------------------
(* AdminClient                                                             *)

Busy(c) == call[c].at # "idle"

CallRow == [at : CallStates, kind : {"login", "load", "logout"}, token : Tokens,
            retried : BOOLEAN]

ClientTypes ==
  /\ call \in [Call -> CallRow]
  /\ page \in {"login", "dashboard", "leaving"}
  /\ access \in Tokens /\ refresh \in BOOLEAN /\ sound \in BOOLEAN /\ thrown \in BOOLEAN

\* A login is alone, and the login page has no other calls.
LoginAlone ==
  \A c \in Call : Busy(c) =>
    /\ page = "login" => call[c].kind = "login"
    /\ call[c].kind = "login" => page # "dashboard" /\ \A d \in Call : Busy(d) => d = c

\* While the session is sound the client can refresh, and nothing is going to end it.
SoundIsSafe ==
  sound => /\ server = "open" /\ refresh
           /\ \A c \in Call : Busy(c) => call[c].at # "denied" /\ call[c].kind # "logout"

SessionInv == ClientTypes /\ LoginAlone /\ SoundIsSafe /\ ~thrown

\* What happens to a call keeps the session.
LEMMA CallStepKeepsSession ==
  ASSUME SessionInv, NEW c \in Call, CallStep(c)
  PROVE  SessionInv'
<1> USE DEF SessionInv, ClientTypes, LoginAlone, SoundIsSafe, Busy, CallAt, Becomes, Ends,
            NoCall, CallStates, Tokens, CallRow
<1>1. CASE ServerAccepts(c)
  BY <1>1 DEF ServerAccepts, Good
<1>2. CASE ServerRefuses(c)
  BY <1>2 DEF ServerRefuses
<1>3. CASE CallFails(c)
  BY <1>3 DEF CallFails
<1>4. CASE ServerRenews(c)
  BY <1>4 DEF ServerRenews
<1>5. CASE ServerDenies(c)
  BY <1>5 DEF ServerDenies
<1>6. CASE RefreshLost(c)
  <2>1. ClientTypes'
    BY <1>6 DEF RefreshLost
  <2>2. LoginAlone'
    BY <1>6 DEF RefreshLost
  <2>3. SoundIsSafe' /\ ~thrown'
    BY <1>6 DEF RefreshLost
  <2>q. QED BY <2>1, <2>2, <2>3
<1>7. CASE LoginAccepted(c)
  BY <1>7 DEF LoginAccepted
<1>8. CASE LoadAccepted(c)
  BY <1>8 DEF LoadAccepted
<1>9. CASE CallRejected(c)
  BY <1>9 DEF CallRejected, Rejected
<1>10. CASE SignedOut(c)
  BY <1>10 DEF SignedOut, Rejected
<1>11. CASE RefreshFails(c)
  <2>1. ClientTypes'
    <3>1. call' \in [Call -> CallRow]
      <4>1. CASE Becomes(c, "failed")
        BY <4>1
      <4>2. CASE Ends(c)
        BY <4>2
      <4>q. QED BY <1>11, <4>1, <4>2 DEF RefreshFails, GiveUp
    <3>q. QED BY <1>11, <3>1 DEF RefreshFails, GiveUp
  <2>2. LoginAlone'
    BY <1>11 DEF RefreshFails, GiveUp
  <2>3. SoundIsSafe' /\ ~thrown'
    BY <1>11 DEF RefreshFails, GiveUp
  <2>q. QED BY <2>1, <2>2, <2>3
<1>12. CASE AskForRefresh(c)
  <2>1. ClientTypes'
    BY <1>12 DEF AskForRefresh
  <2>2. LoginAlone'
    BY <1>12 DEF AskForRefresh
  <2>3. SoundIsSafe' /\ ~thrown'
    BY <1>12 DEF AskForRefresh
  <2>q. QED BY <2>1, <2>2, <2>3
<1>13. CASE SendAgain(c)
  <2>1. ClientTypes'
    BY <1>13 DEF SendAgain
  <2>2. LoginAlone'
    BY <1>13 DEF SendAgain
  <2>3. SoundIsSafe' /\ ~thrown'
    BY <1>13 DEF SendAgain
  <2>q. QED BY <2>1, <2>2, <2>3
<1>q. QED
  BY <1>1, <1>2, <1>3, <1>4, <1>5, <1>6, <1>7, <1>8, <1>9, <1>10, <1>11, <1>12, <1>13
     DEF CallStep

\* The initial state and every step of the client keep the session invariant.
LEMMA SessionInductive ==
  /\ ClientInit => SessionInv
  /\ SessionInv /\ [ClientNext]_clientVars => SessionInv'
<1> USE DEF SessionInv, ClientTypes, LoginAlone, SoundIsSafe, Busy, CallStates, Tokens, CallRow
<1>1. ClientInit => SessionInv
  <2>1. ClientInit => ClientTypes
    <3>1. NoCall \in CallRow
      BY DEF NoCall
    <3>q. QED BY <3>1 DEF ClientInit
  <2>2. ClientInit => LoginAlone
    BY DEF ClientInit, NoCall
  <2>3. ClientInit => SoundIsSafe /\ ~thrown
    BY DEF ClientInit, NoCall
  <2>q. QED BY <2>1, <2>2, <2>3
<1>2. ASSUME SessionInv, [ClientNext]_clientVars
      PROVE  SessionInv'
  <2> USE <1>2
  <2>1. ASSUME NEW c \in Call, SignIn(c) \/ Load(c) \/ SignOut(c)
        PROVE  SessionInv'
    <3>1. ClientTypes'
      <4>1. PICK kind \in {"login", "load", "logout"} : Send(c, kind)
        BY <2>1 DEF SignIn, Load, SignOut
      <4>2. [at |-> "sent", kind |-> kind, token |-> access, retried |-> FALSE] \in CallRow
        OBVIOUS
      <4>3. call' \in [Call -> CallRow]
        BY <4>1, <4>2 DEF Send
      <4>q. QED BY <2>1, <4>3 DEF SignIn, Load, SignOut
    <3>2. LoginAlone'
      BY <2>1 DEF SignIn, Load, SignOut, Send, CallAt
    <3>3. SoundIsSafe' /\ ~thrown'
      BY <2>1 DEF SignIn, Load, SignOut, Send, CallAt
    <3>q. QED BY <3>1, <3>2, <3>3
  <2>2. ASSUME NEW c \in Call, CallStep(c)
        PROVE  SessionInv'
    BY <2>2, CallStepKeepsSession
  <2>3. ASSUME NEW p \in {"login", "dashboard"}, Open(p)
        PROVE  SessionInv'
    BY <2>3 DEF Open, NoCall
  <2>4. ASSUME NEW s \in {"open", "closed", "barred"}, ServerChanges(s)
        PROVE  SessionInv'
    BY <2>4 DEF ServerChanges
  <2>5. CASE AccessExpires
    BY <2>5 DEF AccessExpires, Aged
  <2>6. CASE CookiesExpire
    BY <2>6 DEF CookiesExpire
  <2>7. CASE UNCHANGED clientVars
    BY <2>7 DEF clientVars
  <2>q. QED BY <2>1, <2>2, <2>3, <2>4, <2>5, <2>6, <2>7 DEF ClientNext
<1>q. QED BY <1>1, <1>2

\* However many calls are refused and refreshed at the same time, no session that the server
\* still has is given up by the interceptor of lib/api.ts, unless an answer is lost.
THEOREM SessionStays == ClientSpec => []SessionIsKept
<1>1. SessionInv => SessionIsKept
  BY DEF SessionInv, SessionIsKept
<1>q. QED BY <1>1, SessionInductive, PTL DEF ClientSpec

-----------------------------------------------------------------------------
(* Handlers                                                                *)

\* The handlers, if their steps are in W, they work on rows of S and carry values of V.
HandlersOf(W, S, V) == [Request -> [at : W, on : S, seen : V]]

\* The handler of r has moved, and no other.
Moved(r, step, on, seen) ==
  /\ req'[r].at = step /\ req'[r].on = on /\ req'[r].seen = seen
  /\ \A q \in Request \ {r} : req'[q] = req[q]

\* What the steps of Handlers do to handlers of a type.
LEMMA HandlerMoves ==
  ASSUME NEW W, NEW S, NEW V, "idle" \in W, Null \in S, Null \in V,
         req \in HandlersOf(W, S, V), NEW r \in Request
  PROVE  /\ \A step \in W, on \in S, seen \in V :
              Start(r, step, on, seen) =>
                req' \in HandlersOf(W, S, V) /\ Moved(r, step, on, seen) /\ req[r] = Idle
         /\ \A step \in W, seen \in V :
              Proceed(r, step, seen) =>
                req' \in HandlersOf(W, S, V) /\ Moved(r, step, req[r].on, seen)
         /\ Finish(r) \/ Break(r) =>
              req' \in HandlersOf(W, S, V) /\ Moved(r, "idle", Null, Null) /\ req'[r] = Idle
<1>1. ASSUME NEW step \in W, NEW on \in S, NEW seen \in V, Start(r, step, on, seen)
      PROVE  req' \in HandlersOf(W, S, V) /\ Moved(r, step, on, seen) /\ req[r] = Idle
  BY <1>1 DEF Start, HandlersOf, Moved
<1>2. ASSUME NEW step \in W, NEW seen \in V, Proceed(r, step, seen)
      PROVE  req' \in HandlersOf(W, S, V) /\ Moved(r, step, req[r].on, seen)
  BY <1>2 DEF Proceed, HandlersOf, Moved
<1>3. ASSUME Finish(r) \/ Break(r)
      PROVE  req' \in HandlersOf(W, S, V) /\ Moved(r, "idle", Null, Null) /\ req'[r] = Idle
  <2>1. Idle \in [at : W, on : S, seen : V]
    BY DEF Idle
  <2>2. Idle.at = "idle" /\ Idle.on = Null /\ Idle.seen = Null
    BY DEF Idle
  <2>3. req' = [req EXCEPT ![r] = Idle]
    BY <1>3 DEF Finish, Break
  <2> HIDE DEF Idle
  <2>q. QED BY <2>1, <2>2, <2>3 DEF HandlersOf, Moved
<1>q. QED BY <1>1, <1>2, <1>3

\* Requests that have not overlapped: one handler at a time.
Solo == alone => \A r, q \in Request : ~At(r, "idle") /\ ~At(q, "idle") => r = q

\* Handler r moves, and is alone if requests have not overlapped.
HandlerStep(r, step, on, seen) ==
  /\ Moved(r, step, on, seen)
  /\ calm' => calm
  /\ alone' => alone /\ \A q \in Request \ {r} : At(q, "idle")'

\* While requests do not overlap, the handler that moves is the only one.
LEMMA OneHandler ==
  ASSUME NEW W, NEW S, NEW V, "idle" \in W, Null \in S, Null \in V,
         req \in HandlersOf(W, S, V), Solo, NEW r \in Request
  PROVE  /\ \A step \in W, on \in S, seen \in V :
              Start(r, step, on, seen) => HandlerStep(r, step, on, seen)
         /\ ~At(r, "idle") => \A step \in W, seen \in V :
              Proceed(r, step, seen) => HandlerStep(r, step, req[r].on, seen)
         /\ ~At(r, "idle") /\ (Finish(r) \/ Break(r)) => HandlerStep(r, "idle", Null, Null)
<1>1. Idle.at = "idle"
  BY DEF Idle
<1>2. ASSUME NEW step \in W, NEW on \in S, NEW seen \in V,
             Start(r, step, on, seen)
      PROVE  HandlerStep(r, step, on, seen)
  <2>1. Moved(r, step, on, seen)
    BY <1>2, HandlerMoves
  <2>2. (alone' => alone /\ Quiet) /\ unbroken' = unbroken
    BY <1>2 DEF Start
  <2> HIDE DEF Idle
  <2>q. QED BY <1>1, <2>1, <2>2 DEF HandlerStep, Moved, Quiet, At, calm
<1>3. ASSUME NEW step \in W, NEW seen \in V, ~At(r, "idle"),
             Proceed(r, step, seen)
      PROVE  HandlerStep(r, step, req[r].on, seen)
  <2>1. Moved(r, step, req[r].on, seen)
    BY <1>3, HandlerMoves
  <2>2. alone' = alone /\ unbroken' = unbroken
    BY <1>3 DEF Proceed
  <2>q. QED BY <1>3, <2>1, <2>2 DEF HandlerStep, Moved, Solo, At, calm
<1>4. ASSUME ~At(r, "idle"), Finish(r) \/ Break(r)
      PROVE  HandlerStep(r, "idle", Null, Null)
  <2>1. Moved(r, "idle", Null, Null)
    BY <1>4, HandlerMoves
  <2>2. alone' = alone /\ (unbroken' => unbroken)
    BY <1>4 DEF Finish, Break
  <2>q. QED BY <1>4, <2>1, <2>2 DEF HandlerStep, Moved, Solo, At, calm
<1>q. QED BY <1>2, <1>3, <1>4

-----------------------------------------------------------------------------
(* Accounts                                                                *)

AccountSteps ==
  {"idle", "findUser", "countFailure", "openSession", "rotate", "logout", "changePassword",
   "writePassword", "createUser", "updateUser", "patchStatus", "toggleStatus", "writeStatus",
   "removeUser", "writeDeleted", "toggleTenant"}
AccountValues == Nat \cup BOOLEAN \cup User \cup {Null}

AccountHandlers == req \in HandlersOf(AccountSteps, User \cup {Null}, AccountValues)

AccountRows ==
  /\ user \in [User -> UserRow]
  /\ tries \in [User -> 0..MaxAttempts]
  /\ shut \subseteq User

\* Where a handler carries a status or a counter.
CarriesStatus(r) == At(r, "patchStatus") \/ At(r, "writeStatus")
AccountCarried ==
  \A r \in Request : /\ At(r, "countFailure") => req[r].on \in User /\ req[r].seen \in Nat
                     /\ CarriesStatus(r) => req[r].seen \in BOOLEAN

AccountTypes == AccountHandlers /\ AccountRows /\ AccountCarried

\* The wrong passwords that u was given reach n, or the limit.
Reached(u, n) == tries[u] >= n \/ tries[u] = MaxAttempts

\* The counter of a row, and the one that a handler is about to write, is not ahead of the
\* wrong passwords that were given.
CountersAreEarned ==
  /\ \A u \in User : Reached(u, user[u].failed)
  /\ \A r \in Request : At(r, "countFailure") => Reached(req[r].on, req[r].seen - 1)

LockInv == AccountTypes /\ CountersAreEarned /\ LockIsEarned

\* The step of r is one of AccountSteps that carries a counter or a status only as it should.
Carries(step, seen) ==
  /\ step \in AccountSteps \ {"countFailure"} /\ seen \in AccountValues
  /\ step \in {"patchStatus", "writeStatus"} => seen \in BOOLEAN

\* A step of handler r, other than one to countFailure.
StepOf(r) ==
  \/ Finish(r) \/ Break(r)
  \/ \E step, seen : Carries(step, seen) /\ Proceed(r, step, seen)
  \/ \E step, seen : \E on \in User \cup {Null} :
       Carries(step, seen) /\ Start(r, step, on, seen)

\* A step that raises no counter of failures and sets no lock but by hand.
NoFailure ==
  /\ user' \in [User -> UserRow]
  /\ \A u \in User : /\ user'[u].failed <= user[u].failed
                     /\ user'[u].locked => user[u].locked \/ u \in shut'
  /\ tries' = tries
  /\ shut \subseteq shut' /\ shut' \subseteq User

\* The steps of a handler keep the handlers, and what they carry.
LEMMA StepMoves ==
  ASSUME AccountHandlers, AccountCarried, NEW r \in Request, StepOf(r)
  PROVE  /\ AccountHandlers' /\ AccountCarried'
         /\ \A q \in Request : At(q, "countFailure")' => req'[q] = req[q]
<1>1. /\ Null \in User \cup {Null} /\ Null \in AccountValues /\ "idle" \in AccountSteps
  BY DEF AccountValues, AccountSteps
<1>2. CASE Finish(r) \/ Break(r)
  <2>1. AccountHandlers' /\ Moved(r, "idle", Null, Null)
    BY <1>1, <1>2, HandlerMoves DEF AccountHandlers
  <2>q. QED BY <2>1 DEF AccountCarried, At, CarriesStatus, Moved
<1>3. ASSUME NEW step, NEW seen, Carries(step, seen), Proceed(r, step, seen)
      PROVE  /\ AccountHandlers' /\ AccountCarried'
             /\ \A q \in Request : At(q, "countFailure")' => req'[q] = req[q]
  <2>1. step \in AccountSteps /\ seen \in AccountValues
    BY <1>3 DEF Carries
  <2>2. AccountHandlers' /\ Moved(r, step, req[r].on, seen)
    BY <1>1, <1>3, <2>1, HandlerMoves DEF AccountHandlers
  <2>q. QED BY <1>3, <2>2 DEF AccountCarried, At, CarriesStatus, Moved, Carries
<1>4. ASSUME NEW step, NEW seen, NEW on \in User \cup {Null}, Carries(step, seen),
             Start(r, step, on, seen)
      PROVE  /\ AccountHandlers' /\ AccountCarried'
             /\ \A q \in Request : At(q, "countFailure")' => req'[q] = req[q]
  <2>1. step \in AccountSteps /\ seen \in AccountValues
    BY <1>4 DEF Carries
  <2>2. AccountHandlers' /\ Moved(r, step, on, seen)
    BY <1>1, <1>4, <2>1, HandlerMoves DEF AccountHandlers
  <2>q. QED BY <1>4, <2>2 DEF AccountCarried, At, CarriesStatus, Moved, Carries
<1>q. QED BY <1>2, <1>3, <1>4 DEF StepOf

\* What makes no failure keeps the invariant of the lock.
LEMMA NoFailureKeepsLock ==
  ASSUME LockInv, NoFailure, AccountHandlers', AccountCarried',
         \A q \in Request : At(q, "countFailure")' => req'[q] = req[q]
  PROVE  LockInv'
<1>1. AccountRows'
  BY DEF LockInv, AccountTypes, AccountRows, NoFailure
<1>2. \A u \in User : /\ user[u].failed \in Nat /\ user'[u].failed \in Nat
                      /\ tries[u] \in Nat /\ tries'[u] = tries[u]
  BY AccountsAssumption DEF LockInv, AccountTypes, AccountRows, NoFailure, UserRow
<1>3. CountersAreEarned'
  BY <1>2 DEF LockInv, CountersAreEarned, Reached, NoFailure, At, AccountTypes, AccountCarried
<1>4. LockIsEarned'
  BY DEF LockInv, LockIsEarned, NoFailure
<1>q. QED BY <1>1, <1>3, <1>4 DEF LockInv, AccountTypes

\* A row that is written without a higher counter and without a new lock.
LEMMA RowWritten ==
  ASSUME AccountRows, NEW u \in User, NEW row \in UserRow, user' = [user EXCEPT ![u] = row],
         row.failed <= user[u].failed, row.locked => user[u].locked \/ u \in shut',
         tries' = tries, shut \subseteq shut', shut' \subseteq User
  PROVE  NoFailure
<1>1. \A v \in User : user[v].failed \in Nat
  BY DEF AccountRows, UserRow
<1>q. QED BY <1>1 DEF AccountRows, NoFailure

\* A step that only reads records no failure.
LEMMA NothingWritten ==
  ASSUME AccountRows, ReadOnly
  PROVE  NoFailure
<1>1. \A v \in User : user[v].failed \in Nat
  BY DEF AccountRows, UserRow
<1>q. QED BY <1>1 DEF AccountRows, NoFailure, ReadOnly, accounts

\* A request that starts with one of the steps.
LEMMA StartIsStep ==
  ASSUME NEW r, NEW step, NEW seen, NEW on \in User \cup {Null}, Carries(step, seen),
         Start(r, step, on, seen)
  PROVE  StepOf(r)
<1>1. \E on1 \in User \cup {Null} : Carries(step, seen) /\ Start(r, step, on1, seen)
  OBVIOUS
<1>q. QED BY <1>1, Zenon DEF StepOf

\* Whatever a handler does but count a failure, or note one, is no failure.
LEMMA OtherSteps ==
  ASSUME LockInv, NEW r \in Request, NEW u \in User, AccountRequest(r, u) \/ AccountStep(r, u)
  PROVE  \/ StepOf(r) /\ NoFailure
         \/ RefuseWrongPassword(r, u) \/ CountFailure(r, u)
<1> DEFINE Harmless == StepOf(r) /\ NoFailure
<1>1. AccountRows /\ user[u] \in UserRow /\ user[u].failed \in Nat /\ shut \subseteq User
  BY DEF LockInv, AccountTypes, AccountRows, UserRow
<1>2. \A step \in AccountSteps \ {"countFailure", "patchStatus", "writeStatus"},
         seen \in User \cup BOOLEAN \cup {Null} : Carries(step, seen)
  BY DEF Carries, AccountSteps, AccountValues
<1>3. \A seen \in BOOLEAN : Carries("patchStatus", seen) /\ Carries("writeStatus", seen)
  BY DEF Carries, AccountSteps, AccountValues
<1>4. CASE Rotate(r, u)
  <2> DEFINE row == [user[u] EXCEPT !.token = TRUE]
  <2>1. row \in UserRow
    BY <1>1, <1>4 DEF UserRow
  <2>2. row.failed <= user[u].failed
    BY <1>1 DEF UserRow
  <2>3. row.locked => user[u].locked
    BY <1>1 DEF UserRow
  <2>4. user' = [user EXCEPT ![u] = row] /\ Finish(r)
    BY <1>4 DEF Rotate
  <2>5. tries' = tries /\ shut \subseteq shut' /\ shut' \subseteq User
    BY <1>1, <1>4 DEF Rotate
  <2> HIDE DEF row
  <2>q. QED BY <1>1, <2>1, <2>2, <2>3, <2>4, <2>5, RowWritten DEF StepOf
<1>5. CASE OpenSession(r, u)
  <2> DEFINE row == [user[u] EXCEPT !.failed = 0, !.locked = FALSE, !.token = TRUE]
  <2>1. row \in UserRow
    BY <1>1, <1>5 DEF UserRow
  <2>2. row.failed <= user[u].failed
    BY <1>1 DEF UserRow
  <2>3. row.locked => user[u].locked
    BY <1>1 DEF UserRow
  <2>4. user' = [user EXCEPT ![u] = row] /\ Finish(r)
    BY <1>5 DEF OpenSession
  <2>5. tries' = tries /\ shut \subseteq shut' /\ shut' \subseteq User
    BY <1>1, <1>5 DEF OpenSession
  <2> HIDE DEF row
  <2>q. QED BY <1>1, <2>1, <2>2, <2>3, <2>4, <2>5, RowWritten DEF StepOf
<1>6. CASE Logout(r, u)
  <2> DEFINE row == [user[u] EXCEPT !.token = FALSE]
  <2>1. row \in UserRow
    BY <1>1, <1>6 DEF UserRow
  <2>2. row.failed <= user[u].failed
    BY <1>1 DEF UserRow
  <2>3. row.locked => user[u].locked
    BY <1>1 DEF UserRow
  <2>4. user' = [user EXCEPT ![u] = row] /\ Finish(r)
    BY <1>6 DEF Logout
  <2>5. tries' = tries /\ shut \subseteq shut' /\ shut' \subseteq User
    BY <1>1, <1>6 DEF Logout
  <2> HIDE DEF row
  <2>q. QED BY <1>1, <2>1, <2>2, <2>3, <2>4, <2>5, RowWritten DEF StepOf
<1>7. CASE WritePassword(r, u)
  <2> DEFINE row == [user[u] EXCEPT !.token = FALSE]
  <2>1. row \in UserRow
    BY <1>1, <1>7 DEF UserRow
  <2>2. row.failed <= user[u].failed
    BY <1>1 DEF UserRow
  <2>3. row.locked => user[u].locked
    BY <1>1 DEF UserRow
  <2>4. user' = [user EXCEPT ![u] = row] /\ Finish(r)
    BY <1>7 DEF WritePassword
  <2>5. tries' = tries /\ shut \subseteq shut' /\ shut' \subseteq User
    BY <1>1, <1>7 DEF WritePassword
  <2> HIDE DEF row
  <2>q. QED BY <1>1, <2>1, <2>2, <2>3, <2>4, <2>5, RowWritten DEF StepOf
<1>8. CASE WriteDeleted(r, u)
  <2> DEFINE row == [user[u] EXCEPT !.deleted = TRUE, !.token = FALSE]
  <2>1. row \in UserRow
    BY <1>1, <1>8 DEF UserRow
  <2>2. row.failed <= user[u].failed
    BY <1>1 DEF UserRow
  <2>3. row.locked => user[u].locked
    BY <1>1 DEF UserRow
  <2>4. user' = [user EXCEPT ![u] = row] /\ Finish(r)
    BY <1>8 DEF WriteDeleted
  <2>5. tries' = tries /\ shut \subseteq shut' /\ shut' \subseteq User
    BY <1>1, <1>8 DEF WriteDeleted
  <2> HIDE DEF row
  <2>q. QED BY <1>1, <2>1, <2>2, <2>3, <2>4, <2>5, RowWritten DEF StepOf
<1>9. CASE PatchStatus(r, u)
  <2> DEFINE row == [user[u] EXCEPT !.active = req[r].seen]
  <2>1. row \in UserRow
    BY <1>1, <1>9
       DEF PatchStatus, Serving, LockInv, AccountTypes, AccountCarried, CarriesStatus, At, UserRow
  <2>2. row.failed <= user[u].failed
    BY <1>1 DEF UserRow
  <2>3. row.locked => user[u].locked
    BY <1>1 DEF UserRow
  <2>4. user' = [user EXCEPT ![u] = row] /\ Finish(r)
    BY <1>9 DEF PatchStatus
  <2>5. tries' = tries /\ shut \subseteq shut' /\ shut' \subseteq User
    BY <1>1, <1>9 DEF PatchStatus
  <2> HIDE DEF row
  <2>q. QED BY <1>1, <2>1, <2>2, <2>3, <2>4, <2>5, RowWritten DEF StepOf
<1>10. CASE WriteStatus(r, u)
  <2> DEFINE row == [user[u] EXCEPT !.active = req[r].seen]
  <2>1. row \in UserRow
    BY <1>1, <1>10
       DEF WriteStatus, Serving, LockInv, AccountTypes, AccountCarried, CarriesStatus, At, UserRow
  <2>2. row.failed <= user[u].failed
    BY <1>1 DEF UserRow
  <2>3. row.locked => user[u].locked
    BY <1>1 DEF UserRow
  <2>4. user' = [user EXCEPT ![u] = row] /\ Finish(r)
    BY <1>10 DEF WriteStatus
  <2>5. tries' = tries /\ shut \subseteq shut' /\ shut' \subseteq User
    BY <1>1, <1>10 DEF WriteStatus
  <2> HIDE DEF row
  <2>q. QED BY <1>1, <2>1, <2>2, <2>3, <2>4, <2>5, RowWritten DEF StepOf
<1>11. ASSUME NEW active \in BOOLEAN, CreateUser(r, u, active)
      PROVE  Harmless
  <2> DEFINE row == [user[u] EXCEPT !.made = TRUE, !.active = active]
  <2>1. row \in UserRow
    BY <1>1 DEF UserRow
  <2>2. row.failed <= user[u].failed
    BY <1>1 DEF UserRow
  <2>3. row.locked => user[u].locked
    BY <1>1 DEF UserRow
  <2>4. user' = [user EXCEPT ![u] = row] /\ Finish(r)
    BY <1>11 DEF CreateUser
  <2>5. tries' = tries /\ shut \subseteq shut' /\ shut' \subseteq User
    BY <1>1, <1>11 DEF CreateUser
  <2> HIDE DEF row
  <2>q. QED BY <1>1, <2>1, <2>2, <2>3, <2>4, <2>5, RowWritten DEF StepOf
<1>12. CASE ToggleActiveWrite(r)
  <2>1. Finish(r) /\ UNCHANGED <<user, tries, shut>>
    BY <1>12 DEF ToggleActiveWrite
  <2>q. QED BY <1>1, <2>1 DEF StepOf, NoFailure, AccountRows, UserRow
<1>13. CASE RefuseLogin(r, u)
  BY <1>1, <1>13, NothingWritten DEF RefuseLogin, StepOf
<1>14. CASE RefuseChange(r, u)
  BY <1>1, <1>14, NothingWritten DEF RefuseChange, StepOf
<1>15. CASE RefuseOnUser(r, u)
  BY <1>1, <1>15, NothingWritten DEF RefuseOnUser, StepOf
<1>16. CASE AcceptPassword(r, u)
  <2>1. Proceed(r, "openSession", Null) /\ ReadOnly
    BY <1>16 DEF AcceptPassword
  <2>q. QED BY <1>1, <1>2, <1>3, <2>1, NothingWritten DEF StepOf, AccountSteps
<1>17. CASE ChangePassword(r, u)
  <2>1. Proceed(r, "writePassword", Null) /\ ReadOnly
    BY <1>17 DEF ChangePassword
  <2>q. QED BY <1>1, <1>2, <1>3, <2>1, NothingWritten DEF StepOf, AccountSteps
<1>18. CASE ToggleStatus(r, u)
  <2>1. Proceed(r, "writeStatus", ~user[u].active) /\ (~user[u].active) \in BOOLEAN /\ ReadOnly
    BY <1>18 DEF ToggleStatus
  <2>q. QED BY <1>1, <1>2, <1>3, <2>1, NothingWritten DEF StepOf, AccountSteps
<1>19. CASE RemoveUser(r, u)
  <2>1. Proceed(r, "writeDeleted", Null) /\ ReadOnly
    BY <1>19 DEF RemoveUser
  <2>q. QED BY <1>1, <1>2, <1>3, <2>1, NothingWritten DEF StepOf, AccountSteps
<1>20. ASSUME NEW active \in BOOLEAN, UpdateUser(r, u, active)
      PROVE  Harmless
  <2>1. Proceed(r, "patchStatus", active) /\ ReadOnly
    BY <1>20 DEF UpdateUser
  <2>q. QED BY <1>1, <1>2, <1>3, <2>1, NothingWritten DEF StepOf, AccountSteps
<1>21. CASE Login(r, u)
  <2>1. Start(r, "findUser", u, Null) /\ ReadOnly
    BY <1>21 DEF Login
  <2>2. Carries("findUser", Null) /\ u \in User \cup {Null}
    BY <1>2 DEF AccountSteps
  <2>q. QED BY <1>1, <2>1, <2>2, StartIsStep, NothingWritten
<1>22. CASE Refresh(r, u)
  <2>1. Start(r, "rotate", u, Null) /\ ReadOnly
    BY <1>22 DEF Refresh
  <2>2. Carries("rotate", Null) /\ u \in User \cup {Null}
    BY <1>2 DEF AccountSteps
  <2>q. QED BY <1>1, <2>1, <2>2, StartIsStep, NothingWritten
<1>23. CASE ToggleActiveRead(r)
  <2>1. Start(r, "toggleTenant", Null, ~tenant.active) /\ ReadOnly
    BY <1>23 DEF ToggleActiveRead
  <2>2. Carries("toggleTenant", ~tenant.active) /\ Null \in User \cup {Null}
    BY <1>2 DEF AccountSteps
  <2>q. QED BY <1>1, <2>1, <2>2, StartIsStep, NothingWritten
<1>24. CASE AuthenticateForOwn(r, u)
  <2>1. PICK step \in {"logout", "changePassword"} : Authenticate(r, u, step, u)
    BY <1>24 DEF AuthenticateForOwn
  <2>2. Start(r, step, u, u) /\ ReadOnly /\ Carries(step, u)
    BY <1>2, <2>1 DEF Authenticate, AccountSteps
  <2>q. QED BY <1>1, <2>2, StartIsStep, NothingWritten
<1>25. ASSUME NEW who \in User, AuthenticateForUser(r, who, u)
      PROVE  Harmless
  <2>1. PICK step \in UserSteps : Authenticate(r, who, step, u)
    BY <1>25 DEF AuthenticateForUser
  <2>2. Start(r, step, u, who) /\ ReadOnly /\ Carries(step, who)
    BY <1>2, <2>1 DEF Authenticate, AccountSteps, UserSteps
  <2>q. QED BY <1>1, <2>2, StartIsStep, NothingWritten
<1>q. QED
  BY <1>4, <1>5, <1>6, <1>7, <1>8, <1>9, <1>10, <1>11,
     <1>12, <1>13, <1>14, <1>15, <1>16, <1>17, <1>18, <1>19,
     <1>20, <1>21, <1>22, <1>23, <1>24, <1>25
     DEF AccountRequest, AccountStep

\* A wrong password that is found, and one that is counted, keep the invariant of the lock.
LEMMA FailureKeepsLock ==
  ASSUME LockInv, NEW r \in Request, NEW u \in User,
         RefuseWrongPassword(r, u) \/ CountFailure(r, u)
  PROVE  LockInv'
<1>1. /\ user[u] \in UserRow /\ user[u].failed \in Nat /\ tries[u] \in 0..MaxAttempts
      /\ AccountHandlers /\ AccountRows
      /\ MaxAttempts \in Nat
  BY AccountsAssumption DEF LockInv, AccountTypes, AccountRows, UserRow
<1>2. /\ Null \in User \cup {Null} /\ Null \in AccountValues
      /\ "idle" \in AccountSteps /\ "countFailure" \in AccountSteps
  BY DEF AccountValues, AccountSteps
<1>3. CASE RefuseWrongPassword(r, u)
  <2> DEFINE n == user[u].failed + 1
  <2>1. /\ Proceed(r, "countFailure", n) /\ At(r, "findUser") /\ u = req[r].on
        /\ UNCHANGED <<user, tries, shut>>
    BY <1>3 DEF RefuseWrongPassword, Serving, ReadOnly, accounts
  <2>2. n \in Nat /\ n \in AccountValues /\ n - 1 = user[u].failed
    BY <1>1 DEF AccountValues
  <2> HIDE DEF n
  <2>3. AccountHandlers' /\ Moved(r, "countFailure", u, n)
    BY <1>1, <1>2, <2>1, <2>2, HandlerMoves DEF AccountHandlers
  <2>4. AccountTypes'
    BY <2>1, <2>2, <2>3
       DEF LockInv, AccountTypes, AccountRows, AccountCarried, CarriesStatus, At, Moved
  <2>5. Reached(u, user[u].failed) /\ Reached(u, user[u].failed)'
    BY <2>1 DEF LockInv, CountersAreEarned, Reached
  <2>6. CountersAreEarned'
    BY <2>1, <2>2, <2>3, <2>5 DEF LockInv, CountersAreEarned, Reached, At, Moved
  <2>q. QED BY <2>1, <2>4, <2>6 DEF LockInv, LockIsEarned
<1>4. CASE CountFailure(r, u)
  <2> DEFINE n == req[r].seen
             row == Counted(user[u], n)
  <2>0. user' = [user EXCEPT ![u] = row]
    BY <1>4 DEF CountFailure
  <2>1. /\ Finish(r) /\ At(r, "countFailure") /\ u = req[r].on
        /\ tries' = [tries EXCEPT ![u] = IF @ < MaxAttempts THEN @ + 1 ELSE @]
        /\ shut' = shut
    BY <1>4 DEF CountFailure, Serving
  <2>2. n \in Nat /\ Reached(u, n - 1)
    BY <2>1 DEF LockInv, AccountTypes, AccountCarried, CountersAreEarned
  <2>3. row \in UserRow
    BY <1>1, <2>2 DEF UserRow, Counted
  <2>4. row.failed = n
    BY <1>1 DEF UserRow, Counted
  <2>5. row.locked <=> user[u].locked \/ n >= MaxAttempts
    BY <1>1 DEF UserRow, Counted
  <2> HIDE DEF row
  <2>6. StepOf(r)
    BY <2>1 DEF StepOf
  <2>7. /\ AccountHandlers' /\ AccountCarried'
        /\ \A q \in Request : At(q, "countFailure")' => req'[q] = req[q]
    BY <2>6, StepMoves DEF LockInv, AccountTypes
  <2>8. AccountRows'
    BY <1>1, <2>0, <2>1, <2>3 DEF AccountRows
  <2>9. /\ \A v \in User : tries'[v] >= tries[v] /\ tries[v] \in 0..MaxAttempts
        /\ tries'[u] >= n \/ tries'[u] = MaxAttempts
    BY <1>1, <2>1, <2>2 DEF AccountRows, Reached
  <2>10. \A v \in User : user[v].failed \in Nat /\ tries'[v] \in 0..MaxAttempts
    BY <1>1, <2>8 DEF AccountRows, UserRow
  <2>11. \A v \in User : Reached(v, user[v].failed)'
    BY <1>1, <2>0, <2>1, <2>2, <2>4, <2>9, <2>10
       DEF LockInv, CountersAreEarned, Reached, AccountRows
  <2>12. \A q \in Request : At(q, "countFailure")' => Reached(req[q].on, req[q].seen - 1)'
    BY <1>1, <2>1, <2>7, <2>9, <2>10
       DEF LockInv, AccountTypes, AccountCarried, CountersAreEarned, Reached, At
  <2>13. LockIsEarned'
    <3>1. SUFFICES ASSUME NEW v \in User, user'[v].locked, v \notin shut'
                   PROVE  tries'[v] = MaxAttempts
      BY DEF LockIsEarned
    <3>2. CASE v # u \/ user[u].locked
      BY <1>1, <2>0, <2>1, <2>9, <2>10, <3>1, <3>2 DEF LockInv, LockIsEarned, AccountRows
    <3>3. CASE v = u /\ ~user[u].locked
      BY <1>1, <2>0, <2>1, <2>2, <2>5, <2>9, <2>10, <3>1, <3>3 DEF AccountRows
    <3>q. QED BY <3>2, <3>3
  <2>q. QED
    BY <2>7, <2>8, <2>11, <2>12, <2>13 DEF LockInv, AccountTypes, CountersAreEarned
<1>q. QED BY <1>3, <1>4

\* What is done by hand, and the end of a lock, keep the invariant of the lock.
LEMMA AdministrationKeepsLock ==
  ASSUME LockInv, AdministerAccounts
  PROVE  LockInv'
<1>1. AccountRows /\ \A v \in User : user[v] \in UserRow /\ user[v].failed \in Nat
  BY DEF LockInv, AccountTypes, AccountRows, UserRow
<1>2. req' = req
  BY DEF AdministerAccounts, SetTenantActive, RemoveTenant, BlockUser, UnblockUser,
         ResetUserPassword, LockExpires, EnsureOwner, AtOnce, handlers
<1>3. /\ AccountHandlers' /\ AccountCarried'
      /\ \A q \in Request : At(q, "countFailure")' => req'[q] = req[q]
  BY <1>2 DEF LockInv, AccountTypes, AccountHandlers, AccountCarried, CarriesStatus, At
<1> USE <1>1
<1>4. ASSUME UNCHANGED <<user, tries, shut>>
      PROVE  NoFailure
  BY <1>4 DEF NoFailure, AccountRows
<1>5. ASSUME (\E active \in BOOLEAN : SetTenantActive(active)) \/ RemoveTenant
      PROVE  NoFailure
  <2>1. UNCHANGED <<user, tries, shut>>
    BY <1>5 DEF SetTenantActive, RemoveTenant
  <2>q. QED BY <2>1, <1>4
<1>6. ASSUME NEW u \in User, BlockUser(u)
      PROVE  NoFailure
  <2> DEFINE row == [user[u] EXCEPT !.active = FALSE, !.locked = TRUE]
  <2>1. row \in UserRow
    BY DEF UserRow
  <2>2. row.failed <= user[u].failed
    BY DEF UserRow
  <2>3. user' = [user EXCEPT ![u] = row] /\ u \in shut'
    BY <1>6 DEF BlockUser
  <2>4. tries' = tries /\ shut \subseteq shut' /\ shut' \subseteq User
    BY <1>6 DEF BlockUser, AccountRows
  <2> HIDE DEF row
  <2>q. QED BY <2>1, <2>2, <2>3, <2>4, RowWritten
<1>7. ASSUME NEW u \in User, UnblockUser(u)
      PROVE  NoFailure
  <2> DEFINE row == [user[u] EXCEPT !.active = TRUE, !.locked = FALSE, !.failed = 0]
  <2>1. row \in UserRow
    BY DEF UserRow
  <2>2. row.failed <= user[u].failed /\ ~row.locked
    BY DEF UserRow
  <2>3. user' = [user EXCEPT ![u] = row]
    BY <1>7 DEF UnblockUser
  <2>4. tries' = tries /\ shut \subseteq shut' /\ shut' \subseteq User
    BY <1>7 DEF UnblockUser, AccountRows
  <2> HIDE DEF row
  <2>q. QED BY <2>1, <2>2, <2>3, <2>4, RowWritten
<1>8. ASSUME NEW u \in User, ResetUserPassword(u) \/ LockExpires(u)
      PROVE  NoFailure
  <2>1. user' \in [User -> UserRow]
    BY <1>8 DEF ResetUserPassword, LockExpires, AccountRows, UserRow
  <2>2. \A v \in User : user'[v].failed = user[v].failed
    BY <1>8 DEF ResetUserPassword, LockExpires, AccountRows, UserRow
  <2>3. \A v \in User : user'[v].locked => user[v].locked
    BY <1>8 DEF ResetUserPassword, LockExpires, AccountRows, UserRow
  <2>4. tries' = tries /\ shut \subseteq shut' /\ shut' \subseteq User
    BY <1>8 DEF ResetUserPassword, LockExpires, AccountRows
  <2>q. QED BY <2>1, <2>2, <2>3, <2>4 DEF NoFailure
<1>9. ASSUME EnsureOwner
      PROVE  NoFailure
  <2>1. user' \in [User -> UserRow]
    BY <1>9 DEF EnsureOwner, AccountRows, UserRow
  <2>2. \A v \in User : user'[v].failed = user[v].failed
    BY <1>9 DEF EnsureOwner, AccountRows, UserRow
  <2>4. \A v \in User : user'[v].locked => user[v].locked
    BY <1>9 DEF EnsureOwner, AccountRows, UserRow
  <2>3. tries' = tries /\ shut \subseteq shut' /\ shut' \subseteq User
    BY <1>9 DEF EnsureOwner, AccountRows
  <2>q. QED BY <2>1, <2>2, <2>3, <2>4 DEF NoFailure
<1>10. NoFailure
  BY <1>5, <1>6, <1>7, <1>8, <1>9 DEF AdministerAccounts
<1>q. QED BY <1>3, <1>10, NoFailureKeepsLock

\* The initial state and every step of the accounts keep the invariant of the lock.
LEMMA LockInductive ==
  /\ HandlersInit /\ AccountsInit => LockInv
  /\ LockInv /\ [AccountsNext]_accountVars => LockInv'
<1>1. ASSUME HandlersInit, AccountsInit
      PROVE  LockInv
  <2>1. Idle \in [at : AccountSteps, on : User \cup {Null}, seen : AccountValues]
    BY DEF Idle, AccountSteps, AccountValues
  <2>2. \A r \in Request : req[r] = Idle /\ req[r].at = "idle"
    BY <1>1 DEF HandlersInit, Idle
  <2>3. AccountHandlers /\ AccountCarried
    BY <1>1, <2>1, <2>2 DEF HandlersInit, AccountHandlers, HandlersOf, AccountCarried,
                            CarriesStatus, At
  <2>4. user \in [User -> UserRow]
    <3>1. \A u \in User : [made |-> u \in Founder, active |-> TRUE, deleted |-> FALSE,
                           failed |-> 0, locked |-> FALSE, token |-> FALSE] \in UserRow
      BY DEF UserRow
    <3>q. QED BY <1>1, <3>1 DEF AccountsInit
  <2>5. AccountRows
    BY <1>1, <2>4, AccountsAssumption DEF AccountsInit, AccountRows
  <2>6. \A u \in User : user[u].failed = 0 /\ ~user[u].locked /\ tries[u] = 0
    BY <1>1 DEF AccountsInit
  <2>7. CountersAreEarned
    BY <2>2, <2>6 DEF CountersAreEarned, Reached, At
  <2>q. QED BY <2>3, <2>5, <2>6, <2>7 DEF LockInv, LockIsEarned, AccountTypes
<1>2. ASSUME LockInv, [AccountsNext]_accountVars
      PROVE  LockInv'
  <2>1. ASSUME NEW r \in Request, NEW u \in User, AccountRequest(r, u) \/ AccountStep(r, u)
        PROVE  LockInv'
    <3>1. CASE StepOf(r) /\ NoFailure
      BY <1>2, <3>1, StepMoves, NoFailureKeepsLock DEF LockInv, AccountTypes
    <3>q. QED BY <1>2, <2>1, <3>1, OtherSteps, FailureKeepsLock
  <2>2. ASSUME NEW r \in Request, Fail(r) /\ ReadOnly
        PROVE  LockInv'
    <3>1. StepOf(r) /\ NoFailure
      BY <1>2, <2>2, NothingWritten DEF Fail, StepOf, LockInv, AccountTypes
    <3>q. QED BY <1>2, <3>1, StepMoves, NoFailureKeepsLock DEF LockInv, AccountTypes
  <2>3. CASE AdministerAccounts
    BY <1>2, <2>3, AdministrationKeepsLock
  <2>4. CASE UNCHANGED accountVars
    BY <1>2, <2>4 DEF LockInv, AccountTypes, AccountHandlers, AccountRows, AccountCarried,
                      CarriesStatus, CountersAreEarned, Reached, LockIsEarned, At,
                      accountVars, accounts, handlers
  <2>q. QED BY <1>2, <2>1, <2>2, <2>3, <2>4 DEF AccountsNext
<1>q. QED BY <1>1, <1>2

\* Whatever overlaps, a user is locked out by MAX_LOGIN_ATTEMPTS wrong passwords or by hand
\* (the counter that AuthService.login reads and writes).
THEOREM LockIsAlwaysEarned == AccountsSpec => []LockIsEarned
<1>1. LockInv => LockIsEarned
  BY DEF LockInv
<1>q. QED BY <1>1, LockInductive, PTL DEF AccountsSpec

-----------------------------------------------------------------------------
(* Accounts, as long as requests do not overlap                            *)

SignsIn(u) == Admitted(u) /\ ~user[u].locked /\ tenant.active /\ ~tenant.deleted

\* What a handler has found out and nobody has changed since.
StillTrue(r) ==
  LET u == req[r].on  seen == req[r].seen
  IN  /\ At(r, "findUser") => tenant.active /\ ~tenant.deleted
      /\ At(r, "countFailure") => u \in User /\ seen = user[u].failed + 1
      /\ At(r, "openSession") => u \in User /\ SignsIn(u)
      /\ At(r, "rotate") => u \in User /\ user[u].token
      /\ At(r, "toggleStatus") \/ At(r, "removeUser") => seen \in User /\ Admitted(seen)
      /\ At(r, "writeStatus") \/ At(r, "writeDeleted") => \E w \in User \ {u} : Admitted(w)

CalmInv ==
  /\ LockInv
  /\ wrong \in [User -> Nat]
  /\ Solo
  /\ calm => \A r \in Request : StillTrue(r)
  /\ FailuresCount
  /\ SomeoneIsLeft

\* No row gets a token that had none.
NoToken == \A u \in User : user'[u].token => user[u].token
CalmStep == CalmInv' /\ (calm' => OpenedByLogin)

\* The steps of Handlers, as steps of one handler of the accounts.
LEMMA OneAccountHandler ==
  ASSUME AccountHandlers, Solo, NEW r \in Request
  PROVE  /\ \A step \in AccountSteps, on \in User \cup {Null}, seen \in AccountValues :
              Start(r, step, on, seen) => HandlerStep(r, step, on, seen)
         /\ ~At(r, "idle") => \A step \in AccountSteps, seen \in AccountValues :
              Proceed(r, step, seen) => HandlerStep(r, step, req[r].on, seen)
         /\ ~At(r, "idle") /\ (Finish(r) \/ Break(r)) => HandlerStep(r, "idle", Null, Null)
<1>1. /\ Null \in User \cup {Null} /\ Null \in AccountValues /\ "idle" \in AccountSteps
  BY DEF AccountValues, AccountSteps
<1>q. QED BY <1>1, OneHandler DEF AccountHandlers

\* Where no row gets a token, sessions only end.
LEMMA SessionsOnlyEnd ==
  ASSUME NoToken
  PROVE  OpenSessions' \subseteq OpenSessions /\ OpenedByLogin
BY DEF NoToken, OpenedByLogin, OpenSessions

\* What a step of handler r has to show, the other handlers being idle.
LEMMA StepKeepsCalm ==
  ASSUME CalmInv, LockInv', NEW r \in Request, NEW step, NEW on, NEW seen,
         HandlerStep(r, step, on, seen),
         wrong' \in [User -> Nat],
         calm' => /\ \A u \in User : user'[u].failed = wrong'[u]
                  /\ shut' = {} => \E u \in User : Admitted(u)'
                  /\ StillTrue(r)'
                  /\ OpenedByLogin
  PROVE  CalmStep
<1>1. Solo'
  BY DEF HandlerStep, Solo, At
<1>2. calm' => \A q \in Request : StillTrue(q)'
  <2>1. ASSUME calm', NEW q \in Request, q # r
        PROVE  StillTrue(q)'
    <3>1. At(q, "idle")'
      BY <2>1 DEF HandlerStep, calm
    <3>q. QED BY <3>1 DEF StillTrue, At
  <2>q. QED BY <2>1
<1>q. QED BY <1>1, <1>2 DEF CalmStep, CalmInv, FailuresCount, SomeoneIsLeft

\* A step that reads and keeps what it finds.
LEMMA ReadKeepsCalm ==
  ASSUME CalmInv, LockInv', ReadOnly, NEW r \in Request, NEW step, NEW on, NEW seen,
         HandlerStep(r, step, on, seen), calm' => StillTrue(r)'
  PROVE  CalmStep
<1>1. UNCHANGED <<user, tenant, wrong, shut>>
  BY DEF ReadOnly, accounts
<1>2. OpenedByLogin
  BY <1>1, SessionsOnlyEnd DEF NoToken
<1>3. calm' => calm
  BY DEF HandlerStep
<1>4. calm' => /\ \A u \in User : user'[u].failed = wrong'[u]
               /\ shut' = {} => \E u \in User : Admitted(u)'
               /\ StillTrue(r)'
               /\ OpenedByLogin
  BY <1>1, <1>2, <1>3 DEF CalmInv, FailuresCount, SomeoneIsLeft, Admitted, Known
<1>5. wrong' \in [User -> Nat]
  BY <1>1 DEF CalmInv
<1>q. QED BY <1>4, <1>5, StepKeepsCalm

\* The last step of a handler, which writes a row of the users.
LEMMA WriteKeepsCalm ==
  ASSUME CalmInv, LockInv', NEW r \in Request, ~At(r, "idle"), Finish(r), NEW u \in User,
         wrong' \in [User -> Nat],
         \A v \in User \ {u} : user'[v] = user[v] /\ wrong'[v] = wrong[v],
         calm => /\ user'[u].failed = wrong'[u]
                 /\ shut' = {} => /\ shut = {}
                                  /\ \/ Admitted(u) => Admitted(u)'
                                     \/ \E w \in User \ {u} : Admitted(w)
                 /\ OpenedByLogin
  PROVE  CalmStep
<1>1. HandlerStep(r, "idle", Null, Null)
  BY OneAccountHandler DEF CalmInv, LockInv, AccountTypes
<1>2. calm' => calm
  BY <1>1 DEF HandlerStep
<1>3. StillTrue(r)'
  BY <1>1 DEF HandlerStep, Moved, StillTrue, At
<1>4. ASSUME calm, shut' = {}
      PROVE  \E v \in User : Admitted(v)'
  <2>1. \A v \in User \ {u} : Admitted(v) => Admitted(v)'
    BY DEF Admitted, Known
  <2>2. \E v \in User : Admitted(v)
    BY <1>4 DEF CalmInv, SomeoneIsLeft
  <2>q. QED BY <1>4, <2>1, <2>2
<1>5. calm => \A v \in User : user'[v].failed = wrong'[v]
  BY DEF CalmInv, FailuresCount
<1>q. QED BY <1>1, <1>2, <1>3, <1>4, <1>5, StepKeepsCalm

\* Every step of a handler of the accounts keeps the invariant of requests that do not overlap.
LEMMA HandlersKeepCalm ==
  ASSUME CalmInv, LockInv', NEW r \in Request, NEW u \in User,
         AccountRequest(r, u) \/ AccountStep(r, u)
  PROVE  CalmStep
<1> USE DEF At
<1>1. /\ AccountHandlers /\ AccountRows /\ AccountCarried /\ Solo
      /\ user[u] \in UserRow /\ user[u].failed \in Nat
      /\ wrong \in [User -> Nat]
      /\ calm => \A v \in User : user[v].failed = wrong[v]
      /\ calm => StillTrue(r)
      /\ shut \subseteq User
      /\ \A v \in User : user[v] \in UserRow
  BY DEF CalmInv, LockInv, AccountTypes, AccountRows, UserRow, FailuresCount
<1>2. /\ Null \in User \cup {Null} /\ Null \in AccountValues /\ u \in User \cup {Null}
      /\ User \subseteq AccountValues /\ Nat \subseteq AccountValues
      /\ BOOLEAN \subseteq AccountValues
  BY DEF AccountValues
\* Requests that arrive.
<1>3. CASE Login(r, u)
  <2>1. Start(r, "findUser", u, Null) /\ ReadOnly
    BY <1>3 DEF Login
  <2>2. "findUser" \in AccountSteps /\ (Null) \in AccountValues
    BY <1>2 DEF AccountSteps
  <2>3. HandlerStep(r, "findUser", u, Null)
    BY <1>1, <1>2, <2>1, <2>2, OneAccountHandler
  <2>4. StillTrue(r)'
    BY <1>3, <2>1, <2>3
       DEF Login, HandlerStep, Moved, StillTrue, ReadOnly, accounts, Admitted, Known
  <2>q. QED BY <2>1, <2>3, <2>4, ReadKeepsCalm
<1>4. CASE Refresh(r, u)
  <2>1. Start(r, "rotate", u, Null) /\ ReadOnly
    BY <1>4 DEF Refresh
  <2>2. "rotate" \in AccountSteps /\ (Null) \in AccountValues
    BY <1>2 DEF AccountSteps
  <2>3. HandlerStep(r, "rotate", u, Null)
    BY <1>1, <1>2, <2>1, <2>2, OneAccountHandler
  <2>4. StillTrue(r)'
    BY <1>4, <2>1, <2>3
       DEF Refresh, HandlerStep, Moved, StillTrue, ReadOnly, accounts, Admitted, Known
  <2>q. QED BY <2>1, <2>3, <2>4, ReadKeepsCalm
<1>5. CASE ToggleActiveRead(r)
  <2>0. PICK was \in AccountValues : was = (~tenant.active)
    BY <1>1, <1>2
  <2>1. Start(r, "toggleTenant", Null, was) /\ ReadOnly
    BY <2>0, <1>5 DEF ToggleActiveRead
  <2>2. "toggleTenant" \in AccountSteps /\ (was) \in AccountValues
    BY <1>2 DEF AccountSteps
  <2>3. HandlerStep(r, "toggleTenant", Null, was)
    BY <1>1, <1>2, <2>1, <2>2, OneAccountHandler
  <2>4. StillTrue(r)'
    BY <1>5, <2>1, <2>3
       DEF ToggleActiveRead, HandlerStep, Moved, StillTrue, ReadOnly, accounts, Admitted, Known
  <2>q. QED BY <2>1, <2>3, <2>4, ReadKeepsCalm
<1>6. CASE AuthenticateForOwn(r, u)
  <2>1. PICK step \in {"logout", "changePassword"} : Authenticate(r, u, step, u)
    BY <1>6 DEF AuthenticateForOwn
  <2>2. Start(r, step, u, u) /\ ReadOnly /\ step \in AccountSteps
    BY <2>1 DEF Authenticate, AccountSteps
  <2>3. HandlerStep(r, step, u, u)
    BY <1>1, <1>2, <2>2, OneAccountHandler
  <2>4. StillTrue(r)'
    BY <2>1, <2>3 DEF HandlerStep, Moved, StillTrue
  <2>q. QED BY <2>2, <2>3, <2>4, ReadKeepsCalm
<1>7. ASSUME NEW who \in User, AuthenticateForUser(r, who, u)
      PROVE  CalmStep
  <2>1. PICK step \in UserSteps : Authenticate(r, who, step, u)
    BY <1>7 DEF AuthenticateForUser
  <2>2. Start(r, step, u, who) /\ ReadOnly /\ step \in AccountSteps /\ Admitted(who)
    BY <2>1 DEF Authenticate, AccountSteps, UserSteps
  <2>3. HandlerStep(r, step, u, who)
    BY <1>1, <1>2, <2>2, OneAccountHandler
  <2>4. Admitted(who)'
    BY <2>2 DEF ReadOnly, accounts, Admitted, Known
  <2>5. StillTrue(r)'
    BY <2>1, <2>3, <2>4 DEF HandlerStep, Moved, StillTrue, UserSteps
  <2>q. QED BY <2>2, <2>3, <2>5, ReadKeepsCalm
\* Handlers that go on after what they have read.
<1>8. CASE RefuseWrongPassword(r, u)
  <2>0. PICK now \in AccountValues : now = (user[u].failed + 1)
    BY <1>1, <1>2
  <2>1. Proceed(r, "countFailure", now) /\ ReadOnly /\ At(r, "findUser") /\ u = req[r].on
    BY <2>0, <1>8 DEF RefuseWrongPassword, Serving
  <2>2. "countFailure" \in AccountSteps /\ (now) \in AccountValues
    BY <1>1, <1>2 DEF AccountSteps
  <2>3. HandlerStep(r, "countFailure", u, now)
    BY <1>1, <2>1, <2>2, OneAccountHandler
  <2>4. UNCHANGED <<user, tenant>> /\ (calm' => StillTrue(r))
    BY <1>1, <2>1, <2>3 DEF HandlerStep, ReadOnly, accounts
  <2>5. calm' => StillTrue(r)'
    BY <2>0, <1>1, <1>8, <2>1, <2>3, <2>4
       DEF RefuseWrongPassword, Serving, HandlerStep, Moved, StillTrue, Admitted, Known, SignsIn
  <2>q. QED BY <2>1, <2>3, <2>5, ReadKeepsCalm
<1>9. CASE AcceptPassword(r, u)
  <2>1. Proceed(r, "openSession", Null) /\ ReadOnly /\ At(r, "findUser") /\ u = req[r].on
    BY <1>9 DEF AcceptPassword, Serving
  <2>2. "openSession" \in AccountSteps /\ (Null) \in AccountValues
    BY <1>1, <1>2 DEF AccountSteps
  <2>3. HandlerStep(r, "openSession", u, Null)
    BY <1>1, <2>1, <2>2, OneAccountHandler
  <2>4. UNCHANGED <<user, tenant>> /\ (calm' => StillTrue(r))
    BY <1>1, <2>1, <2>3 DEF HandlerStep, ReadOnly, accounts
  <2>5. calm' => StillTrue(r)'
    BY <1>1, <1>9, <2>1, <2>3, <2>4
       DEF AcceptPassword, Serving, HandlerStep, Moved, StillTrue, Admitted, Known, SignsIn
  <2>q. QED BY <2>1, <2>3, <2>5, ReadKeepsCalm
<1>10. CASE ChangePassword(r, u)
  <2>1. Proceed(r, "writePassword", Null) /\ ReadOnly /\ At(r, "changePassword") /\ u = req[r].on
    BY <1>10 DEF ChangePassword, Serving
  <2>2. "writePassword" \in AccountSteps /\ (Null) \in AccountValues
    BY <1>1, <1>2 DEF AccountSteps
  <2>3. HandlerStep(r, "writePassword", u, Null)
    BY <1>1, <2>1, <2>2, OneAccountHandler
  <2>4. UNCHANGED <<user, tenant>> /\ (calm' => StillTrue(r))
    BY <1>1, <2>1, <2>3 DEF HandlerStep, ReadOnly, accounts
  <2>5. calm' => StillTrue(r)'
    BY <1>1, <1>10, <2>1, <2>3, <2>4
       DEF ChangePassword, Serving, HandlerStep, Moved, StillTrue, Admitted, Known, SignsIn
  <2>q. QED BY <2>1, <2>3, <2>5, ReadKeepsCalm
<1>11. CASE ToggleStatus(r, u)
  <2>0. PICK now \in AccountValues : now = (~user[u].active)
    BY <1>1, <1>2
  <2>1. Proceed(r, "writeStatus", now) /\ ReadOnly /\ At(r, "toggleStatus") /\ u = req[r].on
    BY <2>0, <1>11 DEF ToggleStatus, Serving
  <2>2. "writeStatus" \in AccountSteps /\ (now) \in AccountValues
    BY <1>1, <1>2 DEF AccountSteps
  <2>3. HandlerStep(r, "writeStatus", u, now)
    BY <1>1, <2>1, <2>2, OneAccountHandler
  <2>4. UNCHANGED <<user, tenant>> /\ (calm' => StillTrue(r))
    BY <1>1, <2>1, <2>3 DEF HandlerStep, ReadOnly, accounts
  <2>5. calm' => StillTrue(r)'
    BY <2>0, <1>1, <1>11, <2>1, <2>3, <2>4
       DEF ToggleStatus, Serving, HandlerStep, Moved, StillTrue, Admitted, Known, SignsIn
  <2>q. QED BY <2>1, <2>3, <2>5, ReadKeepsCalm
<1>12. CASE RemoveUser(r, u)
  <2>1. Proceed(r, "writeDeleted", Null) /\ ReadOnly /\ At(r, "removeUser") /\ u = req[r].on
    BY <1>12 DEF RemoveUser, Serving
  <2>2. "writeDeleted" \in AccountSteps /\ (Null) \in AccountValues
    BY <1>1, <1>2 DEF AccountSteps
  <2>3. HandlerStep(r, "writeDeleted", u, Null)
    BY <1>1, <2>1, <2>2, OneAccountHandler
  <2>4. UNCHANGED <<user, tenant>> /\ (calm' => StillTrue(r))
    BY <1>1, <2>1, <2>3 DEF HandlerStep, ReadOnly, accounts
  <2>5. calm' => StillTrue(r)'
    BY <1>1, <1>12, <2>1, <2>3, <2>4
       DEF RemoveUser, Serving, HandlerStep, Moved, StillTrue, Admitted, Known, SignsIn
  <2>q. QED BY <2>1, <2>3, <2>5, ReadKeepsCalm
<1>13. ASSUME NEW active \in BOOLEAN, UpdateUser(r, u, active)
      PROVE  CalmStep
  <2>1. Proceed(r, "patchStatus", active) /\ ReadOnly /\ At(r, "updateUser") /\ u = req[r].on
    BY <1>13 DEF UpdateUser, Serving
  <2>2. "patchStatus" \in AccountSteps /\ (active) \in AccountValues
    BY <1>1, <1>2 DEF AccountSteps
  <2>3. HandlerStep(r, "patchStatus", u, active)
    BY <1>1, <2>1, <2>2, OneAccountHandler
  <2>4. UNCHANGED <<user, tenant>> /\ (calm' => StillTrue(r))
    BY <1>1, <2>1, <2>3 DEF HandlerStep, ReadOnly, accounts
  <2>5. calm' => StillTrue(r)'
    BY <1>1, <1>13, <2>1, <2>3, <2>4
       DEF UpdateUser, Serving, HandlerStep, Moved, StillTrue, Admitted, Known, SignsIn
  <2>q. QED BY <2>1, <2>3, <2>5, ReadKeepsCalm
\* Handlers that refuse.
<1>14. CASE RefuseLogin(r, u) \/ RefuseChange(r, u) \/ RefuseOnUser(r, u)
  <2>1. Finish(r) /\ ReadOnly /\ ~At(r, "idle")
    BY <1>14 DEF RefuseLogin, RefuseChange, RefuseOnUser, Serving
  <2>2. HandlerStep(r, "idle", Null, Null)
    BY <1>1, <2>1, OneAccountHandler
  <2>3. StillTrue(r)'
    BY <2>2 DEF HandlerStep, Moved, StillTrue
  <2>q. QED BY <2>1, <2>2, <2>3, ReadKeepsCalm
\* Handlers that write.
<1>15. CASE Rotate(r, u)
  <2> DEFINE row == [user[u] EXCEPT !.token = TRUE]
  <2>1. /\ Finish(r) /\ At(r, "rotate") /\ u = req[r].on
        /\ user' = [user EXCEPT ![u] = row]
        /\ UNCHANGED <<tenant, wrong>> /\ shut' = shut
    BY <1>15 DEF Rotate, Serving
  <2>2. \A v \in User \ {u} : user'[v] = user[v]
    BY <1>1, <2>1 DEF AccountRows
  <2>3. user'[u] = row
    BY <1>1, <2>1 DEF AccountRows
  <2>4. user'[u].failed = user[u].failed
    BY <1>1, <2>3 DEF UserRow
  <2>5. calm => OpenedByLogin
    <3>1. calm => (user'[u].token => user[u].token)
      BY <1>1, <2>1, <2>3 DEF UserRow, StillTrue
    <3>q. QED BY <2>2, <3>1, SessionsOnlyEnd DEF NoToken
  <2>6. calm /\ shut' = {} =>
          shut = {} /\ ((Admitted(u) => Admitted(u)') \/ \E w \in User \ {u} : Admitted(w))
    BY <1>1, <1>15, <2>1, <2>3 DEF Rotate, UserRow, Admitted, Known, StillTrue
  <2>q. QED BY <1>1, <2>1, <2>2, <2>4, <2>5, <2>6, WriteKeepsCalm
<1>16. CASE Logout(r, u)
  <2> DEFINE row == [user[u] EXCEPT !.token = FALSE]
  <2>1. /\ Finish(r) /\ At(r, "logout") /\ u = req[r].on
        /\ user' = [user EXCEPT ![u] = row]
        /\ UNCHANGED <<tenant, wrong>> /\ shut' = shut
    BY <1>16 DEF Logout, Serving
  <2>2. \A v \in User \ {u} : user'[v] = user[v]
    BY <1>1, <2>1 DEF AccountRows
  <2>3. user'[u] = row
    BY <1>1, <2>1 DEF AccountRows
  <2>4. user'[u].failed = user[u].failed
    BY <1>1, <2>3 DEF UserRow
  <2>5. calm => OpenedByLogin
    <3>1. calm => (user'[u].token => user[u].token)
      BY <1>1, <2>1, <2>3 DEF UserRow, StillTrue
    <3>q. QED BY <2>2, <3>1, SessionsOnlyEnd DEF NoToken
  <2>6. calm /\ shut' = {} =>
          shut = {} /\ ((Admitted(u) => Admitted(u)') \/ \E w \in User \ {u} : Admitted(w))
    BY <1>1, <1>16, <2>1, <2>3 DEF Logout, UserRow, Admitted, Known, StillTrue
  <2>q. QED BY <1>1, <2>1, <2>2, <2>4, <2>5, <2>6, WriteKeepsCalm
<1>17. CASE WritePassword(r, u)
  <2> DEFINE row == [user[u] EXCEPT !.token = FALSE]
  <2>1. /\ Finish(r) /\ At(r, "writePassword") /\ u = req[r].on
        /\ user' = [user EXCEPT ![u] = row]
        /\ UNCHANGED <<tenant, wrong>> /\ shut' = shut
    BY <1>17 DEF WritePassword, Serving
  <2>2. \A v \in User \ {u} : user'[v] = user[v]
    BY <1>1, <2>1 DEF AccountRows
  <2>3. user'[u] = row
    BY <1>1, <2>1 DEF AccountRows
  <2>4. user'[u].failed = user[u].failed
    BY <1>1, <2>3 DEF UserRow
  <2>5. calm => OpenedByLogin
    <3>1. calm => (user'[u].token => user[u].token)
      BY <1>1, <2>1, <2>3 DEF UserRow, StillTrue
    <3>q. QED BY <2>2, <3>1, SessionsOnlyEnd DEF NoToken
  <2>6. calm /\ shut' = {} =>
          shut = {} /\ ((Admitted(u) => Admitted(u)') \/ \E w \in User \ {u} : Admitted(w))
    BY <1>1, <1>17, <2>1, <2>3 DEF WritePassword, UserRow, Admitted, Known, StillTrue
  <2>q. QED BY <1>1, <2>1, <2>2, <2>4, <2>5, <2>6, WriteKeepsCalm
<1>18. ASSUME NEW active \in BOOLEAN, CreateUser(r, u, active)
      PROVE  CalmStep
  <2> DEFINE row == [user[u] EXCEPT !.made = TRUE, !.active = active]
  <2>1. /\ Finish(r) /\ At(r, "createUser") /\ u = req[r].on
        /\ user' = [user EXCEPT ![u] = row]
        /\ UNCHANGED <<tenant, wrong>> /\ shut' = shut
    BY <1>18 DEF CreateUser, Serving
  <2>2. \A v \in User \ {u} : user'[v] = user[v]
    BY <1>1, <2>1 DEF AccountRows
  <2>3. user'[u] = row
    BY <1>1, <2>1 DEF AccountRows
  <2>4. user'[u].failed = user[u].failed
    BY <1>1, <2>3 DEF UserRow
  <2>5. calm => OpenedByLogin
    <3>1. calm => (user'[u].token => user[u].token)
      BY <1>1, <2>1, <2>3 DEF UserRow, StillTrue
    <3>q. QED BY <2>2, <3>1, SessionsOnlyEnd DEF NoToken
  <2>6. calm /\ shut' = {} =>
          shut = {} /\ ((Admitted(u) => Admitted(u)') \/ \E w \in User \ {u} : Admitted(w))
    BY <1>1, <1>18, <2>1, <2>3 DEF CreateUser, UserRow, Admitted, Known, StillTrue
  <2>q. QED BY <1>1, <2>1, <2>2, <2>4, <2>5, <2>6, WriteKeepsCalm
<1>19. CASE PatchStatus(r, u)
  <2> DEFINE row == [user[u] EXCEPT !.active = req[r].seen]
  <2>1. /\ Finish(r) /\ At(r, "patchStatus") /\ u = req[r].on
        /\ user' = [user EXCEPT ![u] = row]
        /\ UNCHANGED <<tenant, wrong>> /\ shut' = shut \cup {u}
    BY <1>19 DEF PatchStatus, Serving
  <2>2. \A v \in User \ {u} : user'[v] = user[v]
    BY <1>1, <2>1 DEF AccountRows
  <2>3. user'[u] = row
    BY <1>1, <2>1 DEF AccountRows
  <2>4. user'[u].failed = user[u].failed
    BY <1>1, <2>3 DEF UserRow
  <2>5. calm => OpenedByLogin
    <3>1. calm => (user'[u].token => user[u].token)
      BY <1>1, <2>1, <2>3 DEF UserRow, StillTrue
    <3>q. QED BY <2>2, <3>1, SessionsOnlyEnd DEF NoToken
  <2>6. calm /\ shut' = {} =>
          shut = {} /\ ((Admitted(u) => Admitted(u)') \/ \E w \in User \ {u} : Admitted(w))
    BY <1>1, <1>19, <2>1, <2>3 DEF PatchStatus, UserRow, Admitted, Known, StillTrue
  <2>q. QED BY <1>1, <2>1, <2>2, <2>4, <2>5, <2>6, WriteKeepsCalm
<1>20. CASE WriteStatus(r, u)
  <2> DEFINE row == [user[u] EXCEPT !.active = req[r].seen]
  <2>1. /\ Finish(r) /\ At(r, "writeStatus") /\ u = req[r].on
        /\ user' = [user EXCEPT ![u] = row]
        /\ UNCHANGED <<tenant, wrong>> /\ shut' = shut
    BY <1>20 DEF WriteStatus, Serving
  <2>2. \A v \in User \ {u} : user'[v] = user[v]
    BY <1>1, <2>1 DEF AccountRows
  <2>3. user'[u] = row
    BY <1>1, <2>1 DEF AccountRows
  <2>4. user'[u].failed = user[u].failed
    BY <1>1, <2>3 DEF UserRow
  <2>5. calm => OpenedByLogin
    <3>1. calm => (user'[u].token => user[u].token)
      BY <1>1, <2>1, <2>3 DEF UserRow, StillTrue
    <3>q. QED BY <2>2, <3>1, SessionsOnlyEnd DEF NoToken
  <2>6. calm /\ shut' = {} =>
          shut = {} /\ ((Admitted(u) => Admitted(u)') \/ \E w \in User \ {u} : Admitted(w))
    BY <1>1, <1>20, <2>1, <2>3 DEF WriteStatus, UserRow, Admitted, Known, StillTrue
  <2>q. QED BY <1>1, <2>1, <2>2, <2>4, <2>5, <2>6, WriteKeepsCalm
<1>21. CASE WriteDeleted(r, u)
  <2> DEFINE row == [user[u] EXCEPT !.deleted = TRUE, !.token = FALSE]
  <2>1. /\ Finish(r) /\ At(r, "writeDeleted") /\ u = req[r].on
        /\ user' = [user EXCEPT ![u] = row]
        /\ UNCHANGED <<tenant, wrong>> /\ shut' = shut
    BY <1>21 DEF WriteDeleted, Serving
  <2>2. \A v \in User \ {u} : user'[v] = user[v]
    BY <1>1, <2>1 DEF AccountRows
  <2>3. user'[u] = row
    BY <1>1, <2>1 DEF AccountRows
  <2>4. user'[u].failed = user[u].failed
    BY <1>1, <2>3 DEF UserRow
  <2>5. calm => OpenedByLogin
    <3>1. calm => (user'[u].token => user[u].token)
      BY <1>1, <2>1, <2>3 DEF UserRow, StillTrue
    <3>q. QED BY <2>2, <3>1, SessionsOnlyEnd DEF NoToken
  <2>6. calm /\ shut' = {} =>
          shut = {} /\ ((Admitted(u) => Admitted(u)') \/ \E w \in User \ {u} : Admitted(w))
    BY <1>1, <1>21, <2>1, <2>3 DEF WriteDeleted, UserRow, Admitted, Known, StillTrue
  <2>q. QED BY <1>1, <2>1, <2>2, <2>4, <2>5, <2>6, WriteKeepsCalm
<1>22. CASE CountFailure(r, u)
  <2> DEFINE row == Counted(user[u], req[r].seen)
  <2>1. /\ Finish(r) /\ At(r, "countFailure") /\ u = req[r].on
        /\ user' = [user EXCEPT ![u] = row]
        /\ wrong' = [wrong EXCEPT ![u] = @ + 1]
        /\ UNCHANGED <<tenant, shut>>
    BY <1>22 DEF CountFailure, Serving
  <2>2. /\ \A v \in User \ {u} : user'[v] = user[v] /\ wrong'[v] = wrong[v]
        /\ wrong' \in [User -> Nat] /\ wrong'[u] = wrong[u] + 1
    BY <1>1, <2>1 DEF AccountRows
  <2>3. user'[u] = row
    BY <1>1, <2>1 DEF AccountRows
  <2>4. user'[u].failed = req[r].seen
    BY <1>1, <2>3 DEF UserRow, Counted
  <2>5. user'[u].token = user[u].token
    BY <1>1, <2>3 DEF UserRow, Counted
  <2>6. Admitted(u) => Admitted(u)'
    BY <1>1, <2>3 DEF UserRow, Counted, Admitted, Known
  <2>7. OpenedByLogin
    BY <2>2, <2>5, SessionsOnlyEnd DEF NoToken
  <2>8. calm => user'[u].failed = wrong'[u]
    BY <1>1, <2>1, <2>2, <2>4 DEF StillTrue
  <2>q. QED BY <1>1, <2>1, <2>2, <2>6, <2>7, <2>8, WriteKeepsCalm
<1>23. CASE OpenSession(r, u)
  <2> DEFINE row == [user[u] EXCEPT !.failed = 0, !.locked = FALSE, !.token = TRUE]
  <2>1. /\ Finish(r) /\ At(r, "openSession") /\ u = req[r].on
        /\ user' = [user EXCEPT ![u] = row]
        /\ wrong' = [wrong EXCEPT ![u] = 0]
        /\ UNCHANGED <<tenant, shut>>
    BY <1>23 DEF OpenSession, Serving
  <2>2. /\ \A v \in User \ {u} : user'[v] = user[v] /\ wrong'[v] = wrong[v]
        /\ wrong' \in [User -> Nat] /\ wrong'[u] = 0
    BY <1>1, <2>1 DEF AccountRows
  <2>3. user'[u] = row
    BY <1>1, <2>1 DEF AccountRows
  <2>4. user'[u].failed = 0
    BY <1>1, <2>3 DEF UserRow
  <2>5. user'[u].token
    BY <1>1, <2>3 DEF UserRow
  <2>6. Admitted(u) <=> Admitted(u)'
    BY <1>1, <2>3 DEF UserRow, Admitted, Known
  <2>7. ~user'[u].locked
    BY <1>1, <2>3 DEF UserRow
  <2>8. calm => OpenedByLogin
    <3> SUFFICES ASSUME calm PROVE OpenedByLogin
      OBVIOUS
    <3>1. SignsIn(u) /\ Serving(r, "openSession", u)
      BY <1>1, <1>23 DEF StillTrue, OpenSession, Serving
    <3>2. OpenSessions' \ OpenSessions \subseteq {u}
      BY <2>2 DEF OpenSessions
    <3>q. QED
      BY <3>1, <3>2 DEF OpenedByLogin, SignsIn, MaySignIn, TakesLogins, Under
  <2>q. QED BY <1>1, <2>1, <2>2, <2>4, <2>6, <2>8, WriteKeepsCalm
<1>24. CASE ToggleActiveWrite(r)
  <2>1. /\ Finish(r) /\ ~At(r, "idle") /\ UNCHANGED <<user, wrong, shut>>
        /\ tenant' = [tenant EXCEPT !.active = req[r].seen] /\ At(r, "toggleTenant")
    BY <1>24 DEF ToggleActiveWrite
  <2>2. HandlerStep(r, "idle", Null, Null)
    BY <1>1, <2>1, OneAccountHandler
  <2>3. StillTrue(r)' /\ (calm' => calm)
    BY <2>2 DEF HandlerStep, Moved, StillTrue
  <2>4. OpenedByLogin
    BY <2>1, SessionsOnlyEnd DEF NoToken
  <2>5. shut = {} /\ calm => \E v \in User : Admitted(v)'
    BY <2>1 DEF CalmInv, SomeoneIsLeft, Admitted, Known
  <2>q. QED BY <1>1, <2>1, <2>2, <2>3, <2>4, <2>5, StepKeepsCalm
<1>q. QED
  BY <1>3, <1>4, <1>5, <1>6, <1>7, <1>8, <1>9, <1>10, <1>11, <1>12, <1>13, <1>14,
     <1>15, <1>16, <1>17, <1>18, <1>19, <1>20, <1>21, <1>22, <1>23, <1>24
     DEF AccountRequest, AccountStep

\* What is done at once, when requests have not overlapped, meets no handler.
LEMMA AtOnceKeepsCalm ==
  ASSUME CalmInv, LockInv', AtOnce,
         wrong' \in [User -> Nat],
         \A u \in User : user[u].failed = wrong[u] => user'[u].failed = wrong'[u],
         shut' = {} => shut = {} /\ \A u \in User : Admitted(u) => Admitted(u)',
         NoToken
  PROVE  CalmStep
<1>1. (alone' => alone /\ Quiet) /\ UNCHANGED <<req, unbroken>>
  BY DEF AtOnce
<1>2. Solo'
  BY <1>1 DEF CalmInv, Solo, At
<1>3. calm' => \A q \in Request : StillTrue(q)'
  <2>1. \A q \in Request : req[q] = Idle => req[q].at = "idle"
    BY DEF Idle
  <2> HIDE DEF Idle
  <2>2. ASSUME calm', NEW q \in Request
        PROVE  StillTrue(q)'
    <3>1. req'[q].at = "idle"
      BY <1>1, <2>1, <2>2 DEF Quiet, calm
    <3>q. QED BY <3>1 DEF StillTrue, At
  <2>q. QED BY <2>2
<1>4. calm' => calm
  BY <1>1 DEF calm
<1>5. FailuresCount' /\ SomeoneIsLeft'
  BY <1>4 DEF CalmInv, FailuresCount, SomeoneIsLeft
<1>q. QED BY <1>2, <1>3, <1>5, SessionsOnlyEnd DEF CalmStep, CalmInv

\* Changes of the tenant and of users by hand meet no handler.
LEMMA AdministrationKeepsCalm ==
  ASSUME CalmInv, LockInv', AdministerAccounts
  PROVE  CalmStep
<1>1. /\ user \in [User -> UserRow] /\ wrong \in [User -> Nat] /\ shut \subseteq User
      /\ \A v \in User : user[v] \in UserRow
  BY DEF CalmInv, LockInv, AccountTypes, AccountRows
<1>2. ASSUME (\E active \in BOOLEAN : SetTenantActive(active)) \/ RemoveTenant
      PROVE  CalmStep
  <2>1. AtOnce /\ UNCHANGED <<user, wrong, shut>>
    BY <1>2 DEF SetTenantActive, RemoveTenant
  <2>q. QED BY <1>1, <2>1, AtOnceKeepsCalm DEF Admitted, Known, NoToken
<1>3. ASSUME NEW u \in User, BlockUser(u)
      PROVE  CalmStep
  <2>1. AtOnce /\ wrong' = wrong /\ shut' # {}
    BY <1>3 DEF BlockUser
  <2>2. \A v \in User : user'[v].failed = user[v].failed
    BY <1>1, <1>3 DEF BlockUser, UserRow
  <2>3. NoToken
    BY <1>1, <1>3 DEF BlockUser, UserRow, NoToken
  <2>q. QED BY <1>1, <2>1, <2>2, <2>3, AtOnceKeepsCalm
<1>4. ASSUME NEW u \in User, UnblockUser(u)
      PROVE  CalmStep
  <2>1. AtOnce /\ shut' = shut /\ wrong' \in [User -> Nat]
    BY <1>1, <1>4 DEF UnblockUser
  <2>2. \A v \in User : user[v].failed = wrong[v] => user'[v].failed = wrong'[v]
    BY <1>1, <1>4 DEF UnblockUser, UserRow
  <2>3. NoToken
    BY <1>1, <1>4 DEF UnblockUser, UserRow, NoToken
  <2>4. \A v \in User : Admitted(v) => Admitted(v)'
    BY <1>1, <1>4 DEF UnblockUser, UserRow, Admitted, Known
  <2>q. QED BY <2>1, <2>2, <2>3, <2>4, AtOnceKeepsCalm
<1>5. ASSUME NEW u \in User, ResetUserPassword(u)
      PROVE  CalmStep
  <2>1. AtOnce /\ UNCHANGED <<wrong, shut>>
    BY <1>5 DEF ResetUserPassword
  <2>2. \A v \in User : user'[v].failed = user[v].failed
    BY <1>1, <1>5 DEF ResetUserPassword, UserRow
  <2>3. NoToken
    BY <1>1, <1>5 DEF ResetUserPassword, UserRow, NoToken
  <2>4. \A v \in User : Admitted(v) => Admitted(v)'
    BY <1>1, <1>5 DEF ResetUserPassword, UserRow, Admitted, Known
  <2>q. QED BY <1>1, <2>1, <2>2, <2>3, <2>4, AtOnceKeepsCalm
<1>6. CASE EnsureOwner
  <2>1. AtOnce /\ UNCHANGED <<wrong, shut>>
    BY <1>6 DEF EnsureOwner
  <2>2. \A v \in User : user'[v].failed = user[v].failed
    BY <1>1, <1>6 DEF EnsureOwner, UserRow
  <2>3. NoToken
    BY <1>1, <1>6 DEF EnsureOwner, UserRow, NoToken
  <2>4. \A v \in User : Admitted(v) => Admitted(v)'
    BY <1>1, <1>6 DEF EnsureOwner, UserRow, Admitted, Known
  <2>q. QED BY <1>1, <2>1, <2>2, <2>3, <2>4, AtOnceKeepsCalm
\* A lock that ends admits somebody to what a handler was admitted to already.
<1>7. ASSUME NEW u \in User, LockExpires(u)
      PROVE  CalmStep
  <2>1. UNCHANGED <<req, alone, unbroken, tenant, wrong, shut>>
    BY <1>7 DEF LockExpires, handlers
  <2>2. \A v \in User : user'[v].failed = user[v].failed
    BY <1>1, <1>7 DEF LockExpires, UserRow
  <2>3. \A v \in User : user'[v].token = user[v].token
    BY <1>1, <1>7 DEF LockExpires, UserRow
  <2>4. \A v \in User : Admitted(v)' <=> Admitted(v)
    BY <1>1, <1>7 DEF LockExpires, UserRow, Admitted, Known
  <2>5. \A v \in User : user'[v].locked => user[v].locked
    BY <1>1, <1>7 DEF LockExpires, UserRow
  <2>6. ASSUME calm, NEW q \in Request
        PROVE  StillTrue(q)'
    <3>1. StillTrue(q)
      BY <2>6 DEF CalmInv
    <3>q. QED BY <2>1, <2>2, <2>3, <2>4, <2>5, <3>1 DEF StillTrue, SignsIn, At
  <2>7. Solo' /\ FailuresCount' /\ SomeoneIsLeft' /\ calm' = calm
    BY <2>1, <2>2, <2>4 DEF CalmInv, Solo, FailuresCount, SomeoneIsLeft, At, calm
  <2>8. OpenedByLogin
    BY <2>3, SessionsOnlyEnd DEF NoToken
  <2>q. QED BY <1>1, <2>1, <2>6, <2>7, <2>8 DEF CalmStep, CalmInv
<1>q. QED BY <1>2, <1>3, <1>4, <1>5, <1>6, <1>7 DEF AdministerAccounts

\* Everything is true at first.
LEMMA CalmInit ==
  ASSUME HandlersInit, AccountsInit
  PROVE  CalmInv
<1>1. LockInv
  BY LockInductive
<1>2. \A r \in Request : req[r].at = "idle"
  BY DEF HandlersInit, Idle
<1>3. /\ \A u \in User : user[u].failed = 0 /\ wrong[u] = 0
      /\ wrong \in [User -> Nat]
  BY DEF AccountsInit
<1>4. \E u \in User : Admitted(u)
  <2>1. PICK u \in Founder : u \in User
    BY AccountsAssumption
  <2>2. Admitted(u)
    BY <2>1 DEF AccountsInit, Admitted, Known
  <2>q. QED BY <2>1, <2>2
<1>q. QED
  BY <1>1, <1>2, <1>3, <1>4 DEF CalmInv, Solo, StillTrue, FailuresCount, SomeoneIsLeft, At

\* Every step keeps the invariant of requests that do not overlap.
LEMMA CalmInductive ==
  ASSUME CalmInv, [AccountsNext]_accountVars
  PROVE  CalmStep
<1>1. LockInv'
  BY LockInductive DEF CalmInv
<1>2. ASSUME NEW r \in Request, NEW u \in User, AccountRequest(r, u) \/ AccountStep(r, u)
      PROVE  CalmStep
  BY <1>1, <1>2, HandlersKeepCalm
<1>3. ASSUME NEW r \in Request, Fail(r) /\ ReadOnly
      PROVE  CalmStep
  <2>1. Break(r) /\ ~calm' /\ req[r] # Idle
    BY <1>3 DEF Fail, Break, calm
  <2>2. AccountHandlers /\ Solo
    BY DEF CalmInv, LockInv, AccountTypes
  <2>3. CASE At(r, "idle")
    <3>1. Moved(r, "idle", Null, Null) /\ alone' = alone /\ wrong' = wrong
      <4>1. /\ Null \in User \cup {Null} /\ Null \in AccountValues /\ "idle" \in AccountSteps
        BY DEF AccountValues, AccountSteps
      <4>q. QED BY <1>3, <2>1, <2>2, <4>1, HandlerMoves
                DEF AccountHandlers, Break, ReadOnly, accounts
    <3>2. Solo'
      BY <2>3, <3>1 DEF CalmInv, Solo, Moved, At
    <3>q. QED BY <1>1, <2>1, <3>1, <3>2
              DEF CalmStep, CalmInv, FailuresCount, SomeoneIsLeft
  <2>4. CASE ~At(r, "idle")
    <3>1. HandlerStep(r, "idle", Null, Null)
      BY <2>1, <2>2, <2>4, OneAccountHandler
    <3>q. QED BY <1>1, <1>3, <2>1, <3>1, ReadKeepsCalm
  <2>q. QED BY <2>3, <2>4
<1>4. CASE AdministerAccounts
  BY <1>1, <1>4, AdministrationKeepsCalm
<1>5. CASE UNCHANGED accountVars
  <2>1. UNCHANGED <<req, alone, unbroken, user, tenant, wrong, shut>>
    BY <1>5 DEF accountVars, accounts, handlers
  <2>2. OpenedByLogin
    BY <2>1, SessionsOnlyEnd DEF NoToken
  <2>q. QED
    BY <1>1, <2>1, <2>2 DEF CalmStep, CalmInv, Solo, StillTrue, FailuresCount, SomeoneIsLeft,
                            calm, SignsIn, Admitted, Known, At
<1>q. QED BY <1>2, <1>3, <1>4, <1>5 DEF AccountsNext

\* While requests do not overlap, failedLoginAttempts counts the wrong passwords since the last
\* login (AuthService.login, SuperAdminService.unblockUser).
THEOREM FailuresAreCounted == AccountsSpec => []FailuresCount
<1>1. CalmInv => FailuresCount
  BY DEF CalmInv
<1>2. CalmInv /\ [AccountsNext]_accountVars => CalmInv'
  BY CalmInductive DEF CalmStep
<1>q. QED BY <1>1, <1>2, CalmInit, PTL DEF AccountsSpec

\* While requests do not overlap, a tenant keeps a user who may sign in, whoever toggles and
\* removes whom (UsersService.toggleStatus and remove).
THEOREM SomeoneIsAlwaysLeft == AccountsSpec => []SomeoneIsLeft
<1>1. CalmInv => SomeoneIsLeft
  BY DEF CalmInv
<1>2. CalmInv /\ [AccountsNext]_accountVars => CalmInv'
  BY CalmInductive DEF CalmStep
<1>q. QED BY <1>1, <1>2, CalmInit, PTL DEF AccountsSpec

-----------------------------------------------------------------------------
(* Sessions, whatever overlaps                                             *)

SigningIn == {"findUser", "openSession", "rotate"}

\* What becomes of the users under a statement when a handler moves from it, to it, or neither.
LEMMA UnderMoves ==
  ASSUME NEW r \in Request, NEW to, NEW on, NEW seen, Moved(r, to, on, seen), NEW step
  PROVE  /\ to # step => Under(step)' \subseteq Under(step)
         /\ to # step /\ ~At(r, step) => Under(step)' = Under(step)
         /\ to # step /\ At(r, step) =>
              Under(step)' \in {Under(step), Under(step) \ {req[r].on}}
         /\ to = step /\ ~At(r, step) /\ on \in User => Under(step)' = Under(step) \cup {on}
<1>1. \A q \in Request \ {r}, u \in User : Serving(q, step, u)' <=> Serving(q, step, u)
  BY DEF Moved, Serving, At
<1>2. \A u \in User : Serving(r, step, u)' <=> to = step /\ u = on
  BY DEF Moved, Serving, At
<1>3. \A u \in User : Serving(r, step, u) => At(r, step) /\ u = req[r].on
  BY DEF Serving
<1>4. ASSUME to # step
      PROVE  Under(step)' \subseteq Under(step) /\ Under(step) \ {req[r].on} \subseteq Under(step)'
  BY <1>1, <1>2, <1>3, <1>4 DEF Under
<1>5. ASSUME to # step, ~At(r, step)
      PROVE  Under(step)' = Under(step)
  BY <1>1, <1>2, <1>3, <1>5 DEF Under
<1>6. ASSUME to = step, ~At(r, step), on \in User
      PROVE  Under(step)' = Under(step) \cup {on}
  BY <1>1, <1>2, <1>3, <1>6 DEF Under
<1>q. QED BY <1>4, <1>5, <1>6

\* A handler goes on, begins or ends, with no statement of a login or a refresh before it.
Elsewhere(r) ==
  \/ Finish(r) \/ Break(r)
  \/ \E step \in AccountSteps \ SigningIn, seen \in AccountValues :
       \/ Proceed(r, step, seen)
       \/ \E on \in User \cup {Null} : Start(r, step, on, seen)

\* Such a step opens no session as long as it gives no row a token.
LEMMA ElsewhereIsAdministration ==
  ASSUME AccountHandlers, NEW r \in Request, Elsewhere(r), NoToken
  PROVE  Session!Administer
<1>1. /\ Null \in User \cup {Null} /\ Null \in AccountValues /\ "idle" \in AccountSteps
  BY DEF AccountValues, AccountSteps
<1>2. \E to, on, seen : to \notin SigningIn /\ Moved(r, to, on, seen)
  <2>1. CASE Finish(r) \/ Break(r)
    <3>1. Moved(r, "idle", Null, Null)
      BY <1>1, <2>1, HandlerMoves DEF AccountHandlers
    <3>q. QED BY <3>1 DEF SigningIn
  <2>2. ASSUME NEW step \in AccountSteps \ SigningIn, NEW seen \in AccountValues,
               Proceed(r, step, seen)
        PROVE  \E to, on, seen1 : to \notin SigningIn /\ Moved(r, to, on, seen1)
    <3>1. Moved(r, step, req[r].on, seen)
      BY <1>1, <2>2, HandlerMoves DEF AccountHandlers
    <3>q. QED BY <3>1
  <2>3. ASSUME NEW step \in AccountSteps \ SigningIn, NEW seen \in AccountValues,
               NEW on \in User \cup {Null}, Start(r, step, on, seen)
        PROVE  \E to, on1, seen1 : to \notin SigningIn /\ Moved(r, to, on1, seen1)
    <3>1. Moved(r, step, on, seen)
      BY <1>1, <2>3, HandlerMoves DEF AccountHandlers
    <3>q. QED BY <3>1
  <2>q. QED BY <2>1, <2>2, <2>3 DEF Elsewhere
<1>3. \A step \in SigningIn : Under(step)' \subseteq Under(step)
  BY <1>2, UnderMoves
<1>4. OpenSessions' \subseteq OpenSessions
  BY SessionsOnlyEnd
<1>5. MaySignIn' \subseteq User /\ TakesLogins' \in BOOLEAN
  BY DEF MaySignIn, TakesLogins
<1>q. QED BY <1>3, <1>4, <1>5 DEF Session!Administer, SigningIn

\* Every step of a handler is a step of Sessions.
LEMMA HandlersImplementSessions ==
  ASSUME LockInv, NEW r \in Request, NEW u \in User, AccountRequest(r, u) \/ AccountStep(r, u)
  PROVE  Session!Next
<1>1. /\ AccountHandlers /\ AccountRows /\ user[u] \in UserRow
      /\ \A v \in User : user[v] \in UserRow
  BY DEF LockInv, AccountTypes, AccountRows
<1>2. /\ Null \in User \cup {Null} /\ Null \in AccountValues /\ u \in User \cup {Null}
      /\ User \subseteq AccountValues /\ BOOLEAN \subseteq AccountValues
      /\ Nat \subseteq AccountValues /\ "idle" \in AccountSteps /\ SigningIn \subseteq AccountSteps
  BY DEF AccountValues, AccountSteps, SigningIn
<1>3. ASSUME Elsewhere(r), NoToken
      PROVE  Session!Next
  BY <1>1, <1>3, ElsewhereIsAdministration DEF Session!Next
<1>4. ASSUME ReadOnly
      PROVE  NoToken /\ UNCHANGED <<OpenSessions, MaySignIn, TakesLogins>>
  BY <1>4 DEF ReadOnly, accounts, NoToken, OpenSessions, MaySignIn, TakesLogins, Admitted, Known
\* The steps of a login and of a refresh.
<1>5. CASE Login(r, u)
  <2>1. Start(r, "findUser", u, Null) /\ ReadOnly /\ TakesLogins
    BY <1>5 DEF Login, TakesLogins
  <2>2. Moved(r, "findUser", u, Null) /\ req[r] = Idle
    BY <1>1, <1>2, <2>1, HandlerMoves DEF AccountHandlers, SigningIn
  <2>3. ~At(r, "findUser") /\ ~At(r, "openSession") /\ ~At(r, "rotate")
    BY <2>2 DEF At, Idle
  <2>4. /\ Under("findUser")' = Under("findUser") \cup {u}
        /\ UNCHANGED <<Under("openSession"), Under("rotate")>>
    BY <2>2, <2>3, UnderMoves
  <2>q. QED BY <1>4, <2>1, <2>4 DEF Session!Next, Session!Ask
<1>6. CASE AcceptPassword(r, u)
  <2>1. /\ Proceed(r, "openSession", Null) /\ ReadOnly
        /\ Serving(r, "findUser", u) /\ u \in MaySignIn
    BY <1>6 DEF AcceptPassword, MaySignIn
  <2>2. Moved(r, "openSession", u, Null) /\ At(r, "findUser") /\ req[r].on = u
    BY <1>1, <1>2, <2>1, HandlerMoves DEF AccountHandlers, SigningIn, Serving
  <2>3. ~At(r, "openSession") /\ ~At(r, "rotate") /\ u \in Under("findUser")
    BY <2>1, <2>2 DEF At, Under
  <2>4. /\ Under("findUser")' \in {Under("findUser"), Under("findUser") \ {u}}
        /\ Under("openSession")' = Under("openSession") \cup {u}
        /\ Under("rotate")' = Under("rotate")
    BY <2>2, <2>3, UnderMoves
  <2>q. QED BY <1>4, <2>1, <2>3, <2>4 DEF Session!Next, Session!Accept, Session!Left
<1>7. CASE OpenSession(r, u)
  <2>1. Serving(r, "openSession", u) /\ Finish(r) /\ UNCHANGED tenant
    BY <1>7 DEF OpenSession
  <2>2. Moved(r, "idle", Null, Null) /\ At(r, "openSession") /\ req[r].on = u
    BY <1>1, <1>2, <2>1, HandlerMoves DEF AccountHandlers, Serving
  <2>3. ~At(r, "findUser") /\ ~At(r, "rotate") /\ u \in Under("openSession")
    BY <2>1, <2>2 DEF At, Under
  <2>4. /\ Under("openSession")' \in {Under("openSession"), Under("openSession") \ {u}}
        /\ UNCHANGED <<Under("findUser"), Under("rotate")>>
    BY <2>2, <2>3, UnderMoves
  <2>5. /\ \A v \in User \ {u} : user'[v] = user[v]
        /\ user'[u].token /\ ~user'[u].locked
        /\ user'[u].made = user[u].made /\ user'[u].deleted = user[u].deleted
        /\ user'[u].active = user[u].active
    BY <1>1, <1>7 DEF OpenSession, AccountRows, UserRow
  <2>6. OpenSessions' = OpenSessions \cup {u}
    BY <2>5 DEF OpenSessions
  <2>7. MaySignIn' \in {MaySignIn, MaySignIn \cup {u}}
    <3>1. \A v \in User \ {u} : v \in MaySignIn' <=> v \in MaySignIn
      BY <2>5 DEF MaySignIn, Admitted, Known
    <3>2. u \in MaySignIn => u \in MaySignIn'
      BY <2>5 DEF MaySignIn, Admitted, Known
    <3>3. MaySignIn \subseteq User /\ MaySignIn' \subseteq User
      BY DEF MaySignIn
    <3>q. QED BY <3>1, <3>2, <3>3
  <2>8. TakesLogins' = TakesLogins
    BY <2>1 DEF TakesLogins
  <2>q. QED
    BY <2>3, <2>4, <2>6, <2>7, <2>8 DEF Session!Next, Session!SignIn, Session!Left
<1>8. CASE Refresh(r, u)
  <2>1. Start(r, "rotate", u, Null) /\ ReadOnly /\ u \in OpenSessions
    BY <1>8 DEF Refresh, OpenSessions
  <2>2. Moved(r, "rotate", u, Null) /\ req[r] = Idle
    BY <1>1, <1>2, <2>1, HandlerMoves DEF AccountHandlers, SigningIn
  <2>3. ~At(r, "findUser") /\ ~At(r, "openSession") /\ ~At(r, "rotate")
    BY <2>2 DEF At, Idle
  <2>4. /\ Under("rotate")' = Under("rotate") \cup {u}
        /\ UNCHANGED <<Under("findUser"), Under("openSession")>>
    BY <2>2, <2>3, UnderMoves
  <2>q. QED BY <1>4, <2>1, <2>4 DEF Session!Next, Session!Renew
<1>9. CASE Rotate(r, u)
  <2>1. Serving(r, "rotate", u) /\ Finish(r) /\ UNCHANGED tenant
    BY <1>9 DEF Rotate
  <2>2. Moved(r, "idle", Null, Null) /\ At(r, "rotate") /\ req[r].on = u
    BY <1>1, <1>2, <2>1, HandlerMoves DEF AccountHandlers, Serving
  <2>3. ~At(r, "findUser") /\ ~At(r, "openSession") /\ u \in Under("rotate")
    BY <2>1, <2>2 DEF At, Under
  <2>4. /\ Under("rotate")' \in {Under("rotate"), Under("rotate") \ {u}}
        /\ UNCHANGED <<Under("findUser"), Under("openSession")>>
    BY <2>2, <2>3, UnderMoves
  <2>5. /\ \A v \in User \ {u} : user'[v] = user[v]
        /\ user'[u].token /\ user'[u].locked = user[u].locked
        /\ user'[u].made = user[u].made /\ user'[u].deleted = user[u].deleted
        /\ user'[u].active = user[u].active
    BY <1>1, <1>9 DEF Rotate, AccountRows, UserRow
  <2>6. OpenSessions' = OpenSessions \cup {u}
    BY <2>5 DEF OpenSessions
  <2>7. UNCHANGED <<MaySignIn, TakesLogins>>
    BY <2>1, <2>5 DEF MaySignIn, TakesLogins, Admitted, Known
  <2>q. QED
    BY <2>3, <2>4, <2>6, <2>7 DEF Session!Next, Session!Continue, Session!Left
\* Everything else opens no session.
<1>10. CASE AuthenticateForOwn(r, u)
  <2>1. PICK step \in {"logout", "changePassword"} : Authenticate(r, u, step, u)
    BY <1>10 DEF AuthenticateForOwn
  <2>2. Start(r, step, u, u) /\ ReadOnly /\ step \in AccountSteps \ SigningIn
    BY <2>1 DEF Authenticate, AccountSteps, SigningIn
  <2>q. QED BY <1>2, <1>3, <1>4, <2>2 DEF Elsewhere
<1>11. ASSUME NEW who \in User, AuthenticateForUser(r, who, u)
      PROVE  Session!Next
  <2>1. PICK step \in UserSteps : Authenticate(r, who, step, u)
    BY <1>11 DEF AuthenticateForUser
  <2>2. Start(r, step, u, who) /\ ReadOnly /\ step \in AccountSteps \ SigningIn
    BY <2>1 DEF Authenticate, AccountSteps, UserSteps, SigningIn
  <2>q. QED BY <1>2, <1>3, <1>4, <2>2 DEF Elsewhere
<1>12. CASE ToggleActiveRead(r)
  <2>0. PICK was \in AccountValues : was = (~tenant.active)
    BY <1>2
  <2>1. Start(r, "toggleTenant", Null, was) /\ ReadOnly
    BY <2>0, <1>12 DEF ToggleActiveRead
  <2>2. "toggleTenant" \in AccountSteps \ SigningIn
    BY DEF AccountSteps, SigningIn
  <2>q. QED BY <1>2, <1>3, <1>4, <2>1, <2>2 DEF Elsewhere
<1>13. ASSUME ReadOnly,
              \/ RefuseWrongPassword(r, u) \/ ChangePassword(r, u) \/ ToggleStatus(r, u)
              \/ RemoveUser(r, u) \/ \E active \in BOOLEAN : UpdateUser(r, u, active)
       PROVE  Session!Next
  <2>1. {"countFailure", "writePassword", "writeStatus", "writeDeleted", "patchStatus"}
          \subseteq AccountSteps \ SigningIn
    BY DEF AccountSteps, SigningIn
  <2>2. user[u].failed + 1 \in Nat /\ (~user[u].active) \in BOOLEAN
    BY <1>1 DEF UserRow
  <2>3. \E step \in AccountSteps \ SigningIn, seen \in AccountValues : Proceed(r, step, seen)
    BY <1>2, <1>13, <2>1, <2>2
       DEF RefuseWrongPassword, ChangePassword, ToggleStatus, RemoveUser, UpdateUser
  <2>q. QED BY <1>3, <1>4, <1>13, <2>3 DEF Elsewhere
<1>14. CASE RefuseLogin(r, u) \/ RefuseChange(r, u) \/ RefuseOnUser(r, u)
  <2>1. Finish(r) /\ ReadOnly
    BY <1>14 DEF RefuseLogin, RefuseChange, RefuseOnUser
  <2>q. QED BY <1>3, <1>4, <2>1 DEF Elsewhere
<1>15. ASSUME Finish(r), NoToken
       PROVE  Session!Next
  BY <1>3, <1>15 DEF Elsewhere
<1>16. CASE Logout(r, u) \/ WritePassword(r, u)
  BY <1>1, <1>15, <1>16 DEF Logout, WritePassword, NoToken, AccountRows, UserRow
<1>17. CASE PatchStatus(r, u) \/ WriteStatus(r, u)
  BY <1>1, <1>15, <1>17 DEF PatchStatus, WriteStatus, NoToken, AccountRows, UserRow
<1>18. CASE WriteDeleted(r, u)
  BY <1>1, <1>15, <1>18 DEF WriteDeleted, NoToken, AccountRows, UserRow
<1>19. CASE CountFailure(r, u)
  BY <1>1, <1>15, <1>19 DEF CountFailure, Counted, NoToken, AccountRows, UserRow
<1>20. ASSUME NEW active \in BOOLEAN, CreateUser(r, u, active)
       PROVE  Session!Next
  BY <1>1, <1>15, <1>20 DEF CreateUser, NoToken, AccountRows, UserRow
<1>21. CASE ToggleActiveWrite(r)
  BY <1>15, <1>21 DEF ToggleActiveWrite, NoToken
<1>22. ASSUME \/ RefuseWrongPassword(r, u) \/ ChangePassword(r, u) \/ ToggleStatus(r, u)
              \/ RemoveUser(r, u) \/ \E active \in BOOLEAN : UpdateUser(r, u, active)
       PROVE  Session!Next
  <2>1. ReadOnly
    BY <1>22 DEF RefuseWrongPassword, ChangePassword, ToggleStatus, RemoveUser, UpdateUser
  <2>q. QED BY <1>13, <1>22, <2>1
<1>q. QED
  BY <1>5, <1>6, <1>7, <1>8, <1>9, <1>10, <1>11, <1>12, <1>14, <1>16, <1>17,
     <1>18, <1>19, <1>20, <1>21, <1>22
     DEF AccountRequest, AccountStep

\* What is done by hand only ends sessions.
LEMMA AdministrationImplementsSessions ==
  ASSUME LockInv, AdministerAccounts
  PROVE  Session!Next
<1>1. AccountRows /\ \A v \in User : user[v] \in UserRow
  BY DEF LockInv, AccountTypes, AccountRows
<1>2. req' = req
  BY DEF AdministerAccounts, SetTenantActive, RemoveTenant, BlockUser, UnblockUser,
         ResetUserPassword, LockExpires, EnsureOwner, AtOnce, handlers
<1>3. NoToken
  <2>1. ASSUME NEW u \in User,
               BlockUser(u) \/ UnblockUser(u) \/ ResetUserPassword(u) \/ LockExpires(u)
        PROVE  NoToken
    BY <1>1, <2>1 DEF BlockUser, UnblockUser, ResetUserPassword, LockExpires, NoToken,
                      AccountRows, UserRow
  <2>2. ASSUME EnsureOwner \/ RemoveTenant \/ \E active \in BOOLEAN : SetTenantActive(active)
        PROVE  NoToken
    BY <1>1, <2>2 DEF EnsureOwner, RemoveTenant, SetTenantActive, NoToken, AccountRows, UserRow
  <2>q. QED BY <2>1, <2>2 DEF AdministerAccounts
<1>4. \A step \in SigningIn : Under(step)' = Under(step)
  BY <1>2 DEF Under, Serving, At
<1>5. MaySignIn' \subseteq User /\ TakesLogins' \in BOOLEAN
  BY DEF MaySignIn, TakesLogins
<1>q. QED
  BY <1>3, <1>4, <1>5, SessionsOnlyEnd DEF Session!Next, Session!Administer, SigningIn

\* Every step of the accounts is one of Sessions, or changes nothing there.
LEMMA SessionsSimulation ==
  ASSUME LockInv, [AccountsNext]_accountVars
  PROVE  [Session!Next]_(Session!vars)
<1>1. ASSUME NEW r \in Request, NEW u \in User, AccountRequest(r, u) \/ AccountStep(r, u)
      PROVE  Session!Next
  BY <1>1, HandlersImplementSessions
<1>2. ASSUME NEW r \in Request, Fail(r) /\ ReadOnly
      PROVE  Session!Next
  <2>1. Elsewhere(r) /\ NoToken
    BY <1>2 DEF Fail, Elsewhere, ReadOnly, accounts, NoToken
  <2>q. QED
    BY <2>1, ElsewhereIsAdministration DEF Session!Next, LockInv, AccountTypes
<1>3. CASE AdministerAccounts
  BY <1>3, AdministrationImplementsSessions
<1>4. CASE UNCHANGED accountVars
  <2>1. UNCHANGED <<req, user, tenant>>
    BY <1>4 DEF accountVars, accounts, handlers
  <2>2. UNCHANGED <<OpenSessions, MaySignIn, TakesLogins>>
    BY <2>1 DEF OpenSessions, MaySignIn, TakesLogins, Admitted, Known
  <2>3. UNCHANGED <<Under("findUser"), Under("openSession"), Under("rotate")>>
    BY <2>1 DEF Under, Serving, At
  <2>q. QED BY <2>2, <2>3 DEF Session!vars
<1>q. QED BY <1>1, <1>2, <1>3, <1>4 DEF AccountsNext

\* Whatever overlaps or breaks off, the accounts implement the steps of Sessions; and while
\* requests do not overlap, only a login opens a session (AuthService.login, refresh, logout and
\* changePassword).
THEOREM OnlyLoginOpensSessions == AccountsSpec => SessionsAreOpenedByLogin
<1>1. CalmInv /\ [AccountsNext]_accountVars =>
        /\ CalmInv'
        /\ [[Session!Next]_(Session!vars) /\ (calm' => OpenedByLogin)]_accountVars
  BY CalmInductive, SessionsSimulation DEF CalmStep, CalmInv
<1>q. QED BY <1>1, CalmInit, PTL DEF AccountsSpec, SessionsAreOpenedByLogin

-----------------------------------------------------------------------------
(* Communications                                                          *)

MessageSteps == {"insertMessage", "dispatch", "succeeded", "failed"}
CommunicationSteps == {"idle", "insertMessageTemplate"} \cup MessageSteps
CommunicationRows == Message \cup MessageTemplate \cup {Null}
CommunicationValues == Channel \cup Kind \cup {Null} \cup {k[2] : k \in Kind \cup {Null}}

CommunicationHandlers ==
  req \in HandlersOf(CommunicationSteps, CommunicationRows, CommunicationValues)

CommunicationTypes ==
  /\ CommunicationHandlers
  /\ message \in [Message -> {"NONE", "QUEUED", "SENT", "FAILED"}]
  /\ messageTemplate \in [MessageTemplate -> [kind : Kind \cup {Null}, isDefault : BOOLEAN]]
  /\ \A r \in Request : At(r, "insertMessageTemplate") => req[r].seen \in Kind

\* Handler r works on message m.
OnMessage(r, m) == req[r].at \in MessageSteps /\ req[r].on = m

\* What a handler knows of its message: before the provider is asked, and after.
KnowsMessage(r) ==
  LET m == req[r].on
  IN  /\ req[r].at \in MessageSteps => m \in Message
      /\ At(r, "insertMessage") => message[m] = "NONE"
      /\ At(r, "dispatch") => message[m] = "QUEUED" /\ m \notin delivered
      /\ At(r, "succeeded") => message[m] = "QUEUED" /\ m \in delivered
      /\ At(r, "failed") =>
           message[m] = "QUEUED" /\ (m \notin delivered \/ m \in unanswered)

\* No message has two handlers, a message that is QUEUED has one that is past the insert, and
\* one that is not inserted has reached nobody.
DeliveryInv ==
  /\ CommunicationTypes
  /\ \A r \in Request : KnowsMessage(r)
  /\ \A r, q \in Request, m \in Message : OnMessage(r, m) /\ OnMessage(q, m) => r = q
  /\ \A m \in Message : message[m] = "QUEUED" =>
       (\E r \in Request : OnMessage(r, m) /\ ~At(r, "insertMessage")) \/ ~unbroken
  /\ \A m \in Message : message[m] = "NONE" => m \notin delivered
  /\ StatusTellsDelivery

\* At first no message is stored.
LEMMA DeliveryInit ==
  ASSUME HandlersInit, CommunicationsInit
  PROVE  DeliveryInv
<1>1. /\ Idle \in [at : CommunicationSteps, on : CommunicationRows, seen : CommunicationValues]
      /\ Idle.at = "idle"
  BY DEF Idle, CommunicationSteps, CommunicationRows, CommunicationValues
<1>2. \A r \in Request : req[r] = Idle /\ req[r].at = "idle"
  BY <1>1 DEF HandlersInit
<1>3. CommunicationHandlers
  BY <1>1 DEF HandlersInit, CommunicationHandlers, HandlersOf
<1>4. NoMessageTemplate \in [kind : Kind \cup {Null}, isDefault : BOOLEAN]
  BY DEF NoMessageTemplate
<1>5. CommunicationTypes
  BY <1>2, <1>3, <1>4 DEF CommunicationsInit, CommunicationTypes, At
<1>q. QED
  BY <1>2, <1>5 DEF CommunicationsInit, DeliveryInv, KnowsMessage, OnMessage, MessageSteps,
                    StatusTellsDelivery, At


\* What is stored and known of a message.
MessageIsTold(m) ==
  /\ message[m] = "QUEUED" =>
       (\E r \in Request : OnMessage(r, m) /\ ~At(r, "insertMessage")) \/ ~unbroken
  /\ message[m] = "NONE" => m \notin delivered
  /\ message[m] = "SENT" => m \in delivered
  /\ message[m] = "FAILED" => m \notin delivered \/ m \in unanswered

\* A step of handler r that is about message m and no other.
LEMMA OneMessageMoves ==
  ASSUME DeliveryInv, CommunicationTypes', NEW r \in Request, NEW m,
         NEW step, NEW on, NEW seen, Moved(r, step, on, seen),
         unbroken' => unbroken,
         \A x \in Message \ {m} : /\ message'[x] = message[x]
                                  /\ x \in delivered' <=> x \in delivered
                                  /\ x \in unanswered' <=> x \in unanswered,
         req[r].at \in MessageSteps => req[r].on = m,
         step \in MessageSteps => on = m,
         \A q \in Request : OnMessage(q, m) => q = r,
         KnowsMessage(r)',
         m \in Message => MessageIsTold(m)'
  PROVE  DeliveryInv'
<1>1. \A q \in Request \ {r} : req'[q] = req[q] /\ ~OnMessage(q, m)
  BY DEF Moved
<1>2. \A q \in Request : KnowsMessage(q)'
  BY <1>1 DEF DeliveryInv, KnowsMessage, At, OnMessage, MessageSteps
<1>3. \A p, q \in Request, x \in Message : OnMessage(p, x)' /\ OnMessage(q, x)' => p = q
  BY <1>1 DEF DeliveryInv, OnMessage, Moved
<1>4. \A x \in Message : MessageIsTold(x)'
  <2>1. ASSUME NEW x \in Message, x # m
        PROVE  MessageIsTold(x)'
    <3>1. MessageIsTold(x)
      BY DEF DeliveryInv, MessageIsTold, StatusTellsDelivery
    <3>2. \A q \in Request : OnMessage(q, x) => q # r /\ req'[q] = req[q]
      BY <1>1, <2>1 DEF OnMessage
    <3>3. \A q \in Request : OnMessage(q, x) /\ ~At(q, "insertMessage") =>
                             OnMessage(q, x)' /\ ~At(q, "insertMessage")'
      BY <3>2 DEF OnMessage, At
    <3>q. QED BY <2>1, <3>1, <3>3 DEF MessageIsTold
  <2>q. QED BY <2>1
<1>5. StatusTellsDelivery'
  BY <1>4 DEF StatusTellsDelivery, MessageIsTold, InHand, OnMessage
<1>q. QED BY <1>2, <1>3, <1>4, <1>5 DEF DeliveryInv, MessageIsTold

\* Every step of a handler keeps the invariant of the messages.
LEMMA DeliveryStep ==
  ASSUME DeliveryInv, NEW r \in Request, CommunicationRequest(r) \/ CommunicationStep(r)
  PROVE  DeliveryInv'
<1> USE CommunicationsAssumption
<1>1. /\ Null \in CommunicationRows /\ Null \in CommunicationValues /\ Null \notin Message
      /\ Channel \subseteq CommunicationValues /\ Kind \subseteq CommunicationValues
      /\ Message \subseteq CommunicationRows /\ MessageTemplate \subseteq CommunicationRows
      /\ CommunicationSteps = {"idle", "insertMessageTemplate", "insertMessage", "dispatch",
                               "succeeded", "failed"}
  BY DEF CommunicationRows, CommunicationValues, CommunicationSteps, MessageSteps
<1>2. CommunicationTypes /\ CommunicationHandlers /\ KnowsMessage(r)
      /\ req[r].seen \in CommunicationValues
  BY DEF DeliveryInv, CommunicationTypes, CommunicationHandlers, HandlersOf
<1>3. \A m \in Message : MessageIsTold(m)
  BY DEF DeliveryInv, MessageIsTold, StatusTellsDelivery
\* A message that nobody works on is not in the hands of a handler.
<1>4. ASSUME NEW m \in Message, NEW channel \in Channel, SendMessage(r, m, channel)
      PROVE  DeliveryInv'
  <2>1. /\ Start(r, "dispatch", m, channel) /\ message[m] = "NONE"
        /\ \A q \in Request : req[q].on # m
        /\ message' = [message EXCEPT ![m] = "QUEUED"]
        /\ UNCHANGED <<messageTemplate, delivered, unanswered, unbroken>>
    BY <1>4 DEF SendMessage, Start, Unused
  <2>2. CommunicationHandlers' /\ Moved(r, "dispatch", m, channel) /\ req[r] = Idle
    BY <1>1, <1>2, <2>1, HandlerMoves DEF CommunicationHandlers
  <2>3. CommunicationTypes'
    BY <1>2, <2>1, <2>2 DEF CommunicationTypes, Moved, At
  <2>4. KnowsMessage(r)' /\ MessageIsTold(m)'
    BY <1>2, <1>3, <2>1, <2>2
       DEF KnowsMessage, MessageIsTold, Moved, At, MessageSteps, OnMessage, CommunicationTypes
  <2>5. req[r].at \notin MessageSteps
    BY <2>2 DEF Idle, MessageSteps
  <2>6. \A x \in Message \ {m} : message'[x] = message[x]
    BY <1>2, <2>1 DEF CommunicationTypes
  <2>q. QED BY <2>1, <2>2, <2>3, <2>4, <2>5, <2>6, OneMessageMoves DEF OnMessage
<1>5. ASSUME NEW t \in MessageTemplate, NEW m \in Message, SendWithTemplate(r, t, m)
      PROVE  DeliveryInv'
  <2> DEFINE channel == messageTemplate[t].kind[2]
  <2>1. channel \in CommunicationValues
    BY <1>2 DEF CommunicationTypes, CommunicationValues
  <2> HIDE DEF channel
  <2>2. /\ Start(r, "insertMessage", m, channel) /\ message[m] = "NONE"
        /\ \A q \in Request : req[q].on # m
        /\ UNCHANGED <<message, messageTemplate, delivered, unanswered, unbroken>>
    BY <1>5 DEF SendWithTemplate, Start, Unused, communicationVars, channel
  <2>3. CommunicationHandlers' /\ Moved(r, "insertMessage", m, channel) /\ req[r] = Idle
    BY <1>1, <1>2, <2>1, <2>2, HandlerMoves DEF CommunicationHandlers
  <2>4. CommunicationTypes'
    BY <1>2, <2>2, <2>3 DEF CommunicationTypes, Moved, At
  <2>5. KnowsMessage(r)' /\ MessageIsTold(m)'
    BY <1>2, <1>3, <2>2, <2>3
       DEF KnowsMessage, MessageIsTold, Moved, At, MessageSteps, OnMessage, CommunicationTypes
  <2>6. req[r].at \notin MessageSteps
    BY <2>3 DEF Idle, MessageSteps
  <2>q. QED BY <2>2, <2>3, <2>4, <2>5, <2>6, OneMessageMoves DEF OnMessage
\* A handler that works on a message is alone with it.
<1>6. ASSUME NEW m \in Message, OnMessage(r, m)
      PROVE  \A q \in Request : OnMessage(q, m) => q = r
  BY <1>6 DEF DeliveryInv
<1>7. CASE InsertMessage(r)
  <2>0. PICK m \in Message : m = req[r].on
    BY <1>2, <1>7 DEF InsertMessage, KnowsMessage, At, MessageSteps
  <2>1. /\ At(r, "insertMessage") /\ Proceed(r, "dispatch", req[r].seen)
        /\ message' = [message EXCEPT ![m] = "QUEUED"]
        /\ UNCHANGED <<messageTemplate, delivered, unanswered, unbroken>>
    BY <1>7, <2>0 DEF InsertMessage, Proceed
  <2>2. m \in Message /\ message[m] = "NONE" /\ OnMessage(r, m)
    BY <1>2, <2>0, <2>1 DEF KnowsMessage, At, MessageSteps, OnMessage
  <2>3. CommunicationHandlers' /\ Moved(r, "dispatch", m, req[r].seen)
    BY <1>1, <1>2, <2>0, <2>1, HandlerMoves DEF CommunicationHandlers
  <2>4. CommunicationTypes'
    BY <1>2, <2>0, <2>1, <2>2, <2>3 DEF CommunicationTypes, Moved, At
  <2>5. KnowsMessage(r)' /\ MessageIsTold(m)'
    BY <1>2, <1>3, <2>0, <2>1, <2>2, <2>3
       DEF KnowsMessage, MessageIsTold, Moved, At, MessageSteps, OnMessage, CommunicationTypes
  <2>6. \A x \in Message \ {m} : message'[x] = message[x]
    BY <1>2, <2>0, <2>1 DEF CommunicationTypes
  <2>7. \A q \in Request : OnMessage(q, m) => q = r
    BY <1>6, <2>0, <2>2
  <2>8. unbroken' => unbroken
    BY <2>0, <2>1
  <2>9. req[r].at \in MessageSteps => req[r].on = m
    BY <2>0, <2>2 DEF OnMessage
  <2>q. QED BY <2>0, <2>1, <2>3, <2>4, <2>5, <2>6, <2>7, <2>8, <2>9, OneMessageMoves
<1>8. CASE NoProvider(r) \/ ProviderRefuses(r) \/ AnswerLost(r) \/ ProviderTakes(r)
  <2>0. PICK m \in Message : m = req[r].on
    BY <1>2, <1>8
       DEF NoProvider, ProviderRefuses, AnswerLost, ProviderTakes, KnowsMessage, At, MessageSteps
  <2>1. /\ At(r, "dispatch") /\ \E next \in {"succeeded", "failed"} : Proceed(r, next, Null)
        /\ UNCHANGED <<message, messageTemplate, unbroken>>
    BY <1>8 DEF NoProvider, ProviderRefuses, AnswerLost, ProviderTakes, Proceed,
                communicationVars
  <2>2. PICK next \in {"succeeded", "failed"} : Proceed(r, next, Null) /\ UNCHANGED message
        /\ (next = "succeeded" => delivered' = delivered \cup {m} /\ unanswered' = unanswered)
        /\ (next = "failed" => \/ delivered' = delivered /\ unanswered' = unanswered
                               \/ /\ delivered' = delivered \cup {m}
                                  /\ unanswered' = unanswered \cup {m})
    BY <1>8, <2>0 DEF NoProvider, ProviderRefuses, AnswerLost, ProviderTakes, communicationVars
  <2>3. /\ m \in Message /\ message[m] = "QUEUED" /\ m \notin delivered /\ OnMessage(r, m)
    BY <1>2, <2>0, <2>1 DEF KnowsMessage, At, MessageSteps, OnMessage
  <2>4. CommunicationHandlers' /\ Moved(r, next, m, Null)
    BY <1>1, <1>2, <2>0, <2>2, HandlerMoves DEF CommunicationHandlers
  <2>5. CommunicationTypes'
    BY <1>2, <2>0, <2>1, <2>3, <2>4 DEF CommunicationTypes, Moved, At
  <2>6. KnowsMessage(r)' /\ MessageIsTold(m)'
    BY <1>2, <1>3, <2>0, <2>1, <2>2, <2>3, <2>4
       DEF KnowsMessage, MessageIsTold, Moved, At, MessageSteps, OnMessage, CommunicationTypes
  <2>7. \A x \in Message \ {m} : /\ message'[x] = message[x]
                                 /\ x \in delivered' <=> x \in delivered
                                 /\ x \in unanswered' <=> x \in unanswered
    BY <2>0, <2>2
  <2>8. \A q \in Request : OnMessage(q, m) => q = r
    BY <1>6, <2>0, <2>3
  <2>9. req[r].at \in MessageSteps => req[r].on = m
    BY <2>0, <2>3 DEF OnMessage
  <2>q. QED BY <2>0, <2>1, <2>4, <2>5, <2>6, <2>7, <2>8, <2>9, OneMessageMoves
<1>9. CASE RecordResult(r)
  <2>0. PICK m \in Message : m = req[r].on
    BY <1>2, <1>9 DEF RecordResult, KnowsMessage, At, MessageSteps
  <2>1. /\ At(r, "succeeded") \/ At(r, "failed")
        /\ Finish(r)
        /\ message' = [message EXCEPT ![m] = IF At(r, "succeeded") THEN "SENT" ELSE "FAILED"]
        /\ UNCHANGED <<messageTemplate, delivered, unanswered, unbroken>>
    BY <1>9, <2>0 DEF RecordResult, Finish
  <2>2. /\ m \in Message /\ OnMessage(r, m)
        /\ At(r, "succeeded") => m \in delivered
        /\ At(r, "failed") => m \notin delivered \/ m \in unanswered
    BY <1>2, <2>0, <2>1 DEF KnowsMessage, At, MessageSteps, OnMessage
  <2>3. CommunicationHandlers' /\ Moved(r, "idle", Null, Null)
    BY <1>1, <1>2, <2>0, <2>1, HandlerMoves DEF CommunicationHandlers
  <2>4. CommunicationTypes'
    BY <1>2, <2>0, <2>1, <2>2, <2>3 DEF CommunicationTypes, Moved, At
  <2>5. KnowsMessage(r)' /\ MessageIsTold(m)'
    <3>1. message'[m] = IF At(r, "succeeded") THEN "SENT" ELSE "FAILED"
      BY <1>2, <2>0, <2>1, <2>2 DEF CommunicationTypes
    <3>2. MessageIsTold(m)'
      BY <2>0, <2>1, <2>2, <3>1 DEF MessageIsTold
    <3>3. KnowsMessage(r)'
      BY <2>0, <2>3 DEF KnowsMessage, Moved, At, MessageSteps
    <3>q. QED BY <3>2, <3>3
  <2>6. \A x \in Message \ {m} : message'[x] = message[x]
    BY <1>2, <2>0, <2>1 DEF CommunicationTypes
  <2>7. "idle" \notin MessageSteps
    BY DEF MessageSteps
  <2>8. \A q \in Request : OnMessage(q, m) => q = r
    BY <1>6, <2>0, <2>2
  <2>9. req[r].at \in MessageSteps => req[r].on = m
    BY <2>0, <2>2 DEF OnMessage
  <2>q. QED BY <2>0, <2>1, <2>3, <2>4, <2>5, <2>6, <2>7, <2>8, <2>9, OneMessageMoves
\* A handler that dies leaves its message as it is.
<1>10. CASE Fail(r) /\ UNCHANGED communicationVars
  <2>1. Break(r) /\ ~unbroken' /\ UNCHANGED <<message, messageTemplate, delivered, unanswered>>
    BY <1>10 DEF Fail, Break, communicationVars
  <2>2. CommunicationHandlers' /\ Moved(r, "idle", Null, Null)
    BY <1>1, <1>2, <2>1, HandlerMoves DEF CommunicationHandlers
  <2>3. CommunicationTypes'
    BY <1>2, <2>1, <2>2 DEF CommunicationTypes, Moved, At
  <2>4. KnowsMessage(r)' /\ \A m \in Message : MessageIsTold(m)'
    BY <1>2, <1>3, <2>1, <2>2 DEF KnowsMessage, MessageIsTold, Moved, At, MessageSteps
  <2>5. "idle" \notin MessageSteps
    BY DEF MessageSteps
  <2>6. CASE req[r].at \in MessageSteps
    <3>1. req[r].on \in Message /\ OnMessage(r, req[r].on)
      BY <1>2, <2>6 DEF KnowsMessage, OnMessage
    <3>q. QED BY <1>6, <2>1, <2>2, <2>3, <2>4, <2>5, <3>1, OneMessageMoves
  <2>7. CASE req[r].at \notin MessageSteps
    <3>1. \A q \in Request : ~OnMessage(q, Null)
      BY <1>1 DEF DeliveryInv, KnowsMessage, OnMessage
    <3>q. QED BY <1>1, <2>1, <2>2, <2>3, <2>4, <2>5, <2>7, <3>1, OneMessageMoves
  <2>q. QED BY <2>6, <2>7
\* The templates of messages do not touch a message.
<1>11. ASSUME UNCHANGED <<message, delivered, unanswered, unbroken>>, CommunicationTypes',
              NEW step, NEW on, NEW seen, Moved(r, step, on, seen),
              step \notin MessageSteps, req[r].at \notin MessageSteps
       PROVE  DeliveryInv'
  <2>1. \A q \in Request : ~OnMessage(q, Null)
    BY <1>1 DEF DeliveryInv, KnowsMessage, OnMessage
  <2>2. KnowsMessage(r)'
    BY <1>11 DEF KnowsMessage, Moved, At, MessageSteps
  <2>q. QED BY <1>1, <1>11, <2>1, <2>2, OneMessageMoves
<1>12. ASSUME NEW t \in MessageTemplate, NEW kind \in Kind, CreateDefaultMessageTemplate(r, t, kind)
       PROVE  DeliveryInv'
  <2>1. /\ Start(r, "insertMessageTemplate", t, kind)
        /\ messageTemplate' \in [MessageTemplate -> [kind : Kind \cup {Null}, isDefault : BOOLEAN]]
        /\ UNCHANGED <<message, delivered, unanswered, unbroken>>
    BY <1>2, <1>12 DEF CreateDefaultMessageTemplate, Start, CommunicationTypes
  <2>2. CommunicationHandlers' /\ Moved(r, "insertMessageTemplate", t, kind) /\ req[r] = Idle
    BY <1>1, <1>2, <2>1, HandlerMoves DEF CommunicationHandlers
  <2>3. CommunicationTypes'
    BY <1>2, <2>1, <2>2 DEF CommunicationTypes, Moved, At
  <2>4. req[r].at \notin MessageSteps /\ "insertMessageTemplate" \notin MessageSteps
    BY <2>2 DEF Idle, MessageSteps
  <2>q. QED BY <1>11, <2>1, <2>2, <2>3, <2>4
<1>13. CASE InsertMessageTemplate(r)
  <2>1. /\ At(r, "insertMessageTemplate") /\ Finish(r) /\ req[r].seen \in Kind
        /\ messageTemplate' = [messageTemplate EXCEPT
                                 ![req[r].on] = [kind |-> req[r].seen, isDefault |-> TRUE]]
        /\ UNCHANGED <<message, delivered, unanswered, unbroken>>
    BY <1>2, <1>13 DEF InsertMessageTemplate, Finish, CommunicationTypes
  <2>2. messageTemplate' \in [MessageTemplate -> [kind : Kind \cup {Null}, isDefault : BOOLEAN]]
    BY <1>2, <2>1 DEF CommunicationTypes
  <2>3. CommunicationHandlers' /\ Moved(r, "idle", Null, Null)
    BY <1>1, <1>2, <2>1, HandlerMoves DEF CommunicationHandlers
  <2>4. CommunicationTypes'
    BY <1>2, <2>1, <2>2, <2>3 DEF CommunicationTypes, Moved, At
  <2>5. req[r].at \notin MessageSteps /\ "idle" \notin MessageSteps
    BY <2>1 DEF MessageSteps, At
  <2>q. QED BY <1>11, <2>1, <2>3, <2>4, <2>5
<1>q. QED
  BY <1>4, <1>5, <1>7, <1>8, <1>9, <1>10, <1>12, <1>13
     DEF CommunicationRequest, CommunicationStep

\* Whatever overlaps, a SENT message has reached its provider, a FAILED one has not unless the
\* answer was lost, and a QUEUED one is in the hands of a handler unless one has died
\* (CommunicationsService.send around EmailService and WhatsAppService).
THEOREM StatusAlwaysTellsDelivery == CommunicationsSpec => []StatusTellsDelivery
<1>1. HandlersInit /\ CommunicationsInit => DeliveryInv
  BY DeliveryInit
<1>2. DeliveryInv /\ [CommunicationsNext]_<<handlers, communicationVars>> => DeliveryInv'
  <2> SUFFICES ASSUME DeliveryInv, [CommunicationsNext]_<<handlers, communicationVars>>
               PROVE  DeliveryInv'
    OBVIOUS
  <2>1. ASSUME NEW r \in Request, CommunicationRequest(r) \/ CommunicationStep(r)
        PROVE  DeliveryInv'
    BY <2>1, DeliveryStep
  <2>2. ASSUME UNCHANGED <<req, unbroken, message, delivered, unanswered>>, CommunicationTypes'
        PROVE  DeliveryInv'
    BY <2>2 DEF DeliveryInv, KnowsMessage, OnMessage, StatusTellsDelivery, InHand, At
  <2>3. ASSUME NEW t \in MessageTemplate, NEW kind \in Kind, CreateMessageTemplate(t, kind)
        PROVE  DeliveryInv'
    <3>1. UNCHANGED <<req, unbroken, message, delivered, unanswered>>
      BY <2>3 DEF CreateMessageTemplate, AtOnce
    <3>2. messageTemplate' \in [MessageTemplate -> [kind : Kind \cup {Null}, isDefault : BOOLEAN]]
      BY <2>3 DEF CreateMessageTemplate, DeliveryInv, CommunicationTypes
    <3>3. CommunicationTypes'
      BY <3>1, <3>2 DEF DeliveryInv, CommunicationTypes, CommunicationHandlers, At
    <3>q. QED BY <2>2, <3>1, <3>3
  <2>4. ASSUME VerifyFails \/ UNCHANGED <<handlers, communicationVars>>
        PROVE  DeliveryInv'
    <3>1. UNCHANGED <<req, unbroken, message, messageTemplate, delivered, unanswered>>
      BY <2>4 DEF VerifyFails, handlers, communicationVars
    <3>2. CommunicationTypes'
      BY <3>1 DEF DeliveryInv, CommunicationTypes, CommunicationHandlers, At
    <3>q. QED BY <2>2, <3>1, <3>2
  <2>q. QED BY <2>1, <2>3, <2>4 DEF CommunicationsNext
<1>3. DeliveryInv => StatusTellsDelivery
  BY DEF DeliveryInv
<1>q. QED BY <1>1, <1>2, <1>3, PTL DEF CommunicationsSpec

-----------------------------------------------------------------------------
(* Documents                                                               *)

\* The handlers, whatever they carry; one that has no next step carries nothing.
Shaped(W, S) ==
  /\ \E V : Null \in V /\ req \in HandlersOf(W, S, V)
  /\ \A r \in Request : At(r, "idle") => req[r] = Idle

\* The steps of Handlers, whatever they carry.
LEMMA ShapedMoves ==
  ASSUME NEW W, NEW S, "idle" \in W, Null \in S, Shaped(W, S), Solo, NEW r \in Request
  PROVE  /\ req[r].at \in W /\ req[r].on \in S
         /\ \A step \in W \ {"idle"}, on \in S : \A seen :
              Start(r, step, on, seen) =>
                Shaped(W, S)' /\ HandlerStep(r, step, on, seen) /\ At(r, "idle")
         /\ ~At(r, "idle") => \A step \in W \ {"idle"} : \A seen :
              Proceed(r, step, seen) => Shaped(W, S)' /\ HandlerStep(r, step, req[r].on, seen)
         /\ ~At(r, "idle") /\ (Finish(r) \/ Break(r)) =>
              Shaped(W, S)' /\ HandlerStep(r, "idle", Null, Null)
<1>1. PICK V : Null \in V /\ req \in HandlersOf(W, S, V)
  BY DEF Shaped
<1>0. \A q \in Request : At(q, "idle") => req[q] = Idle
  BY DEF Shaped
<1>2. ASSUME NEW step \in W \ {"idle"}, NEW on \in S, NEW seen, Start(r, step, on, seen)
      PROVE  Shaped(W, S)' /\ HandlerStep(r, step, on, seen) /\ At(r, "idle")
  <2>1. req \in HandlersOf(W, S, V \cup {seen})
    BY <1>1 DEF HandlersOf
  <2>2. HandlerStep(r, step, on, seen)
    BY <1>1, <1>2, <2>1, OneHandler
  <2>3. req' \in HandlersOf(W, S, V \cup {seen}) /\ At(r, "idle")
    BY <1>1, <1>2, <2>1, HandlerMoves DEF At, Idle
  <2>4. \A q \in Request : At(q, "idle")' => req'[q] = Idle
    BY <2>2 DEF HandlerStep, Moved, At, Shaped
  <2>q. QED BY <1>1, <2>2, <2>3, <2>4 DEF Shaped
<1>3. ASSUME NEW step \in W \ {"idle"}, NEW seen, ~At(r, "idle"), Proceed(r, step, seen)
      PROVE  Shaped(W, S)' /\ HandlerStep(r, step, req[r].on, seen)
  <2>1. req \in HandlersOf(W, S, V \cup {seen})
    BY <1>1 DEF HandlersOf
  <2>2. HandlerStep(r, step, req[r].on, seen)
    BY <1>1, <1>3, <2>1, OneHandler
  <2>3. req' \in HandlersOf(W, S, V \cup {seen})
    BY <1>1, <1>3, <2>1, HandlerMoves
  <2>4. \A q \in Request : At(q, "idle")' => req'[q] = Idle
    BY <2>2 DEF HandlerStep, Moved, At, Shaped
  <2>q. QED BY <1>1, <2>2, <2>3, <2>4 DEF Shaped
<1>4. ASSUME ~At(r, "idle"), Finish(r) \/ Break(r)
      PROVE  Shaped(W, S)' /\ HandlerStep(r, "idle", Null, Null)
  <2>1. HandlerStep(r, "idle", Null, Null)
    BY <1>1, <1>4, OneHandler
  <2>2. req' \in HandlersOf(W, S, V) /\ req'[r] = Idle
    BY <1>1, <1>4, HandlerMoves
  <2>3. \A q \in Request : At(q, "idle")' => req'[q] = Idle
    BY <2>1, <2>2 DEF HandlerStep, Moved, At, Shaped
  <2>q. QED BY <1>1, <2>1, <2>2, <2>3 DEF Shaped
<1>5. req[r].at \in W /\ req[r].on \in S
  BY <1>1 DEF HandlersOf
<1>q. QED BY <1>2, <1>3, <1>4, <1>5

DocumentSteps == {"idle", "writeDocument", "deleteDocument", "writeStatuses", "clearDefaults",
                  "insertTemplate", "readType", "clearOthers", "writeTemplate", "deactivate"}
DocumentRows == Document \cup Template \cup {Null}
DocumentHandlers == Shaped(DocumentSteps, DocumentRows) /\ Solo

\* computeStatus on another day.
StatusOn(day, expiry) ==
  IF expiry = Null THEN "UNKNOWN"
  ELSE IF expiry < day THEN "EXPIRED"
  ELSE IF expiry - day <= Soon THEN "EXPIRING_SOON" ELSE "VALID"

DocumentRow ==
  [status : {"NONE", "REMOVED", "UNKNOWN", "EXPIRED", "EXPIRING_SOON", "VALID"},
   expiry : Day \cup {Null}]

Expiring == {d \in Document : Stored(d) /\ document[d].expiry # Null}

\* What a handler carries: a day, or what the statuses were on an earlier day.
CarriesDocument(r) ==
  LET seen == req[r].seen
  IN  /\ At(r, "writeDocument") => req[r].on \in Document /\ seen \in Day \cup {Null}
      /\ At(r, "writeStatuses") =>
           /\ seen.day \in Day /\ seen.day <= today
           /\ seen.status = [d \in Expiring |-> StatusOn(seen.day, document[d].expiry)]

Told(d) ==
  LET now == StatusOn(today, document[d].expiry)
  IN  /\ (document[d].status = "UNKNOWN") <=> (document[d].expiry = Null)
      /\ Severity[document[d].status] <= Severity[now]
      /\ d \in fresh => document[d].status = now

DocumentsAreTold ==
  /\ today \in Day
  /\ document \in [Document -> DocumentRow]
  /\ \A d \in Document : Stored(d) => Told(d)

ExpiryInv ==
  /\ DocumentHandlers
  /\ alone => DocumentsAreTold /\ \A r \in Request : CarriesDocument(r)

\* A status gets worse with the days, and is UNKNOWN without an expiry.
LEMMA StatusAges ==
  ASSUME NEW day \in Day, NEW later \in Day, day <= later, NEW expiry \in Day \cup {Null}
  PROVE  /\ Severity[StatusOn(day, expiry)] <= Severity[StatusOn(later, expiry)]
         /\ StatusOn(day, expiry) \in {"UNKNOWN", "EXPIRED", "EXPIRING_SOON", "VALID"}
         /\ (StatusOn(day, expiry) = "UNKNOWN") <=> (expiry = Null)
<1>1. Day \subseteq Nat /\ Soon \in Nat
  BY DocumentsAssumption DEF Day
<1>2. CASE expiry = Null
  BY <1>2 DEF StatusOn, Severity
<1>3. CASE expiry # Null
  <2>1. expiry \in Nat /\ day \in Nat /\ later \in Nat
    BY <1>1, <1>3
  <2>2. /\ StatusOn(day, expiry) \in {"EXPIRED", "EXPIRING_SOON", "VALID"}
        /\ StatusOn(later, expiry) \in {"EXPIRED", "EXPIRING_SOON", "VALID"}
    BY <1>3 DEF StatusOn
  <2>3. /\ StatusOn(day, expiry) = "EXPIRED" => StatusOn(later, expiry) = "EXPIRED"
        /\ StatusOn(later, expiry) = "VALID" => StatusOn(day, expiry) = "VALID"
    BY <1>1, <1>3, <2>1 DEF StatusOn
  <2>q. QED BY <1>3, <2>2, <2>3 DEF Severity
<1>q. QED BY <1>2, <1>3

\* A step of handler r that leaves the statuses true.
LEMMA DocumentStepKeeps ==
  ASSUME ExpiryInv, NEW r \in Request, NEW step, NEW on, NEW seen,
         HandlerStep(r, step, on, seen), Shaped(DocumentSteps, DocumentRows)',
         alone' => DocumentsAreTold' /\ CarriesDocument(r)'
  PROVE  ExpiryInv'
<1>1. Solo'
  BY DEF HandlerStep, Solo, At
<1>2. ASSUME alone', NEW q \in Request, q # r
      PROVE  CarriesDocument(q)'
  <2>1. At(q, "idle")'
    BY <1>2 DEF HandlerStep
  <2>q. QED BY <2>1 DEF CarriesDocument, At
<1>q. QED BY <1>1, <1>2 DEF ExpiryInv, DocumentHandlers

\* A step that touches no document.
LEMMA NoDocumentTouched ==
  ASSUME ExpiryInv, NEW r \in Request, UNCHANGED <<document, today, fresh>>, alone' => alone
  PROVE  alone' => DocumentsAreTold'
BY DEF ExpiryInv, DocumentsAreTold, Told, Stored

\* The templates, and what ends or starts without a document, leave the statuses true.
LEMMA OtherDocumentSteps ==
  ASSUME ExpiryInv, NEW r \in Request, UNCHANGED <<document, today, fresh>>,
         NEW step \in DocumentSteps \ {"idle", "writeDocument", "writeStatuses"},
         \/ \E on \in DocumentRows : \E seen : Start(r, step, on, seen)
         \/ ~At(r, "idle") /\ \E seen : Proceed(r, step, seen)
         \/ ~At(r, "idle") /\ (Finish(r) \/ Break(r))
  PROVE  ExpiryInv'
<1>1. "idle" \in DocumentSteps /\ Null \in DocumentRows
  BY DEF DocumentSteps, DocumentRows
<1>2. \E on, seen : /\ HandlerStep(r, step, on, seen) \/ HandlerStep(r, "idle", on, seen)
                    /\ Shaped(DocumentSteps, DocumentRows)'
  BY <1>1, ShapedMoves DEF ExpiryInv, DocumentHandlers
<1>3. PICK on, seen : /\ HandlerStep(r, step, on, seen) \/ HandlerStep(r, "idle", on, seen)
                      /\ Shaped(DocumentSteps, DocumentRows)'
  BY <1>2
<1>4. CarriesDocument(r)' /\ (alone' => alone)
  BY <1>3 DEF HandlerStep, Moved, CarriesDocument, At
<1>q. QED BY <1>3, <1>4, NoDocumentTouched, DocumentStepKeeps

\* A request for documents reads, or ages nothing it should not.
LEMMA DocumentRequestKeeps ==
  ASSUME ExpiryInv, NEW r \in Request, DocumentRequest(r)
  PROVE  ExpiryInv'
<1>1. /\ "idle" \in DocumentSteps /\ Null \in DocumentRows
      /\ {"writeDocument", "writeStatuses"} \subseteq DocumentSteps \ {"idle"}
      /\ "deleteDocument" \in DocumentSteps \ {"idle", "writeDocument", "writeStatuses"}
      /\ Document \subseteq DocumentRows
      /\ Shaped(DocumentSteps, DocumentRows) /\ Solo
  BY DEF DocumentSteps, DocumentRows, ExpiryInv, DocumentHandlers
<1>2. ASSUME NEW d \in Document, NEW expiry \in Day \cup {Null}, UpdateDocument(r, d, expiry)
      PROVE  ExpiryInv'
  <2>1. Start(r, "writeDocument", d, expiry) /\ UNCHANGED <<document, today, fresh>>
    BY <1>2 DEF UpdateDocument, documentVars, documentTables, documentHistory
  <2>2. HandlerStep(r, "writeDocument", d, expiry) /\ Shaped(DocumentSteps, DocumentRows)'
    BY <1>1, <2>1, ShapedMoves
  <2>3. CarriesDocument(r)' /\ (alone' => alone)
    BY <2>2 DEF HandlerStep, Moved, CarriesDocument, At
  <2>q. QED BY <2>1, <2>2, <2>3, NoDocumentTouched, DocumentStepKeeps
<1>3. ASSUME NEW d \in Document, RemoveDocument(r, d)
      PROVE  ExpiryInv'
  <2>1. Start(r, "deleteDocument", d, Null) /\ UNCHANGED <<document, today, fresh>>
    BY <1>3 DEF RemoveDocument, documentVars, documentTables, documentHistory
  <2>q. QED BY <1>1, <2>1, OtherDocumentSteps
<1>4. CASE RefreshStatuses(r)
  <2>1. PICK day : day = today
    OBVIOUS
  <2>2. PICK status : status = [d \in Expiring |-> StatusOn(day, document[d].expiry)]
    OBVIOUS
  <2>3. /\ Start(r, "writeStatuses", Null, [day |-> day, status |-> status])
        /\ UNCHANGED <<document, today, fresh>>
    BY <1>4, <2>1, <2>2
       DEF RefreshStatuses, documentVars, documentTables, documentHistory, Expiring,
           computeStatus, StatusOn
  <2>4. /\ HandlerStep(r, "writeStatuses", Null, [day |-> day, status |-> status])
        /\ Shaped(DocumentSteps, DocumentRows)'
    BY <1>1, <2>3, ShapedMoves
  <2>5. alone' => alone /\ today \in Day
    BY <2>4 DEF HandlerStep, ExpiryInv, DocumentsAreTold
  <2>6. alone' => CarriesDocument(r)'
    <3>1. req'[r].seen = [day |-> day, status |-> status] /\ req'[r].at = "writeStatuses"
      BY <2>4 DEF HandlerStep, Moved
    <3>2. Expiring' = Expiring
      BY <2>3 DEF Expiring, Stored
    <3>3. status = [d \in Expiring' |-> StatusOn(day, document'[d].expiry)]
      BY <2>2, <2>3, <3>2, Zenon
    <3>4. alone' => day \in Day /\ day <= today'
      BY <2>1, <2>3, <2>5, DocumentsAssumption DEF Day
    <3>q. QED BY <3>1, <3>3, <3>4 DEF CarriesDocument, At
  <2>q. QED BY <2>3, <2>4, <2>5, <2>6, NoDocumentTouched, DocumentStepKeeps
<1>q. QED BY <1>2, <1>3, <1>4 DEF DocumentRequest

\* What one handler writes of the documents.
LEMMA DocumentsWritten ==
  ASSUME ExpiryInv, NEW r \in Request,
         WriteDocument(r) \/ DeleteDocument(r) \/ WriteStatuses(r)
  PROVE  ExpiryInv'
<1> USE DEF At
<1>1. /\ "idle" \in DocumentSteps /\ Null \in DocumentRows
      /\ Shaped(DocumentSteps, DocumentRows) /\ Solo
  BY DEF DocumentSteps, DocumentRows, ExpiryInv, DocumentHandlers
<1>2. ~At(r, "idle") /\ Finish(r) /\ today' = today
  BY DEF WriteDocument, DeleteDocument, WriteStatuses
<1>3. HandlerStep(r, "idle", Null, Null) /\ Shaped(DocumentSteps, DocumentRows)'
  BY <1>1, <1>2, ShapedMoves
<1>4. CarriesDocument(r)' /\ (alone' => alone)
  BY <1>3 DEF HandlerStep, Moved, CarriesDocument
<1>5. ASSUME alone
      PROVE  DocumentsAreTold'
  <2>1. /\ today \in Day /\ document \in [Document -> DocumentRow]
        /\ CarriesDocument(r)
        /\ \A d \in Document : Stored(d) => Told(d)
    BY <1>5 DEF ExpiryInv, DocumentsAreTold
  <2>2. Day \subseteq Nat
    BY DocumentsAssumption DEF Day
  <2>3. CASE WriteDocument(r)
    <3>1. PICK d, expiry : d = req[r].on /\ expiry = req[r].seen
      OBVIOUS
    <3>2. /\ d \in Document /\ expiry \in Day \cup {Null}
          /\ \/ UNCHANGED <<document, fresh>>
             \/ /\ document' = [document EXCEPT ![d] = [status |-> StatusOn(today, expiry),
                                                        expiry |-> expiry]]
                /\ fresh' = fresh \cup {d}
      BY <2>1, <2>3, <3>1 DEF WriteDocument, CarriesDocument, computeStatus, StatusOn
    <3>3. CASE UNCHANGED <<document, fresh>>
      BY <1>2, <2>1, <3>3 DEF DocumentsAreTold, Told, Stored
    <3>4. CASE /\ document' = [document EXCEPT ![d] = [status |-> StatusOn(today, expiry),
                                                       expiry |-> expiry]]
               /\ fresh' = fresh \cup {d}
      <4>1. PICK now : now = StatusOn(today, expiry)
        OBVIOUS
      <4>2. /\ now \in {"UNKNOWN", "EXPIRED", "EXPIRING_SOON", "VALID"}
            /\ (now = "UNKNOWN") <=> (expiry = Null)
            /\ Severity[now] <= Severity[now]
        BY <2>1, <2>2, <3>2, <4>1, StatusAges
      <4>3. [status |-> now, expiry |-> expiry] \in DocumentRow
        BY <3>2, <4>2 DEF DocumentRow
      <4>4. /\ document' \in [Document -> DocumentRow]
            /\ document'[d].status = now /\ document'[d].expiry = expiry
            /\ \A x \in Document \ {d} : document'[x] = document[x]
        BY <2>1, <3>2, <3>4, <4>1, <4>3
      <4>5. Told(d)'
        BY <1>2, <4>1, <4>2, <4>4 DEF Told
      <4>6. \A x \in Document \ {d} : Stored(x)' => Told(x)'
        BY <1>2, <2>1, <3>4, <4>4 DEF Told, Stored
      <4>q. QED BY <1>2, <2>1, <4>4, <4>5, <4>6 DEF DocumentsAreTold
    <3>q. QED BY <3>2, <3>3, <3>4
  <2>4. CASE DeleteDocument(r)
    <3>1. PICK d : d = req[r].on
      OBVIOUS
    <3>2. /\ document' = [document EXCEPT ![d] = [status |-> "REMOVED", expiry |-> Null]]
          /\ fresh' = fresh
      BY <2>4, <3>1 DEF DeleteDocument, documentHistory
    <3>3. [status |-> "REMOVED", expiry |-> Null] \in DocumentRow
      BY DEF DocumentRow
    <3>4. /\ document' \in [Document -> DocumentRow]
          /\ \A x \in Document : Stored(x)' => document'[x] = document[x] /\ Stored(x)
      BY <2>1, <3>2, <3>3 DEF Stored
    <3>q. QED BY <1>2, <2>1, <3>2, <3>4 DEF DocumentsAreTold, Told
  <2>5. CASE WriteStatuses(r)
    <3>1. PICK day, of : day = req[r].seen.day /\ of = req[r].seen.status
      OBVIOUS
    <3>2. /\ day \in Day /\ day <= today /\ DOMAIN of = Expiring
          /\ \A d \in Expiring : of[d] = StatusOn(day, document[d].expiry)
      BY <2>1, <2>5, <3>1 DEF WriteStatuses, CarriesDocument
    <3>3. /\ document' = [d \in Document |->
                            IF d \in Expiring
                            THEN [document[d] EXCEPT !.status = of[d]] ELSE document[d]]
          /\ fresh' = IF day = today THEN fresh \cup Expiring ELSE fresh \ Expiring
      BY <2>5, <3>1, <3>2 DEF WriteStatuses, Expiring
    <3>4. \A d \in Document : d \notin Expiring => document'[d] = document[d]
      BY <3>3
    <3>5. ASSUME NEW d \in Expiring
          PROVE  /\ document'[d] \in DocumentRow /\ document'[d].expiry = document[d].expiry
                 /\ Told(d)'
      <4>1. d \in Document /\ document[d] \in DocumentRow
            /\ document[d].expiry \in Day /\ document[d].expiry # Null
        BY <2>1 DEF Expiring, DocumentRow
      <4>2. PICK was : was = StatusOn(day, document[d].expiry)
        OBVIOUS
      <4>3. /\ was \in {"UNKNOWN", "EXPIRED", "EXPIRING_SOON", "VALID"} /\ was # "UNKNOWN"
            /\ Severity[was] <= Severity[StatusOn(today, document[d].expiry)]
        BY <2>1, <3>2, <4>1, <4>2, StatusAges
      <4>4. document'[d] = [document[d] EXCEPT !.status = was]
        BY <3>2, <3>3, <4>1, <4>2
      <4>5. document'[d] \in DocumentRow /\ document'[d].expiry = document[d].expiry
        BY <4>1, <4>3, <4>4 DEF DocumentRow
      <4>6. document'[d].status = was
        BY <4>1, <4>4 DEF DocumentRow
      <4>7. d \in fresh' => day = today
        BY <3>3
      <4>q. QED BY <1>2, <4>1, <4>2, <4>3, <4>5, <4>6, <4>7 DEF Told
    <3>6. document' \in [Document -> DocumentRow]
      BY <2>1, <3>3, <3>4, <3>5
    <3>7. \A d \in Document : Stored(d)' => Told(d)'
      <4>1. ASSUME NEW d \in Document, d \notin Expiring, Stored(d)'
            PROVE  Told(d)'
        <5>1. document'[d] = document[d] /\ (d \in fresh' => d \in fresh)
          BY <3>3, <3>4, <4>1
        <5>q. QED BY <1>2, <2>1, <4>1, <5>1 DEF Told, Stored
      <4>q. QED BY <3>5, <4>1
    <3>q. QED BY <1>2, <2>1, <3>6, <3>7 DEF DocumentsAreTold
  <2>q. QED BY <2>3, <2>4, <2>5
<1>q. QED BY <1>3, <1>4, <1>5, DocumentStepKeeps

\* The handlers of templates leave the documents alone.
LEMMA TemplatesKeepDocuments ==
  ASSUME ExpiryInv, NEW r \in Request,
         \/ TemplateRequest(r)
         \/ ClearDefaults(r) \/ InsertTemplate(r) \/ ReadType(r) \/ ClearOthers(r)
         \/ WriteTemplate(r) \/ Deactivate(r)
         \/ Fail(r) /\ UNCHANGED documentVars
  PROVE  ExpiryInv'
<1> USE DEF documentVars, documentTables, documentHistory
<1>1. DocumentSteps \ {"idle", "writeDocument", "writeStatuses"} =
        {"deleteDocument", "clearDefaults", "insertTemplate", "readType", "clearOthers",
         "writeTemplate", "deactivate"}
  BY DEF DocumentSteps
<1>2. Template \subseteq DocumentRows
  BY DEF DocumentRows
<1>3. ASSUME NEW t \in Template, NEW type \in TemplateType, NEW isDefault \in BOOLEAN,
             CreateTemplate(r, t, type, isDefault)
      PROVE  ExpiryInv'
  <2>1. /\ \E step \in {"clearDefaults", "insertTemplate"} : \E seen : Start(r, step, t, seen)
        /\ UNCHANGED <<document, today, fresh>>
    BY <1>3 DEF CreateTemplate
  <2>q. QED BY <1>1, <1>2, <2>1, OtherDocumentSteps
<1>4. ASSUME NEW t \in Template, NEW type \in TemplateType \cup {Null}, NEW isDefault,
             UpdateTemplate(r, t, type, isDefault)
      PROVE  ExpiryInv'
  <2>1. /\ \E step \in {"readType", "writeTemplate"} : \E seen : Start(r, step, t, seen)
        /\ UNCHANGED <<document, today, fresh>>
    BY <1>4 DEF UpdateTemplate
  <2>q. QED BY <1>1, <1>2, <2>1, OtherDocumentSteps
<1>5. ASSUME NEW t \in Template, RemoveTemplate(r, t)
      PROVE  ExpiryInv'
  <2>1. Start(r, "deactivate", t, Null) /\ UNCHANGED <<document, today, fresh>>
    BY <1>5 DEF RemoveTemplate
  <2>q. QED BY <1>1, <1>2, <2>1, OtherDocumentSteps
<1>6. CASE ClearDefaults(r) \/ ReadType(r) \/ ClearOthers(r)
  <2>1. /\ \E step \in {"insertTemplate", "clearOthers", "writeTemplate"} :
             \E seen : Proceed(r, step, seen)
        /\ ~At(r, "idle") /\ UNCHANGED <<document, today, fresh>>
    BY <1>6 DEF ClearDefaults, ReadType, ClearOthers, At
  <2>q. QED BY <1>1, <2>1, OtherDocumentSteps
<1>7. CASE InsertTemplate(r) \/ WriteTemplate(r) \/ Deactivate(r)
  <2>1. Finish(r) /\ ~At(r, "idle") /\ UNCHANGED <<document, today, fresh>>
    BY <1>7 DEF InsertTemplate, WriteTemplate, Deactivate, At
  <2>q. QED BY <1>1, <2>1, OtherDocumentSteps
<1>8. CASE Fail(r) /\ UNCHANGED documentVars
  <2>1. Break(r) /\ req[r] # Idle /\ UNCHANGED <<document, today, fresh>>
    BY <1>8 DEF Fail
  <2>2. ~At(r, "idle")
    BY <2>1 DEF ExpiryInv, DocumentHandlers, Shaped
  <2>q. QED BY <1>1, <2>1, <2>2, OtherDocumentSteps
<1>q. QED
  BY <1>3, <1>4, <1>5, <1>6, <1>7, <1>8 DEF TemplateRequest

\* The statuses stay true in every step of the documents.
LEMMA ExpiryInductive ==
  /\ HandlersInit /\ DocumentsInit => ExpiryInv
  /\ ExpiryInv /\ [DocumentsNext]_<<handlers, documentVars>> => ExpiryInv'
<1>1. ASSUME HandlersInit, DocumentsInit
      PROVE  ExpiryInv
  <2>1. \A r \in Request : req[r] = Idle
    BY <1>1 DEF HandlersInit
  <2>2. Idle \in [at : DocumentSteps, on : DocumentRows, seen : {Null}] /\ Idle.at = "idle"
    BY DEF Idle, DocumentSteps, DocumentRows
  <2>3. req \in HandlersOf(DocumentSteps, DocumentRows, {Null})
    BY <1>1, <2>2 DEF HandlersInit, HandlersOf
  <2>4. DocumentHandlers
    BY <2>1, <2>2, <2>3 DEF DocumentHandlers, Shaped, Solo, At
  <2>5. \A d \in Document : ~Stored(d)
    BY <1>1 DEF DocumentsInit, NoDocument, Stored
  <2>6. NoDocument \in DocumentRow
    BY DEF NoDocument, DocumentRow
  <2>7. DocumentsAreTold
    BY <1>1, <2>5, <2>6, DocumentsAssumption DEF DocumentsInit, DocumentsAreTold, Day
  <2>q. QED BY <2>1, <2>2, <2>4, <2>7 DEF ExpiryInv, CarriesDocument, At
<1>2. ASSUME ExpiryInv, [DocumentsNext]_<<handlers, documentVars>>
      PROVE  ExpiryInv'
  <2> USE <1>2
  <2>1. ASSUME NEW r \in Request, DocumentRequest(r) \/ TemplateRequest(r) \/ DocumentStep(r)
        PROVE  ExpiryInv'
    <3>1. CASE DocumentRequest(r)
      BY <3>1, DocumentRequestKeeps
    <3>2. CASE WriteDocument(r) \/ DeleteDocument(r) \/ WriteStatuses(r)
      BY <3>2, DocumentsWritten
    <3>q. QED BY <2>1, <3>1, <3>2, TemplatesKeepDocuments DEF DocumentStep
  \* An insert at once meets no handler.
  <2>2. ASSUME NEW d \in Document, NEW expiry \in Day \cup {Null}, CreateDocument(d, expiry)
        PROVE  ExpiryInv'
    <3>1. /\ req' = req /\ (alone' => alone /\ Quiet) /\ today' = today
          /\ fresh' = fresh \cup {d}
          /\ document' = [document EXCEPT ![d] = [status |-> StatusOn(today, expiry),
                                                  expiry |-> expiry]]
      BY <2>2 DEF CreateDocument, AtOnce, computeStatus, StatusOn
    <3>2. PICK now : now = StatusOn(today, expiry)
      OBVIOUS
    <3>3. ASSUME alone'
          PROVE  DocumentsAreTold'
      <4>1. /\ today \in Day /\ document \in [Document -> DocumentRow]
            /\ \A x \in Document : Stored(x) => Told(x)
        BY <3>1, <3>3 DEF ExpiryInv, DocumentsAreTold
      <4>2. /\ now \in {"UNKNOWN", "EXPIRED", "EXPIRING_SOON", "VALID"}
            /\ (now = "UNKNOWN") <=> (expiry = Null)
            /\ Severity[now] <= Severity[now]
        BY <3>2, <4>1, StatusAges, DocumentsAssumption DEF Day
      <4>3. [status |-> now, expiry |-> expiry] \in DocumentRow
        BY <2>2, <4>2 DEF DocumentRow
      <4>4. /\ document' \in [Document -> DocumentRow]
            /\ document'[d].status = now /\ document'[d].expiry = expiry
            /\ \A x \in Document \ {d} : document'[x] = document[x]
        BY <3>1, <3>2, <4>1, <4>3
      <4>5. Told(d)'
        BY <3>1, <3>2, <4>2, <4>4 DEF Told
      <4>6. \A x \in Document \ {d} : Stored(x)' => Told(x)'
        BY <3>1, <4>1, <4>4 DEF Told, Stored
      <4>q. QED BY <3>1, <4>1, <4>4, <4>5, <4>6 DEF DocumentsAreTold
    <3>4. alone' => \A r \in Request : CarriesDocument(r)'
      <4>1. \A r \in Request : req[r] = Idle => req[r].at = "idle"
        BY DEF Idle
      <4>2. ASSUME alone', NEW r \in Request
            PROVE  req'[r].at = "idle"
        BY <3>1, <4>1, <4>2 DEF Quiet
      <4>q. QED BY <4>2 DEF CarriesDocument, At
    <3>5. DocumentHandlers'
      BY <3>1 DEF ExpiryInv, DocumentHandlers, Shaped, HandlersOf, Solo, At
    <3>q. QED BY <3>3, <3>4, <3>5 DEF ExpiryInv
  \* On the next day every status may be one of an earlier day.
  <2>3. CASE DayPasses
    <3>1. /\ today < Horizon /\ today' = today + 1 /\ fresh' = {}
          /\ UNCHANGED <<req, alone, document>>
      BY <2>3 DEF DayPasses, handlers
    <3>2. DocumentHandlers'
      BY <3>1 DEF ExpiryInv, DocumentHandlers, Shaped, HandlersOf, Solo, At
    <3>3. ASSUME alone
          PROVE  DocumentsAreTold' /\ \A r \in Request : CarriesDocument(r)'
      <4>1. /\ today \in Day /\ document \in [Document -> DocumentRow]
            /\ \A d \in Document : Stored(d) => Told(d)
            /\ \A r \in Request : CarriesDocument(r)
        BY <3>3 DEF ExpiryInv, DocumentsAreTold
      <4>2. Day \subseteq Nat /\ today' \in Day /\ today <= today'
        BY <3>1, <4>1, DocumentsAssumption DEF Day
      <4>3. ASSUME NEW d \in Document, Stored(d)
            PROVE  Told(d)'
        <5>1. PICK expiry \in Day \cup {Null} : expiry = document[d].expiry
          BY <4>1 DEF DocumentRow
        <5>2. PICK old, new : old = StatusOn(today, expiry) /\ new = StatusOn(today', expiry)
          OBVIOUS
        <5>3. /\ Severity[old] <= Severity[new]
              /\ {old, new} \subseteq {"UNKNOWN", "EXPIRED", "EXPIRING_SOON", "VALID"}
          BY <4>1, <4>2, <5>2, StatusAges
        <5>4. /\ (document[d].status = "UNKNOWN") <=> (expiry = Null)
              /\ Severity[document[d].status] <= Severity[old]
              /\ document[d].status \in {"UNKNOWN", "EXPIRED", "EXPIRING_SOON", "VALID"}
          BY <4>1, <4>3, <5>1, <5>2 DEF Told, DocumentRow, Stored
        <5>5. Severity[document[d].status] <= Severity[new]
          BY <5>3, <5>4 DEF Severity
        <5>q. QED BY <3>1, <5>1, <5>2, <5>4, <5>5 DEF Told
      <4>4. \A r \in Request : CarriesDocument(r)'
        <5>1. Expiring' = Expiring
          BY <3>1 DEF Expiring, Stored
        <5>2. ASSUME NEW r \in Request
              PROVE  CarriesDocument(r)'
          <6>1. ASSUME At(r, "writeStatuses")
                PROVE  /\ req[r].seen.day \in Day /\ req[r].seen.day <= today'
                       /\ req[r].seen.status =
                            [d \in Expiring' |-> StatusOn(req[r].seen.day, document'[d].expiry)]
            <7>1. /\ req[r].seen.day \in Day /\ req[r].seen.day <= today
                  /\ req[r].seen.status =
                       [d \in Expiring |-> StatusOn(req[r].seen.day, document[d].expiry)]
              BY <4>1, <6>1 DEF CarriesDocument
            <7>2. req[r].seen.day <= today'
              BY <4>1, <4>2, <7>1
            <7>3. document' = document
              BY <3>1
            <7>q. QED BY <5>1, <7>1, <7>2, <7>3, Zenon
          <6>2. At(r, "writeDocument") => req[r].on \in Document /\ req[r].seen \in Day \cup {Null}
            BY <4>1 DEF CarriesDocument
          <6>q. QED BY <3>1, <6>1, <6>2 DEF CarriesDocument, At
        <5>q. QED BY <5>2
      <4>q. QED BY <3>1, <4>1, <4>2, <4>3, <4>4 DEF DocumentsAreTold, Stored
    <3>q. QED BY <3>1, <3>2, <3>3 DEF ExpiryInv
  <2>4. CASE UNCHANGED <<handlers, documentVars>>
    <3>1. UNCHANGED <<req, alone, document, today, fresh>>
      BY <2>4 DEF handlers, documentVars, documentTables, documentHistory
    <3>q. QED
      BY <3>1 DEF ExpiryInv, DocumentHandlers, Shaped, HandlersOf, Solo, At, DocumentsAreTold,
                  Told, Stored, CarriesDocument, Expiring
  <2>q. QED BY <2>1, <2>2, <2>3, <2>4 DEF DocumentsNext
<1>q. QED BY <1>1, <1>2

\* While requests do not overlap, no document is said to be better than its expiry allows for
\* longer than until the next refresh: what is stored is never worse than today's status
\* (ClientDocumentsService.computeStatus and refreshStatuses).
THEOREM StatusAlwaysTellsExpiry == DocumentsSpec => []StatusTellsExpiry
<1>1. ExpiryInv => StatusTellsExpiry
  BY DEF ExpiryInv, DocumentsAreTold, Told, StatusTellsExpiry, computeStatus, StatusOn
<1>q. QED BY <1>1, ExpiryInductive, PTL DEF DocumentsSpec

TemplateRow == [type : TemplateType \cup {Null}, isDefault : BOOLEAN, isActive : BOOLEAN]

\* No template but those excepted is a default of the type.
NoDefault(type, except) ==
  \A t \in Template \ except : template[t].type = type => ~template[t].isDefault

TemplateSteps == {"clearDefaults", "insertTemplate", "readType", "clearOthers", "writeTemplate",
                  "deactivate"}

\* What a handler carries of a template, and what it has seen to already.
CarriesTemplate(r) ==
  LET t == req[r].on  seen == req[r].seen
  IN  /\ req[r].at \in TemplateSteps => t \in Template
      /\ At(r, "clearDefaults") => seen.type \in TemplateType /\ seen.isDefault \in BOOLEAN
      /\ At(r, "insertTemplate") =>
           /\ seen.type \in TemplateType /\ seen.isDefault \in BOOLEAN
           /\ seen.isDefault => NoDefault(seen.type, {})
      /\ At(r, "readType") => seen.type \in TemplateType \cup {Null}
      /\ At(r, "clearOthers") => /\ seen.type \in TemplateType \cup {Null}
                                 /\ seen.isDefault = "true" /\ seen.stored = template[t].type
      /\ At(r, "writeTemplate") =>
           /\ seen.type \in TemplateType \cup {Null}
           /\ seen.isDefault \in {"true", "false", "absent"}
           /\ seen.isDefault = "true" => NoDefault(template[t].type, {t})

TemplatesAreKept ==
  /\ template \in [Template -> TemplateRow]
  /\ \A t \in Template : template[t].isDefault => NoDefault(template[t].type, {t})

DefaultInv ==
  /\ DocumentHandlers
  /\ calm /\ ~retyped => TemplatesAreKept /\ \A r \in Request : CarriesTemplate(r)

\* A step of handler r that leaves one default.
LEMMA TemplateStepKeeps ==
  ASSUME DefaultInv, NEW r \in Request, NEW step, NEW on, NEW seen,
         HandlerStep(r, step, on, seen), Shaped(DocumentSteps, DocumentRows)',
         calm' /\ ~retyped' => TemplatesAreKept' /\ CarriesTemplate(r)'
  PROVE  DefaultInv'
<1>1. Solo'
  BY DEF HandlerStep, Solo, At
<1>2. ASSUME calm', NEW q \in Request, q # r
      PROVE  CarriesTemplate(q)'
  <2>1. At(q, "idle")'
    BY <1>2 DEF HandlerStep, calm
  <2>q. QED BY <2>1 DEF CarriesTemplate, At, TemplateSteps
<1>q. QED BY <1>1, <1>2 DEF DefaultInv, DocumentHandlers

\* A step that touches no template.
LEMMA OtherTemplateSteps ==
  ASSUME DefaultInv, NEW r \in Request, UNCHANGED <<template, retyped>>,
         NEW step \in {"writeDocument", "deleteDocument", "writeStatuses"},
         \/ \E on \in DocumentRows : \E seen : Start(r, step, on, seen)
         \/ ~At(r, "idle") /\ (Finish(r) \/ Break(r))
  PROVE  DefaultInv'
<1>1. /\ "idle" \in DocumentSteps /\ Null \in DocumentRows /\ step \in DocumentSteps \ {"idle"}
      /\ Shaped(DocumentSteps, DocumentRows) /\ Solo
  BY DEF DocumentSteps, DocumentRows, DefaultInv, DocumentHandlers
<1>2. \E on, seen : /\ HandlerStep(r, step, on, seen) \/ HandlerStep(r, "idle", on, seen)
                    /\ Shaped(DocumentSteps, DocumentRows)'
  BY <1>1, ShapedMoves
<1>3. PICK on, seen : /\ HandlerStep(r, step, on, seen) \/ HandlerStep(r, "idle", on, seen)
                      /\ Shaped(DocumentSteps, DocumentRows)'
  BY <1>2
<1>4. CarriesTemplate(r)' /\ (calm' => calm)
  BY <1>3 DEF HandlerStep, Moved, CarriesTemplate, At, TemplateSteps
<1>5. calm' /\ ~retyped' => TemplatesAreKept'
  BY <1>4 DEF DefaultInv, TemplatesAreKept, NoDefault
<1>q. QED BY <1>3, <1>4, <1>5, TemplateStepKeeps

\* Clearing the defaults of a type leaves none of them, and no new one of another type.
LEMMA ClearedDefaults ==
  ASSUME TemplatesAreKept, NEW type, NEW among \in SUBSET Template,
         template' = Cleared(type, among)
  PROVE  /\ TemplatesAreKept'
         /\ \A t \in Template : template'[t].type = template[t].type
         /\ \A t \in among : template'[t].type = type => ~template'[t].isDefault
<1>1. ASSUME NEW t \in Template
      PROVE  /\ template'[t] \in TemplateRow
             /\ template'[t].type = template[t].type
             /\ template'[t].isDefault => template[t].isDefault
             /\ t \in among /\ template[t].type = type => ~template'[t].isDefault
  <2>1. template[t] \in TemplateRow
    BY DEF TemplatesAreKept
  <2>2. template'[t] = IF t \in among /\ template[t].type = type
                       THEN [template[t] EXCEPT !.isDefault = FALSE] ELSE template[t]
    BY DEF Cleared
  <2>q. QED BY <2>1, <2>2 DEF TemplateRow
<1>2. template' \in [Template -> TemplateRow]
  BY <1>1 DEF Cleared
<1>q. QED BY <1>1, <1>2 DEF TemplatesAreKept, NoDefault

\* The steps that create and change templates.
LEMMA TemplatesWritten ==
  ASSUME DefaultInv, NEW r \in Request,
         \/ ClearDefaults(r) \/ InsertTemplate(r) \/ ReadType(r) \/ ClearOthers(r)
         \/ WriteTemplate(r) \/ Deactivate(r)
  PROVE  DefaultInv'
<1> USE DEF At
<1>1. /\ "idle" \in DocumentSteps /\ Null \in DocumentRows
      /\ {"insertTemplate", "clearOthers", "writeTemplate"} \subseteq DocumentSteps \ {"idle"}
      /\ Shaped(DocumentSteps, DocumentRows) /\ Solo
      /\ TemplateSteps = {"clearDefaults", "insertTemplate", "readType", "clearOthers",
                          "writeTemplate", "deactivate"}
  BY DEF DocumentSteps, DocumentRows, DefaultInv, DocumentHandlers, TemplateSteps
<1>2. req[r].at \in TemplateSteps /\ ~At(r, "idle")
  BY <1>1 DEF ClearDefaults, InsertTemplate, ReadType, ClearOthers, WriteTemplate, Deactivate
<1>3. PICK t, seen : t = req[r].on /\ seen = req[r].seen
  OBVIOUS
<1>4. calm /\ ~retyped => t \in Template /\ TemplatesAreKept /\ CarriesTemplate(r)
  BY <1>2, <1>3 DEF DefaultInv, CarriesTemplate
<1>5. CASE ClearDefaults(r)
  <2>1. /\ At(r, "clearDefaults") /\ Proceed(r, "insertTemplate", seen)
        /\ template' = Cleared(seen.type, Template) /\ retyped' = retyped
    BY <1>3, <1>5 DEF ClearDefaults, documentHistory
  <2>2. HandlerStep(r, "insertTemplate", t, seen) /\ Shaped(DocumentSteps, DocumentRows)'
    BY <1>1, <1>2, <1>3, <2>1, ShapedMoves
  <2>3. /\ req'[r].at = "insertTemplate" /\ req'[r].on = t /\ req'[r].seen = seen
        /\ calm' => calm
    BY <2>2 DEF HandlerStep, Moved
  <2>4. ASSUME calm', ~retyped'
        PROVE  TemplatesAreKept' /\ CarriesTemplate(r)'
    <3>1. /\ seen.type \in TemplateType /\ seen.isDefault \in BOOLEAN /\ t \in Template
          /\ TemplatesAreKept
      BY <1>3, <1>4, <2>1, <2>3, <2>4 DEF CarriesTemplate
    <3>2. TemplatesAreKept' /\ NoDefault(seen.type, {})'
      BY <2>1, <3>1, ClearedDefaults DEF NoDefault
    <3>q. QED BY <2>3, <3>1, <3>2 DEF CarriesTemplate, NoDefault
  <2>q. QED BY <2>2, <2>4, TemplateStepKeeps
<1>6. CASE InsertTemplate(r)
  <2> DEFINE row == [type |-> seen.type, isDefault |-> seen.isDefault, isActive |-> TRUE]
  <2>1. /\ At(r, "insertTemplate") /\ Finish(r)
        /\ template' = [template EXCEPT ![t] = row] /\ retyped' = retyped
    BY <1>3, <1>6 DEF InsertTemplate, documentHistory
  <2>2. HandlerStep(r, "idle", Null, Null) /\ Shaped(DocumentSteps, DocumentRows)'
    BY <1>1, <1>2, <2>1, ShapedMoves
  <2>3. CarriesTemplate(r)' /\ (calm' => calm)
    BY <1>1, <2>2 DEF HandlerStep, Moved, CarriesTemplate
  <2>4. ASSUME calm', ~retyped'
        PROVE  TemplatesAreKept'
    <3>1. /\ seen.type \in TemplateType /\ seen.isDefault \in BOOLEAN /\ t \in Template
          /\ seen.isDefault => NoDefault(seen.type, {})
          /\ TemplatesAreKept
      BY <1>3, <1>4, <2>1, <2>3, <2>4 DEF CarriesTemplate
    <3>2. row \in TemplateRow
      BY <3>1 DEF TemplateRow
    <3>3. row.type = seen.type /\ row.isDefault = seen.isDefault
      OBVIOUS
    <3> HIDE DEF row
    <3>q. QED BY <2>1, <3>1, <3>2, <3>3 DEF TemplatesAreKept, NoDefault
  <2>q. QED BY <2>2, <2>3, <2>4, TemplateStepKeeps
<1>7. CASE ReadType(r)
  <2>1. /\ At(r, "readType") /\ UNCHANGED <<template, retyped>>
        /\ \E next : /\ next = [type |-> seen.type, isDefault |-> "true",
                                stored |-> template[t].type]
                     /\ Proceed(r, "clearOthers", next)
    BY <1>3, <1>7 DEF ReadType, documentVars, documentTables, documentHistory
  <2>2. PICK next : /\ next = [type |-> seen.type, isDefault |-> "true",
                               stored |-> template[t].type]
                    /\ Proceed(r, "clearOthers", next)
    BY <2>1
  <2>3. HandlerStep(r, "clearOthers", t, next) /\ Shaped(DocumentSteps, DocumentRows)'
    BY <1>1, <1>2, <1>3, <2>2, ShapedMoves
  <2>4. /\ req'[r].at = "clearOthers" /\ req'[r].on = t /\ req'[r].seen = next
        /\ calm' => calm
    BY <2>3 DEF HandlerStep, Moved
  <2>5. /\ next.type = seen.type /\ next.isDefault = "true" /\ next.stored = template[t].type
    BY <2>2
  <2>6. ASSUME calm', ~retyped'
        PROVE  TemplatesAreKept' /\ CarriesTemplate(r)'
    <3>1. seen.type \in TemplateType \cup {Null} /\ t \in Template /\ TemplatesAreKept
      BY <1>3, <1>4, <2>1, <2>4, <2>6 DEF CarriesTemplate
    <3>q. QED BY <2>1, <2>4, <2>5, <3>1 DEF CarriesTemplate, TemplatesAreKept, NoDefault
  <2>q. QED BY <2>3, <2>6, TemplateStepKeeps
<1>8. CASE ClearOthers(r)
  <2>1. /\ At(r, "clearOthers") /\ Proceed(r, "writeTemplate", seen)
        /\ template' = Cleared(seen.stored, Template \ {t}) /\ retyped' = retyped
    BY <1>3, <1>8 DEF ClearOthers, documentHistory
  <2>2. HandlerStep(r, "writeTemplate", t, seen) /\ Shaped(DocumentSteps, DocumentRows)'
    BY <1>1, <1>2, <1>3, <2>1, ShapedMoves
  <2>3. /\ req'[r].at = "writeTemplate" /\ req'[r].on = t /\ req'[r].seen = seen
        /\ calm' => calm
    BY <2>2 DEF HandlerStep, Moved
  <2>4. ASSUME calm', ~retyped'
        PROVE  TemplatesAreKept' /\ CarriesTemplate(r)'
    <3>1. /\ seen.type \in TemplateType \cup {Null} /\ seen.isDefault = "true"
          /\ seen.stored = template[t].type /\ t \in Template /\ TemplatesAreKept
      BY <1>3, <1>4, <2>1, <2>3, <2>4 DEF CarriesTemplate
    <3>2. /\ TemplatesAreKept' /\ template'[t].type = template[t].type
          /\ \A x \in Template \ {t} : template'[x].type = seen.stored => ~template'[x].isDefault
      BY <2>1, <3>1, ClearedDefaults
    <3>q. QED BY <2>3, <3>1, <3>2 DEF CarriesTemplate, NoDefault
  <2>q. QED BY <2>2, <2>4, TemplateStepKeeps
<1>9. CASE WriteTemplate(r)
  <2> DEFINE row == Written(template[t], seen)
  <2>1. /\ At(r, "writeTemplate") /\ Finish(r)
        /\ template' = [template EXCEPT ![t] = row]
        /\ retyped' = (retyped \/ (row.isDefault /\ row.type # template[t].type))
    BY <1>3, <1>9 DEF WriteTemplate
  <2>2. HandlerStep(r, "idle", Null, Null) /\ Shaped(DocumentSteps, DocumentRows)'
    BY <1>1, <1>2, <2>1, ShapedMoves
  <2>3. CarriesTemplate(r)' /\ (calm' => calm)
    BY <1>1, <2>2 DEF HandlerStep, Moved, CarriesTemplate
  <2>4. ASSUME calm', ~retyped'
        PROVE  TemplatesAreKept'
    <3>1. /\ seen.type \in TemplateType \cup {Null} /\ t \in Template
          /\ seen.isDefault \in {"true", "false", "absent"}
          /\ seen.isDefault = "true" => NoDefault(template[t].type, {t})
          /\ TemplatesAreKept
      BY <1>3, <1>4, <2>1, <2>3, <2>4 DEF CarriesTemplate
    <3>2. template[t] \in TemplateRow
      BY <3>1 DEF TemplatesAreKept
    <3>3. row \in TemplateRow
      BY <3>1, <3>2 DEF TemplateRow, Written
    <3>4. row.isDefault => template[t].isDefault \/ seen.isDefault = "true"
      BY <3>1, <3>2 DEF TemplateRow, Written
    <3>5. row.isDefault => row.type = template[t].type
      BY <2>1, <2>4
    <3> HIDE DEF row
    <3>6. row.isDefault => NoDefault(row.type, {t})
      BY <3>1, <3>4, <3>5 DEF TemplatesAreKept
    <3>q. QED BY <2>1, <3>1, <3>3, <3>6 DEF TemplatesAreKept, NoDefault
  <2>q. QED BY <2>2, <2>3, <2>4, TemplateStepKeeps
<1>10. CASE Deactivate(r)
  <2> DEFINE row == [template[t] EXCEPT !.isActive = FALSE]
  <2>1. Finish(r) /\ template' = [template EXCEPT ![t] = row] /\ retyped' = retyped
    BY <1>3, <1>10 DEF Deactivate, documentHistory
  <2>2. HandlerStep(r, "idle", Null, Null) /\ Shaped(DocumentSteps, DocumentRows)'
    BY <1>1, <1>2, <2>1, ShapedMoves
  <2>3. CarriesTemplate(r)' /\ (calm' => calm)
    BY <1>1, <2>2 DEF HandlerStep, Moved, CarriesTemplate
  <2>4. ASSUME calm', ~retyped'
        PROVE  TemplatesAreKept'
    <3>1. t \in Template /\ TemplatesAreKept
      BY <1>4, <2>1, <2>3, <2>4
    <3>2. template[t] \in TemplateRow
      BY <3>1 DEF TemplatesAreKept
    <3>3. row \in TemplateRow
      BY <3>2 DEF TemplateRow
    <3>4. row.isDefault = template[t].isDefault
      BY <3>2 DEF TemplateRow
    <3>5. row.type = template[t].type
      BY <3>2 DEF TemplateRow
    <3> HIDE DEF row
    <3>q. QED BY <2>1, <3>1, <3>3, <3>4, <3>5 DEF TemplatesAreKept, NoDefault
  <2>q. QED BY <2>2, <2>3, <2>4, TemplateStepKeeps
<1>q. QED BY <1>5, <1>6, <1>7, <1>8, <1>9, <1>10

\* The requests about templates, which carry what they ask for.
LEMMA TemplateRequestKeeps ==
  ASSUME DefaultInv, NEW r \in Request, TemplateRequest(r)
  PROVE  DefaultInv'
<1>1. /\ TemplateSteps \subseteq DocumentSteps \ {"idle"} /\ Template \subseteq DocumentRows
      /\ "idle" \in DocumentSteps /\ Null \in DocumentRows
      /\ Shaped(DocumentSteps, DocumentRows) /\ Solo
  BY DEF DocumentSteps, DocumentRows, DefaultInv, DocumentHandlers, TemplateSteps
\* A request that starts and is ready for its next step.
<1>2. ASSUME NEW step \in TemplateSteps, NEW t \in Template, NEW seen, Start(r, step, t, seen),
             UNCHANGED <<template, retyped>>,
             HandlerStep(r, step, t, seen) => CarriesTemplate(r)'
      PROVE  DefaultInv'
  <2>1. HandlerStep(r, step, t, seen) /\ Shaped(DocumentSteps, DocumentRows)'
    BY <1>1, <1>2, ShapedMoves
  <2>2. calm' => calm
    BY <2>1 DEF HandlerStep
  <2>3. calm' /\ ~retyped' => TemplatesAreKept'
    BY <1>2, <2>2 DEF DefaultInv, TemplatesAreKept, NoDefault
  <2>q. QED BY <1>2, <2>1, <2>3, TemplateStepKeeps
<1>3. ASSUME NEW t \in Template, NEW type \in TemplateType, NEW isDefault \in BOOLEAN,
             CreateTemplate(r, t, type, isDefault)
      PROVE  DefaultInv'
  <2>1. PICK seen : seen = [type |-> type, isDefault |-> isDefault]
    OBVIOUS
  <2>2. seen.type = type /\ seen.isDefault = isDefault
    BY <2>1
  <2>3. /\ UNCHANGED <<template, retyped>>
        /\ \/ isDefault /\ Start(r, "clearDefaults", t, seen)
           \/ ~isDefault /\ Start(r, "insertTemplate", t, seen)
    BY <1>3, <2>1 DEF CreateTemplate, documentVars, documentTables, documentHistory
  <2>4. ASSUME isDefault, HandlerStep(r, "clearDefaults", t, seen)
        PROVE  CarriesTemplate(r)'
    BY <2>2, <2>4 DEF HandlerStep, Moved, CarriesTemplate, At
  <2>5. ASSUME ~isDefault, HandlerStep(r, "insertTemplate", t, seen)
        PROVE  CarriesTemplate(r)'
    BY <2>2, <2>5 DEF HandlerStep, Moved, CarriesTemplate, At
  <2>6. "clearDefaults" \in TemplateSteps /\ "insertTemplate" \in TemplateSteps
    BY DEF TemplateSteps
  <2>q. QED BY <1>2, <2>3, <2>4, <2>5, <2>6
<1>4. ASSUME NEW t \in Template, NEW type \in TemplateType \cup {Null},
             NEW isDefault \in {"true", "false", "absent"}, UpdateTemplate(r, t, type, isDefault)
      PROVE  DefaultInv'
  <2>1. PICK seen : seen = [type |-> type, isDefault |-> isDefault]
    OBVIOUS
  <2>2. seen.type = type /\ seen.isDefault = isDefault
    BY <2>1
  <2>3. /\ UNCHANGED <<template, retyped>>
        /\ \/ Start(r, "readType", t, seen)
           \/ isDefault # "true" /\ Start(r, "writeTemplate", t, seen)
    BY <1>4, <2>1 DEF UpdateTemplate, documentVars, documentTables, documentHistory
  <2>4. ASSUME HandlerStep(r, "readType", t, seen)
        PROVE  CarriesTemplate(r)'
    BY <2>2, <2>4 DEF HandlerStep, Moved, CarriesTemplate, At
  <2>5. ASSUME isDefault # "true", HandlerStep(r, "writeTemplate", t, seen)
        PROVE  CarriesTemplate(r)'
    BY <2>2, <2>5 DEF HandlerStep, Moved, CarriesTemplate, At
  <2>6. "readType" \in TemplateSteps /\ "writeTemplate" \in TemplateSteps
    BY DEF TemplateSteps
  <2>q. QED BY <1>2, <2>3, <2>4, <2>5, <2>6
<1>5. ASSUME NEW t \in Template, RemoveTemplate(r, t)
      PROVE  DefaultInv'
  <2>1. Start(r, "deactivate", t, Null) /\ UNCHANGED <<template, retyped>>
    BY <1>5 DEF RemoveTemplate, documentVars, documentTables, documentHistory
  <2>2. ASSUME HandlerStep(r, "deactivate", t, Null)
        PROVE  CarriesTemplate(r)'
    BY <2>2 DEF HandlerStep, Moved, CarriesTemplate, At
  <2>3. "deactivate" \in TemplateSteps
    BY DEF TemplateSteps
  <2>q. QED BY <1>2, <2>1, <2>2, <2>3
<1>q. QED BY <1>3, <1>4, <1>5 DEF TemplateRequest

\* One default a type is kept in every step of the documents.
LEMMA DefaultInductive ==
  /\ HandlersInit /\ DocumentsInit => DefaultInv
  /\ DefaultInv /\ [DocumentsNext]_<<handlers, documentVars>> => DefaultInv'
<1>1. ASSUME HandlersInit, DocumentsInit
      PROVE  DefaultInv
  <2>1. DocumentHandlers
    BY <1>1, ExpiryInductive DEF ExpiryInv
  <2>2. \A r \in Request : req[r].at = "idle"
    BY <1>1 DEF HandlersInit, Idle
  <2>3. NoTemplate \in TemplateRow /\ ~NoTemplate.isDefault
    BY DEF NoTemplate, TemplateRow
  <2>4. TemplatesAreKept
    BY <1>1, <2>3 DEF DocumentsInit, TemplatesAreKept
  <2>q. QED BY <2>1, <2>2, <2>4 DEF DefaultInv, CarriesTemplate, At, TemplateSteps
<1>2. ASSUME DefaultInv, [DocumentsNext]_<<handlers, documentVars>>
      PROVE  DefaultInv'
  <2> USE <1>2
  <2>1. ASSUME NEW r \in Request, DocumentRequest(r)
        PROVE  DefaultInv'
    <3>1. /\ UNCHANGED <<template, retyped>>
          /\ \E step \in {"writeDocument", "deleteDocument", "writeStatuses"},
                on \in DocumentRows : \E seen : Start(r, step, on, seen)
      BY <2>1 DEF DocumentRequest, UpdateDocument, RemoveDocument, RefreshStatuses,
                  documentVars, documentTables, documentHistory, DocumentRows
    <3>q. QED BY <3>1, OtherTemplateSteps
  <2>2. ASSUME NEW r \in Request, WriteDocument(r) \/ DeleteDocument(r) \/ WriteStatuses(r)
        PROVE  DefaultInv'
    <3>1. Finish(r) /\ ~At(r, "idle") /\ UNCHANGED <<template, retyped>>
      BY <2>2 DEF WriteDocument, DeleteDocument, WriteStatuses, documentHistory, At
    <3>q. QED BY <3>1, OtherTemplateSteps
  <2>3. ASSUME NEW r \in Request, Fail(r) /\ UNCHANGED documentVars
        PROVE  DefaultInv'
    <3>1. Break(r) /\ ~At(r, "idle") /\ UNCHANGED <<template, retyped>>
      BY <2>3 DEF Fail, DefaultInv, DocumentHandlers, Shaped, documentVars, documentTables,
                  documentHistory
    <3>q. QED BY <3>1, OtherTemplateSteps
  <2>4. ASSUME \/ \E d \in Document, expiry \in Day \cup {Null} : CreateDocument(d, expiry)
               \/ DayPasses \/ UNCHANGED <<handlers, documentVars>>
        PROVE  DefaultInv'
    <3>0. ASSUME NEW d \in Document, NEW expiry \in Day \cup {Null}, CreateDocument(d, expiry)
          PROVE  UNCHANGED <<req, template, retyped, unbroken>> /\ (alone' => alone)
      BY <3>0 DEF CreateDocument, AtOnce
    <3>1. UNCHANGED <<req, template, retyped, unbroken>> /\ (alone' => alone)
      <4>1. CASE DayPasses
        BY <4>1 DEF DayPasses, handlers
      <4>2. CASE UNCHANGED <<handlers, documentVars>>
        BY <4>2 DEF handlers, documentVars, documentTables, documentHistory
      <4>q. QED BY <2>4, <3>0, <4>1, <4>2
    <3>q. QED
      BY <3>1 DEF DefaultInv, DocumentHandlers, Shaped, HandlersOf, Solo, At, TemplatesAreKept,
                  CarriesTemplate, NoDefault, calm
  <2>q. QED
    BY <2>1, <2>2, <2>3, <2>4, TemplateRequestKeeps, TemplatesWritten
       DEF DocumentsNext, DocumentStep
<1>q. QED BY <1>1, <1>2

\* While requests are served one by one and to their end, a type of templates has one default
\* at most, unless a default is moved to another type (DocumentTemplatesService.create, update).
THEOREM AlwaysOneDefault == DocumentsSpec => []OneDefault
<1>1. DefaultInv => OneDefault
  BY DEF DefaultInv, TemplatesAreKept, NoDefault, OneDefault
<1>q. QED BY <1>1, DefaultInductive, PTL DEF DocumentsSpec

-----------------------------------------------------------------------------
(* Roles                                                                   *)

RoleSteps == {"insertRole", "updateRole", "deleteRole", "deleteGrants", "insertGrants"}
StartSteps == {"readPermissions", "upsertRole", "deleteAll", "insertAll"}
AllRoleSteps == {"idle", "deleteAssigned", "insertAssigned"} \cup RoleSteps \cup StartSteps
RoleRows == Role \cup Member \cup {Null}

RoleTypes ==
  /\ Shaped(AllRoleSteps, RoleRows) /\ Solo
  /\ role \subseteq Role /\ permission \subseteq Permission
  /\ grants \in [Role -> SUBSET Permission] /\ asked \in [Role -> SUBSET Permission]
  /\ assigned \in [Member -> SUBSET Role] /\ given \in [Member -> SUBSET Role]

\* What a handler does to the administrator: nothing, or a bootstrap, or it has meddled.
SparesAdmin(r) ==
  LET ro == req[r].on
  IN  /\ req[r].at \in {"insertRole", "updateRole", "deleteRole"} => ro # AdminRole
      /\ At(r, "deleteGrants") \/ At(r, "insertGrants") => ro # AdminRole \/ meddled
      /\ At(r, "readPermissions") /\ ~meddled => permission = Permission
      /\ req[r].at \in {"upsertRole", "deleteAll", "insertAll"} /\ ~meddled =>
           permission = Permission /\ req[r].seen = Permission

\* The administrator's role is a system role, and grants everything or is about to.
AdminIsKept ==
  /\ AdminRole \in role => AdminRole \in system
  /\ booted /\ ~meddled => permission = Permission
  /\ booted /\ unbroken /\ ~meddled =>
       grants[AdminRole] = Permission \/ \E r \in Request : At(r, "insertAll")

AsAsked(except) == \A ro \in Role : grants[ro] = IF ro \in except THEN {} ELSE asked[ro]
AsGiven(except) == \A u \in Member : assigned[u] = IF u \in except THEN {} ELSE given[u]

\* What a handler that is alone still owes: the rows to come after those it has deleted.
Owes(r) ==
  LET on == req[r].on
  IN  /\ AsAsked(IF At(r, "insertGrants") THEN {on}
                 ELSE IF At(r, "insertAll") THEN {AdminRole} ELSE {})
      /\ AsGiven(IF At(r, "insertAssigned") THEN {on} ELSE {})
      /\ At(r, "deleteRole") => \A u \in Member : on \notin assigned[u]

RolesInv ==
  /\ RoleTypes
  /\ \A r \in Request : SparesAdmin(r)
  /\ AdminIsKept
  /\ calm => \A r \in Request : ~At(r, "idle") => Owes(r)
  /\ calm /\ Quiet => AsAsked({}) /\ AsGiven({})

\* What the tables keep in a step of handler r.
KeepsRoles(r) ==
  /\ role' \subseteq Role /\ permission' \subseteq Permission
  /\ grants' \in [Role -> SUBSET Permission] /\ asked' \in [Role -> SUBSET Permission]
  /\ assigned' \in [Member -> SUBSET Role] /\ given' \in [Member -> SUBSET Role]
  /\ AdminRole \in role' => AdminRole \in system'
  /\ meddled => meddled'
  /\ ~meddled' /\ permission = Permission => permission' = Permission
  /\ booted' /\ ~meddled' => permission' = Permission
  /\ booted' /\ unbroken' /\ ~meddled' =>
       \/ grants'[AdminRole] = Permission
       \/ At(r, "insertAll")'
       \/ booted /\ unbroken /\ grants'[AdminRole] = grants[AdminRole] /\ ~At(r, "insertAll")

\* Handler r goes to step; the others may forget a row that is deleted.
RoleMove(r, step) ==
  /\ req'[r].at = step
  /\ calm' => calm
  /\ alone' => alone /\ \A q \in Request \ {r} : At(q, "idle")'
  /\ \A q \in Request \ {r} :
       /\ req'[q].at = req[q].at /\ req'[q].on = req[q].on
       /\ req[q].seen = Permission /\ ~meddled' => req'[q].seen = Permission
  /\ Shaped(AllRoleSteps, RoleRows)'

\* A step of handler r that leaves the roles as they should be.
LEMMA RoleStepKeeps ==
  ASSUME RolesInv, NEW r \in Request, NEW step, RoleMove(r, step), KeepsRoles(r), SparesAdmin(r)',
         calm' /\ step = "idle" => AsAsked({})' /\ AsGiven({})',
         calm' /\ step # "idle" => Owes(r)'
  PROVE  RolesInv'
<1>1. /\ req'[r].at = step
      /\ calm' => calm
      /\ \A q \in Request \ {r} : req'[q].at = req[q].at /\ req'[q].on = req[q].on
      /\ alone' => \A q \in Request \ {r} : At(q, "idle")'
  BY DEF RoleMove
<1>2. RoleTypes'
  <2>1. Solo'
    BY <1>1 DEF Solo, At
  <2>q. QED BY <2>1 DEF RoleTypes, KeepsRoles, RoleMove
<1>3. \A q \in Request : SparesAdmin(q)'
  <2> SUFFICES ASSUME NEW q \in Request \ {r} PROVE SparesAdmin(q)'
    OBVIOUS
  <2>1. SparesAdmin(q) /\ (~meddled' => ~meddled)
    BY DEF RolesInv, KeepsRoles
  <2>2. ~meddled' /\ permission = Permission => permission' = Permission
    BY DEF KeepsRoles
  <2>3. req[q].seen = Permission /\ ~meddled' => req'[q].seen = Permission
    BY DEF RoleMove
  <2>q. QED BY <1>1, <2>1, <2>2, <2>3 DEF SparesAdmin, At
<1>4. AdminIsKept'
  <2>1. \A q \in Request : At(q, "insertAll") /\ q # r => At(q, "insertAll")'
    BY <1>1 DEF At
  <2>q. QED BY <2>1 DEF RolesInv, AdminIsKept, KeepsRoles
<1>5. ASSUME NEW q \in Request
      PROVE  calm' /\ ~At(q, "idle")' => Owes(q)'
  <2>1. calm' => alone'
    BY DEF calm
  <2>2. CASE q = r
    <3>1. ~At(q, "idle")' => step # "idle"
      BY <1>1, <2>2 DEF At
    <3>2. calm' /\ step # "idle" => Owes(q)'
      BY <2>2
    <3>q. QED BY <3>1, <3>2
  <2>3. CASE q # r
    <3>1. alone' => At(q, "idle")'
      BY <1>1, <2>3
    <3>q. QED BY <2>1, <3>1
  <2>q. QED BY <2>2, <2>3
<1>6. calm' /\ Quiet' => AsAsked({})' /\ AsGiven({})'
  <2>1. Quiet' => step = "idle"
    BY <1>1 DEF Quiet, Idle
  <2>2. calm' /\ step = "idle" => AsAsked({})' /\ AsGiven({})'
    OBVIOUS
  <2>q. QED BY <2>1, <2>2
<1>q. QED BY <1>2, <1>3, <1>4, <1>5, <1>6 DEF RolesInv

\* The steps of Handlers, as steps of one handler of the roles.
LEMMA RoleMoves ==
  ASSUME RolesInv, NEW r \in Request
  PROVE  /\ \A step \in AllRoleSteps \ {"idle"}, on \in RoleRows : \A seen :
              Start(r, step, on, seen) =>
                /\ At(r, "idle") /\ RoleMove(r, step)
                /\ req'[r].at = step /\ req'[r].on = on /\ req'[r].seen = seen
                /\ unbroken' = unbroken /\ (alone' => alone /\ Quiet)
         /\ ~At(r, "idle") => \A step \in AllRoleSteps \ {"idle"} : \A seen :
              Proceed(r, step, seen) =>
                /\ RoleMove(r, step)
                /\ req'[r].at = step /\ req'[r].on = req[r].on /\ req'[r].seen = seen
                /\ unbroken' = unbroken /\ alone' = alone
         /\ ~At(r, "idle") /\ Finish(r) =>
              /\ RoleMove(r, "idle") /\ req'[r].at = "idle"
              /\ unbroken' = unbroken /\ alone' = alone
         /\ ~At(r, "idle") /\ Break(r) =>
              RoleMove(r, "idle") /\ req'[r].at = "idle" /\ ~unbroken'
<1>1. "idle" \in AllRoleSteps /\ Null \in RoleRows /\ Shaped(AllRoleSteps, RoleRows) /\ Solo
  BY DEF AllRoleSteps, RoleRows, RolesInv, RoleTypes
<1>2. \A step, on, seen :
        HandlerStep(r, step, on, seen) /\ Shaped(AllRoleSteps, RoleRows)' =>
          /\ RoleMove(r, step)
          /\ req'[r].at = step /\ req'[r].on = on /\ req'[r].seen = seen
  BY DEF HandlerStep, Moved, RoleMove
<1>3. ASSUME NEW step \in AllRoleSteps \ {"idle"}, NEW on \in RoleRows, NEW seen,
             Start(r, step, on, seen)
      PROVE  /\ At(r, "idle") /\ RoleMove(r, step)
             /\ req'[r].at = step /\ req'[r].on = on /\ req'[r].seen = seen
             /\ unbroken' = unbroken /\ (alone' => alone /\ Quiet)
  <2>1. /\ Shaped(AllRoleSteps, RoleRows)' /\ HandlerStep(r, step, on, seen)
        /\ At(r, "idle")
    BY <1>1, <1>3, ShapedMoves
  <2>2. unbroken' = unbroken /\ (alone' => alone /\ Quiet)
    BY <1>3 DEF Start
  <2>q. QED BY <1>2, <2>1, <2>2
<1>4. ASSUME ~At(r, "idle"), NEW step \in AllRoleSteps \ {"idle"}, NEW seen,
             Proceed(r, step, seen)
      PROVE  /\ RoleMove(r, step)
             /\ req'[r].at = step /\ req'[r].on = req[r].on /\ req'[r].seen = seen
             /\ unbroken' = unbroken /\ alone' = alone
  <2>1. Shaped(AllRoleSteps, RoleRows)' /\ HandlerStep(r, step, req[r].on, seen)
    BY <1>1, <1>4, ShapedMoves
  <2>2. unbroken' = unbroken /\ alone' = alone
    BY <1>4 DEF Proceed
  <2>q. QED BY <1>2, <2>1, <2>2
<1>5. ASSUME ~At(r, "idle"), Finish(r) \/ Break(r)
      PROVE  RoleMove(r, "idle") /\ req'[r].at = "idle"
  BY <1>1, <1>2, <1>5, ShapedMoves
<1>6. /\ Finish(r) => unbroken' = unbroken /\ alone' = alone
      /\ Break(r) => ~unbroken'
  BY DEF Finish, Break
<1>q. QED BY <1>3, <1>4, <1>5, <1>6

\* A step that breaks a request halfway, and writes nothing.
LEMMA BrokenRoleStep ==
  ASSUME RolesInv, NEW r \in Request, ~At(r, "idle"), Break(r), ReadRoles
  PROVE  RolesInv'
<1>1. RoleMove(r, "idle") /\ req'[r].at = "idle" /\ ~unbroken'
  BY RoleMoves
<1>2. KeepsRoles(r)
  BY <1>1 DEF KeepsRoles, RolesInv, RoleTypes, AdminIsKept, ReadRoles, roleTables, roleHistory
<1>3. SparesAdmin(r)' /\ ~calm'
  BY <1>1 DEF SparesAdmin, At, calm
<1>q. QED BY <1>1, <1>2, <1>3, RoleStepKeeps

\* A request that starts, and reads.
LEMMA RoleRequestReads ==
  ASSUME RolesInv, NEW r \in Request, NEW step \in AllRoleSteps \ {"idle"}, NEW on \in RoleRows,
         NEW seen, Start(r, step, on, seen),
         step \notin {"insertGrants", "insertAll", "insertAssigned"},
         UNCHANGED <<role, system, grants, assigned, booted, asked, given>>,
         permission' \subseteq Permission, meddled => meddled',
         ~meddled' => (permission' = permission \/ permission' = Permission),
         req'[r].at = step /\ req'[r].on = on /\ req'[r].seen = seen => SparesAdmin(r)',
         step = "deleteRole" => \A u \in Member : on \notin assigned[u]
  PROVE  RolesInv'
<1>2. /\ RoleMove(r, step) /\ At(r, "idle")
      /\ req'[r].at = step /\ req'[r].on = on /\ req'[r].seen = seen
      /\ unbroken' = unbroken /\ (alone' => alone /\ Quiet)
  BY RoleMoves
<1>4. KeepsRoles(r)
  BY <1>2 DEF KeepsRoles, RolesInv, RoleTypes, AdminIsKept, At
<1>5. calm' => Owes(r)'
  <2>1. calm' => AsAsked({}) /\ AsGiven({})
    BY <1>2 DEF RolesInv, calm
  <2>q. QED BY <1>2, <2>1 DEF Owes, At, AsAsked, AsGiven
<1>q. QED BY <1>2, <1>4, <1>5, RoleStepKeeps

\* A step in which handler r proceeds, and writes.
LEMMA RoleProceeds ==
  ASSUME RolesInv, NEW r \in Request, ~At(r, "idle"),
         NEW step \in AllRoleSteps \ {"idle"}, NEW seen, Proceed(r, step, seen),
         RoleMove(r, step) => KeepsRoles(r),
         At(r, step)' /\ req'[r].on = req[r].on /\ req'[r].seen = seen => SparesAdmin(r)',
         At(r, step)' /\ req'[r].on = req[r].on /\ Owes(r) => Owes(r)'
  PROVE  RolesInv'
<1>1. /\ RoleMove(r, step)
      /\ req'[r].at = step /\ req'[r].on = req[r].on /\ req'[r].seen = seen
      /\ unbroken' = unbroken /\ alone' = alone
  BY RoleMoves
<1>2. calm' => Owes(r)
  BY <1>1 DEF RolesInv, calm
<1>3. calm' => Owes(r)'
  BY <1>1, <1>2 DEF At
<1>4. SparesAdmin(r)'
  BY <1>1 DEF At
<1>q. QED BY <1>1, <1>3, <1>4, RoleStepKeeps

\* A step in which handler r finishes, and writes.
LEMMA RoleFinishes ==
  ASSUME RolesInv, NEW r \in Request, ~At(r, "idle"), Finish(r),
         RoleMove(r, "idle") => KeepsRoles(r),
         Owes(r) => AsAsked({})' /\ AsGiven({})'
  PROVE  RolesInv'
<1>1. /\ RoleMove(r, "idle") /\ req'[r].at = "idle"
      /\ unbroken' = unbroken /\ alone' = alone
  BY RoleMoves
<1>2. calm' => Owes(r)
  BY <1>1 DEF RolesInv, calm
<1>3. SparesAdmin(r)'
  BY <1>1 DEF SparesAdmin, At
<1>q. QED BY <1>1, <1>2, <1>3, RoleStepKeeps

\* The bootstrap grants what it has read to the administrator.
LEMMA BootstrapKeeps ==
  ASSUME RolesInv, NEW r \in Request, Bootstrap(r) \/ BootstrapStep(r)
  PROVE  RolesInv'
<1>1. CASE Bootstrap(r)
  <2>1. /\ Start(r, "readPermissions", AdminRole, {}) /\ permission' = Permission
        /\ UNCHANGED <<role, system, grants, assigned, booted, asked, given, meddled>>
    BY <1>1 DEF Bootstrap, roleHistory
  <2>2. AdminRole \in RoleRows
    BY RolesAssumption DEF RoleRows
  <2>3. /\ "readPermissions" \in AllRoleSteps \ {"idle"}
        /\ "readPermissions" \notin {"insertGrants", "insertAll", "insertAssigned"}
    BY DEF AllRoleSteps, StartSteps
  <2>4. req'[r].at = "readPermissions" => SparesAdmin(r)'
    BY <2>1 DEF SparesAdmin, At
  <2>q. QED BY <2>1, <2>2, <2>3, <2>4, RoleRequestReads
<1>2. CASE ReadPermissions(r)
  <2>1. /\ At(r, "readPermissions") /\ ~At(r, "idle") /\ Proceed(r, "upsertRole", permission)
        /\ UNCHANGED <<role, system, permission, grants, assigned, booted, asked, given, meddled>>
    BY <1>2 DEF ReadPermissions, At, ReadRoles, roleTables, roleHistory
  <2>2. ~meddled => permission = Permission
    BY <2>1 DEF RolesInv, SparesAdmin
  <2>3. RoleMove(r, "upsertRole") => KeepsRoles(r)
    BY <2>1 DEF KeepsRoles, RolesInv, RoleTypes, AdminIsKept, At, RoleMove, calm, Proceed
  <2>4. At(r, "upsertRole")' /\ req'[r].seen = permission => SparesAdmin(r)'
    BY <2>1, <2>2 DEF SparesAdmin, At
  <2>5. At(r, "upsertRole")' /\ Owes(r) => Owes(r)'
    BY <2>1 DEF Owes, At, AsAsked, AsGiven
  <2>6. "upsertRole" \in AllRoleSteps \ {"idle"}
    BY DEF AllRoleSteps, StartSteps
  <2>q. QED BY <2>1, <2>3, <2>4, <2>5, <2>6, RoleProceeds
<1>3. CASE UpsertRole(r)
  <2>1. /\ At(r, "upsertRole") /\ ~At(r, "idle") /\ Proceed(r, "deleteAll", req[r].seen)
        /\ role' = role \cup {AdminRole}
        /\ system' = system \cup (IF AdminRole \in role THEN {} ELSE {AdminRole})
        /\ UNCHANGED <<permission, grants, assigned, booted, asked, given, meddled>>
    BY <1>3 DEF UpsertRole, At, roleHistory
  <2>2. ~meddled => permission = Permission /\ req[r].seen = Permission
    BY <2>1 DEF RolesInv, SparesAdmin, At
  <2>3. RoleMove(r, "deleteAll") => KeepsRoles(r)
    BY <2>1, RolesAssumption
       DEF KeepsRoles, RolesInv, RoleTypes, AdminIsKept, At, RoleMove, calm, Proceed
  <2>4. At(r, "deleteAll")' /\ req'[r].seen = req[r].seen => SparesAdmin(r)'
    BY <2>1, <2>2 DEF SparesAdmin, At
  <2>5. At(r, "deleteAll")' /\ Owes(r) => Owes(r)'
    BY <2>1 DEF Owes, At, AsAsked, AsGiven
  <2>6. "deleteAll" \in AllRoleSteps \ {"idle"}
    BY DEF AllRoleSteps, StartSteps
  <2>q. QED BY <2>1, <2>3, <2>4, <2>5, <2>6, RoleProceeds
<1>4. CASE DeleteAll(r)
  <2>1. /\ At(r, "deleteAll") /\ ~At(r, "idle") /\ Proceed(r, "insertAll", req[r].seen)
        /\ grants' = [grants EXCEPT ![AdminRole] = {}]
        /\ UNCHANGED <<role, system, permission, assigned, booted, asked, given, meddled>>
    BY <1>4 DEF DeleteAll, At, roleHistory
  <2>2. ~meddled => permission = Permission /\ req[r].seen = Permission
    BY <2>1 DEF RolesInv, SparesAdmin, At
  <2>3. RoleMove(r, "insertAll") => KeepsRoles(r)
    BY <2>1 DEF KeepsRoles, RolesInv, RoleTypes, AdminIsKept, At, RoleMove
  <2>4. At(r, "insertAll")' /\ req'[r].seen = req[r].seen => SparesAdmin(r)'
    BY <2>1, <2>2 DEF SparesAdmin, At
  <2>5. At(r, "insertAll")' /\ Owes(r) => Owes(r)'
    BY <2>1 DEF Owes, At, AsAsked, AsGiven, RolesInv, RoleTypes
  <2>6. "insertAll" \in AllRoleSteps \ {"idle"}
    BY DEF AllRoleSteps, StartSteps
  <2>q. QED BY <2>1, <2>3, <2>4, <2>5, <2>6, RoleProceeds
<1>5. CASE InsertAll(r)
  <2>1. /\ At(r, "insertAll") /\ ~At(r, "idle") /\ Finish(r)
        /\ req[r].seen \subseteq permission
        /\ grants' = [grants EXCEPT ![AdminRole] = @ \cup req[r].seen]
        /\ asked' = [asked EXCEPT ![AdminRole] = req[r].seen]
        /\ assigned' = [assigned EXCEPT ![Owner] = @ \cup {AdminRole}]
        /\ given' = [given EXCEPT ![Owner] = @ \cup {AdminRole}]
        /\ UNCHANGED <<role, system, permission, meddled>>
    BY <1>5 DEF InsertAll, At
  <2>2. ~meddled => permission = Permission /\ req[r].seen = Permission
    BY <2>1 DEF RolesInv, SparesAdmin, At
  <2>3. RoleTypes /\ AdminIsKept /\ AdminRole \in Role /\ Owner \in Member
    BY RolesAssumption DEF RolesInv
  <2>4. /\ grants' \in [Role -> SUBSET Permission] /\ asked' \in [Role -> SUBSET Permission]
        /\ assigned' \in [Member -> SUBSET Role] /\ given' \in [Member -> SUBSET Role]
    BY <2>1, <2>3 DEF RoleTypes
  <2>5. ~meddled => grants'[AdminRole] = Permission
    BY <2>1, <2>2, <2>3 DEF RoleTypes
  <2>6. KeepsRoles(r)
    BY <2>1, <2>2, <2>3, <2>4, <2>5 DEF KeepsRoles, RoleTypes, AdminIsKept
  <2>7. Owes(r) => AsAsked({})' /\ AsGiven({})'
    BY <2>1, <2>3 DEF Owes, At, AsAsked, AsGiven, RoleTypes
  <2>q. QED BY <2>1, <2>6, <2>7, RoleFinishes
<1>6. CASE BootstrapRefused(r)
  BY <1>6, BrokenRoleStep DEF BootstrapRefused, At
<1>q. QED BY <1>1, <1>2, <1>3, <1>4, <1>5, <1>6 DEF BootstrapStep

\* What the steps of RolesService do to a role leaves the administrator's alone.
LEMMA RoleWritten ==
  ASSUME RolesInv, NEW r \in Request, NEW ro \in Role, RoleStep(r, ro), ~DeleteRole(r, ro)
  PROVE  RolesInv'
<1>0. RoleTypes /\ SparesAdmin(r) /\ AdminIsKept
  BY DEF RolesInv
<1>1. ASSUME NEW marked \in BOOLEAN, InsertRole(r, ro, marked) \/ WriteRole(r, ro, marked)
      PROVE  RolesInv'
  <2>1. /\ At(r, "insertRole") \/ At(r, "updateRole")
        /\ ~At(r, "idle") /\ ro = req[r].on /\ Finish(r)
        /\ role' = role \cup {ro} \/ role' = role
        /\ req[r].seen \subseteq permission
        /\ MarkSystem(ro, marked)
        /\ grants' = [grants EXCEPT ![ro] = req[r].seen]
        /\ asked' = [asked EXCEPT ![ro] = req[r].seen]
        /\ UNCHANGED <<permission, assigned, given, booted, meddled>>
    BY <1>1 DEF InsertRole, WriteRole, OnRole, At
  <2>2. ro # AdminRole
    BY <1>0, <2>1 DEF SparesAdmin, At
  <2>3. AdminRole \in role' => AdminRole \in system'
    BY <1>0, <2>1, <2>2 DEF AdminIsKept, MarkSystem
  <2>4. /\ grants' \in [Role -> SUBSET Permission] /\ asked' \in [Role -> SUBSET Permission]
        /\ grants'[AdminRole] = grants[AdminRole]
    BY <1>0, <2>1, <2>2, RolesAssumption DEF RoleTypes
  <2>5. unbroken' = unbroken /\ ~At(r, "insertAll")
    BY <2>1 DEF Finish, At
  <2>6. KeepsRoles(r)
    BY <1>0, <2>1, <2>3, <2>4, <2>5 DEF KeepsRoles, RoleTypes, AdminIsKept
  <2>7. Owes(r) => AsAsked({})' /\ AsGiven({})'
    BY <1>0, <2>1 DEF Owes, At, AsAsked, AsGiven, RoleTypes
  <2>q. QED BY <2>1, <2>6, <2>7, RoleFinishes
<1>2. CASE RefuseRole(r, ro)
  <2>1. /\ req[r].at \in {"insertRole", "updateRole", "deleteRole"} /\ ~At(r, "idle") /\ Finish(r)
        /\ UNCHANGED <<role, system, permission, grants, assigned, booted, asked, given, meddled>>
    BY <1>2 DEF RefuseRole, OnRole, At, ReadRoles, roleTables, roleHistory
  <2>2. unbroken' = unbroken /\ ~At(r, "insertAll")
    BY <2>1 DEF Finish, At
  <2>3. KeepsRoles(r)
    BY <1>0, <2>1, <2>2 DEF KeepsRoles, RoleTypes, AdminIsKept
  <2>4. Owes(r) => AsAsked({})' /\ AsGiven({})'
    BY <2>1 DEF Owes, At, AsAsked, AsGiven
  <2>q. QED BY <2>1, <2>3, <2>4, RoleFinishes
<1>3. CASE DeleteGrants(r, ro)
  <2>1. /\ At(r, "deleteGrants") /\ ~At(r, "idle") /\ ro = req[r].on
        /\ Proceed(r, "insertGrants", req[r].seen)
        /\ grants' = [grants EXCEPT ![ro] = {}]
        /\ UNCHANGED <<role, system, permission, assigned, booted, asked, given, meddled>>
    BY <1>3 DEF DeleteGrants, OnRole, At, roleHistory
  <2>2. ro # AdminRole \/ meddled
    BY <1>0, <2>1 DEF SparesAdmin
  <2>3. /\ grants' \in [Role -> SUBSET Permission]
        /\ ro # AdminRole => grants'[AdminRole] = grants[AdminRole]
    BY <1>0, <2>1, RolesAssumption DEF RoleTypes
  <2>4. unbroken' = unbroken /\ ~At(r, "insertAll")
    BY <2>1 DEF Proceed, At
  <2>5. KeepsRoles(r)
    BY <1>0, <2>1, <2>2, <2>3, <2>4 DEF KeepsRoles, RoleTypes, AdminIsKept
  <2>6. At(r, "insertGrants")' /\ req'[r].on = req[r].on => SparesAdmin(r)'
    BY <2>1, <2>2 DEF SparesAdmin, At
  <2>7. At(r, "insertGrants")' /\ req'[r].on = req[r].on /\ Owes(r) => Owes(r)'
    BY <1>0, <2>1 DEF Owes, At, AsAsked, AsGiven, RoleTypes
  <2>8. "insertGrants" \in AllRoleSteps \ {"idle"}
    BY DEF AllRoleSteps, RoleSteps
  <2>q. QED BY <2>1, <2>5, <2>6, <2>7, <2>8, RoleProceeds
<1>4. CASE InsertGrants(r, ro)
  <2>1. /\ At(r, "insertGrants") /\ ~At(r, "idle") /\ ro = req[r].on /\ Finish(r)
        /\ req[r].seen \subseteq permission
        /\ grants' = [grants EXCEPT ![ro] = @ \cup req[r].seen]
        /\ asked' = [asked EXCEPT ![ro] = req[r].seen]
        /\ UNCHANGED <<role, system, permission, assigned, given, booted, meddled>>
    BY <1>4 DEF InsertGrants, OnRole, At
  <2>2. ro # AdminRole \/ meddled
    BY <1>0, <2>1 DEF SparesAdmin
  <2>3. /\ grants' \in [Role -> SUBSET Permission] /\ asked' \in [Role -> SUBSET Permission]
        /\ ro # AdminRole => grants'[AdminRole] = grants[AdminRole]
    BY <1>0, <2>1, RolesAssumption DEF RoleTypes
  <2>4. unbroken' = unbroken /\ ~At(r, "insertAll")
    BY <2>1 DEF Finish, At
  <2>5. KeepsRoles(r)
    BY <1>0, <2>1, <2>2, <2>3, <2>4 DEF KeepsRoles, RoleTypes, AdminIsKept
  <2>6. Owes(r) => AsAsked({})' /\ AsGiven({})'
    BY <1>0, <2>1 DEF Owes, At, AsAsked, AsGiven, RoleTypes
  <2>q. QED BY <2>1, <2>5, <2>6, RoleFinishes
<1>5. CASE GrantsRefused(r, ro)
  BY <1>5, BrokenRoleStep DEF GrantsRefused, OnRole, At
<1>q. QED BY <1>1, <1>2, <1>3, <1>4, <1>5 DEF RoleStep

\* A role is deleted that is not the administrator's; other handlers may have been told its id.
LEMMA RoleDeleted ==
  ASSUME RolesInv, NEW r \in Request, NEW ro \in Role, DeleteRole(r, ro)
  PROVE  RolesInv'
<1>0. RoleTypes /\ SparesAdmin(r) /\ AdminIsKept
  BY DEF RolesInv
<1>1. /\ At(r, "deleteRole") /\ ~At(r, "idle") /\ ro = req[r].on
      /\ role' = role \ {ro} /\ system' = system \ {ro}
      /\ grants' = [grants EXCEPT ![ro] = {}] /\ asked' = [asked EXCEPT ![ro] = {}]
      /\ assigned' = [u \in Member |-> assigned[u] \ {ro}]
      /\ req' = [Forgetting(ro) EXCEPT ![r] = Idle]
      /\ UNCHANGED <<permission, given, booted, meddled, alone, unbroken>>
  BY DEF DeleteRole, OnRole, At
<1>2. ro # AdminRole /\ ro \notin Permission
  BY <1>0, <1>1, RolesAssumption DEF SparesAdmin, At
<1>3. /\ req'[r] = Idle
      /\ \A q \in Request \ {r} :
           \/ req'[q] = req[q]
           \/ /\ req[q] # Idle /\ ro \in req[q].seen
              /\ req'[q] = [req[q] EXCEPT !.seen = (@ \ {ro}) \cup {Gone}]
  BY <1>1 DEF Forgetting
<1>4. RoleMove(r, "idle") /\ req'[r].at = "idle"
  <2>1. PICK V : Null \in V /\ req \in [Request -> [at : AllRoleSteps, on : RoleRows, seen : V]]
    BY <1>0 DEF RoleTypes, Shaped, HandlersOf
  <2>2. /\ Idle.at = "idle" /\ Idle.seen = Null
        /\ Idle \in [at : AllRoleSteps, on : RoleRows, seen : V]
    BY <2>1 DEF Idle, AllRoleSteps, RoleRows
  <2> DEFINE W == V \cup {(v \ {ro}) \cup {Gone} : v \in V}
  <2>3. PICK X : X = W
    OBVIOUS
  <2>4. ASSUME NEW q \in Request \ {r}
        PROVE  /\ req'[q] \in [at : AllRoleSteps, on : RoleRows, seen : X]
               /\ req'[q].at = req[q].at /\ req'[q].on = req[q].on
               /\ req[q].seen = Permission => req'[q].seen = Permission
    <3>1. req[q] \in [at : AllRoleSteps, on : RoleRows, seen : V]
      BY <2>1
    <3>2. CASE req'[q] = req[q]
      BY <2>3, <3>1, <3>2
    <3>3. CASE /\ req[q] # Idle /\ ro \in req[q].seen
               /\ req'[q] = [req[q] EXCEPT !.seen = (@ \ {ro}) \cup {Gone}]
      <4>1. PICK seen \in V : seen = req[q].seen
        BY <3>1
      <4>2. PICK then : then = (seen \ {ro}) \cup {Gone}
        OBVIOUS
      <4>3. then \in X
        BY <2>3, <4>2
      <4>4. req'[q] = [req[q] EXCEPT !.seen = then]
        BY <3>3, <4>1, <4>2
      <4>5. req[q].seen # Permission
        BY <1>2, <3>3
      <4>q. QED BY <3>1, <4>3, <4>4, <4>5
    <3>q. QED BY <1>3, <3>2, <3>3
  <2>5. DOMAIN req' = Request /\ req' = [q \in Request |-> req'[q]]
    BY <1>1 DEF Forgetting
  <2>6. req' \in HandlersOf(AllRoleSteps, RoleRows, X) /\ Null \in X
    <3>1. Idle \in [at : AllRoleSteps, on : RoleRows, seen : X] /\ Null \in X
      BY <2>1, <2>2, <2>3
    <3>2. \A q \in Request : req'[q] \in [at : AllRoleSteps, on : RoleRows, seen : X]
      BY <1>3, <2>4, <3>1
    <3>q. QED BY <2>5, <3>1, <3>2 DEF HandlersOf
  <2>7. \A q \in Request : At(q, "idle")' => req'[q] = Idle
    BY <1>0, <1>3, <2>4 DEF At, RoleTypes, Shaped
  <2>8. alone' => \A q \in Request \ {r} : At(q, "idle")'
    BY <1>0, <1>1, <2>4 DEF At, RoleTypes, Solo
  <2>9. (calm' => calm) /\ (alone' => alone)
    BY <1>1 DEF calm
  <2>q. QED BY <1>3, <2>2, <2>4, <2>6, <2>7, <2>8, <2>9 DEF RoleMove, Shaped
<1>5. KeepsRoles(r)
  <2>1. /\ grants' \in [Role -> SUBSET Permission] /\ asked' \in [Role -> SUBSET Permission]
        /\ grants'[AdminRole] = grants[AdminRole]
        /\ assigned' \in [Member -> SUBSET Role]
    BY <1>0, <1>1, <1>2, RolesAssumption DEF RoleTypes
  <2>2. ~At(r, "insertAll")
    BY <1>1 DEF At
  <2>q. QED BY <1>0, <1>1, <1>2, <2>1, <2>2 DEF KeepsRoles, RoleTypes, AdminIsKept
<1>6. SparesAdmin(r)'
  BY <1>4 DEF SparesAdmin, At
<1>7. calm' => AsAsked({})' /\ AsGiven({})'
  <2>1. calm' => Owes(r)
    BY <1>1 DEF RolesInv, calm
  <2>2. Owes(r) => AsAsked({}) /\ AsGiven({}) /\ \A u \in Member : ro \notin assigned[u]
    BY <1>1 DEF Owes, At
  <2>3. AsAsked({}) => AsAsked({})'
    BY <1>0, <1>1 DEF AsAsked, RoleTypes
  <2>4. (\A u \in Member : ro \notin assigned[u]) => \A u \in Member : assigned'[u] = assigned[u]
    BY <1>0, <1>1 DEF RoleTypes
  <2>q. QED BY <1>1, <2>1, <2>2, <2>3, <2>4 DEF AsGiven
<1>q. QED BY <1>4, <1>5, <1>6, <1>7, RoleStepKeeps

\* The roles of a user are replaced.
LEMMA AssignKeeps ==
  ASSUME RolesInv, NEW r \in Request, NEW u \in Member, AssignStep(r, u)
  PROVE  RolesInv'
<1>0. RoleTypes /\ SparesAdmin(r) /\ AdminIsKept
  BY DEF RolesInv
<1>1. CASE DeleteAssigned(r, u)
  <2>1. /\ At(r, "deleteAssigned") /\ ~At(r, "idle") /\ u = req[r].on
        /\ Proceed(r, "insertAssigned", req[r].seen)
        /\ assigned' = [assigned EXCEPT ![u] = {}]
        /\ UNCHANGED <<role, system, permission, grants, booted, asked, given, meddled>>
    BY <1>1 DEF DeleteAssigned, OnMember, At, roleHistory
  <2>2. unbroken' = unbroken /\ ~At(r, "insertAll")
    BY <2>1 DEF Proceed, At
  <2>3. KeepsRoles(r)
    BY <1>0, <2>1, <2>2 DEF KeepsRoles, RoleTypes, AdminIsKept
  <2>4. At(r, "insertAssigned")' => SparesAdmin(r)'
    BY <2>1 DEF SparesAdmin, At
  <2>5. At(r, "insertAssigned")' /\ req'[r].on = req[r].on /\ Owes(r) => Owes(r)'
    BY <1>0, <2>1 DEF Owes, At, AsAsked, AsGiven, RoleTypes
  <2>6. "insertAssigned" \in AllRoleSteps \ {"idle"}
    BY DEF AllRoleSteps
  <2>q. QED BY <2>1, <2>3, <2>4, <2>5, <2>6, RoleProceeds
<1>2. CASE InsertAssigned(r, u)
  <2>1. /\ At(r, "insertAssigned") /\ ~At(r, "idle") /\ u = req[r].on /\ Finish(r)
        /\ req[r].seen \subseteq role
        /\ assigned' = [assigned EXCEPT ![u] = @ \cup req[r].seen]
        /\ given' = [given EXCEPT ![u] = req[r].seen]
        /\ UNCHANGED <<role, system, permission, grants, asked, booted, meddled>>
    BY <1>2 DEF InsertAssigned, OnMember, At
  <2>2. unbroken' = unbroken /\ ~At(r, "insertAll")
    BY <2>1 DEF Finish, At
  <2>3. assigned' \in [Member -> SUBSET Role] /\ given' \in [Member -> SUBSET Role]
    BY <1>0, <2>1 DEF RoleTypes
  <2>4. KeepsRoles(r)
    BY <1>0, <2>1, <2>2, <2>3 DEF KeepsRoles, RoleTypes, AdminIsKept
  <2>5. Owes(r) => AsAsked({})' /\ AsGiven({})'
    BY <1>0, <2>1 DEF Owes, At, AsAsked, AsGiven, RoleTypes
  <2>q. QED BY <2>1, <2>4, <2>5, RoleFinishes
<1>3. CASE AssignedRefused(r, u)
  BY <1>3, BrokenRoleStep DEF AssignedRefused, OnMember, At
<1>q. QED BY <1>1, <1>2, <1>3 DEF AssignStep

\* Requests for roles read the rows they need.
LEMMA RoleRequestKeeps ==
  ASSUME RolesInv, NEW r \in Request, RoleRequest(r)
  PROVE  RolesInv'
<1>0. AdminIsKept /\ RoleTypes
  BY DEF RolesInv
<1> USE DEF ReadRoles, roleTables, roleHistory, RoleRows
<1>1. {"insertRole", "updateRole", "deleteRole", "deleteGrants", "deleteAssigned"} \subseteq
        AllRoleSteps \ {"idle", "insertGrants", "insertAll", "insertAssigned"}
  BY DEF AllRoleSteps, RoleSteps
<1>2. ASSUME NEW ro \in Role, NEW ps \in SUBSET Permission, CreateRole(r, ro, ps)
      PROVE  RolesInv'
  <2>1. ro # AdminRole /\ Start(r, "insertRole", ro, ps) /\ ReadRoles
    BY <1>2 DEF CreateRole
  <2>2. req'[r].at = "insertRole" /\ req'[r].on = ro => SparesAdmin(r)'
    BY <2>1 DEF SparesAdmin, At
  <2>q. QED BY <1>0, <1>1, <2>1, <2>2, RoleRequestReads DEF RoleTypes
<1>3. ASSUME NEW ro \in Role, NEW ps \in SUBSET Permission, UpdateRole(r, ro, ps)
      PROVE  RolesInv'
  <2>1. ro # AdminRole /\ Start(r, "updateRole", ro, ps) /\ ReadRoles
    BY <1>0, <1>3 DEF UpdateRole, AdminIsKept
  <2>2. req'[r].at = "updateRole" /\ req'[r].on = ro => SparesAdmin(r)'
    BY <2>1 DEF SparesAdmin, At
  <2>q. QED BY <1>0, <1>1, <2>1, <2>2, RoleRequestReads DEF RoleTypes
<1>4. ASSUME NEW ro \in Role, NEW ps \in SUBSET Permission, SyncPermissions(r, ro, ps)
      PROVE  RolesInv'
  <2>1. /\ Start(r, "deleteGrants", ro, ps)
        /\ meddled' = (meddled \/ ro = AdminRole)
        /\ UNCHANGED <<role, system, permission, grants, assigned, booted, asked, given>>
    BY <1>4 DEF SyncPermissions
  <2>2. req'[r].at = "deleteGrants" /\ req'[r].on = ro => SparesAdmin(r)'
    BY <2>1 DEF SparesAdmin, At
  <2>q. QED BY <1>0, <1>1, <2>1, <2>2, RoleRequestReads DEF RoleTypes
<1>5. ASSUME NEW ro \in Role, RemoveRole(r, ro)
      PROVE  RolesInv'
  <2>1. /\ ro # AdminRole /\ Start(r, "deleteRole", ro, {}) /\ ReadRoles
        /\ \A u \in Member : ro \notin assigned[u]
    BY <1>0, <1>5 DEF RemoveRole, AdminIsKept, UsersOf
  <2>2. req'[r].at = "deleteRole" /\ req'[r].on = ro => SparesAdmin(r)'
    BY <2>1 DEF SparesAdmin, At
  <2>q. QED BY <1>0, <1>1, <2>1, <2>2, RoleRequestReads DEF RoleTypes
<1>6. ASSUME NEW u \in Member, NEW ros \in SUBSET Role, AssignRoles(r, u, ros)
      PROVE  RolesInv'
  <2>1. Start(r, "deleteAssigned", u, ros) /\ ReadRoles
    BY <1>6 DEF AssignRoles
  <2>2. req'[r].at = "deleteAssigned" => SparesAdmin(r)'
    BY DEF SparesAdmin, At
  <2>q. QED BY <1>0, <1>1, <2>1, <2>2, RoleRequestReads DEF RoleTypes
<1>q. QED BY <1>2, <1>3, <1>4, <1>5, <1>6 DEF RoleRequest

\* What is done at once does to the tables and to the ids that handlers hold.
DoneAtOnce ==
  /\ alone' => alone /\ Quiet
  /\ unbroken' = unbroken
  /\ UNCHANGED <<role, system, booted>>
  /\ permission' \subseteq Permission
  /\ grants' \in [Role -> SUBSET Permission] /\ asked' \in [Role -> SUBSET Permission]
  /\ assigned' \in [Member -> SUBSET Role] /\ given' \in [Member -> SUBSET Role]
  /\ AsAsked({}) => AsAsked({})'
  /\ AsGiven({}) => AsGiven({})'
  /\ \/ meddled'
     \/ meddled' = meddled /\ permission' = permission /\ grants' = grants
  /\ \/ req' = req
     \/ meddled' /\ \E p \in permission : req' = Forgetting(p)

OnlyForgotten ==
  /\ \A r \in Request : /\ req'[r].at = req[r].at /\ req'[r].on = req[r].on
                        /\ ~meddled' => req'[r] = req[r]
  /\ Shaped(AllRoleSteps, RoleRows)'

\* What is done at once meets no handler, unless requests overlap.
LEMMA RolesAtOnceKeep ==
  ASSUME RolesInv, RolesAtOnce
  PROVE  RolesInv'
<1>0. RoleTypes /\ AdminIsKept /\ \A r \in Request : SparesAdmin(r)
  BY DEF RolesInv
<1>1. DoneAtOnce
  <2>1. ASSUME NEW p \in Permission, CreatePermission(p)
        PROVE  DoneAtOnce
    BY <1>0, <2>1 DEF DoneAtOnce, CreatePermission, AtOnce, AsAsked, AsGiven, RoleTypes
  <2>2. ASSUME NEW p \in Permission, RemovePermission(p)
        PROVE  DoneAtOnce
    <3>1. /\ p \in permission /\ permission' = permission \ {p}
          /\ grants' = [ro \in Role |-> grants[ro] \ {p}]
          /\ asked' = [ro \in Role |-> asked[ro] \ {p}]
          /\ req' = Forgetting(p) /\ alone' = (alone /\ Quiet) /\ meddled'
          /\ UNCHANGED <<role, system, assigned, given, booted, unbroken>>
      BY <2>2 DEF RemovePermission
    <3>2. /\ grants' \in [Role -> SUBSET Permission] /\ asked' \in [Role -> SUBSET Permission]
          /\ AsAsked({}) => AsAsked({})'
      BY <1>0, <3>1 DEF RoleTypes, AsAsked
    <3>q. QED BY <1>0, <3>1, <3>2 DEF DoneAtOnce, RoleTypes, AsGiven
  <2>3. ASSUME NEW u \in Member, NEW ros \in SUBSET Role, UpdateRolesOf(u, ros)
        PROVE  DoneAtOnce
    BY <1>0, <2>3 DEF DoneAtOnce, UpdateRolesOf, AtOnce, AsAsked, AsGiven, RoleTypes
  <2>q. QED BY <2>1, <2>2, <2>3 DEF RolesAtOnce
<1>2. OnlyForgotten
  <2>1. CASE req' = req
    BY <1>0, <2>1 DEF OnlyForgotten, RoleTypes, Shaped, HandlersOf, At
  <2>2. ASSUME meddled', NEW p \in permission, req' = Forgetting(p)
        PROVE  OnlyForgotten
    <3>1. PICK V : Null \in V /\ req \in [Request -> [at : AllRoleSteps, on : RoleRows, seen : V]]
      BY <1>0 DEF RoleTypes, Shaped, HandlersOf
    <3> DEFINE W == V \cup {(v \ {p}) \cup {Gone} : v \in V}
    <3>2. PICK X : X = W
      OBVIOUS
    <3>3. ASSUME NEW q \in Request
          PROVE  /\ req'[q] \in [at : AllRoleSteps, on : RoleRows, seen : X]
                 /\ req'[q].at = req[q].at /\ req'[q].on = req[q].on
                 /\ req[q] = Idle => req'[q] = Idle
      <4>1. req[q] \in [at : AllRoleSteps, on : RoleRows, seen : V]
        BY <3>1
      <4>2. CASE req'[q] = req[q]
        BY <3>2, <4>1, <4>2
      <4>3. CASE req[q] # Idle /\ req'[q] = [req[q] EXCEPT !.seen = (@ \ {p}) \cup {Gone}]
        <5>1. PICK seen \in V : seen = req[q].seen
          BY <4>1
        <5>2. PICK then : then = (seen \ {p}) \cup {Gone}
          OBVIOUS
        <5>3. then \in X
          BY <3>2, <5>2
        <5>4. req'[q] = [req[q] EXCEPT !.seen = then]
          BY <4>3, <5>1, <5>2
        <5>q. QED BY <4>1, <4>3, <5>3, <5>4
      <4>q. QED BY <2>2, <4>2, <4>3 DEF Forgetting
    <3>4. req' = [q \in Request |-> req'[q]]
      BY <2>2 DEF Forgetting
    <3>5. req' \in HandlersOf(AllRoleSteps, RoleRows, X) /\ Null \in X
      BY <3>1, <3>2, <3>3, <3>4 DEF HandlersOf
    <3>6. \A q \in Request : At(q, "idle")' => req'[q] = Idle
      BY <1>0, <3>3 DEF At, RoleTypes, Shaped
    <3>q. QED BY <2>2, <3>3, <3>5, <3>6 DEF OnlyForgotten, Shaped
  <2>q. QED BY <1>1, <2>1, <2>2 DEF DoneAtOnce
<1>3. RoleTypes'
  <2>1. Solo'
    BY <1>0, <1>1, <1>2 DEF DoneAtOnce, OnlyForgotten, RoleTypes, Solo, At
  <2>q. QED BY <1>0, <1>1, <1>2, <2>1 DEF DoneAtOnce, OnlyForgotten, RoleTypes
<1>4. \A r \in Request : SparesAdmin(r)'
  <2> SUFFICES ASSUME NEW r \in Request PROVE SparesAdmin(r)'
    OBVIOUS
  <2>1. SparesAdmin(r)
    BY <1>0
  <2>2. req'[r].at = req[r].at /\ req'[r].on = req[r].on
    BY <1>2 DEF OnlyForgotten
  <2>3. CASE meddled'
    BY <2>1, <2>2, <2>3, <1>1 DEF DoneAtOnce, SparesAdmin, At
  <2>4. CASE ~meddled'
    <3>1. req'[r] = req[r] /\ permission' = permission /\ meddled' = meddled
      BY <1>1, <1>2, <2>4 DEF DoneAtOnce, OnlyForgotten
    <3>q. QED BY <2>1, <3>1 DEF SparesAdmin, At
  <2>q. QED BY <2>3, <2>4
<1>5. AdminIsKept'
  <2>1. \A r \in Request : At(r, "insertAll") => At(r, "insertAll")'
    BY <1>2 DEF OnlyForgotten, At
  <2>q. QED BY <1>0, <1>1, <2>1 DEF DoneAtOnce, AdminIsKept
<1>6. calm' => AsAsked({})' /\ AsGiven({})' /\ \A r \in Request : At(r, "idle")'
  <2>1. calm' => calm /\ Quiet
    BY <1>1 DEF DoneAtOnce, calm
  <2>2. Quiet => \A r \in Request : At(r, "idle")'
    <3>1. Idle.at = "idle"
      BY DEF Idle
    <3>q. QED BY <1>2, <3>1 DEF OnlyForgotten, Quiet, At
  <2>3. calm /\ Quiet => AsAsked({}) /\ AsGiven({})
    BY DEF RolesInv
  <2>q. QED BY <1>1, <2>1, <2>2, <2>3 DEF DoneAtOnce
<1>q. QED BY <1>3, <1>4, <1>5, <1>6 DEF RolesInv

\* At first there is no role.
LEMMA RolesStart ==
  ASSUME HandlersInit, RolesInit
  PROVE  RolesInv
<1>1. \A r \in Request : req[r] = Idle /\ req[r].at = "idle"
  BY DEF HandlersInit, Idle
<1>2. Shaped(AllRoleSteps, RoleRows) /\ Solo
  <2>1. Idle \in [at : AllRoleSteps, on : RoleRows, seen : {Null}]
    BY DEF Idle, AllRoleSteps, RoleRows
  <2>2. req \in HandlersOf(AllRoleSteps, RoleRows, {Null})
    BY <2>1 DEF HandlersInit, HandlersOf
  <2>q. QED BY <1>1, <2>2 DEF Shaped, Solo, At
<1>3. RoleTypes
  BY <1>2 DEF RoleTypes, RolesInit
<1>4. AdminIsKept /\ AsAsked({}) /\ AsGiven({})
  BY DEF AdminIsKept, RolesInit, AsAsked, AsGiven
<1>5. \A r \in Request : SparesAdmin(r) /\ At(r, "idle")
  BY <1>1 DEF SparesAdmin, At
<1>q. QED BY <1>3, <1>4, <1>5 DEF RolesInv

\* Every step keeps the invariant of the roles.
LEMMA RolesInductive ==
  ASSUME RolesInv, [RolesNext]_roleVars
  PROVE  RolesInv'
<1>1. ASSUME NEW r \in Request, NEW ro \in Role, RoleStep(r, ro)
      PROVE  RolesInv'
  BY <1>1, RoleWritten, RoleDeleted
<1>2. ASSUME NEW r \in Request, Fail(r) /\ ReadRoles
      PROVE  RolesInv'
  <2>1. ~At(r, "idle") /\ Break(r) /\ ReadRoles
    BY <1>2 DEF Fail, RolesInv, RoleTypes, Shaped, At
  <2>q. QED BY <2>1, BrokenRoleStep
<1>3. CASE UNCHANGED roleVars
  BY <1>3 DEF roleVars, roleTables, roleHistory, handlers, RolesInv, RoleTypes, SparesAdmin,
              AdminIsKept, Owes, AsAsked, AsGiven, At, Shaped, HandlersOf, Solo, calm, Quiet
<1>q. QED BY <1>1, <1>2, <1>3, BootstrapKeeps, AssignKeeps, RoleRequestKeeps, RolesAtOnceKeep
      DEF RolesNext

\* However many servers start at the same time, the administrator may do everything in the
\* catalogue once none is starting, unless a client has set it otherwise (bootstrapDatabase).
THEOREM AdministratorAlwaysHasAll == RolesSpec => []AdministratorHasAll
<1>1. RolesInv => AdministratorHasAll
  <2>1. Quiet => \A r \in Request : ~At(r, "insertAll")
    <3>1. Idle.at = "idle"
      BY DEF Idle
    <3>q. QED BY <3>1 DEF Quiet, At
  <2>q. QED BY <2>1 DEF RolesInv, AdminIsKept, AdministratorHasAll
<1>q. QED BY <1>1, RolesStart, RolesInductive, PTL DEF RolesSpec

\* While requests are served one by one and to their end, roles grant and users have what the
\* last requests asked for (RolesService.syncPermissions and remove, UsersService.assignRoles).
THEOREM AlwaysReplacedAsAsked == RolesSpec => []ReplacedAsAsked
<1>1. RolesInv => ReplacedAsAsked
  BY DEF RolesInv, RoleTypes, AsAsked, AsGiven, ReplacedAsAsked
<1>q. QED BY <1>1, RolesStart, RolesInductive, PTL DEF RolesSpec

=============================================================================
