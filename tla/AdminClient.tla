---------------------------- MODULE AdminClient ------------------------------
(***************************************************************************)
(* One browser with the administration front end: the axios client of      *)
(* lib/api.ts, the store of store/auth.store.ts, the layouts that look at  *)
(* it and the proxy route in between.  Calls of a page are under way at the*)
(* same time; a call that is answered 401 has the access token refreshed   *)
(* and is sent again, once.                                                *)
(*                                                                         *)
(* Of the backend only that is kept which module Accounts says about one   *)
(* user: an access token is good until it expires or the user is barred,   *)
(* any refresh token as long as the row stores one.  What calls bring is   *)
(* left out, and so is the super admin's own login page.                   *)
(***************************************************************************)
CONSTANT Call  \* calls a page has under way at the same time

VARIABLES
  call,      \* the calls, each with the token that was attached to it
  access,    \* cookie access_token: none, live, or stale when the token has expired
  refresh,   \* is there a cookie refresh_token?
  signedIn,  \* isAuthenticated in the store, which the browser keeps
  page,      \* login, dashboard, or leaving: the browser loads /login
  server,    \* open: the row stores a token; closed: it does not; barred: the user may not sign in
  (*************************** history variables ***************************)
  sound,     \* since the last login the session was not ended and no answer was lost
  thrown     \* has a sound session been given up?

clientVars == <<call, access, refresh, signedIn, page, server, sound, thrown>>

-----------------------------------------------------------------------------
Tokens == {"none", "live", "stale"}
NoCall == [at |-> "idle", kind |-> "load", token |-> "none", retried |-> FALSE]
CallStates == {"idle", "sent", "accepted", "refused", "failed", "refreshing", "renewed", "denied"}

ClientInit ==
  /\ call = [c \in Call |-> NoCall]
  /\ access = "none"
  /\ refresh = FALSE
  /\ signedIn = FALSE
  /\ page = "login"
  /\ server = "closed"
  /\ sound = FALSE
  /\ thrown = FALSE

CallAt(c, state) == call[c].at = state
Becomes(c, state) == call' = [call EXCEPT ![c].at = state]
Ends(c) == call' = [call EXCEPT ![c] = NoCall]

-----------------------------------------------------------------------------
(* The pages                                                               *)

\* The request interceptor attaches the token of the cookie.
Send(c, kind) ==
  /\ CallAt(c, "idle")
  /\ call' = [call EXCEPT ![c] = [at |-> "sent", kind |-> kind, token |-> access,
                                  retried |-> FALSE]]

\* onSubmit of the login page; the button is disabled while a login is under way.
SignIn(c) ==
  /\ page = "login"
  /\ \A d \in Call : ~(call[d].at # "idle" /\ call[d].kind = "login")
  /\ Send(c, "login")
  /\ UNCHANGED <<access, refresh, signedIn, page, server, sound, thrown>>

\* A page under DashboardLayout, which shows nothing to a client that is not signed in.
Load(c) ==
  /\ page = "dashboard" /\ signedIn
  /\ Send(c, "load")
  /\ UNCHANGED <<access, refresh, signedIn, page, server, sound, thrown>>

SignOut(c) ==
  /\ page = "dashboard" /\ signedIn
  /\ Send(c, "logout")
  /\ sound' = FALSE
  /\ UNCHANGED <<access, refresh, signedIn, page, server, thrown>>

\* A page is loaded anew, and the calls of the one before are dropped: a user types an
\* address, DashboardLayout sends one who is not signed in to /login, or the browser follows
\* window.location.href.
Open(p) ==
  /\ p = "dashboard" => signedIn /\ page # "leaving"
  /\ page' = p
  /\ call' = [c \in Call |-> NoCall]
  /\ UNCHANGED <<access, refresh, signedIn, server, sound, thrown>>

-----------------------------------------------------------------------------
(* The backend, behind the proxy                                           *)

Good(token) == token = "live" /\ server # "barred"

ServerAccepts(c) ==
  /\ CallAt(c, "sent")
  /\ call[c].kind = "login" => server # "barred"
  /\ call[c].kind # "login" => Good(call[c].token)
  /\ Becomes(c, "accepted")
  /\ server' = CASE call[c].kind = "login"  -> "open"
                 [] call[c].kind = "logout" -> "closed"
                 [] call[c].kind = "load"   -> server
  /\ sound' = (sound /\ call[c].kind # "logout")
  /\ UNCHANGED <<access, refresh, signedIn, page, thrown>>

\* 401: the token is not good, or the password of a login is wrong.
ServerRefuses(c) ==
  /\ CallAt(c, "sent")
  /\ call[c].kind # "login" => ~Good(call[c].token)
  /\ Becomes(c, "refused")
  /\ UNCHANGED <<access, refresh, signedIn, page, server, sound, thrown>>

\* Another error: a login of a barred user, a refused request, no answer for 30 seconds.
CallFails(c) ==
  /\ CallAt(c, "sent")
  /\ Becomes(c, "failed")
  /\ UNCHANGED <<access, refresh, signedIn, page, server, sound, thrown>>

ServerRenews(c) ==
  /\ CallAt(c, "refreshing")
  /\ server = "open"
  /\ Becomes(c, "renewed")
  /\ UNCHANGED <<access, refresh, signedIn, page, server, sound, thrown>>

ServerDenies(c) ==
  /\ CallAt(c, "refreshing")
  /\ server # "open"
  /\ Becomes(c, "denied")
  /\ UNCHANGED <<access, refresh, signedIn, page, server, sound, thrown>>

\* The refresh or its answer is lost; the proxy answers 502 after 30 seconds.
RefreshLost(c) ==
  /\ CallAt(c, "refreshing")
  /\ Becomes(c, "denied")
  /\ sound' = FALSE
  /\ UNCHANGED <<access, refresh, signedIn, page, server, thrown>>

\* The user signs out elsewhere, gets a new password, is blocked or removed, or unblocked.
ServerChanges(s) ==
  /\ server' = s
  /\ s = "open" => server = "barred"
  /\ sound' = FALSE
  /\ UNCHANGED <<call, access, refresh, signedIn, page, thrown>>

Aged(token) == IF token = "live" THEN "stale" ELSE token

AccessExpires ==
  /\ access = "live"
  /\ access' = "stale"
  /\ call' = [c \in Call |-> [call[c] EXCEPT !.token = Aged(@)]]
  /\ UNCHANGED <<refresh, signedIn, page, server, sound, thrown>>

\* The refresh cookie is kept for seven days, the other for one.
CookiesExpire ==
  /\ access' = "none"
  /\ refresh' = FALSE
  /\ sound' = FALSE
  /\ UNCHANGED <<call, signedIn, page, server, thrown>>

-----------------------------------------------------------------------------
(* The answers                                                             *)

LoginAccepted(c) ==
  /\ CallAt(c, "accepted") /\ call[c].kind = "login"
  /\ access' = "live"
  /\ refresh' = TRUE
  /\ signedIn' = TRUE
  /\ page' = IF page = "login" THEN "dashboard" ELSE page
  /\ sound' = (server = "open")
  /\ Ends(c)
  /\ UNCHANGED <<server, thrown>>

LoadAccepted(c) ==
  /\ CallAt(c, "accepted") /\ call[c].kind = "load"
  /\ Ends(c)
  /\ UNCHANGED <<access, refresh, signedIn, page, server, sound, thrown>>

\* The error reaches the page: it is another one than 401, or the call was sent again already.
Rejected(c) == CallAt(c, "failed") \/ (CallAt(c, "refused") /\ call[c].retried)

CallRejected(c) ==
  /\ Rejected(c) /\ call[c].kind # "logout"
  /\ Ends(c)
  /\ UNCHANGED <<access, refresh, signedIn, page, server, sound, thrown>>

\* logout forgets everything, whatever the backend has answered.
SignedOut(c) ==
  /\ call[c].kind = "logout"
  /\ CallAt(c, "accepted") \/ Rejected(c)
  /\ access' = "none"
  /\ refresh' = FALSE
  /\ signedIn' = FALSE
  /\ page' = "leaving"
  /\ Ends(c)
  /\ UNCHANGED <<server, sound, thrown>>

\* The store is not told that the cookies are gone; a logout goes on as after any error.
GiveUp(c) ==
  /\ access' = "none"
  /\ refresh' = FALSE
  /\ page' = "leaving"
  /\ thrown' = (thrown \/ sound)
  /\ IF call[c].kind = "logout" THEN Becomes(c, "failed") ELSE Ends(c)
  /\ UNCHANGED <<signedIn, server, sound>>

\* [mutant] a call that is refused once more ends the session
RefreshFailsTwice(c) ==
  /\ \/ CallAt(c, "denied")
     \/ CallAt(c, "refused") /\ (call[c].retried \/ ~refresh)
  /\ GiveUp(c)

RefreshFails(c) ==
  /\ \/ CallAt(c, "denied")
     \/ CallAt(c, "refused") /\ ~call[c].retried /\ ~refresh
  /\ GiveUp(c)

\* [mutant] a call may be sent again any number of times
AskForRefreshAgain(c) ==
  /\ CallAt(c, "refused")
  /\ refresh
  /\ Becomes(c, "refreshing")
  /\ UNCHANGED <<access, refresh, signedIn, page, server, sound, thrown>>

AskForRefresh(c) ==
  /\ CallAt(c, "refused") /\ ~call[c].retried
  /\ refresh
  /\ call' = [call EXCEPT ![c] = [@ EXCEPT !.at = "refreshing", !.retried = TRUE]]
  /\ UNCHANGED <<access, refresh, signedIn, page, server, sound, thrown>>

\* The rotated refresh token of the answer is not stored.
SendAgain(c) ==
  /\ CallAt(c, "renewed")
  /\ access' = "live"
  /\ call' = [call EXCEPT ![c] = [@ EXCEPT !.at = "sent", !.token = "live"]]
  /\ UNCHANGED <<refresh, signedIn, page, server, sound, thrown>>

-----------------------------------------------------------------------------
\* What happens to a call that is under way; it is answered or times out, so these are fair.
CallStep(c) ==
  \/ ServerAccepts(c) \/ ServerRefuses(c) \/ CallFails(c)
  \/ ServerRenews(c) \/ ServerDenies(c) \/ RefreshLost(c)
  \/ LoginAccepted(c) \/ LoadAccepted(c) \/ CallRejected(c) \/ SignedOut(c)
  \/ RefreshFails(c) \/ AskForRefresh(c) \/ SendAgain(c)

ClientNext ==
  \/ \E c \in Call : SignIn(c) \/ Load(c) \/ SignOut(c) \/ CallStep(c)
  \/ \E p \in {"login", "dashboard"} : Open(p)
  \/ \E s \in {"open", "closed", "barred"} : ServerChanges(s)
  \/ AccessExpires \/ CookiesExpire

ClientSpec == ClientInit /\ [][ClientNext]_clientVars

FairClient == \A c \in Call : WF_clientVars(CallStep(c))

-----------------------------------------------------------------------------
(* Properties                                                              *)

\* However many calls meet an expired token at the same time, and in whatever order their
\* refreshes are answered, none of them ends a session that the server still has, unless an
\* answer is lost.
SessionIsKept == ~thrown

\* Every call ends: no call is sent again for ever and none waits for another.
CallsEnd == \A c \in Call : call[c].at # "idle" ~> call[c].at = "idle"
=============================================================================
