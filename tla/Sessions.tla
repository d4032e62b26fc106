------------------------------ MODULE Sessions -------------------------------
(***************************************************************************)
(* What the accounts promise about sessions, however requests overlap: one *)
(* is opened by a login, which was asked for while the tenant took logins  *)
(* and accepted while its user was admitted, or kept open by a refresh,    *)
(* which began while the session was open.  Nothing else opens one.        *)
(***************************************************************************)
CONSTANT User

VARIABLES
  open,      \* users that have a session
  admitted,  \* users that may sign in
  agency,    \* whether the tenant takes logins
  asking,    \* users for whom a login is asked
  accepted,  \* users whose login has been accepted and not been answered
  renewing   \* users whose session was open when its renewal was asked

vars == <<open, admitted, agency, asking, accepted, renewing>>

Init ==
  /\ open = {} /\ asking = {} /\ accepted = {} /\ renewing = {}
  /\ admitted \subseteq User
  /\ agency \in BOOLEAN

\* The users that may be left when one request for u has gone on: there may be more for u.
Left(s, u) == {s, s \ {u}}

Ask(u) ==
  /\ agency
  /\ asking' = asking \cup {u}
  /\ UNCHANGED <<open, admitted, agency, accepted, renewing>>

Accept(u) ==
  /\ u \in asking \cap admitted
  /\ asking' \in Left(asking, u)
  /\ accepted' = accepted \cup {u}
  /\ UNCHANGED <<open, admitted, agency, renewing>>

\* A login ends the lock of a user who has been locked meanwhile.
SignIn(u) ==
  /\ u \in accepted
  /\ open' = open \cup {u}
  /\ accepted' \in Left(accepted, u)
  /\ admitted' \in {admitted, admitted \cup {u}}
  /\ UNCHANGED <<agency, asking, renewing>>

Renew(u) ==
  /\ u \in open
  /\ renewing' = renewing \cup {u}
  /\ UNCHANGED <<open, admitted, agency, asking, accepted>>

Continue(u) ==
  /\ u \in renewing
  /\ open' = open \cup {u}
  /\ renewing' \in Left(renewing, u)
  /\ UNCHANGED <<admitted, agency, asking, accepted>>

\* Sessions are closed, requests refused or broken off, users and tenants locked, removed or
\* admitted again.
Administer ==
  /\ open' \subseteq open
  /\ asking' \subseteq asking /\ accepted' \subseteq accepted /\ renewing' \subseteq renewing
  /\ admitted' \subseteq User
  /\ agency' \in BOOLEAN

Next ==
  \/ \E u \in User : Ask(u) \/ Accept(u) \/ SignIn(u) \/ Renew(u) \/ Continue(u)
  \/ Administer

Spec == Init /\ [][Next]_vars
=============================================================================
