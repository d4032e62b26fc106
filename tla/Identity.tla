------------------------------ MODULE Identity -------------------------------
(***************************************************************************)
(* Who may use the system: accounts and sessions, roles and permissions,   *)
(* and the client that holds the tokens.  In a behaviour one of the three  *)
(* is at work, the one whose endpoints are in mix; they share the handlers *)
(* but write no table of one another.                                      *)
(***************************************************************************)
EXTENDS Accounts, Roles, AdminClient

identityVars == <<accounts, roleTables, roleHistory, clientVars>>
vars == <<handlers, identityVars>>

Init == HandlersInit /\ AccountsInit /\ RolesInit /\ ClientInit

Next ==
  \/ "accounts" \in mix /\ AccountsNext /\ UNCHANGED <<roleTables, roleHistory, clientVars>>
  \/ "authority" \in mix /\ RolesNext /\ UNCHANGED <<accounts, clientVars>>
  \/ "client" \in mix /\ ClientNext /\ UNCHANGED <<accountVars, roleVars>>

\* A call of the client is answered or times out, and its answer is then dealt with.
ClientFairness ==
  \A c \in Call :
    WF_vars("client" \in mix /\ CallStep(c) /\ UNCHANGED <<accountVars, roleVars>>)

Spec == Init /\ [][Next]_vars /\ ClientFairness
=============================================================================
