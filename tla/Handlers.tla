------------------------------ MODULE Handlers -------------------------------
(***************************************************************************)
(* What the handlers of the backend have in common.  A request is served by*)
(* a handler that sends one statement after the other to the database;     *)
(* between two of them other handlers send theirs, and no transaction spans*)
(* several.  req[r] is what the handler of request r carries from one      *)
(* statement to the next: the step it takes next, the row it works on and  *)
(* what it has read.                                                       *)
(***************************************************************************)

CONSTANTS
  Request,  \* HTTP requests being served at the same time
  Mixes,    \* sets of endpoints; the clients of a behaviour use one of them
  MayFail,  \* may a handler die between two statements?
  Null

ASSUME HandlersAssumption == MayFail \in BOOLEAN

VARIABLES
  req,      \* the handlers in progress
  mix,      \* the endpoints that clients use
  (*************************** history variables ***************************)
  alone,    \* no two requests have overlapped
  unbroken  \* no handler has stopped halfway

handlers == <<req, mix, alone, unbroken>>

-----------------------------------------------------------------------------
Idle == [at |-> "idle", on |-> Null, seen |-> Null]

HandlersInit ==
  /\ req = [r \in Request |-> Idle]
  /\ mix \in Mixes
  /\ alone = TRUE
  /\ unbroken = TRUE

\* So far requests were served one after the other and to their end.
calm == alone /\ unbroken

Quiet == \A r \in Request : req[r] = Idle

At(r, step) == req[r].at = step

\* A request arrives and its first statement is done.
Start(r, step, on, seen) ==
  /\ req[r] = Idle
  /\ req' = [req EXCEPT ![r] = [at |-> step, on |-> on, seen |-> seen]]
  /\ alone' = (alone /\ Quiet)
  /\ UNCHANGED <<mix, unbroken>>

\* A request that needs one statement only.
AtOnce ==
  /\ alone' = (alone /\ Quiet)
  /\ UNCHANGED <<req, mix, unbroken>>

Proceed(r, step, seen) ==
  /\ req' = [req EXCEPT ![r] = [@ EXCEPT !.at = step, !.seen = seen]]
  /\ UNCHANGED <<mix, alone, unbroken>>

Finish(r) ==
  /\ req' = [req EXCEPT ![r] = Idle]
  /\ UNCHANGED <<mix, alone, unbroken>>

\* The database refuses a statement, or the process dies before it: what the handler has
\* written so far stays.
Break(r) ==
  /\ req' = [req EXCEPT ![r] = Idle]
  /\ unbroken' = FALSE
  /\ UNCHANGED <<mix, alone>>

Fail(r) == MayFail /\ req[r] # Idle /\ Break(r)
=============================================================================
