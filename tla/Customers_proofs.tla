--------------------------- MODULE Customers_proofs ---------------------------
(***************************************************************************)
(* Proofs about Customers for any number of leads, clients, addresses and  *)
(* overlapping requests.  They speak of each lead that no two requests     *)
(* have worked on at a time, and of each address that no two have been     *)
(* about to give to a client, whatever is done to the others meanwhile.    *)
(***************************************************************************)
EXTENDS Customers, TLAPS

\* The rows a handler is going to write exist.
Linked ==
  \A r \in Request :
    /\ req[r].at \in LeadSteps => LeadExists(req[r].lead)
    /\ req[r].at \in {"markWon", "checkEmail", "updateClient", "removeClient"} =>
         req[r].client \in Client /\ ClientExists(req[r].client)

TInv == TypeOK /\ Linked

-----------------------------------------------------------------------------
\* What a step changes of the rows keeps the types, if it writes typed rows.
LEMMA LeadWriteTyped ==
  ASSUME TInv, NEW r \in Request, req[r].at \in LeadSteps, NEW row \in LeadRow,
         row.client # Null => ClientExists(row.client), WriteLead(r, row)
  PROVE  TInv'
<1>1. req[r].lead \in Lead
  BY DEF TInv, TypeOK, Handler, Idle, LeadSteps, ClientSteps
<1>2. TypeOK'
  BY <1>1 DEF WriteLead, Finish, TInv, TypeOK, Handler, ClientExists
<1>3. Linked'
  BY <1>1 DEF WriteLead, Finish, TInv, TypeOK, Linked, LeadExists, ClientExists, Idle,
              LeadSteps, LeadRow, LeadStatus
<1>q. QED BY <1>2, <1>3 DEF TInv

LEMMA ClientWriteTyped ==
  ASSUME TInv, NEW r \in Request, req[r].client \in Client, NEW row \in ClientRow,
         WriteClient(r, row)
  PROVE  TInv'
<1>1. TypeOK'
  BY DEF WriteClient, Finish, TInv, TypeOK, Handler, ClientExists, ClientRow
<1>2. Linked'
  BY DEF WriteClient, Finish, TInv, TypeOK, Linked, LeadExists, ClientExists, Idle,
         LeadSteps, ClientRow
<1>q. QED BY <1>1, <1>2 DEF TInv

\* A handler that starts with a typed record, whose rows exist, keeps the types.
LEMMA StartTyped ==
  ASSUME TInv, NEW r \in Request, NEW h \in Handler, Start(r, h),
         h.at \in LeadSteps => LeadExists(h.lead),
         h.at \in {"markWon", "checkEmail", "updateClient", "removeClient"} =>
           h.client \in Client /\ ClientExists(h.client)
  PROVE  TInv'
<1>1. TypeOK'
  BY DEF Start, Step, TInv, TypeOK, ClientExists
<1>2. Linked'
  BY DEF Start, Step, TInv, TypeOK, Linked, LeadExists, ClientExists
<1>q. QED BY <1>1, <1>2 DEF TInv

\* The first statement of every request on a lead keeps the types.
LEMMA LeadRequestTyped ==
  ASSUME TInv, NEW r \in Request, LeadRequest(r)
  PROVE  TInv'
<1>1. ASSUME NEW l \in Lead, NEW s \in LeadStatus, NEW e \in Email \cup {Null},
             CreateLead(r, l, s, e)
      PROVE  TInv'
  <2>1. [NoLead EXCEPT !.status = s, !.email = e] \in LeadRow
    BY DEF NoLead, LeadRow
  <2>2. [NoLead EXCEPT !.status = s, !.email = e].client = Null
    BY DEF NoLead
  <2>3. TypeOK'
    BY <1>1, <2>1, <2>2 DEF CreateLead, TInv, TypeOK, ClientExists
  <2>4. Linked'
    BY <1>1, <2>1 DEF CreateLead, TInv, TypeOK, Linked, LeadExists, ClientExists, LeadRow,
                      LeadStatus
  <2>q. QED BY <2>3, <2>4 DEF TInv
<1>2. ASSUME NEW l \in Lead, NEW s \in LeadStatus \cup {Null}, NEW e \in Email \cup {Null},
             UpdateLeadRead(r, l, s, e)
      PROVE  TInv'
  <2> DEFINE h == [Idle EXCEPT !.at = "updateLead", !.lead = l, !.status = s, !.email = e]
  <2>1. h \in Handler /\ h.at = "updateLead" /\ h.lead = l
    BY DEF Idle, Handler, LeadSteps
  <2>2. Start(r, h) /\ LeadExists(l)
    BY <1>2 DEF UpdateLeadRead, LeadFound
  <2> HIDE DEF h
  <2>q. QED BY <2>1, <2>2, StartTyped
<1>3. ASSUME NEW l \in Lead, NEW c \in Client \cup {Null}, ConvertRead(r, l, c)
      PROVE  TInv'
  <2> DEFINE h == [Idle EXCEPT !.at = IF c = Null THEN "createClient" ELSE "markWon",
                               !.lead = l, !.client = c, !.email = lead[l].email]
  <2>1. LeadExists(l) /\ lead[l].email \in Email \cup {Null}
    BY <1>3 DEF ConvertRead, LeadFound, LeadExists, TInv, TypeOK, LeadRow, NoLead
  <2>2. h \in Handler /\ h.lead = l /\ h.client = c
    BY <2>1 DEF Idle, Handler, LeadSteps
  <2>3. h.at = IF c = Null THEN "createClient" ELSE "markWon"
    BY DEF Idle
  <2>4. Start(r, h) /\ (c # Null => ClientExists(c))
    BY <1>3 DEF ConvertRead
  <2> HIDE DEF h
  <2>q. QED BY <2>1, <2>2, <2>3, <2>4, StartTyped
<1>4. ASSUME NEW l \in Lead, RemoveLeadRead(r, l)
      PROVE  TInv'
  <2> DEFINE h == [Idle EXCEPT !.at = "removeLead", !.lead = l]
  <2>1. h \in Handler /\ h.at = "removeLead" /\ h.lead = l
    BY DEF Idle, Handler, LeadSteps
  <2>2. Start(r, h) /\ LeadExists(l)
    BY <1>4 DEF RemoveLeadRead, LeadFound
  <2> HIDE DEF h
  <2>q. QED BY <2>1, <2>2, StartTyped
<1>q. QED BY <1>1, <1>2, <1>3, <1>4 DEF LeadRequest

\* The first statement of every request on a client keeps the types.
LEMMA ClientRequestTyped ==
  ASSUME TInv, NEW r \in Request, ClientRequest(r)
  PROVE  TInv'
<1>1. ASSUME NEW e \in Email \cup {Null}, CreateClientCheck(r, e)
      PROVE  TInv'
  <2> DEFINE h == [Idle EXCEPT !.at = "insertClient", !.email = e]
  <2>1. h \in Handler /\ h.at = "insertClient"
    BY DEF Idle, Handler, ClientSteps
  <2>2. Start(r, h)
    BY <1>1 DEF CreateClientCheck
  <2> HIDE DEF h
  <2>q. QED BY <2>1, <2>2, StartTyped DEF LeadSteps
<1>2. ASSUME NEW c \in Client, NEW e \in Email \cup {Null}, UpdateClientRead(r, c, e)
      PROVE  TInv'
  <2> DEFINE h == [Idle EXCEPT !.at = IF e \in {Null, client[c].email} THEN "updateClient"
                                      ELSE "checkEmail",
                               !.client = c, !.email = e]
  <2>1. h \in Handler /\ h.at \in {"updateClient", "checkEmail"} /\ h.client = c
    BY DEF Idle, Handler, ClientSteps
  <2>2. Start(r, h) /\ ClientExists(c)
    BY <1>2 DEF UpdateClientRead, ClientFound, ClientExists
  <2> HIDE DEF h
  <2>q. QED BY <2>1, <2>2, StartTyped DEF LeadSteps
<1>3. ASSUME NEW c \in Client, RemoveClientRead(r, c)
      PROVE  TInv'
  <2> DEFINE h == [Idle EXCEPT !.at = "removeClient", !.client = c]
  <2>1. h \in Handler /\ h.at = "removeClient" /\ h.client = c
    BY DEF Idle, Handler, ClientSteps
  <2>2. Start(r, h) /\ ClientExists(c)
    BY <1>3 DEF RemoveClientRead, ClientFound, ClientExists
  <2> HIDE DEF h
  <2>q. QED BY <2>1, <2>2, StartTyped DEF LeadSteps
<1>q. QED BY <1>1, <1>2, <1>3 DEF ClientRequest

\* The later statements keep the types: the rows they write exist.
LEMMA ResumeTyped ==
  ASSUME TInv, NEW r \in Request, Resume(r)
  PROVE  TInv'
<1> DEFINE h == req[r]
           l == lead[h.lead]
<1>1. /\ h \in Handler
      /\ h.at \in LeadSteps => h.lead \in Lead /\ l \in LeadRow
      /\ h.at \in {"markWon", "checkEmail", "updateClient", "removeClient"} =>
           h.client \in Client /\ client[h.client] \in ClientRow
  BY DEF TInv, TypeOK, Linked, Handler, Idle, LeadSteps, ClientSteps, LeadExists, NoLead,
         ClientExists, NoClient
<1>2. ASSUME h.at \in LeadSteps
      PROVE  /\ h.status \in LeadStatus \cup {Null} /\ h.email \in Email \cup {Null}
             /\ l.client # Null => ClientExists(l.client)
  BY <1>1, <1>2 DEF TInv, TypeOK, Handler, Idle, LeadSteps, ClientSteps
<1>3. CASE UpdateLeadWrite(r)
  <2> DEFINE row == [l EXCEPT !.status = IF h.status = Null THEN @ ELSE h.status,
                              !.email = IF h.email = Null THEN @ ELSE h.email]
  <2>1. h.at = "updateLead" /\ WriteLead(r, row)
    BY <1>3 DEF UpdateLeadWrite, At
  <2>2. row \in LeadRow /\ row.client = l.client
    BY <1>1, <1>2, <2>1 DEF LeadRow, LeadSteps
  <2> HIDE DEF row
  <2>q. QED BY <1>2, <2>1, <2>2, LeadWriteTyped DEF LeadSteps
<1>4. ASSUME NEW c \in Client, ConvertCreateClient(r, c)
      PROVE  TInv'
  <2>1. h.at = "createClient" /\ h.lead \in Lead /\ h.email \in Email \cup {Null}
    BY <1>1, <1>2, <1>4 DEF ConvertCreateClient, At, LeadSteps
  <2> DEFINE g == [h EXCEPT !.at = "markWon", !.client = c]
  <2>2. h \in [at : LeadSteps, lead : Lead, client : Client \cup {Null},
               status : LeadStatus \cup {Null}, email : Email \cup {Null}]
    BY <1>1, <2>1 DEF Handler, Idle, LeadSteps, ClientSteps
  <2>3. g \in Handler /\ g.at = "markWon" /\ g.client = c /\ g.lead = h.lead
    BY <2>2 DEF Handler, LeadSteps
  <2>4. Step(r, g)
    BY <1>4 DEF ConvertCreateClient
  <2> HIDE DEF g
  <2>5. TypeOK'
    BY <1>4, <2>1, <2>3, <2>4
       DEF ConvertCreateClient, Step, TInv, TypeOK, ClientRow, ClientExists
  <2>6. Linked'
    BY <1>4, <2>1, <2>3, <2>4
       DEF ConvertCreateClient, Step, TInv, TypeOK, Linked, LeadExists, ClientExists, LeadSteps
  <2>q. QED BY <2>5, <2>6 DEF TInv
<1>5. ASSUME NEW c \in Client, CreateClientInsert(r, c)
      PROVE  TInv'
  <2>1. h.email \in Email \cup {Null}
    BY <1>1, <1>5 DEF CreateClientInsert, At, Handler, Idle
  <2>2. TypeOK'
    BY <1>5, <2>1 DEF CreateClientInsert, Finish, TInv, TypeOK, ClientRow, ClientExists,
                      Handler
  <2>3. Linked'
    BY <1>5, <2>1 DEF CreateClientInsert, Finish, TInv, TypeOK, Linked, LeadExists,
                      ClientExists, Idle, LeadSteps
  <2>q. QED BY <2>2, <2>3 DEF TInv
<1>6. CASE ConvertMarkWon(r)
  <2> DEFINE row == [l EXCEPT !.status = "WON", !.client = h.client]
  <2>1. h.at = "markWon" /\ WriteLead(r, row)
    BY <1>6 DEF ConvertMarkWon, At
  <2>2. row \in LeadRow /\ row.client = h.client /\ ClientExists(h.client)
    BY <1>1, <2>1 DEF LeadRow, LeadSteps, LeadStatus, TInv, Linked
  <2> HIDE DEF row
  <2>q. QED BY <2>1, <2>2, LeadWriteTyped DEF LeadSteps
<1>7. CASE RemoveLeadWrite(r)
  <2> DEFINE row == [l EXCEPT !.deleted = TRUE]
  <2>1. h.at = "removeLead" /\ WriteLead(r, row)
    BY <1>7 DEF RemoveLeadWrite, At
  <2>2. row \in LeadRow /\ row.client = l.client
    BY <1>1, <2>1 DEF LeadRow, LeadSteps
  <2> HIDE DEF row
  <2>q. QED BY <1>2, <2>1, <2>2, LeadWriteTyped DEF LeadSteps
<1>8. CASE UpdateClientCheck(r)
  <2> DEFINE g == [h EXCEPT !.at = "updateClient"]
  <2>1. h.at = "checkEmail"
    BY <1>8 DEF UpdateClientCheck, At
  <2>2. h \in [at : ClientSteps, lead : {Null}, client : Client \cup {Null},
               status : {Null}, email : Email \cup {Null}]
    BY <1>1, <2>1 DEF Handler, Idle, LeadSteps, ClientSteps
  <2>3. g \in Handler /\ g.at = "updateClient" /\ g.client = h.client
    BY <2>2 DEF Handler, ClientSteps
  <2>4. Step(r, g) \/ Finish(r)
    BY <1>8 DEF UpdateClientCheck
  <2> HIDE DEF g
  <2>5. TypeOK'
    BY <1>8, <2>3, <2>4
       DEF UpdateClientCheck, Finish, Step, TInv, TypeOK, Handler, ClientExists
  <2>6. Linked'
    BY <1>1, <1>8, <2>1, <2>3, <2>4
       DEF UpdateClientCheck, Finish, Step, TInv, TypeOK, Linked, Idle, LeadExists,
           ClientExists, LeadSteps
  <2>q. QED BY <2>5, <2>6 DEF TInv
<1>9. CASE UpdateClientWrite(r)
  <2> DEFINE row == [client[h.client] EXCEPT !.email = IF h.email = Null THEN @ ELSE h.email]
  <2>1. h.at = "updateClient" /\ WriteClient(r, row)
    BY <1>9 DEF UpdateClientWrite, At
  <2>2. row \in ClientRow
    BY <1>1, <2>1 DEF ClientRow, Handler, Idle
  <2> HIDE DEF row
  <2>q. QED BY <1>1, <2>1, <2>2, ClientWriteTyped
<1>10. CASE RemoveClientWrite(r)
  <2> DEFINE row == [client[h.client] EXCEPT !.status = "DELETED"]
  <2>1. h.at = "removeClient" /\ WriteClient(r, row)
    BY <1>10 DEF RemoveClientWrite, At
  <2>2. row \in ClientRow
    BY <1>1, <2>1 DEF ClientRow
  <2> HIDE DEF row
  <2>q. QED BY <1>1, <2>1, <2>2, ClientWriteTyped
<1>q. QED BY <1>3, <1>4, <1>5, <1>6, <1>7, <1>8, <1>9, <1>10 DEF Resume

\* Every step of every request keeps the types.
LEMMA TypedStep == TInv /\ [Next]_vars => TInv'
<1> SUFFICES ASSUME TInv, [Next]_vars PROVE TInv'
  OBVIOUS
<1>1. ASSUME NEW r \in Request, Fail(r)
      PROVE  TInv'
  <2>1. /\ req' = [req EXCEPT ![r] = Idle] /\ Idle \in Handler
        /\ UNCHANGED <<lead, client, origin, crossed>>
    BY <1>1 DEF Fail, Finish, Handler
  <2>2. At(r, "markWon") => req[r].lead \in Lead
    BY DEF At, TInv, TypeOK, Handler, Idle, ClientSteps
  <2>3. broken' \subseteq Lead
    BY <1>1, <2>2 DEF Fail, TInv, TypeOK
  <2>4. TypeOK'
    BY <2>1, <2>3 DEF TInv, TypeOK, ClientExists
  <2>5. Linked'
    BY <2>1 DEF TInv, TypeOK, Linked, Idle, LeadExists, ClientExists, LeadSteps
  <2>q. QED BY <2>4, <2>5 DEF TInv
<1>2. CASE UNCHANGED vars
  BY <1>2 DEF vars, TInv, TypeOK, Linked, LeadExists, ClientExists
<1>q. QED BY <1>1, <1>2, LeadRequestTyped, ClientRequestTyped, ResumeTyped DEF Next

\* Every reachable state is typed, a lead's client exists, and a handler only writes rows
\* that exist, whatever overlaps or fails.
THEOREM CustomersTypeCorrect == Spec => []TypeOK
<1>1. Init => TInv
  BY DEF Init, TInv, TypeOK, Linked, Handler, Idle, LeadSteps, NoLead
<1>q. QED BY <1>1, TypedStep, PTL DEF Spec, TInv

-----------------------------------------------------------------------------
(* What a guard has found of the rows that its handler works on.           *)
Guarded(h) ==
  /\ h.at = "updateLead" /\ lead[h.lead].status = "WON" => h.status \in {"WON", Null}
  /\ h.at \in {"createClient", "markWon"} => lead[h.lead].status # "WON"

Looked(h) ==
  /\ h.at = "insertClient" => h.email = Null \/ ~Taken(h.email, Null)
  /\ h.at = "updateClient" =>
       h.email = Null \/ (client[h.client].status = "LIVE" /\ client[h.client].email = h.email)

\* The first statement of a request inserts a lead ...
NewLead(l) ==
  /\ ~LeadExists(l) /\ \A m \in Lead \ {l} : lead'[m] = lead[m]
  /\ UNCHANGED <<client, req, origin, crossed, broken>>

\* ... or adds handler h, and crosses nothing that it has in common with another.
Joins(r, h) ==
  /\ req[r] = Idle /\ req'[r] = h /\ \A s \in Request \ {r} : req'[s] = req[s]
  /\ UNCHANGED <<lead, client, origin, broken>>
  /\ \A x \in (Lead \cup Email) \ crossed' :
       x \notin crossed /\ (WorksOn(h, x) => \A s \in Request : ~WorksOn(req[s], x))

LEMMA StartJoins ==
  ASSUME TInv, NEW r \in Request, NEW h, Start(r, h)
  PROVE  Joins(r, h)
<1>1. /\ req[r] = Idle /\ req' = [req EXCEPT ![r] = h]
      /\ UNCHANGED <<lead, client, origin, broken>>
      /\ crossed' = crossed \cup
           {x \in Lead \cup Email : WorksOn(h, x) /\ \E s \in Request : WorksOn(req[s], x)}
  BY DEF Start, Step
<1>2. req'[r] = h /\ \A s \in Request \ {r} : req'[s] = req[s]
  BY <1>1 DEF TInv, TypeOK
<1>3. ASSUME NEW x \in (Lead \cup Email) \ crossed'
      PROVE  x \notin crossed /\ (WorksOn(h, x) => \A s \in Request : ~WorksOn(req[s], x))
  BY <1>1, <1>3
<1>q. QED BY <1>1, <1>2, <1>3 DEF Joins

LEMMA LeadRequestFirst ==
  ASSUME TInv, NEW r \in Request, LeadRequest(r)
  PROVE  \/ \E l \in Lead : NewLead(l)
         \/ \E h : Joins(r, h) /\ Guarded(h) /\ Looked(h)
<1>1. ASSUME NEW l \in Lead, NEW s \in LeadStatus, NEW e \in Email \cup {Null},
             CreateLead(r, l, s, e)
      PROVE  NewLead(l)
  <2>1. PICK row : row = [NoLead EXCEPT !.status = s, !.email = e]
    OBVIOUS
  <2>2. lead' = [lead EXCEPT ![l] = row]
    BY <1>1, <2>1 DEF CreateLead
  <2>q. QED BY <1>1, <2>2 DEF CreateLead, NewLead, TInv, TypeOK
<1>2. ASSUME NEW l \in Lead, NEW s \in LeadStatus \cup {Null}, NEW e \in Email \cup {Null},
             UpdateLeadRead(r, l, s, e)
      PROVE  \E h : Joins(r, h) /\ Guarded(h) /\ Looked(h)
  <2>1. PICK h : h = [Idle EXCEPT !.at = "updateLead", !.lead = l, !.status = s, !.email = e]
    OBVIOUS
  <2>2. Start(r, h) /\ (lead[l].status = "WON" => s \in {"WON", Null})
    BY <1>2, <2>1 DEF UpdateLeadRead
  <2>3. h.at = "updateLead" /\ h.lead = l /\ h.status = s
    BY <2>1 DEF Idle
  <2>q. QED BY <2>2, <2>3, StartJoins DEF Guarded, Looked
<1>3. ASSUME NEW l \in Lead, NEW c \in Client \cup {Null}, ConvertRead(r, l, c)
      PROVE  \E h : Joins(r, h) /\ Guarded(h) /\ Looked(h)
  <2>1. PICK h : h = [Idle EXCEPT !.at = IF c = Null THEN "createClient" ELSE "markWon",
                                  !.lead = l, !.client = c, !.email = lead[l].email]
    OBVIOUS
  <2>2. Start(r, h) /\ lead[l].status # "WON"
    BY <1>3, <2>1 DEF ConvertRead
  <2>3. h.at \in {"createClient", "markWon"} /\ h.lead = l
    BY <2>1 DEF Idle
  <2>q. QED BY <2>2, <2>3, StartJoins DEF Guarded, Looked
<1>4. ASSUME NEW l \in Lead, RemoveLeadRead(r, l)
      PROVE  \E h : Joins(r, h) /\ Guarded(h) /\ Looked(h)
  <2>1. PICK h : h = [Idle EXCEPT !.at = "removeLead", !.lead = l]
    OBVIOUS
  <2>2. Start(r, h) /\ h.at = "removeLead"
    BY <1>4, <2>1 DEF RemoveLeadRead, Idle
  <2>q. QED BY <2>2, StartJoins DEF Guarded, Looked
<1>q. QED BY <1>1, <1>2, <1>3, <1>4 DEF LeadRequest

LEMMA ClientRequestFirst ==
  ASSUME TInv, NEW r \in Request, ClientRequest(r)
  PROVE  \E h : Joins(r, h) /\ Guarded(h) /\ Looked(h)
<1>1. ASSUME NEW e \in Email \cup {Null}, CreateClientCheck(r, e)
      PROVE  \E h : Joins(r, h) /\ Guarded(h) /\ Looked(h)
  <2>1. PICK h : h = [Idle EXCEPT !.at = "insertClient", !.email = e]
    OBVIOUS
  <2>2. Start(r, h) /\ (e # Null => ~Taken(e, Null))
    BY <1>1, <2>1 DEF CreateClientCheck
  <2>3. h.at = "insertClient" /\ h.email = e
    BY <2>1 DEF Idle
  <2>q. QED BY <2>2, <2>3, StartJoins DEF Guarded, Looked
<1>2. ASSUME NEW c \in Client, NEW e \in Email \cup {Null}, UpdateClientRead(r, c, e)
      PROVE  \E h : Joins(r, h) /\ Guarded(h) /\ Looked(h)
  <2>1. PICK h : h = [Idle EXCEPT !.at = IF e \in {Null, client[c].email} THEN "updateClient"
                                         ELSE "checkEmail",
                                  !.client = c, !.email = e]
    OBVIOUS
  <2>2. Start(r, h) /\ client[c].status = "LIVE"
    BY <1>2, <2>1 DEF UpdateClientRead, ClientFound
  <2>3. /\ h.client = c /\ h.email = e
        /\ \/ h.at = "checkEmail"
           \/ h.at = "updateClient" /\ e \in {Null, client[c].email}
    BY <2>1 DEF Idle
  <2>q. QED BY <2>2, <2>3, StartJoins DEF Guarded, Looked
<1>3. ASSUME NEW c \in Client, RemoveClientRead(r, c)
      PROVE  \E h : Joins(r, h) /\ Guarded(h) /\ Looked(h)
  <2>1. PICK h : h = [Idle EXCEPT !.at = "removeClient", !.client = c]
    OBVIOUS
  <2>2. Start(r, h) /\ h.at = "removeClient"
    BY <1>3, <2>1 DEF RemoveClientRead, Idle
  <2>q. QED BY <2>2, StartJoins DEF Guarded, Looked
<1>q. QED BY <1>1, <1>2, <1>3 DEF ClientRequest

-----------------------------------------------------------------------------
(* What a statement after the first does, or a failure.                    *)

\* It ends its handler, or the handler goes on with the same lead or the same address.
Goes(r, h) ==
  \/ h = Idle
  \/ req[r].at = "createClient" /\ h.at = "markWon" /\ h.lead = req[r].lead
  \/ /\ req[r].at = "checkEmail" /\ h.at = "updateClient"
     /\ h.lead = req[r].lead /\ h.client = req[r].client /\ h.email = req[r].email
     /\ ~Taken(h.email, h.client)

KeptOn(l) ==
  lead[l].status = "WON" => lead'[l].status = "WON" /\ lead'[l].client = lead[l].client

\* It writes at most the row of its lead, which it keeps converted if its guard holds, and
\* marks unless it fails.
WritesLead(r) ==
  /\ \A l \in Lead : \/ lead'[l] = lead[l]
                     \/ /\ l = req[r].lead /\ req'[r] = Idle
                        /\ Guarded(req[r]) => KeptOn(l)
  /\ req[r].at = "markWon" => \/ lead'[req[r].lead].status = "WON"
                              \/ req[r].lead \in broken'

\* It makes one client at most of a lead.
MakesClient(r) ==
  \/ origin' = origin
  \/ /\ req[r].at = "createClient" /\ req'[r].at = "markWon" /\ lead' = lead
     /\ \E c \in Client : /\ origin'[c] = req[r].lead
                          /\ \A d \in Client \ {c} : origin'[d] = origin[d]

\* A client that has the address and was not made from a lead.
Plain(c, e) == client[c].status = "LIVE" /\ client[c].email = e /\ origin[c] = Null

\* It gives its address to one client at most.
GivesAddress(r) ==
  \/ client' = client /\ origin' = origin
  \/ \E c \in Client :
       /\ \A d \in Client \ {c} : client'[d] = client[d] /\ origin'[d] = origin[d]
       /\ origin[c] # Null => origin'[c] # Null
       /\ \A e \in Email : Plain(c, e)' =>
            \/ Plain(c, e)
            \/ /\ req[r].email = e /\ req'[r] = Idle
               /\ \/ req[r].at = "insertClient"
                  \/ req[r].at = "updateClient" /\ req[r].client = c

Move(r) ==
  /\ \A s \in Request \ {r} : req'[s] = req[s]
  /\ crossed' = crossed /\ broken \subseteq broken'
  /\ Goes(r, req'[r]) /\ WritesLead(r) /\ MakesClient(r) /\ GivesAddress(r)

\* A statement that writes the row of a lead.
LEMMA LeadMove ==
  ASSUME TInv, NEW r \in Request, req[r].at \in LeadSteps, NEW row, WriteLead(r, row),
         LET old == lead[req[r].lead]
         IN Guarded(req[r]) /\ old.status = "WON" => row.status = "WON" /\ row.client = old.client,
         req[r].at = "markWon" => row.status = "WON"
  PROVE  Move(r)
<1>1. req[r].lead \in Lead
  BY DEF TInv, TypeOK, Handler, Idle, LeadSteps, ClientSteps
<1>2. /\ req'[r] = Idle /\ \A s \in Request \ {r} : req'[s] = req[s]
      /\ lead'[req[r].lead] = row /\ \A l \in Lead \ {req[r].lead} : lead'[l] = lead[l]
      /\ UNCHANGED <<client, origin, crossed, broken>>
  BY <1>1 DEF WriteLead, Finish, TInv, TypeOK
<1>3. WritesLead(r)
  BY <1>2 DEF WritesLead, KeptOn
<1>q. QED BY <1>2, <1>3 DEF Move, Goes, MakesClient, GivesAddress

\* A statement that writes no lead, and makes no client of one.
LEMMA ClientMove ==
  ASSUME TInv, NEW r \in Request, NEW h, req' = [req EXCEPT ![r] = h], Goes(r, h),
         lead' = lead, origin' = origin, crossed' = crossed, broken \subseteq broken',
         req[r].at = "markWon" => req[r].lead \in broken', GivesAddress(r)
  PROVE  Move(r)
<1>1. req'[r] = h /\ \A s \in Request \ {r} : req'[s] = req[s]
  BY DEF TInv, TypeOK
<1>2. Goes(r, req'[r])
  BY <1>1
<1>q. QED BY <1>1, <1>2 DEF Move, WritesLead, MakesClient

LEMMA LeadStatement ==
  ASSUME TInv, NEW r \in Request, UpdateLeadWrite(r) \/ ConvertMarkWon(r) \/ RemoveLeadWrite(r)
  PROVE  Move(r)
<1>1. PICK l : l = req[r].lead
  OBVIOUS
<1>2. req[r].at \in LeadSteps
  BY DEF UpdateLeadWrite, ConvertMarkWon, RemoveLeadWrite, At, LeadSteps
<1>3. l \in Lead /\ lead[l] \in LeadRow
  BY <1>1, <1>2 DEF TInv, TypeOK, Linked, Handler, Idle, LeadSteps, ClientSteps, LeadExists,
                    NoLead
<1>4. CASE UpdateLeadWrite(r)
  <2>1. PICK row : row = [lead[l] EXCEPT
                            !.status = IF req[r].status = Null THEN @ ELSE req[r].status,
                            !.email = IF req[r].email = Null THEN @ ELSE req[r].email]
    OBVIOUS
  <2>2. req[r].at = "updateLead" /\ WriteLead(r, row)
    BY <1>1, <1>4, <2>1 DEF UpdateLeadWrite, At
  <2>3. /\ row.status = IF req[r].status = Null THEN lead[l].status ELSE req[r].status
        /\ row.client = lead[l].client
    BY <1>3, <2>1 DEF LeadRow
  <2>4. Guarded(req[r]) /\ lead[l].status = "WON" => row.status = "WON"
    BY <1>1, <2>2, <2>3 DEF Guarded
  <2>q. QED BY <1>1, <1>2, <2>2, <2>3, <2>4, LeadMove
<1>5. CASE ConvertMarkWon(r)
  <2>1. PICK row : row = [lead[l] EXCEPT !.status = "WON", !.client = req[r].client]
    OBVIOUS
  <2>2. req[r].at = "markWon" /\ WriteLead(r, row)
    BY <1>1, <1>5, <2>1 DEF ConvertMarkWon, At
  <2>3. row.status = "WON"
    BY <1>3, <2>1 DEF LeadRow
  <2>4. ~(Guarded(req[r]) /\ lead[l].status = "WON")
    BY <1>1, <2>2 DEF Guarded
  <2>q. QED BY <1>1, <1>2, <2>2, <2>3, <2>4, LeadMove
<1>6. CASE RemoveLeadWrite(r)
  <2>1. PICK row : row = [lead[l] EXCEPT !.deleted = TRUE]
    OBVIOUS
  <2>2. req[r].at = "removeLead" /\ WriteLead(r, row)
    BY <1>1, <1>6, <2>1 DEF RemoveLeadWrite, At
  <2>3. row.status = lead[l].status /\ row.client = lead[l].client
    BY <1>3, <2>1 DEF LeadRow
  <2>q. QED BY <1>1, <1>2, <2>2, <2>3, LeadMove
<1>q. QED BY <1>4, <1>5, <1>6

LEMMA ConvertStatement ==
  ASSUME TInv, NEW r \in Request, NEW c \in Client, ConvertCreateClient(r, c)
  PROVE  Move(r)
<1>1. /\ req[r].at = "createClient" /\ req[r].lead \in Lead
      /\ req[r] \in [at : LeadSteps, lead : Lead, client : Client \cup {Null},
                     status : LeadStatus \cup {Null}, email : Email \cup {Null}]
  BY DEF ConvertCreateClient, At, TInv, TypeOK, Handler, Idle, LeadSteps, ClientSteps
<1>2. PICK h : h = [req[r] EXCEPT !.at = "markWon", !.client = c]
  OBVIOUS
<1>3. h.at = "markWon" /\ h.lead = req[r].lead
  BY <1>1, <1>2
<1>4. req' = [req EXCEPT ![r] = h] /\ UNCHANGED <<lead, crossed, broken>>
  BY <1>2 DEF ConvertCreateClient, Step
<1>5. req'[r] = h /\ \A s \in Request \ {r} : req'[s] = req[s]
  BY <1>4 DEF TInv, TypeOK
<1>6. PICK row : row = [status |-> "LIVE", email |-> req[r].email]
  OBVIOUS
<1>7. client' = [client EXCEPT ![c] = row] /\ origin' = [origin EXCEPT ![c] = req[r].lead]
  BY <1>6 DEF ConvertCreateClient
<1>8. /\ origin'[c] = req[r].lead /\ origin'[c] # Null
      /\ \A d \in Client \ {c} : client'[d] = client[d] /\ origin'[d] = origin[d]
  BY <1>1, <1>7, CustomersAssumption DEF TInv, TypeOK
<1>9. GivesAddress(r)
  BY <1>8 DEF GivesAddress, Plain
<1>10. MakesClient(r)
  BY <1>1, <1>3, <1>4, <1>5, <1>8 DEF MakesClient
<1>11. Goes(r, req'[r]) /\ WritesLead(r)
  BY <1>1, <1>3, <1>4, <1>5 DEF Goes, WritesLead
<1>q. QED BY <1>4, <1>5, <1>9, <1>10, <1>11 DEF Move

LEMMA ClientStatement ==
  ASSUME TInv, NEW r \in Request,
         \/ \E c \in Client : CreateClientInsert(r, c)
         \/ UpdateClientCheck(r) \/ UpdateClientWrite(r) \/ RemoveClientWrite(r)
  PROVE  Move(r)
<1>1. req[r] \in Handler /\ Goes(r, Idle)
  BY DEF TInv, TypeOK, Goes
<1>2. ASSUME NEW c \in Client, NEW row, client' = [client EXCEPT ![c] = row], Finish(r),
             UNCHANGED <<lead, origin, crossed, broken>>, req[r].at # "markWon",
             \A e \in Email : row.status = "LIVE" /\ row.email = e /\ origin[c] = Null =>
               \/ Plain(c, e)
               \/ /\ req[r].email = e
                  /\ \/ req[r].at = "insertClient"
                     \/ req[r].at = "updateClient" /\ req[r].client = c
      PROVE  Move(r)
  <2>1. client'[c] = row /\ \A d \in Client \ {c} : client'[d] = client[d]
    BY <1>2 DEF TInv, TypeOK
  <2>2. req' = [req EXCEPT ![r] = Idle] /\ req'[r] = Idle
    BY <1>2 DEF Finish, TInv, TypeOK
  <2>3. GivesAddress(r)
    BY <1>2, <2>1, <2>2 DEF GivesAddress, Plain
  <2>q. QED BY <1>1, <1>2, <2>2, <2>3, ClientMove
<1>3. ASSUME NEW c \in Client, CreateClientInsert(r, c) PROVE Move(r)
  <2>1. PICK row : row = [status |-> "LIVE", email |-> req[r].email]
    OBVIOUS
  <2>2. /\ req[r].at = "insertClient" /\ client' = [client EXCEPT ![c] = row]
        /\ UNCHANGED <<lead, origin, crossed, broken>> /\ Finish(r)
    BY <1>3, <2>1 DEF CreateClientInsert, At
  <2>3. req[r].at # "markWon" /\ row.email = req[r].email
    BY <2>1, <2>2
  <2>4. \A e \in Email : row.status = "LIVE" /\ row.email = e /\ origin[c] = Null =>
          \/ Plain(c, e)
          \/ /\ req[r].email = e
             /\ \/ req[r].at = "insertClient"
                \/ req[r].at = "updateClient" /\ req[r].client = c
    BY <2>2, <2>3
  <2>q. QED BY <1>2, <2>2, <2>3, <2>4
<1>4. CASE UpdateClientCheck(r)
  <2>1. req[r].at = "checkEmail" /\ UNCHANGED <<lead, client, origin, crossed, broken>>
    BY <1>4 DEF UpdateClientCheck, At
  <2>2. GivesAddress(r)
    BY <2>1 DEF GivesAddress
  <2>3. CASE Finish(r)
    BY <1>1, <2>1, <2>2, <2>3, ClientMove DEF Finish
  <2>4. CASE ~Finish(r)
    <3>1. PICK h : h = [req[r] EXCEPT !.at = "updateClient"]
      OBVIOUS
    <3>2. req' = [req EXCEPT ![r] = h] /\ ~Taken(req[r].email, req[r].client)
      BY <1>4, <2>4, <3>1 DEF UpdateClientCheck, Step
    <3>3. /\ h.at = "updateClient" /\ h.lead = req[r].lead
          /\ h.client = req[r].client /\ h.email = req[r].email
      BY <1>1, <3>1 DEF Handler, Idle
    <3>4. Goes(r, h)
      BY <2>1, <3>2, <3>3 DEF Goes
    <3>q. QED BY <2>1, <2>2, <3>2, <3>4, ClientMove
  <2>q. QED BY <2>3, <2>4
<1>5. ASSUME req[r].at \in {"updateClient", "removeClient"}
      PROVE  req[r].client \in Client /\ client[req[r].client] \in ClientRow
  BY <1>5 DEF TInv, TypeOK, Linked, ClientExists, NoClient
<1>6. CASE UpdateClientWrite(r)
  <2>1. PICK c : c = req[r].client
    OBVIOUS
  <2>2. PICK row : row = [client[c] EXCEPT !.email = IF req[r].email = Null THEN @
                                                     ELSE req[r].email]
    OBVIOUS
  <2>3. /\ req[r].at = "updateClient" /\ client' = [client EXCEPT ![c] = row]
        /\ UNCHANGED <<lead, origin, crossed, broken>> /\ Finish(r)
    BY <1>6, <2>1, <2>2 DEF UpdateClientWrite, WriteClient, At
  <2>4. c \in Client /\ client[c] \in ClientRow
    BY <1>5, <2>1, <2>3
  <2>5. /\ row.status = client[c].status
        /\ row.email = IF req[r].email = Null THEN client[c].email ELSE req[r].email
    BY <2>2, <2>4 DEF ClientRow
  <2>6. \A e \in Email : row.status = "LIVE" /\ row.email = e /\ origin[c] = Null =>
          Plain(c, e) \/ req[r].email = e
    BY <2>5 DEF Plain
  <2>q. QED BY <1>2, <2>1, <2>3, <2>4, <2>6
<1>7. CASE RemoveClientWrite(r)
  <2>1. PICK c : c = req[r].client
    OBVIOUS
  <2>2. PICK row : row = [client[c] EXCEPT !.status = "DELETED"]
    OBVIOUS
  <2>3. /\ req[r].at = "removeClient" /\ client' = [client EXCEPT ![c] = row]
        /\ UNCHANGED <<lead, origin, crossed, broken>> /\ Finish(r)
    BY <1>7, <2>1, <2>2 DEF RemoveClientWrite, WriteClient, At
  <2>4. c \in Client /\ row.status = "DELETED"
    BY <1>5, <2>1, <2>2, <2>3 DEF ClientRow
  <2>q. QED BY <1>2, <2>3, <2>4
<1>q. QED BY <1>3, <1>4, <1>6, <1>7

LEMMA EveryStatement ==
  ASSUME TInv, NEW r \in Request, Resume(r) \/ Fail(r)
  PROVE  Move(r)
<1>1. CASE Fail(r)
  <2>1. /\ req' = [req EXCEPT ![r] = Idle] /\ Goes(r, Idle)
        /\ lead' = lead /\ client' = client /\ origin' = origin /\ crossed' = crossed
        /\ broken \subseteq broken' /\ (req[r].at = "markWon" => req[r].lead \in broken')
    BY <1>1 DEF Fail, Finish, At, Goes
  <2>2. GivesAddress(r)
    BY <2>1 DEF GivesAddress
  <2>q. QED BY <2>1, <2>2, ClientMove
<1>q. QED BY <1>1, LeadStatement, ConvertStatement, ClientStatement DEF Resume

-----------------------------------------------------------------------------
(* A lead, or an address, that is not crossed is worked on by one handler  *)
(* at most, and what its guard has found of the lead is so when it writes. *)
AloneOn(x) == \A r, s \in Request : WorksOn(req[r], x) /\ WorksOn(req[s], x) => r = s

GuardedOn(l) == \A r \in Request : req[r].lead = l => Guarded(req[r])

CalmInv ==
  /\ TInv
  /\ \A x \in (Lead \cup Email) \ crossed : AloneOn(x)
  /\ \A l \in Lead \ crossed : GuardedOn(l)

LEMMA MoveAlone ==
  ASSUME NEW r \in Request, Move(r), NEW x \in Lead \cup Email, AloneOn(x)
  PROVE  AloneOn(x)'
<1>1. WorksOn(req'[r], x) => WorksOn(req[r], x)
  BY CustomersAssumption DEF Move, Goes, WorksOn, Idle, ClientSteps
<1>2. \A s \in Request : WorksOn(req'[s], x) => WorksOn(req[s], x)
  BY <1>1 DEF Move
<1>q. QED BY <1>2 DEF AloneOn

LEMMA JoinAlone ==
  ASSUME NEW r \in Request, NEW h, Joins(r, h), NEW x \in (Lead \cup Email) \ crossed',
         AloneOn(x)
  PROVE  AloneOn(x)'
<1>1. WorksOn(req'[r], x) => \A s \in Request : ~WorksOn(req[s], x)
  BY DEF Joins
<1>2. \A s \in Request : s # r => req'[s] = req[s]
  BY DEF Joins
<1>q. QED BY <1>1, <1>2 DEF AloneOn

\* A handler whose record and lead stay relies on what it relied on before.
LEMMA GuardedStays ==
  ASSUME NEW s \in Request, req'[s] = req[s], Guarded(req[s]),
         lead'[req[s].lead] = lead[req[s].lead]
  PROVE  Guarded(req[s])'
BY DEF Guarded

\* A later statement keeps a lead on which requests have not overlapped as it relies on it.
LEMMA MoveCalm ==
  ASSUME TInv, NEW r \in Request, Move(r), NEW l \in Lead, AloneOn(l), GuardedOn(l)
  PROVE  GuardedOn(l)' /\ KeptOn(l)
<1>1. /\ \A s \in Request \ {r} : req'[s] = req[s]
      /\ Goes(r, req'[r]) /\ WritesLead(r)
  BY DEF Move
<1>2. KeptOn(l)
  BY <1>1 DEF WritesLead, GuardedOn, KeptOn
<1>3. ASSUME NEW s \in Request, req'[s].lead = l
      PROVE  Guarded(req[s])'
  <2>1. CASE s = r
    <3>1. req'[r] # Idle
      BY <1>3, <2>1, CustomersAssumption DEF Idle
    <3>2. lead'[l] = lead[l]
      BY <1>1, <3>1 DEF WritesLead
    <3>3. CASE req[r].at = "createClient" /\ req'[r].at = "markWon" /\ req'[r].lead = req[r].lead
      <4>1. Guarded(req[r])
        BY <1>3, <2>1, <3>3 DEF GuardedOn
      <4>q. QED BY <1>3, <2>1, <3>2, <3>3, <4>1 DEF Guarded
    <3>4. CASE req'[r].at = "updateClient"
      BY <2>1, <3>4 DEF Guarded
    <3>q. QED BY <1>1, <3>1, <3>3, <3>4 DEF Goes
  <2>2. CASE s # r
    <3>1. req'[s] = req[s] /\ Guarded(req[s])
      BY <1>1, <1>3, <2>2 DEF GuardedOn
    <3>2. req[r].lead # l
      BY <1>3, <2>2, <3>1 DEF AloneOn, WorksOn
    <3>3. lead'[l] = lead[l]
      BY <1>1, <3>2 DEF WritesLead
    <3>q. QED BY <1>3, <3>1, <3>3, GuardedStays
  <2>q. QED BY <2>1, <2>2
<1>q. QED BY <1>2, <1>3 DEF GuardedOn

\* A new handler starts with what its guard has found, and the others keep theirs.
LEMMA JoinCalm ==
  ASSUME NEW r \in Request, NEW h, Joins(r, h), Guarded(h), NEW l \in Lead, GuardedOn(l)
  PROVE  GuardedOn(l)' /\ KeptOn(l)
<1>1. ASSUME NEW s \in Request, req'[s].lead = l
      PROVE  Guarded(req[s])'
  <2>1. CASE s = r
    BY <2>1 DEF Joins, Guarded
  <2>2. CASE s # r
    BY <1>1, <2>2 DEF Joins, Guarded, GuardedOn
  <2>q. QED BY <2>1, <2>2
<1>q. QED BY <1>1 DEF GuardedOn, KeptOn, Joins

\* A lead that is inserted has no handler yet.
LEMMA NewCalm ==
  ASSUME TInv, NEW m \in Lead, NewLead(m), NEW l \in Lead, GuardedOn(l)
  PROVE  GuardedOn(l)' /\ KeptOn(l)
<1>1. KeptOn(l)
  BY DEF KeptOn, NewLead, LeadExists
<1>2. ASSUME NEW s \in Request, req'[s].lead = l
      PROVE  Guarded(req[s])'
  <2>1. req'[s] = req[s] /\ Guarded(req[s])
    BY <1>2 DEF NewLead, GuardedOn
  <2>2. CASE l = m
    <3>1. req[s].at \notin LeadSteps
      BY <1>2, <2>1, <2>2 DEF TInv, Linked, NewLead
    <3>q. QED BY <2>1, <3>1 DEF Guarded, LeadSteps
  <2>3. CASE l # m
    <3>1. lead'[l] = lead[l]
      BY <2>3 DEF NewLead
    <3>q. QED BY <1>2, <2>1, <3>1, GuardedStays
  <2>q. QED BY <2>2, <2>3
<1>q. QED BY <1>1, <1>2 DEF GuardedOn

\* Every step of a behaviour inserts a lead, adds a handler, moves one, or does nothing.
LEMMA Steps ==
  ASSUME TInv, Next
  PROVE  \/ \E l \in Lead : NewLead(l)
         \/ \E r \in Request : \E h : Joins(r, h) /\ Guarded(h) /\ Looked(h)
         \/ \E r \in Request : Move(r)
BY LeadRequestFirst, ClientRequestFirst, EveryStatement DEF Next

LEMMA CalmInductive ==
  /\ Init => CalmInv
  /\ CalmInv /\ [Next]_vars => CalmInv' /\ \A l \in Lead \ crossed' : KeptOn(l)
<1>1. Init => CalmInv
  <2> SUFFICES ASSUME Init PROVE CalmInv
    OBVIOUS
  <2>1. TInv
    BY DEF Init, TInv, TypeOK, Linked, Handler, Idle, LeadSteps, NoLead
  <2>2. \A r \in Request : req[r] = Idle
    BY DEF Init
  <2>3. \A x \in Lead \cup Email : AloneOn(x)
    BY <2>2, CustomersAssumption DEF AloneOn, WorksOn, Idle, ClientSteps
  <2>4. \A l \in Lead : GuardedOn(l)
    BY <2>2, CustomersAssumption DEF GuardedOn, Idle
  <2>q. QED BY <2>1, <2>3, <2>4 DEF CalmInv
<1>2. CalmInv /\ [Next]_vars => CalmInv' /\ \A l \in Lead \ crossed' : KeptOn(l)
  <2> SUFFICES ASSUME CalmInv, [Next]_vars
               PROVE  CalmInv' /\ \A l \in Lead \ crossed' : KeptOn(l)
    OBVIOUS
  <2>1. TInv /\ TInv'
    BY TypedStep DEF CalmInv
  <2>2. ASSUME NEW m \in Lead, NewLead(m)
        PROVE  CalmInv' /\ \A l \in Lead \ crossed' : KeptOn(l)
    <3>1. crossed' = crossed /\ req' = req
      BY <2>2 DEF NewLead
    <3>2. \A x \in (Lead \cup Email) \ crossed' : AloneOn(x)'
      BY <3>1 DEF CalmInv, AloneOn
    <3>3. \A l \in Lead \ crossed' : GuardedOn(l)' /\ KeptOn(l)
      BY <2>1, <2>2, <3>1, NewCalm DEF CalmInv
    <3>q. QED BY <2>1, <3>2, <3>3 DEF CalmInv
  <2>3. ASSUME NEW r \in Request, NEW h, Joins(r, h), Guarded(h)
        PROVE  CalmInv' /\ \A l \in Lead \ crossed' : KeptOn(l)
    <3>1. \A x \in (Lead \cup Email) \ crossed' : x \notin crossed
      BY <2>3 DEF Joins
    <3>2. \A x \in (Lead \cup Email) \ crossed' : AloneOn(x)'
      BY <2>3, <3>1, JoinAlone DEF CalmInv
    <3>3. \A l \in Lead \ crossed' : GuardedOn(l)' /\ KeptOn(l)
      BY <2>3, <3>1, JoinCalm DEF CalmInv
    <3>q. QED BY <2>1, <3>2, <3>3 DEF CalmInv
  <2>4. ASSUME NEW r \in Request, Move(r)
        PROVE  CalmInv' /\ \A l \in Lead \ crossed' : KeptOn(l)
    <3>1. crossed' = crossed
      BY <2>4 DEF Move
    <3>2. \A x \in (Lead \cup Email) \ crossed' : AloneOn(x)'
      BY <2>4, <3>1, MoveAlone DEF CalmInv
    <3>3. \A l \in Lead \ crossed' : GuardedOn(l)' /\ KeptOn(l)
      BY <2>1, <2>4, <3>1, MoveCalm DEF CalmInv
    <3>q. QED BY <2>1, <3>2, <3>3 DEF CalmInv
  <2>5. CASE UNCHANGED vars
    <3>1. \A l \in Lead : KeptOn(l)
      BY <2>5 DEF vars, KeptOn
    <3>q. QED BY <2>1, <2>5, <3>1 DEF vars, CalmInv, AloneOn, GuardedOn, Guarded
  <2>q. QED BY <2>1, <2>2, <2>3, <2>4, <2>5, Steps
<1>q. QED BY <1>1, <1>2

\* No request reopens a converted lead or links it to another client, as long as requests on
\* this lead do not overlap: every handler's guard still holds of the row when it writes it,
\* whatever is done to other leads and to clients.
THEOREM ConvertedLeadIsFinal == Spec => WonIsFinal
<1>1. CalmInv /\ [Next]_vars => CalmInv' /\ [\A l \in Lead \ crossed' : KeptOn(l)]_vars
  BY CalmInductive
<1>q. QED BY <1>1, CalmInductive, PTL DEF Spec, WonIsFinal, KeptOn

-----------------------------------------------------------------------------
(* Conversions                                                             *)

\* A lead has become one client at most, and if it has it is converted or about to be marked.
OnceOn(l) ==
  /\ \A c, d \in Client : origin[c] = l /\ origin[d] = l => c = d
  /\ \A c \in Client : origin[c] = l =>
       \/ lead[l].status = "WON"
       \/ \E r \in Request : req[r].at = "markWon" /\ req[r].lead = l

\* The strengthening for ConvertedOnce.
OnceInv == \A l \in Lead \ (crossed \cup broken) : OnceOn(l)

\* A handler that is going to make a client of a lead is the first to do so.
LEMMA CreatesFirst ==
  ASSUME NEW r \in Request, NEW l \in Lead, AloneOn(l), GuardedOn(l), OnceOn(l),
         req[r].at = "createClient", req[r].lead = l
  PROVE  \A c \in Client : origin[c] # l
<1>1. lead[l].status # "WON"
  BY DEF GuardedOn, Guarded
<1>2. \A s \in Request : req[s].lead = l => s = r
  BY DEF AloneOn, WorksOn
<1>q. QED BY <1>1, <1>2 DEF OnceOn

LEMMA MoveOnce ==
  ASSUME TInv, NEW r \in Request, Move(r), NEW l \in Lead \ broken',
         AloneOn(l), GuardedOn(l), OnceOn(l)
  PROVE  OnceOn(l)'
<1>1. /\ \A s \in Request \ {r} : req'[s] = req[s]
      /\ WritesLead(r) /\ MakesClient(r)
  BY DEF Move
<1>2. KeptOn(l)
  BY MoveCalm
<1>3. ASSUME NEW c \in Client, origin[c] = l
      PROVE  \/ lead'[l].status = "WON"
             \/ \E s \in Request : req'[s].at = "markWon" /\ req'[s].lead = l
  <2>1. CASE lead[l].status = "WON"
    BY <1>2, <2>1 DEF KeptOn
  <2>2. ASSUME NEW s \in Request, req[s].at = "markWon", req[s].lead = l
        PROVE  \/ lead'[l].status = "WON"
               \/ \E q \in Request : req'[q].at = "markWon" /\ req'[q].lead = l
    BY <1>1, <2>2 DEF WritesLead
  <2>q. QED BY <1>3, <2>1, <2>2 DEF OnceOn
<1>4. CASE origin' = origin
  BY <1>3, <1>4 DEF OnceOn
<1>5. CASE origin' # origin
  <2>1. PICK c \in Client : /\ origin'[c] = req[r].lead
                            /\ \A d \in Client \ {c} : origin'[d] = origin[d]
    BY <1>1, <1>5 DEF MakesClient
  <2>2. req[r].at = "createClient" /\ req'[r].at = "markWon"
    BY <1>1, <1>5 DEF MakesClient
  <2>3. CASE req[r].lead = l
    <3>1. \A d \in Client : origin[d] # l
      BY <2>2, <2>3, CreatesFirst
    <3>2. req'[r].lead = l
      BY <2>2, <2>3 DEF Move, Goes, Idle
    <3>q. QED BY <2>1, <2>2, <3>1, <3>2 DEF OnceOn
  <2>4. CASE req[r].lead # l
    <3>1. \A d \in Client : origin'[d] = l => origin[d] = l
      BY <2>1, <2>4
    <3>q. QED BY <1>3, <3>1 DEF OnceOn
  <2>q. QED BY <2>3, <2>4
<1>q. QED BY <1>4, <1>5

\* A lead is turned into a client at most once, unless requests on this lead have overlapped
\* or one has failed to mark it as converted: a second conversion finds the lead WON, for
\* nothing but a conversion can undo that status.
THEOREM LeadConvertedOnce == Spec => []ConvertedOnce
<1>1. Init => OnceInv
  BY CustomersAssumption DEF Init, OnceInv, OnceOn
<1>2. CalmInv /\ OnceInv /\ [Next]_vars => OnceInv'
  <2> SUFFICES ASSUME CalmInv, OnceInv, [Next]_vars,
                      NEW l \in Lead \ (crossed' \cup broken')
               PROVE  OnceOn(l)'
    BY DEF OnceInv
  <2>0. TInv
    BY DEF CalmInv
  <2>1. ASSUME NEW m \in Lead, NewLead(m) PROVE OnceOn(l)'
    <3>1. OnceOn(l) /\ UNCHANGED <<origin, req>>
      BY <2>1 DEF OnceInv, NewLead
    <3>2. CASE l = m
      <4>1. \A c \in Client : origin[c] # l
        BY <2>0, <2>1, <3>1, <3>2
           DEF OnceOn, NewLead, TInv, Linked, LeadExists, LeadSteps
      <4>q. QED BY <3>1, <4>1 DEF OnceOn
    <3>3. CASE l # m
      BY <2>1, <3>1, <3>3 DEF NewLead, OnceOn
    <3>q. QED BY <3>2, <3>3
  <2>2. ASSUME NEW r \in Request, NEW h, Joins(r, h) PROVE OnceOn(l)'
    <3>1. /\ OnceOn(l) /\ UNCHANGED <<origin, lead>>
          /\ \A s \in Request \ {r} : req'[s] = req[s]
      BY <2>2 DEF OnceInv, Joins
    <3>2. req[r].at # "markWon"
      BY <2>2 DEF Joins, Idle
    <3>q. QED BY <3>1, <3>2 DEF OnceOn
  <2>3. ASSUME NEW r \in Request, Move(r) PROVE OnceOn(l)'
    <3>1. l \notin crossed \cup broken
      BY <2>3 DEF Move
    <3>q. QED BY <2>0, <2>3, <3>1, MoveOnce DEF OnceInv, CalmInv
  <2>4. CASE UNCHANGED vars
    BY <2>4 DEF vars, OnceInv, OnceOn
  <2>q. QED BY <2>0, <2>1, <2>2, <2>3, <2>4, Steps
<1>3. OnceInv => ConvertedOnce
  BY DEF OnceInv, OnceOn, ConvertedOnce
<1>q. QED BY <1>1, <1>2, <1>3, CalmInductive, PTL DEF Spec

-----------------------------------------------------------------------------
(* Addresses                                                               *)

\* One client at most has the address without having been made from a lead, and none but
\* itself when a handler is about to give it the address.
GivesFreely(h, e) ==
  h.email = e =>
    /\ h.at = "insertClient" => \A c \in Client : ~Plain(c, e)
    /\ h.at = "updateClient" =>
         origin[h.client] # Null \/ \A c \in Client \ {h.client} : ~Plain(c, e)

DistinctOn(e) ==
  /\ \A c, d \in Client : Plain(c, e) /\ Plain(d, e) => c = d
  /\ \A r \in Request : GivesFreely(req[r], e)

\* The strengthening for EmailsDistinct.
EmailInv == \A e \in Email \ crossed : DistinctOn(e)

\* A handler that has looked an address up, or found it in the row of its client, gives it
\* freely.
LEMMA LookedIsFree ==
  ASSUME NEW e \in Email, DistinctOn(e), NEW h,
         h.at = "updateClient" => h.client \in Client, Looked(h)
  PROVE  GivesFreely(h, e)
<1>1. ASSUME h.email = e, h.at = "insertClient"
      PROVE  \A c \in Client : ~Plain(c, e)
  <2>1. Null \notin Client /\ e # Null
    BY CustomersAssumption
  <2>q. QED BY <1>1, <2>1 DEF Looked, Taken, Plain
<1>2. ASSUME h.email = e, h.at = "updateClient"
      PROVE  origin[h.client] # Null \/ \A c \in Client \ {h.client} : ~Plain(c, e)
  <2>1. client[h.client].status = "LIVE" /\ client[h.client].email = e
    BY <1>2, CustomersAssumption DEF Looked
  <2>2. origin[h.client] = Null => Plain(h.client, e)
    BY <2>1 DEF Plain
  <2>q. QED BY <1>2, <2>2 DEF DistinctOn
<1>q. QED BY <1>1, <1>2 DEF GivesFreely

LEMMA JoinDistinct ==
  ASSUME TInv', NEW r \in Request, NEW h, Joins(r, h), Looked(h), NEW e \in Email, DistinctOn(e)
  PROVE  DistinctOn(e)'
<1>1. UNCHANGED <<client, origin>> /\ req'[r] = h /\ \A s \in Request \ {r} : req'[s] = req[s]
  BY DEF Joins
<1>2. h.at = "updateClient" => h.client \in Client
  BY <1>1 DEF TInv, Linked
<1>3. GivesFreely(h, e)
  BY <1>2, LookedIsFree
<1>4. ASSUME NEW s \in Request PROVE GivesFreely(req[s], e)'
  <2>1. PICK g : g = req'[s]
    OBVIOUS
  <2>2. GivesFreely(g, e)
    BY <1>1, <1>3, <2>1 DEF DistinctOn
  <2>q. QED BY <1>1, <2>1, <2>2 DEF GivesFreely, Plain
<1>q. QED BY <1>1, <1>4 DEF DistinctOn, Plain

\* The handler that gives the address is the only one that works on it, and gives it freely.
LEMMA MoveDistinct ==
  ASSUME TInv, NEW r \in Request, Move(r), NEW e \in Email, AloneOn(e), DistinctOn(e)
  PROVE  DistinctOn(e)'
<1>1. /\ \A s \in Request \ {r} : req'[s] = req[s]
      /\ Goes(r, req'[r]) /\ GivesAddress(r) /\ GivesFreely(req[r], e)
  BY DEF Move, DistinctOn
<1>2. CASE client' = client /\ origin' = origin
  <2>1. \A c \in Client : Plain(c, e)' <=> Plain(c, e)
    BY <1>2 DEF Plain
  <2>2. ASSUME NEW s \in Request PROVE GivesFreely(req[s], e)'
    <3>1. CASE req'[s] = req[s]
      BY <1>2, <2>1, <3>1 DEF DistinctOn, GivesFreely
    <3>2. CASE req'[s] = Idle
      BY <3>2 DEF GivesFreely, Idle
    <3>3. CASE req'[s].at = "markWon"
      BY <3>3 DEF GivesFreely
    <3>4. CASE s = r /\ req'[r].at = "updateClient" /\ ~Taken(req'[r].email, req'[r].client)
      <4>1. req'[r].email = e => \A c \in Client \ {req'[r].client} : ~Plain(c, e)'
        BY <1>2, <3>4 DEF Taken, Plain
      <4>q. QED BY <3>4, <4>1 DEF GivesFreely
    <3>q. QED BY <1>1, <3>1, <3>2, <3>3, <3>4 DEF Goes
  <2>q. QED BY <2>1, <2>2 DEF DistinctOn
<1>3. CASE ~(client' = client /\ origin' = origin)
  <2>1. PICK c \in Client :
          /\ \A d \in Client \ {c} : client'[d] = client[d] /\ origin'[d] = origin[d]
          /\ origin[c] # Null => origin'[c] # Null
          /\ Plain(c, e)' =>
               \/ Plain(c, e)
               \/ /\ req[r].email = e /\ req'[r] = Idle
                  /\ \/ req[r].at = "insertClient"
                     \/ req[r].at = "updateClient" /\ req[r].client = c
    BY <1>1, <1>3 DEF GivesAddress
  <2>2. \A d \in Client \ {c} : Plain(d, e)' <=> Plain(d, e)
    BY <2>1 DEF Plain
  <2>3. \A d \in Client : origin[d] # Null => origin'[d] # Null
    BY <2>1
  <2>4. CASE Plain(c, e)' => Plain(c, e)
    <3>1. \A d \in Client : Plain(d, e)' => Plain(d, e)
      BY <2>2, <2>4
    <3>2. ASSUME NEW s \in Request PROVE GivesFreely(req[s], e)'
      <4>1. CASE req'[s] = req[s]
        <5>1. req[s].at = "updateClient" => req[s].client \in Client
          BY DEF TInv, Linked
        <5>q. QED BY <2>3, <3>1, <4>1, <5>1 DEF DistinctOn, GivesFreely
      <4>2. CASE req'[s] = Idle \/ req'[s].at = "markWon"
        BY <4>2 DEF GivesFreely, Idle
      <4>3. CASE s = r /\ req'[r].at = "updateClient" /\ ~Taken(req'[r].email, req'[r].client)
        <5>1. req'[r].email = e => \A d \in Client \ {req'[r].client} : ~Plain(d, e)
          BY <4>3 DEF Taken, Plain
        <5>2. req'[r].email = e => \A d \in Client \ {req'[r].client} : ~Plain(d, e)'
          BY <3>1, <5>1
        <5>q. QED BY <4>3, <5>2 DEF GivesFreely
      <4>q. QED BY <1>1, <4>1, <4>2, <4>3 DEF Goes
    <3>q. QED BY <3>1, <3>2 DEF DistinctOn
  <2>5. CASE Plain(c, e)' /\ ~Plain(c, e)
    <3>1. /\ req[r].email = e /\ req'[r] = Idle
          /\ \/ req[r].at = "insertClient"
             \/ req[r].at = "updateClient" /\ req[r].client = c
      BY <2>1, <2>5
    <3>2. origin[c] = Null
      BY <2>1, <2>5 DEF Plain
    <3>3. \A d \in Client \ {c} : ~Plain(d, e)
      BY <1>1, <3>1, <3>2 DEF GivesFreely
    <3>4. \A d, x \in Client : Plain(d, e)' /\ Plain(x, e)' => d = x
      BY <2>2, <3>3
    <3>5. ASSUME NEW s \in Request PROVE GivesFreely(req[s], e)'
      <4>1. CASE s = r
        BY <3>1, <4>1 DEF GivesFreely, Idle
      <4>2. CASE s # r
        <5>1. req'[s] = req[s] /\ ~WorksOn(req[s], e)
          BY <1>1, <3>1, <4>2 DEF AloneOn, WorksOn, ClientSteps
        <5>q. QED BY <5>1 DEF GivesFreely, WorksOn, ClientSteps
      <4>q. QED BY <4>1, <4>2
    <3>q. QED BY <3>4, <3>5 DEF DistinctOn
  <2>q. QED BY <2>4, <2>5
<1>q. QED BY <1>2, <1>3

\* Two clients have the same address only if one was made from a lead, unless requests that
\* give this address to a client have overlapped: every other handler has looked the address
\* up, and nobody has taken it since, whatever is done about other addresses.
THEOREM AddressesStayDistinct == Spec => []EmailsDistinct
<1>1. Init => EmailInv
  BY DEF Init, EmailInv, DistinctOn, GivesFreely, Plain, Idle, NoClient
<1>2. CalmInv /\ CalmInv' /\ EmailInv /\ [Next]_vars => EmailInv'
  <2> SUFFICES ASSUME CalmInv, CalmInv', EmailInv, [Next]_vars, NEW e \in Email \ crossed'
               PROVE  DistinctOn(e)'
    BY DEF EmailInv
  <2>0. TInv /\ TInv'
    BY DEF CalmInv
  <2>1. ASSUME NEW l \in Lead, NewLead(l) PROVE DistinctOn(e)'
    BY <2>1 DEF NewLead, EmailInv, DistinctOn, GivesFreely, Plain
  <2>2. ASSUME NEW r \in Request, NEW h, Joins(r, h), Looked(h) PROVE DistinctOn(e)'
    <3>1. DistinctOn(e)
      BY <2>2 DEF EmailInv, Joins
    <3>q. QED BY <2>0, <2>2, <3>1, JoinDistinct
  <2>3. ASSUME NEW r \in Request, Move(r) PROVE DistinctOn(e)'
    <3>1. e \notin crossed
      BY <2>3 DEF Move
    <3>q. QED BY <2>0, <2>3, <3>1, MoveDistinct DEF EmailInv, CalmInv
  <2>4. CASE UNCHANGED vars
    BY <2>4 DEF vars, EmailInv, DistinctOn, GivesFreely, Plain
  <2>q. QED BY <2>0, <2>1, <2>2, <2>3, <2>4, Steps
<1>3. EmailInv => EmailsDistinct
  BY DEF EmailInv, DistinctOn, Plain, EmailsDistinct
<1>q. QED BY <1>1, <1>2, <1>3, CalmInductive, PTL DEF Spec

=============================================================================
