------------------------------ MODULE Customers ------------------------------
(***************************************************************************)
(* LeadsService and ClientsService over the tables leads and clients.  A   *)
(* handler is one action per database statement and req[r] is what it      *)
(* carries between them, as in InvoiceLedger.                              *)
(*                                                                         *)
(* Of a row only its status, its e-mail address and the link from a lead to*)
(* its client are modelled; notes, tags, history events and the other      *)
(* fields are written by further statements that nothing here reads.       *)
(***************************************************************************)
CONSTANTS
  Lead,      \* ids a lead row may get
  Client,    \* ids a client row may get
  Email,     \* e-mail addresses, in lower case
  Request,   \* HTTP requests being served at the same time
  MayFail,   \* may a handler die between two statements?
  Null

ASSUME CustomersAssumption == MayFail \in BOOLEAN /\ Null \notin Lead \cup Client \cup Email

VARIABLES
  lead,    \* table leads
  client,  \* table clients
  req,     \* the handlers in progress
  (*************************** history variables ***************************)
  origin,  \* the lead a client was created from
  crossed, \* leads and addresses that two requests have worked on at a time
  broken   \* leads that a handler failed to mark as converted

vars == <<lead, client, req, origin, crossed, broken>>

-----------------------------------------------------------------------------
\* OPEN stands for NEW, CONTACTED, QUALIFIED and PROPOSAL_SENT, LOST also for ARCHIVED.
LeadStatus == {"OPEN", "WON", "LOST"}

NoLead == [status |-> "ABSENT", deleted |-> FALSE, email |-> Null, client |-> Null]
LeadRow == [status : LeadStatus, deleted : BOOLEAN, email : Email \cup {Null},
            client : Client \cup {Null}]

NoClient == [status |-> "ABSENT", email |-> Null]
ClientRow == [status : {"LIVE", "DELETED"}, email : Email \cup {Null}]

\* `status` and `email` are the values the handler is going to write, Null for none.
Idle == [at |-> "idle", lead |-> Null, client |-> Null, status |-> Null, email |-> Null]
LeadSteps == {"updateLead", "createClient", "markWon", "removeLead"}
ClientSteps == {"insertClient", "checkEmail", "updateClient", "removeClient"}
Handler ==
  {Idle}
  \cup [at : LeadSteps, lead : Lead, client : Client \cup {Null},
        status : LeadStatus \cup {Null}, email : Email \cup {Null}]
  \cup [at : ClientSteps, lead : {Null}, client : Client \cup {Null}, status : {Null},
        email : Email \cup {Null}]

Init ==
  /\ lead = [l \in Lead |-> NoLead]
  /\ client = [c \in Client |-> NoClient]
  /\ req = [r \in Request |-> Idle]
  /\ origin = [c \in Client |-> Null]
  /\ crossed = {}
  /\ broken = {}

-----------------------------------------------------------------------------
LeadExists(l) == lead[l].status # "ABSENT"
ClientExists(c) == client[c].status # "ABSENT"

\* findOne of the two services
LeadFound(l) == LeadExists(l) /\ ~lead[l].deleted
ClientFound(c) == client[c].status = "LIVE"

\* Another client than c that is not deleted has the address.
Taken(e, c) == \E d \in Client \ {c} : client[d].status = "LIVE" /\ client[d].email = e

At(r, step) == req[r].at = step
Finish(r) == req' = [req EXCEPT ![r] = Idle]
Step(r, h) == req' = [req EXCEPT ![r] = h]

\* A handler works on its lead, and on the address that it is going to give to a client.
WorksOn(h, x) == h.lead = x \/ (h.at \in ClientSteps /\ h.email = x)

\* The first statement of a handler reads a row and leaves the tables alone.
Start(r, h) ==
  /\ req[r] = Idle
  /\ Step(r, h)
  /\ crossed' = crossed \cup
       {x \in Lead \cup Email : WorksOn(h, x) /\ \E s \in Request : WorksOn(req[s], x)}
  /\ UNCHANGED <<lead, client, origin, broken>>

WriteLead(r, row) ==
  /\ lead' = [lead EXCEPT ![req[r].lead] = row]
  /\ Finish(r)
  /\ UNCHANGED <<client, origin, crossed, broken>>

WriteClient(r, row) ==
  /\ client' = [client EXCEPT ![req[r].client] = row]
  /\ Finish(r)
  /\ UNCHANGED <<lead, origin, crossed, broken>>

-----------------------------------------------------------------------------
(* LeadsService                                                            *)

\* A lead may be created, and edited, with any status, WON included.
CreateLead(r, l, s, e) ==
  /\ req[r] = Idle
  /\ ~LeadExists(l)
  /\ lead' = [lead EXCEPT ![l] = [NoLead EXCEPT !.status = s, !.email = e]]
  /\ UNCHANGED <<client, req, origin, crossed, broken>>

\* [mutant] the status of a converted lead may be changed
UpdateLeadReadAny(r, l, s, e) ==
  /\ LeadFound(l)
  /\ Start(r, [Idle EXCEPT !.at = "updateLead", !.lead = l, !.status = s, !.email = e])

UpdateLeadRead(r, l, s, e) ==
  /\ LeadFound(l)
  /\ lead[l].status = "WON" => s \in {"WON", Null}
  /\ Start(r, [Idle EXCEPT !.at = "updateLead", !.lead = l, !.status = s, !.email = e])

UpdateLeadWrite(r) ==
  /\ At(r, "updateLead")
  /\ WriteLead(r, [lead[req[r].lead] EXCEPT
                     !.status = IF req[r].status = Null THEN @ ELSE req[r].status,
                     !.email = IF req[r].email = Null THEN @ ELSE req[r].email])

\* The request may name an existing client (deleted or not: only the foreign key counts).
ConvertRead(r, l, c) ==
  /\ LeadFound(l)
  /\ lead[l].status # "WON"
  /\ c # Null => ClientExists(c)
  /\ Start(r, [Idle EXCEPT !.at = IF c = Null THEN "createClient" ELSE "markWon",
                           !.lead = l, !.client = c, !.email = lead[l].email])

\* No check whether a client has the lead's address.
ConvertCreateClient(r, c) ==
  /\ At(r, "createClient")
  /\ ~ClientExists(c)
  /\ client' = [client EXCEPT ![c] = [status |-> "LIVE", email |-> req[r].email]]
  /\ origin' = [origin EXCEPT ![c] = req[r].lead]
  /\ Step(r, [req[r] EXCEPT !.at = "markWon", !.client = c])
  /\ UNCHANGED <<lead, crossed, broken>>

\* [mutant] the lead stays open
ConvertMarkLinkOnly(r) ==
  /\ At(r, "markWon")
  /\ WriteLead(r, [lead[req[r].lead] EXCEPT !.client = req[r].client])

ConvertMarkWon(r) ==
  /\ At(r, "markWon")
  /\ WriteLead(r, [lead[req[r].lead] EXCEPT !.status = "WON", !.client = req[r].client])

RemoveLeadRead(r, l) ==
  LeadFound(l) /\ Start(r, [Idle EXCEPT !.at = "removeLead", !.lead = l])

RemoveLeadWrite(r) ==
  /\ At(r, "removeLead")
  /\ WriteLead(r, [lead[req[r].lead] EXCEPT !.deleted = TRUE])

-----------------------------------------------------------------------------
(* ClientsService                                                          *)

\* Without an address there is nothing to look up.
CreateClientCheck(r, e) ==
  /\ e # Null => ~Taken(e, Null)
  /\ Start(r, [Idle EXCEPT !.at = "insertClient", !.email = e])

CreateClientInsert(r, c) ==
  /\ At(r, "insertClient")
  /\ ~ClientExists(c)
  /\ client' = [client EXCEPT ![c] = [status |-> "LIVE", email |-> req[r].email]]
  /\ Finish(r)
  /\ UNCHANGED <<lead, origin, crossed, broken>>

\* [mutant] a new address is not looked up
UpdateClientReadUnchecked(r, c, e) ==
  /\ ClientFound(c)
  /\ Start(r, [Idle EXCEPT !.at = "updateClient", !.client = c, !.email = e])

UpdateClientRead(r, c, e) ==
  /\ ClientFound(c)
  /\ Start(r, [Idle EXCEPT !.at = IF e \in {Null, client[c].email} THEN "updateClient"
                                  ELSE "checkEmail",
                           !.client = c, !.email = e])

UpdateClientCheck(r) ==
  /\ At(r, "checkEmail")
  /\ IF Taken(req[r].email, req[r].client) THEN Finish(r)
     ELSE Step(r, [req[r] EXCEPT !.at = "updateClient"])
  /\ UNCHANGED <<lead, client, origin, crossed, broken>>

UpdateClientWrite(r) ==
  /\ At(r, "updateClient")
  /\ WriteClient(r, [client[req[r].client] EXCEPT
                       !.email = IF req[r].email = Null THEN @ ELSE req[r].email])

RemoveClientRead(r, c) ==
  ClientFound(c) /\ Start(r, [Idle EXCEPT !.at = "removeClient", !.client = c])

RemoveClientWrite(r) ==
  /\ At(r, "removeClient")
  /\ WriteClient(r, [client[req[r].client] EXCEPT !.status = "DELETED"])

-----------------------------------------------------------------------------
\* A rejected statement or a lost connection ends the handler; what it wrote stays.
Fail(r) ==
  /\ MayFail
  /\ req[r] # Idle
  /\ Finish(r)
  /\ broken' = IF At(r, "markWon") THEN broken \cup {req[r].lead} ELSE broken
  /\ UNCHANGED <<lead, client, origin, crossed>>

LeadRequest(r) ==
  \E l \in Lead :
    \/ \E s \in LeadStatus, e \in Email \cup {Null} : CreateLead(r, l, s, e)
    \/ \E s \in LeadStatus \cup {Null}, e \in Email \cup {Null} : UpdateLeadRead(r, l, s, e)
    \/ \E c \in Client \cup {Null} : ConvertRead(r, l, c)
    \/ RemoveLeadRead(r, l)

ClientRequest(r) ==
  \/ \E e \in Email \cup {Null} : CreateClientCheck(r, e)
  \/ \E c \in Client, e \in Email \cup {Null} : UpdateClientRead(r, c, e)
  \/ \E c \in Client : RemoveClientRead(r, c)

Resume(r) ==
  \/ UpdateLeadWrite(r)
  \/ \E c \in Client : ConvertCreateClient(r, c) \/ CreateClientInsert(r, c)
  \/ ConvertMarkWon(r)
  \/ RemoveLeadWrite(r)
  \/ UpdateClientCheck(r)
  \/ UpdateClientWrite(r)
  \/ RemoveClientWrite(r)

Next == \E r \in Request : LeadRequest(r) \/ ClientRequest(r) \/ Resume(r) \/ Fail(r)

Spec == Init /\ [][Next]_vars

-----------------------------------------------------------------------------
\* Types, and the foreign key from leads to clients.
TypeOK ==
  /\ lead \in [Lead -> LeadRow \cup {NoLead}]
  /\ client \in [Client -> ClientRow \cup {NoClient}]
  /\ req \in [Request -> Handler]
  /\ origin \in [Client -> Lead \cup {Null}]
  /\ crossed \subseteq Lead \cup Email
  /\ broken \subseteq Lead
  /\ \A l \in Lead : lead[l].client # Null => ClientExists(lead[l].client)

\* A lead is turned into a client at most once ("Lead is already converted"), whatever is done
\* to its status, unless two requests on it have overlapped, or one has failed to mark it as
\* converted.  Other requests may overlap and fail.
ConvertedOnce ==
  \A l \in Lead \ (crossed \cup broken) :
    \A c, d \in Client : origin[c] = l /\ origin[d] = l => c = d

\* A converted lead stays converted to the same client ("Cannot change status of a converted
\* lead"), unless two requests on it have overlapped.
WonIsFinal ==
  [][\A l \in Lead \ crossed' :
       lead[l].status = "WON" =>
         lead'[l].status = "WON" /\ lead'[l].client = lead[l].client]_vars

\* Two clients have the same address only if one of them was made from a lead ("A client with
\* email ... already exists"), unless two requests that give it to a client have overlapped.
EmailsDistinct ==
  \A e \in Email \ crossed :
    \A c, d \in Client :
      /\ c # d
      /\ client[c].status = "LIVE" /\ client[d].status = "LIVE"
      /\ client[c].email = e /\ client[d].email = e
      => origin[c] # Null \/ origin[d] # Null

===============================================================================
