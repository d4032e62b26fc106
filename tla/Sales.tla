-------------------------------- MODULE Sales --------------------------------
(***************************************************************************)
(* QuotationsService and ProposalsService over the tables quotations,      *)
(* quotation_items and proposals.                                          *)
(*                                                                         *)
(* The totals of a quotation are stored in its row and computed again by   *)
(* the handlers that change its items; a proposal, of which a quotation has*)
(* at most one, writes its outcome into both rows.  As in InvoiceLedger, a *)
(* handler is one action per database statement and req[r] is what it      *)
(* carries between them.                                                   *)
(*                                                                         *)
(* The figures calculateFinancials returns are all functions of the items  *)
(* and the discount; totalAmount stands for them.  A discount is an amount *)
(* (type `fixed`); a percentage gives another amount for the same items.   *)
(***************************************************************************)
EXTENDS Integers, FiniteSetsExt

CONSTANTS
  Quotation,  \* ids a quotation row may get
  Item,       \* ids an item row may get
  Price,      \* quantity * unitPrice of each item
  Discount,   \* discounts a quotation may be given
  Request,    \* HTTP requests being served at the same time
  Mixes,      \* what the clients of a behaviour may use: which endpoints, and which quotations
  MayFail,    \* may a handler die between two statements?
  Null

AllOps == {"update", "updateStatus", "addItem", "removeItem", "remove",
           "createProposal", "send", "accept", "reject"}

ASSUME SalesAssumption ==
  /\ Price \in [Item -> Nat]
  /\ Discount \subseteq Nat
  /\ Mixes \subseteq [ops : SUBSET AllOps, quotations : SUBSET Quotation]
  /\ MayFail \in BOOLEAN
  /\ Null \notin Quotation \cup Item
  /\ {"UNMADE", "GONE"} \cap Quotation = {}

VARIABLES
  quote,     \* table quotations
  home,      \* table quotation_items: the quotation of each item
  proposal,  \* table proposals: the status of each quotation's proposal
  req,       \* the handlers in progress
  mix,       \* the endpoints and quotations that clients use
  (*************************** history variables ***************************)
  crossed,   \* quotations that two requests have worked on at a time
  broken,    \* quotations whose handler has failed
  byHand,    \* quotations whose status a request has set by hand
  astray     \* quotations that have lost an item through the URL of another one since
             \* their total was last computed

tables == <<quote, home, proposal>>
history == <<crossed, broken, byHand, astray>>
vars == <<tables, req, mix, history>>

-----------------------------------------------------------------------------
\* VIEWED and EXPIRED are treated like SENT.
QuotationStatus == {"DRAFT", "SENT", "ACCEPTED", "REJECTED", "CONVERTED"}
\* No endpoint calls markViewed, so no proposal is VIEWED.
ProposalStatus == {"ABSENT", "DRAFT", "SENT", "ACCEPTED", "REJECTED"}

QuotationRow == [status : QuotationStatus \cup {"ABSENT"}, deleted : BOOLEAN,
                 discount : Nat, total : Int]
NoQuotation == [status |-> "ABSENT", deleted |-> FALSE, discount |-> 0, total |-> 0]

\* An item row is unmade before its insert and gone after its delete.
Homes == Quotation \cup {"UNMADE", "GONE"}

\* `subtotal` and `discount` are what a handler that recalculates has read.
Idle == [at |-> "idle", quotation |-> Null, item |-> Null, subtotal |-> 0, discount |-> 0]
Steps == {"update", "updateStatus", "addItem", "removeItem", "remove", "recalculate",
          "writeTotals", "createProposal", "send", "sendQuotation", "accept", "reject"}
Handler ==
  {Idle} \cup [at : Steps, quotation : Quotation, item : Item \cup {Null},
               subtotal : Int, discount : Nat]

Init ==
  /\ quote = [q \in Quotation |-> NoQuotation]
  /\ home = [x \in Item |-> "UNMADE"]
  /\ proposal = [q \in Quotation |-> "ABSENT"]
  /\ req = [r \in Request |-> Idle]
  /\ mix \in Mixes
  /\ crossed = {}
  /\ broken = {}
  /\ byHand = {}
  /\ astray = {}

-----------------------------------------------------------------------------
ItemsOf(q) == {x \in Item : home[x] = q}

\* Ids that no item row has and no handler is about to insert.
Fresh == {x \in Item : home[x] = "UNMADE" /\ \A r \in Request : req[r].item # x}

SumOf(items) == MapThenSumSet(LAMBDA x : Price[x], items)

\* calculateFinancials
TotalOf(subtotal, discount) == subtotal - discount

Exists(q) == quote[q].status # "ABSENT"

\* findOne
Found(q) == Exists(q) /\ ~quote[q].deleted

\* [mutant] a converted quotation may be edited
FrozenAccepted(q) == quote[q].status = "ACCEPTED"

Frozen(q) == quote[q].status \in {"ACCEPTED", "CONVERTED"}

At(r, step) == req[r].at = step
Finish(r) == req' = [req EXCEPT ![r] = Idle]
Proceed(r, step) == req' = [req EXCEPT ![r].at = step]

\* The handler that is going to delete an item also works on the quotation it belongs to.
WorksOn(h, q) == h.quotation = q \/ (h.at = "removeItem" /\ home[h.item] = q)

\* The first statement of a handler that works on quotation q.
Start(r, q, step, item) ==
  LET h == [Idle EXCEPT !.at = step, !.quotation = q, !.item = item,
                        !.subtotal = SumOf(ItemsOf(q)), !.discount = quote[q].discount]
  IN /\ step \in mix.ops
     /\ req[r] = Idle
     /\ req' = [req EXCEPT ![r] = h]
     /\ crossed' = crossed \cup
          {p \in Quotation : WorksOn(h, p) /\ \E s \in Request : WorksOn(req[s], p)}
     /\ UNCHANGED <<tables, mix, broken, byHand, astray>>

-----------------------------------------------------------------------------
(* QuotationsService                                                       *)

Create(q, items, d) ==
  /\ q \in mix.quotations
  /\ ~Exists(q)
  /\ quote' = [quote EXCEPT ![q] = [status |-> "DRAFT", deleted |-> FALSE, discount |-> d,
                                    total |-> TotalOf(SumOf(items), d)]]
  /\ home' = [x \in Item |-> IF x \in items THEN q ELSE home[x]]
  /\ UNCHANGED <<proposal, req, mix, history>>

UpdateRead(r, q) == Found(q) /\ ~Frozen(q) /\ Start(r, q, "update", Null)

\* Items and discount are taken from the request or else from the row that was read; new
\* items replace the item rows, and only a new discount is written back.
UpdateWrite(r) ==
  LET q == req[r].quotation
  IN /\ At(r, "update")
     /\ \E items \in SUBSET Fresh, newItems, newDiscount \in BOOLEAN, d \in Discount :
          LET subtotal == IF newItems THEN SumOf(items) ELSE req[r].subtotal
              discount == IF newDiscount THEN d ELSE req[r].discount
          IN /\ quote' = [quote EXCEPT ![q].discount = IF newDiscount THEN d ELSE @,
                                       ![q].total = TotalOf(subtotal, discount)]
             /\ home' = IF ~newItems THEN home
                        ELSE [x \in Item |-> IF x \in items THEN q
                                             ELSE IF home[x] = q THEN "GONE" ELSE home[x]]
     /\ astray' = astray \ {q}
     /\ Finish(r)
     /\ UNCHANGED <<proposal, mix, crossed, broken, byHand>>

UpdateStatusRead(r, q) == Found(q) /\ Start(r, q, "updateStatus", Null)

UpdateStatusWrite(r, s) ==
  /\ At(r, "updateStatus")
  /\ quote' = [quote EXCEPT ![req[r].quotation].status = s]
  /\ byHand' = byHand \cup {req[r].quotation}
  /\ Finish(r)
  /\ UNCHANGED <<home, proposal, mix, crossed, broken, astray>>

AddItemRead(r, q, x) ==
  Found(q) /\ ~Frozen(q) /\ x \in Fresh /\ Start(r, q, "addItem", x)

AddItemInsert(r) ==
  /\ At(r, "addItem")
  /\ home' = [home EXCEPT ![req[r].item] = req[r].quotation]
  /\ Proceed(r, "recalculate")
  /\ UNCHANGED <<quote, proposal, mix, history>>

\* Neither the status of the quotation nor whose item it is gets checked.
RemoveItemRead(r, q, x) ==
  Found(q) /\ home[x] \in Quotation /\ Start(r, q, "removeItem", x)

\* [mutant] the totals are not computed again
RemoveItemDeleteOnly(r) ==
  /\ At(r, "removeItem")
  /\ home' = [home EXCEPT ![req[r].item] = "GONE"]
  /\ Finish(r)
  /\ UNCHANGED <<quote, proposal, mix, history>>

\* Deleting a row that another handler has deleted throws.  The totals are computed again
\* for the quotation of the URL, also when the item was another one's.
RemoveItemDelete(r) ==
  /\ At(r, "removeItem")
  /\ IF home[req[r].item] = "GONE"
       THEN Finish(r) /\ UNCHANGED <<home, astray>>
       ELSE /\ home' = [home EXCEPT ![req[r].item] = "GONE"]
            /\ astray' = astray \cup ({home[req[r].item]} \ {req[r].quotation})
            /\ Proceed(r, "recalculate")
  /\ UNCHANGED <<quote, proposal, mix, crossed, broken, byHand>>

\* recalculate reads the row and its items again ...
RecalculateRead(r) ==
  LET q == req[r].quotation
  IN /\ At(r, "recalculate")
     /\ req' = [req EXCEPT ![r].at = "writeTotals", ![r].subtotal = SumOf(ItemsOf(q)),
                           ![r].discount = quote[q].discount]
     /\ UNCHANGED <<tables, mix, history>>

\* ... and writes what it computed.
RecalculateWrite(r) ==
  /\ At(r, "writeTotals")
  /\ quote' = [quote EXCEPT ![req[r].quotation].total =
                              TotalOf(req[r].subtotal, req[r].discount)]
  /\ astray' = astray \ {req[r].quotation}
  /\ Finish(r)
  /\ UNCHANGED <<home, proposal, mix, crossed, broken, byHand>>

RemoveRead(r, q) == Found(q) /\ Start(r, q, "remove", Null)

RemoveWrite(r) ==
  /\ At(r, "remove")
  /\ quote' = [quote EXCEPT ![req[r].quotation].deleted = TRUE]
  /\ Finish(r)
  /\ UNCHANGED <<home, proposal, mix, history>>

-----------------------------------------------------------------------------
(* ProposalsService                                                        *)

CreateProposalRead(r, q) == Found(q) /\ Start(r, q, "createProposal", Null)

\* The look-up of an existing proposal and the unique index on quotationId both refuse a
\* second one.
CreateProposalInsert(r) ==
  LET q == req[r].quotation
  IN /\ At(r, "createProposal")
     /\ proposal' = [proposal EXCEPT ![q] = IF @ = "ABSENT" THEN "DRAFT" ELSE @]
     /\ Finish(r)
     /\ UNCHANGED <<quote, home, mix, history>>

\* send, accept and reject look only at whether there is a proposal.
ProposalRead(r, q, step) == proposal[q] # "ABSENT" /\ Start(r, q, step, Null)

\* [mutant] the quotation is not marked
SendProposalOnly(r) ==
  /\ At(r, "send")
  /\ proposal' = [proposal EXCEPT ![req[r].quotation] = "SENT"]
  /\ Finish(r)
  /\ UNCHANGED <<quote, home, mix, history>>

SendProposal(r) ==
  /\ At(r, "send")
  /\ proposal' = [proposal EXCEPT ![req[r].quotation] = "SENT"]
  /\ Proceed(r, "sendQuotation")
  /\ UNCHANGED <<quote, home, mix, history>>

SendQuotation(r) ==
  /\ At(r, "sendQuotation")
  /\ quote' = [quote EXCEPT ![req[r].quotation].status = "SENT"]
  /\ Finish(r)
  /\ UNCHANGED <<home, proposal, mix, history>>

\* [mutant] a quotation that is already accepted is left as it is
DecideOpenOnly(r, step, s) ==
  /\ At(r, step)
  /\ proposal' = [proposal EXCEPT ![req[r].quotation] = s]
  /\ quote' = IF Frozen(req[r].quotation) THEN quote
              ELSE [quote EXCEPT ![req[r].quotation].status = s]
  /\ Finish(r)
  /\ UNCHANGED <<home, mix, history>>

\* [mutant] the quotation is left to a later statement
DecideProposalOnly(r, step, s) ==
  /\ At(r, step)
  /\ proposal' = [proposal EXCEPT ![req[r].quotation] = s]
  /\ Finish(r)
  /\ UNCHANGED <<quote, home, mix, history>>

\* The $transaction of accept and of reject.
Decide(r, step, s) ==
  /\ At(r, step)
  /\ proposal' = [proposal EXCEPT ![req[r].quotation] = s]
  /\ quote' = [quote EXCEPT ![req[r].quotation].status = s]
  /\ Finish(r)
  /\ UNCHANGED <<home, mix, history>>

Accept(r) == Decide(r, "accept", "ACCEPTED")
Reject(r) == Decide(r, "reject", "REJECTED")

-----------------------------------------------------------------------------
Fail(r) ==
  /\ MayFail
  /\ req[r] # Idle
  /\ broken' = broken \cup {req[r].quotation}
  /\ Finish(r)
  /\ UNCHANGED <<tables, mix, crossed, byHand, astray>>

Begin(r, q) ==
  \/ UpdateRead(r, q)
  \/ UpdateStatusRead(r, q)
  \/ \E x \in Item : AddItemRead(r, q, x) \/ RemoveItemRead(r, q, x)
  \/ RemoveRead(r, q)
  \/ CreateProposalRead(r, q)
  \/ \E step \in {"send", "accept", "reject"} : ProposalRead(r, q, step)

Resume(r) ==
  \/ UpdateWrite(r)
  \/ \E s \in QuotationStatus : UpdateStatusWrite(r, s)
  \/ AddItemInsert(r)
  \/ RemoveItemDelete(r)
  \/ RecalculateRead(r)
  \/ RecalculateWrite(r)
  \/ RemoveWrite(r)
  \/ CreateProposalInsert(r)
  \/ SendProposal(r)
  \/ SendQuotation(r)
  \/ Accept(r)
  \/ Reject(r)

Next ==
  \/ \E q \in Quotation, items \in SUBSET Fresh, d \in Discount : Create(q, items, d)
  \/ \E r \in Request : Resume(r) \/ Fail(r) \/ \E q \in Quotation : Begin(r, q)

Spec == Init /\ [][Next]_vars

FairSpec == Spec /\ \A r \in Request : WF_vars(Resume(r))

-----------------------------------------------------------------------------
\* No handler is at work on quotation q.
Quiet(q) == \A r \in Request : req[r].quotation # q

\* The stored total of a quotation nobody is working on is that of its items and discount
\* ("auto-recalculates"), unless two requests have worked on the quotation at a time, or a
\* request on it has failed, or one of its items has been deleted through the URL of another
\* quotation since.  Requests on other quotations may overlap and fail.
TotalIsCurrent ==
  \A q \in Quotation \ (crossed \cup broken \cup astray) :
    Quiet(q) => quote[q].total = TotalOf(SumOf(ItemsOf(q)), quote[q].discount)

\* A decision is in both rows: unless a request has set the status by hand, a quotation and
\* its proposal are accepted or rejected together, except that sending the proposal may
\* have made either of them SENT again.  Requests may overlap and fail.
DecisionAgrees ==
  \A q \in Quotation \ byHand :
    \A s \in {"ACCEPTED", "REJECTED"} :
      /\ quote[q].status = s => proposal[q] \in {s, "SENT"}
      /\ proposal[q] = s => quote[q].status \in {s, "SENT"}

\* A quotation whose proposal is accepted is itself accepted ("Accept proposal → marks
\* quotation as ACCEPTED").  Only requests on it that do not overlap keep it so: an accept
\* between the two writes of send ends as a quotation that is SENT.
AcceptedStays ==
  \A q \in Quotation \ (crossed \cup byHand) :
    proposal[q] = "ACCEPTED" => quote[q].status = "ACCEPTED"

\* An accepted quotation gets neither new items nor another discount ("Cannot edit an
\* accepted or converted quotation", "Cannot add items to an accepted quotation"), if
\* requests on it do not overlap.
AcceptedIsFinal ==
  [][\A q \in Quotation \ crossed' :
       {quote[q].status, quote'[q].status} \subseteq {"ACCEPTED", "CONVERTED"} =>
         /\ quote'[q].discount = quote[q].discount
         /\ \A x \in Item : home'[x] = q => home[x] = q]_vars

\* When handlers do not fail, a proposal that is sent gets its quotation out of DRAFT,
\* whatever else is done to the quotation meanwhile ("also mark quotation as SENT"), unless
\* a request sets the status by hand.
SentReachesQuotation ==
  \A q \in Quotation :
    (proposal[q] = "SENT" /\ q \notin broken \cup byHand)
      ~> (quote[q].status # "DRAFT" \/ q \in broken \cup byHand)

=============================================================================
