----------------------------- MODULE Sales_proofs -----------------------------
(***************************************************************************)
(* For any number of quotations, items and overlapping requests: a decision*)
(* on a proposal is always in both rows, or overtaken by a send, also when *)
(* handlers fail, unless a request has set the status by hand; and of each *)
(* quotation that no two requests have worked on at a time, whatever is    *)
(* done to the others meanwhile, an accepted one is final and the total is *)
(* that of the items.                                                      *)
(***************************************************************************)
EXTENDS Sales, TLAPS

\* A handler that is at work has a quotation.
Sound(h) ==
  /\ DOMAIN h = {"at", "quotation", "item", "subtotal", "discount"}
  /\ h.at # "idle" => h.quotation \in Quotation
  /\ h.at = "idle" => h = Idle

Handlers ==
  /\ req = [r \in Request |-> req[r]]
  /\ \A r \in Request : Sound(req[r])

(* What the argument needs of the types: which fields the rows have.  The  *)
(* totals, sums over the items, play no part.                              *)
Rows ==
  /\ quote = [q \in Quotation |-> quote[q]]
  /\ \A q \in Quotation :
       DOMAIN quote[q] = {"status", "deleted", "discount", "total"}
  /\ proposal \in [Quotation -> ProposalStatus]

IInv == Rows /\ Handlers /\ DecisionAgrees

-----------------------------------------------------------------------------
\* Initially no quotation and no proposal exists.
LEMMA DecisionInit == Init => IInv
  BY DEF Init, IInv, Rows, Handlers, Sound, DecisionAgrees, NoQuotation, Idle, ProposalStatus

\* A handler that moves to a sound state keeps all handlers sound.
LEMMA MoveKeeps ==
  ASSUME Handlers, NEW r \in Request, NEW h, Sound(h), req' = [req EXCEPT ![r] = h]
  PROVE  Handlers'
<1>1. req' = [s \in Request |-> req'[s]] /\ req'[r] = h
      /\ \A s \in Request \ {r} : req'[s] = req[s]
  BY DEF Handlers
<1>2. \A s \in Request : Sound(req'[s])
  BY <1>1 DEF Handlers
<1>q. QED BY <1>1, <1>2 DEF Handlers, Sound

\* A handler may always end.
LEMMA FinishKeeps ==
  ASSUME Handlers, NEW r \in Request, Finish(r)
  PROVE  Handlers'
<1>1. Sound(Idle)
  BY DEF Sound, Idle
<1>q. QED BY <1>1, MoveKeeps DEF Finish

\* So may one that goes on with another statement, whatever figures it takes along.
LEMMA FieldsKeep ==
  ASSUME Handlers, NEW r \in Request, req[r].at # "idle",
         req' = [t \in Request |-> req'[t]],
         \A t \in Request \ {r} : req'[t] = req[t],
         DOMAIN req'[r] = DOMAIN req[r], req'[r].at # "idle",
         req'[r].quotation = req[r].quotation
  PROVE  Handlers'
<1>1. Sound(req[r])
  BY DEF Handlers
<1>2. \A t \in Request : Sound(req'[t])
  BY <1>1 DEF Handlers, Sound
<1>q. QED BY <1>2 DEF Handlers, Sound

LEMMA ProceedKeeps ==
  ASSUME Handlers, NEW r \in Request, NEW step, Proceed(r, step), req[r].at # "idle",
         step # "idle"
  PROVE  Handlers'
<1>1. /\ req' = [t \in Request |-> req'[t]]
      /\ \A t \in Request \ {r} : req'[t] = req[t]
      /\ DOMAIN req'[r] = DOMAIN req[r]
      /\ req'[r].at = step
      /\ req'[r].quotation = req[r].quotation
  BY DEF Handlers, Sound, Proceed
<1>q. QED BY <1>1, FieldsKeep

\* The first statement of a handler only reads, so it keeps everything.
LEMMA StartKeeps ==
  ASSUME IInv, NEW r \in Request, NEW q \in Quotation, NEW step \in AllOps, NEW item,
         Start(r, q, step, item)
  PROVE  IInv'
<1> DEFINE h == [Idle EXCEPT !.at = step, !.quotation = q, !.item = item,
                             !.subtotal = SumOf(ItemsOf(q)), !.discount = quote[q].discount]
<1>1. Sound(h)
  BY DEF Sound, Idle, AllOps
<1>2. Handlers'
  <2> HIDE DEF h
  <2>1. req' = [req EXCEPT ![r] = h]
    BY DEF Start, h
  <2>q. QED BY <1>1, <2>1, MoveKeeps DEF IInv
<1>3. Rows' /\ DecisionAgrees'
  BY DEF Start, tables, history, IInv, Rows, DecisionAgrees
<1>q. QED BY <1>2, <1>3 DEF IInv

\* So does everything that leaves the proposals and the statuses of the quotations alone.
LEMMA StatusesKept ==
  ASSUME IInv, Handlers', Rows', UNCHANGED <<proposal, byHand>>,
         \A q \in Quotation : quote'[q].status = quote[q].status
  PROVE  IInv'
  BY DEF IInv, DecisionAgrees

\* A decision writes one status to both rows.
LEMMA DecideKeeps ==
  ASSUME IInv, NEW r \in Request, NEW step \in {"accept", "reject"},
         NEW s \in {"ACCEPTED", "REJECTED"}, Decide(r, step, s)
  PROVE  IInv'
<1>1. Handlers'
  BY FinishKeeps DEF Decide, history, IInv
<1>2. req[r].quotation \in Quotation
  BY DEF Decide, history, At, IInv, Handlers, Sound
<1>3. Rows'
  BY <1>2 DEF Decide, history, IInv, Rows, ProposalStatus
<1>4. DecisionAgrees'
  BY <1>2 DEF Decide, history, IInv, Rows, DecisionAgrees
<1>q. QED BY <1>1, <1>3, <1>4 DEF IInv

\* Sending marks first the proposal and then the quotation as SENT.
LEMMA SendKeeps ==
  ASSUME IInv, NEW r \in Request, SendProposal(r) \/ SendQuotation(r)
  PROVE  IInv'
<1>1. CASE SendProposal(r)
  <2>1. Handlers'
    <3>1. Proceed(r, "sendQuotation") /\ req[r].at = "send"
      BY <1>1 DEF SendProposal, history, At
    <3>q. QED BY <3>1, ProceedKeeps DEF IInv
  <2>2. Rows' /\ DecisionAgrees'
    BY <1>1 DEF SendProposal, history, IInv, Rows, ProposalStatus, DecisionAgrees
  <2>q. QED BY <2>1, <2>2 DEF IInv
<1>2. CASE SendQuotation(r)
  <2>1. Handlers'
    BY <1>2, FinishKeeps DEF SendQuotation, history, IInv
  <2>2. Rows' /\ DecisionAgrees'
    BY <1>2 DEF SendQuotation, history, IInv, Rows, DecisionAgrees
  <2>q. QED BY <2>1, <2>2 DEF IInv
<1>q. QED BY <1>1, <1>2

\* A quotation whose status is set by hand is out of what the invariant says.
LEMMA ByHandKeeps ==
  ASSUME IInv, NEW r \in Request, NEW s \in QuotationStatus, UpdateStatusWrite(r, s)
  PROVE  IInv'
<1>1. Handlers'
  BY FinishKeeps DEF UpdateStatusWrite, IInv
<1>2. Rows' /\ DecisionAgrees'
  BY DEF UpdateStatusWrite, IInv, Rows, DecisionAgrees
<1>q. QED BY <1>1, <1>2 DEF IInv

\* Creating a quotation: no decided proposal belongs to an id that was free.
LEMMA CreateKeeps ==
  ASSUME IInv, NEW q \in Quotation, NEW items, NEW d, Create(q, items, d)
  PROVE  IInv'
<1>1. Handlers'
  BY DEF Create, history, IInv, Handlers
<1>2. Rows' /\ DecisionAgrees'
  <2> DEFINE row == [status |-> "DRAFT", deleted |-> FALSE, discount |-> d,
                     total |-> TotalOf(SumOf(items), d)]
  <2>1. DOMAIN row = {"status", "deleted", "discount", "total"} /\ row.status = "DRAFT"
    OBVIOUS
  <2>2. quote' = [quote EXCEPT ![q] = row] /\ UNCHANGED <<proposal, byHand>>
       /\ quote[q].status = "ABSENT"
    BY DEF Create, history, Exists
  <2> HIDE DEF row
  <2>q. QED BY <2>1, <2>2 DEF IInv, Rows, DecisionAgrees
<1>q. QED BY <1>1, <1>2 DEF IInv

\* A quotation gets its first proposal as a draft.
LEMMA CreateProposalKeeps ==
  ASSUME IInv, NEW r \in Request, CreateProposalInsert(r)
  PROVE  IInv'
<1>1. Handlers'
  BY FinishKeeps DEF CreateProposalInsert, history, IInv
<1>2. Rows' /\ DecisionAgrees'
  BY DEF CreateProposalInsert, history, IInv, Rows, ProposalStatus, DecisionAgrees
<1>q. QED BY <1>1, <1>2 DEF IInv

\* The writes that change totals, items or the deletion mark.
LEMMA OtherWritesKeep ==
  ASSUME IInv, NEW r \in Request,
         \/ UpdateWrite(r) \/ AddItemInsert(r) \/ RemoveItemDelete(r)
         \/ RecalculateRead(r) \/ RecalculateWrite(r) \/ RemoveWrite(r)
  PROVE  IInv'
<1>1. CASE UpdateWrite(r)
  <2>1. Handlers'
    BY <1>1, FinishKeeps DEF UpdateWrite, history, IInv
  <2>2. /\ Rows' /\ UNCHANGED <<proposal, byHand>>
        /\ \A q \in Quotation : quote'[q].status = quote[q].status
    <3>1. PICK d, t :
            quote' = [quote EXCEPT ![req[r].quotation].discount = d,
                                   ![req[r].quotation].total = t]
      BY <1>1 DEF UpdateWrite, history
    <3>q. QED BY <1>1, <3>1 DEF UpdateWrite, history, IInv, Rows
  <2>q. QED BY <2>1, <2>2, StatusesKept
<1>2. CASE AddItemInsert(r)
  <2>1. Handlers' /\ UNCHANGED <<quote, proposal, byHand>>
    <3>1. Proceed(r, "recalculate") /\ req[r].at = "addItem"
      BY <1>2 DEF AddItemInsert, history, At
    <3>q. QED BY <1>2, <3>1, ProceedKeeps DEF AddItemInsert, history, IInv
  <2>q. QED BY <2>1, StatusesKept DEF IInv, Rows
<1>3. CASE RemoveItemDelete(r)
  <2>1. Handlers' /\ UNCHANGED <<quote, proposal, byHand>>
    <3>1. req[r].at = "removeItem" /\ (Finish(r) \/ Proceed(r, "recalculate"))
      BY <1>3 DEF RemoveItemDelete, history, At
    <3>q. QED BY <1>3, <3>1, ProceedKeeps, FinishKeeps DEF RemoveItemDelete, history, IInv
  <2>q. QED BY <2>1, StatusesKept DEF IInv, Rows
<1>4. CASE RecalculateRead(r)
  <2>1. Handlers' /\ UNCHANGED <<quote, proposal, byHand>>
    <3>1. req[r].at = "recalculate" /\ UNCHANGED <<quote, proposal, byHand>>
      BY <1>4 DEF RecalculateRead, At, tables, history
    <3>2. PICK s, d : req' = [req EXCEPT ![r].at = "writeTotals", ![r].subtotal = s,
                                         ![r].discount = d]
      BY <1>4 DEF RecalculateRead
    <3>3. /\ req' = [t \in Request |-> req'[t]]
          /\ \A t \in Request \ {r} : req'[t] = req[t]
          /\ DOMAIN req'[r] = DOMAIN req[r]
          /\ req'[r].at = "writeTotals"
          /\ req'[r].quotation = req[r].quotation
      BY <3>2 DEF IInv, Handlers, Sound
    <3>q. QED BY <3>1, <3>3, FieldsKeep DEF IInv
  <2>q. QED BY <2>1, StatusesKept DEF IInv, Rows
<1>5. CASE RecalculateWrite(r)
  <2>1. Handlers'
    BY <1>5, FinishKeeps DEF RecalculateWrite, history, IInv
  <2>2. /\ Rows' /\ UNCHANGED <<proposal, byHand>>
        /\ \A q \in Quotation : quote'[q].status = quote[q].status
    BY <1>5 DEF RecalculateWrite, history, IInv, Rows
  <2>q. QED BY <2>1, <2>2, StatusesKept
<1>6. CASE RemoveWrite(r)
  <2>1. Handlers'
    BY <1>6, FinishKeeps DEF RemoveWrite, history, IInv
  <2>2. /\ Rows' /\ UNCHANGED <<proposal, byHand>>
        /\ \A q \in Quotation : quote'[q].status = quote[q].status
    BY <1>6 DEF RemoveWrite, history, IInv, Rows
  <2>q. QED BY <2>1, <2>2, StatusesKept
<1>q. QED BY <1>1, <1>2, <1>3, <1>4, <1>5, <1>6

-----------------------------------------------------------------------------
\* Every step keeps the invariant.
LEMMA DecisionStep ==
  ASSUME IInv, [Next]_vars
  PROVE  IInv'
<1>1. CASE UNCHANGED vars
  BY <1>1 DEF vars, tables, history, IInv, Rows, Handlers, DecisionAgrees
<1>2. ASSUME NEW q \in Quotation, NEW items, NEW d, Create(q, items, d)
      PROVE  IInv'
  BY <1>2, CreateKeeps
<1>3. ASSUME NEW r \in Request, NEW q \in Quotation, Begin(r, q)
      PROVE  IInv'
  <2>1. PICK step, item : step \in AllOps /\ Start(r, q, step, item)
    BY <1>3 DEF Begin, UpdateRead, UpdateStatusRead, AddItemRead, RemoveItemRead, RemoveRead,
                CreateProposalRead, ProposalRead, AllOps
  <2>q. QED BY <2>1, StartKeeps
<1>4. ASSUME NEW r \in Request, Resume(r)
      PROVE  IInv'
  <2>1. ASSUME NEW s \in QuotationStatus, UpdateStatusWrite(r, s)
        PROVE  IInv'
    BY <2>1, ByHandKeeps
  <2>2. CASE Accept(r) \/ Reject(r)
    BY <2>2, DecideKeeps DEF Accept, Reject
  <2>3. CASE CreateProposalInsert(r)
    BY <2>3, CreateProposalKeeps
  <2>4. CASE \/ UpdateWrite(r) \/ AddItemInsert(r) \/ RemoveItemDelete(r)
             \/ RecalculateRead(r) \/ RecalculateWrite(r) \/ RemoveWrite(r)
    BY <2>4, OtherWritesKeep
  <2>5. CASE SendProposal(r) \/ SendQuotation(r)
    BY <2>5, SendKeeps
  <2>q. QED BY <1>4, <2>1, <2>2, <2>3, <2>4, <2>5 DEF Resume
<1>5. ASSUME NEW r \in Request, Fail(r)
      PROVE  IInv'
  <2>1. Handlers' /\ UNCHANGED <<quote, proposal, byHand>>
    BY <1>5, FinishKeeps DEF Fail, tables, IInv
  <2>q. QED BY <2>1, StatusesKept DEF IInv, Rows
<1>q. QED BY <1>1, <1>2, <1>3, <1>4, <1>5 DEF Next

\* ProposalsService.accept and reject: proposal and quotation are accepted or rejected
\* together, whatever else is done to the quotation and also when handlers fail; only
\* sending the proposal can take one of them back, to SENT, and a request that sets the
\* status by hand is exempt.
THEOREM DecisionsAgree == Spec => []DecisionAgrees
<1>1. IInv /\ [Next]_vars => IInv'
  BY DecisionStep
<1>2. IInv => DecisionAgrees
  BY DEF IInv
<1>q. QED BY DecisionInit, <1>1, <1>2, PTL DEF Spec

-----------------------------------------------------------------------------
(* What one handler does while others are at work.  It writes the rows of  *)
(* its own quotation q only, except that it may delete an item of another  *)
(* one, which then has lost an item through the URL of q.                  *)

\* An item stays with its quotation until it is deleted; the item that a handler is about to
\* insert is its own, and the one that a handler is about to delete has been inserted.
HomeInv ==
  /\ home \in [Item -> Homes]
  /\ \A r \in Request :
       req[r].at = "addItem" =>
         /\ req[r].item \in Item /\ home[req[r].item] = "UNMADE"
         /\ \A s \in Request : req[s].at = "addItem" /\ req[s].item = req[r].item => s = r
  /\ \A r \in Request :
       req[r].at = "removeItem" => req[r].item \in Item /\ home[req[r].item] # "UNMADE"

\* Items, proposals and handlers are those of quotations that have been created.
Born ==
  /\ \A q \in Quotation : ~Exists(q) => ItemsOf(q) = {} /\ proposal[q] = "ABSENT"
  /\ \A r \in Request : req[r].at # "idle" => Exists(req[r].quotation)

Base == IInv /\ HomeInv /\ Born

HandlersMove(r, q) ==
  /\ req[r].at # "idle" /\ req[r].quotation = q
  /\ \A s \in Request \ {r} : req'[s] = req[s]
  /\ \/ req'[r] = Idle
     \/ req'[r].quotation = q /\ req'[r].at \in {"recalculate", "writeTotals", "sendQuotation"}

RowsMove(q) ==
  /\ crossed' = crossed /\ broken \subseteq broken' /\ byHand \subseteq byHand'
  /\ \A p \in Quotation \ {q} : quote'[p] = quote[p] /\ proposal'[p] = proposal[p]
  /\ Exists(q)'

ItemsMove(r, q) ==
  /\ home' \in [Item -> Homes]
  /\ \A x \in Item :
       \/ home'[x] = home[x]
       \/ home[x] \in Quotation /\ home'[x] = "GONE"
       \/ /\ home[x] = "UNMADE" /\ home'[x] = q
          /\ \A s \in Request \ {r} : req[s].at = "addItem" => req[s].item # x
  /\ \A p \in Quotation \ {q} :
       \/ (p \in astray' <=> p \in astray) /\ ItemsOf(p)' = ItemsOf(p)
       \/ p \in astray' /\ WorksOn(req[r], p)

Move(r, q) == HandlersMove(r, q) /\ RowsMove(q) /\ ItemsMove(r, q)

\* What a handler with a step before it knows.
LEMMA AtWork ==
  ASSUME Base, NEW r \in Request, req[r].at # "idle"
  PROVE  /\ req[r] # Idle
         /\ req[r].quotation \in Quotation
         /\ DOMAIN req[r] = {"at", "quotation", "item", "subtotal", "discount"}
         /\ Exists(req[r].quotation)
BY DEF Base, Born, IInv, Handlers, Sound, Idle

\* A handler that ends.
LEMMA FinishMove ==
  ASSUME Base, NEW r \in Request, req[r].at # "idle", Finish(r)
  PROVE  HandlersMove(r, req[r].quotation) /\ req'[r] = Idle
BY DEF Base, IInv, Handlers, Finish, HandlersMove

\* A handler that goes on.
LEMMA ProceedMove ==
  ASSUME Base, NEW r \in Request, req[r].at # "idle",
         NEW step \in {"recalculate", "sendQuotation"}, Proceed(r, step)
  PROVE  HandlersMove(r, req[r].quotation) /\ req'[r].at = step
BY AtWork DEF Base, IInv, Handlers, Proceed, HandlersMove

\* Most statements leave the items alone.
LEMMA ItemsKept ==
  ASSUME Base, NEW r \in Request, NEW q, home' = home, astray' \in {astray, astray \ {q}}
  PROVE  ItemsMove(r, q)
<1>1. home' \in [Item -> Homes] /\ \A x \in Item : home'[x] = home[x]
  BY DEF Base, HomeInv
<1>2. \A p \in Quotation : ItemsOf(p)' = ItemsOf(p)
  BY DEF ItemsOf
<1>q. QED BY <1>1, <1>2 DEF ItemsMove

\* A statement on one field of a quotation.
LEMMA StatusMove ==
  ASSUME Base, NEW q \in Quotation, NEW s, s # "ABSENT",
         quote' = [quote EXCEPT ![q].status = s]
  PROVE  /\ \A p \in Quotation \ {q} : quote'[p] = quote[p]
         /\ quote'[q].status = s
         /\ quote'[q].total = quote[q].total /\ quote'[q].discount = quote[q].discount
         /\ Exists(q)'
BY DEF Base, IInv, Rows, Exists

\* The statements that write the row of a quotation, of its proposal, or of both.
LEMMA RowStatements ==
  ASSUME Base, NEW r \in Request, NEW q, q = req[r].quotation,
         \/ \E s \in QuotationStatus : UpdateStatusWrite(r, s)
         \/ RemoveWrite(r) \/ CreateProposalInsert(r) \/ SendProposal(r) \/ SendQuotation(r)
         \/ Accept(r) \/ Reject(r)
  PROVE  /\ Move(r, q) /\ home' = home /\ astray' = astray /\ broken' = broken
         /\ req[r].at \notin {"recalculate", "writeTotals"}
         /\ req'[r] = Idle \/ (SendProposal(r) /\ req'[r].at = "sendQuotation")
         /\ quote'[q].total = quote[q].total /\ quote'[q].discount = quote[q].discount
<1> DEFINE Goal == /\ Move(r, q) /\ home' = home /\ astray' = astray /\ broken' = broken
                   /\ req[r].at \notin {"recalculate", "writeTotals"}
                   /\ req'[r] = Idle \/ (SendProposal(r) /\ req'[r].at = "sendQuotation")
                   /\ quote'[q].total = quote[q].total /\ quote'[q].discount = quote[q].discount
<1>1. ASSUME req[r].at \notin {"idle", "recalculate", "writeTotals"},
             \/ Finish(r)
             \/ SendProposal(r) /\ Proceed(r, "sendQuotation"),
             UNCHANGED <<home, crossed, broken, astray>>, byHand \subseteq byHand',
             \A p \in Quotation \ {q} : quote'[p] = quote[p] /\ proposal'[p] = proposal[p],
             Exists(q)',
             quote'[q].total = quote[q].total, quote'[q].discount = quote[q].discount
      PROVE  Goal
  <2>1. HandlersMove(r, q) /\ (req'[r] = Idle \/ (SendProposal(r) /\ req'[r].at = "sendQuotation"))
    BY <1>1, FinishMove, ProceedMove
  <2>2. ItemsMove(r, q)
    BY <1>1, ItemsKept
  <2>3. RowsMove(q)
    BY <1>1 DEF RowsMove
  <2>q. QED BY <1>1, <2>1, <2>2, <2>3 DEF Move
<1>2. ASSUME req[r].at \notin {"idle", "recalculate", "writeTotals"}, Finish(r),
             UNCHANGED <<home, crossed, broken, astray>>, byHand \subseteq byHand',
             NEW s, s # "ABSENT", quote' = [quote EXCEPT ![q].status = s],
             \A p \in Quotation \ {q} : proposal'[p] = proposal[p]
      PROVE  Goal
  <2>1. q \in Quotation
    BY <1>2, AtWork
  <2>2. /\ \A p \in Quotation \ {q} : quote'[p] = quote[p]
        /\ quote'[q].total = quote[q].total /\ quote'[q].discount = quote[q].discount
        /\ Exists(q)'
    BY <1>2, <2>1, StatusMove
  <2>q. QED BY <1>1, <1>2, <2>2
<1>3. ASSUME NEW s \in QuotationStatus, UpdateStatusWrite(r, s) PROVE Goal
  <2>1. /\ req[r].at = "updateStatus" /\ Finish(r)
        /\ UNCHANGED <<home, crossed, broken, astray, proposal>> /\ byHand \subseteq byHand'
        /\ s # "ABSENT" /\ quote' = [quote EXCEPT ![q].status = s]
    BY <1>3 DEF UpdateStatusWrite, At, QuotationStatus
  <2> HIDE DEF Goal
  <2>q. QED BY <1>2, <2>1
<1>4. ASSUME NEW step \in {"accept", "reject"}, NEW s \in {"ACCEPTED", "REJECTED"},
             Decide(r, step, s)
      PROVE  Goal
  <2>1. /\ req[r].at = step /\ Finish(r)
        /\ UNCHANGED <<home, crossed, broken, astray, byHand>>
        /\ quote' = [quote EXCEPT ![q].status = s]
        /\ proposal' = [proposal EXCEPT ![q] = s]
    BY <1>4 DEF Decide, At, history
  <2>2. \A p \in Quotation \ {q} : proposal'[p] = proposal[p]
    BY <2>1 DEF Base, IInv, Rows
  <2> HIDE DEF Goal
  <2>q. QED BY <1>2, <2>1, <2>2
<1>5. ASSUME SendQuotation(r) PROVE Goal
  <2>1. /\ req[r].at = "sendQuotation" /\ Finish(r)
        /\ UNCHANGED <<home, crossed, broken, astray, byHand, proposal>>
        /\ quote' = [quote EXCEPT ![q].status = "SENT"]
    BY <1>5 DEF SendQuotation, At, history
  <2> HIDE DEF Goal
  <2>q. QED BY <1>2, <2>1
<1>6. ASSUME RemoveWrite(r) PROVE Goal
  <2>1. /\ req[r].at = "remove" /\ Finish(r)
        /\ UNCHANGED <<home, crossed, broken, astray, byHand, proposal>>
        /\ quote' = [quote EXCEPT ![q].deleted = TRUE]
    BY <1>6 DEF RemoveWrite, At, history
  <2>2. q \in Quotation /\ Exists(q)
    BY <2>1, AtWork
  <2>3. /\ \A p \in Quotation \ {q} : quote'[p] = quote[p]
        /\ quote'[q].total = quote[q].total /\ quote'[q].discount = quote[q].discount
        /\ Exists(q)'
    BY <2>1, <2>2 DEF Base, IInv, Rows, Exists
  <2> HIDE DEF Goal
  <2>q. QED BY <1>1, <2>1, <2>3
<1>7. ASSUME NEW s, proposal' = [proposal EXCEPT ![q] = s], quote' = quote,
             req[r].at \notin {"idle", "recalculate", "writeTotals"},
             \/ Finish(r)
             \/ SendProposal(r) /\ Proceed(r, "sendQuotation"),
             UNCHANGED <<home, crossed, broken, astray, byHand>>
      PROVE  Goal
  <2>1. q \in Quotation /\ Exists(q)'
    BY <1>7, AtWork DEF Exists
  <2>2. \A p \in Quotation \ {q} : proposal'[p] = proposal[p]
    BY <1>7 DEF Base, IInv, Rows
  <2> HIDE DEF Goal
  <2>q. QED BY <1>1, <1>7, <2>1, <2>2
<1>8. ASSUME CreateProposalInsert(r) PROVE Goal
  <2>1. /\ req[r].at = "createProposal" /\ Finish(r)
        /\ UNCHANGED <<quote, home, crossed, broken, astray, byHand>>
        /\ proposal' = [proposal EXCEPT ![q] = IF @ = "ABSENT" THEN "DRAFT" ELSE @]
    BY <1>8 DEF CreateProposalInsert, At, history
  <2>2. PICK s : proposal' = [proposal EXCEPT ![q] = s]
    BY <2>1
  <2> HIDE DEF Goal
  <2>q. QED BY <1>7, <2>1, <2>2
<1>9. ASSUME SendProposal(r) PROVE Goal
  <2>1. /\ req[r].at = "send" /\ Proceed(r, "sendQuotation")
        /\ UNCHANGED <<quote, home, crossed, broken, astray, byHand>>
        /\ proposal' = [proposal EXCEPT ![q] = "SENT"]
    BY <1>9 DEF SendProposal, At, history
  <2> HIDE DEF Goal
  <2>q. QED BY <1>7, <1>9, <2>1
<1> HIDE DEF Goal
<1>10. Goal
  BY <1>3, <1>4, <1>5, <1>6, <1>8, <1>9 DEF Accept, Reject
<1>q. QED BY <1>10 DEF Goal

\* What update makes of the figures and the items of its quotation.
Updates(r, q, items, newItems, newDiscount, d) ==
  /\ quote'[q].discount = IF newDiscount THEN d ELSE quote[q].discount
  /\ quote'[q].total = TotalOf(IF newItems THEN SumOf(items) ELSE req[r].subtotal,
                               IF newDiscount THEN d ELSE req[r].discount)
  /\ ItemsOf(q)' = IF newItems THEN items ELSE ItemsOf(q)

\* update replaces the items and writes what it has computed for them.
LEMMA UpdateStatement ==
  ASSUME Base, NEW r \in Request, NEW q, q = req[r].quotation, UpdateWrite(r)
  PROVE  /\ Move(r, q) /\ req'[r] = Idle /\ broken' = broken
         /\ UNCHANGED <<proposal, byHand>> /\ quote'[q].status = quote[q].status
         /\ \E items \in SUBSET Fresh, newItems, newDiscount \in BOOLEAN, d \in Discount :
              Updates(r, q, items, newItems, newDiscount, d)
<1>1. /\ req[r].at = "update" /\ Finish(r) /\ astray' = astray \ {q}
      /\ UNCHANGED <<proposal, byHand, crossed, broken>>
  BY DEF UpdateWrite, At
<1>2. q \in Quotation /\ Exists(q)
  BY <1>1, AtWork
<1>3. PICK items \in SUBSET Fresh, newItems \in BOOLEAN, newDiscount \in BOOLEAN, d \in Discount :
        /\ quote' = [quote EXCEPT
             ![q].discount = IF newDiscount THEN d ELSE @,
             ![q].total = TotalOf(IF newItems THEN SumOf(items) ELSE req[r].subtotal,
                                  IF newDiscount THEN d ELSE req[r].discount)]
        /\ home' = IF ~newItems THEN home
                   ELSE [x \in Item |-> IF x \in items THEN q
                                        ELSE IF home[x] = q THEN "GONE" ELSE home[x]]
  BY DEF UpdateWrite
<1>4. PICK total : total = TotalOf(IF newItems THEN SumOf(items) ELSE req[r].subtotal,
                                   IF newDiscount THEN d ELSE req[r].discount)
  OBVIOUS
<1>5. quote' = [quote EXCEPT ![q].discount = IF newDiscount THEN d ELSE @, ![q].total = total]
  BY <1>3, <1>4
<1>6. /\ \A p \in Quotation \ {q} : quote'[p] = quote[p]
      /\ quote'[q].status = quote[q].status
      /\ quote'[q].discount = IF newDiscount THEN d ELSE quote[q].discount
      /\ quote'[q].total = total
  BY <1>2, <1>5 DEF Base, IInv, Rows
<1>7. /\ items \subseteq Item
      /\ \A x \in items : home[x] = "UNMADE" /\ \A s \in Request : req[s].item # x
  BY DEF Fresh
<1>8. HandlersMove(r, q) /\ req'[r] = Idle
  BY <1>1, FinishMove
<1>9. RowsMove(q)
  BY <1>1, <1>2, <1>6 DEF RowsMove, Exists
<1>10. home' \in [Item -> Homes] /\ home \in [Item -> Homes]
  <2>1. home \in [Item -> Homes]
    BY DEF Base, HomeInv
  <2>q. QED BY <1>2, <1>3, <2>1 DEF Homes
<1>11. \A p \in Quotation \ {q} : ItemsOf(p)' = ItemsOf(p)
  BY <1>2, <1>3, <1>7, SalesAssumption DEF ItemsOf
<1>12. ItemsOf(q)' = IF newItems THEN items ELSE ItemsOf(q)
  BY <1>2, <1>3, <1>7, SalesAssumption DEF ItemsOf
<1>13. \A x \in Item :
         \/ home'[x] = home[x]
         \/ home[x] \in Quotation /\ home'[x] = "GONE"
         \/ /\ home[x] = "UNMADE" /\ home'[x] = q
            /\ \A s \in Request \ {r} : req[s].at = "addItem" => req[s].item # x
  BY <1>2, <1>3, <1>7
<1>14. ItemsMove(r, q)
  BY <1>1, <1>10, <1>11, <1>13 DEF ItemsMove
<1>15. Updates(r, q, items, newItems, newDiscount, d)
  BY <1>4, <1>6, <1>12 DEF Updates
<1>q. QED BY <1>1, <1>6, <1>8, <1>9, <1>14, <1>15 DEF Move

\* A new item is nobody else's.
LEMMA AddStatement ==
  ASSUME Base, NEW r \in Request, NEW q, q = req[r].quotation, AddItemInsert(r)
  PROVE  /\ Move(r, q) /\ req'[r].at = "recalculate" /\ broken' = broken
         /\ UNCHANGED <<quote, proposal, byHand, astray>>
<1>1. /\ req[r].at = "addItem" /\ Proceed(r, "recalculate")
      /\ home' = [home EXCEPT ![req[r].item] = q]
      /\ UNCHANGED <<quote, proposal, byHand, crossed, broken, astray>>
  BY DEF AddItemInsert, At, history
<1>2. q \in Quotation /\ Exists(q)
  BY <1>1, AtWork
<1>3. HandlersMove(r, q) /\ req'[r].at = "recalculate"
  BY <1>1, ProceedMove
<1>4. RowsMove(q)
  BY <1>1, <1>2 DEF RowsMove, Exists
<1>5. PICK y \in Item : /\ y = req[r].item /\ home[y] = "UNMADE"
                        /\ \A s \in Request \ {r} : req[s].at = "addItem" => req[s].item # y
  BY <1>1 DEF Base, HomeInv
<1>6. /\ home \in [Item -> Homes] /\ home' \in [Item -> Homes]
      /\ home'[y] = q /\ \A x \in Item \ {y} : home'[x] = home[x]
  <2>1. home \in [Item -> Homes] /\ home' = [home EXCEPT ![y] = q]
    BY <1>1, <1>5 DEF Base, HomeInv
  <2>q. QED BY <1>2, <2>1 DEF Homes
<1>7. \A p \in Quotation \ {q} : ItemsOf(p)' = ItemsOf(p)
  BY <1>2, <1>5, <1>6, SalesAssumption DEF ItemsOf
<1>8. ItemsMove(r, q)
  BY <1>1, <1>5, <1>6, <1>7 DEF ItemsMove
<1>q. QED BY <1>1, <1>3, <1>4, <1>8 DEF Move

\* The item that is deleted may be another quotation's, which has then lost it.
LEMMA DeleteStatement ==
  ASSUME Base, NEW r \in Request, NEW q, q = req[r].quotation, RemoveItemDelete(r)
  PROVE  /\ Move(r, q) /\ broken' = broken /\ req[r].at = "removeItem"
         /\ UNCHANGED <<quote, proposal, byHand>>
         /\ \/ req'[r] = Idle /\ home' = home /\ astray' = astray
            \/ req'[r].at = "recalculate"
<1>1. /\ req[r].at = "removeItem" /\ UNCHANGED <<quote, proposal, byHand, crossed, broken>>
  BY DEF RemoveItemDelete, At
<1>2. q \in Quotation /\ Exists(q)
  BY <1>1, AtWork
<1>3. RowsMove(q)
  BY <1>1, <1>2 DEF RowsMove, Exists
<1>4. PICK y \in Item : y = req[r].item /\ home[y] # "UNMADE"
  BY <1>1 DEF Base, HomeInv
<1>5. CASE home[y] = "GONE"
  <2>1. Finish(r) /\ UNCHANGED <<home, astray>>
    BY <1>4, <1>5 DEF RemoveItemDelete
  <2>2. HandlersMove(r, q) /\ req'[r] = Idle
    BY <1>1, <2>1, FinishMove
  <2>3. ItemsMove(r, q)
    BY <2>1, ItemsKept
  <2>q. QED BY <1>1, <1>3, <2>1, <2>2, <2>3 DEF Move
<1>6. CASE home[y] # "GONE"
  <2>1. /\ home' = [home EXCEPT ![y] = "GONE"]
        /\ astray' = astray \cup ({home[y]} \ {q})
        /\ Proceed(r, "recalculate")
    BY <1>4, <1>6 DEF RemoveItemDelete
  <2>2. HandlersMove(r, q) /\ req'[r].at = "recalculate"
    BY <1>1, <2>1, ProceedMove
  <2>3. /\ home \in [Item -> Homes] /\ home[y] \in Quotation
        /\ home' \in [Item -> Homes]
        /\ home'[y] = "GONE" /\ \A x \in Item \ {y} : home'[x] = home[x]
    <3>1. home \in [Item -> Homes]
      BY DEF Base, HomeInv
    <3>q. QED BY <1>4, <1>6, <2>1, <3>1 DEF Homes
  <2>4. ASSUME NEW p \in Quotation \ {q}
        PROVE  \/ (p \in astray' <=> p \in astray) /\ ItemsOf(p)' = ItemsOf(p)
               \/ p \in astray' /\ WorksOn(req[r], p)
    <3>1. CASE p = home[y]
      BY <1>1, <1>4, <2>1, <3>1 DEF WorksOn
    <3>2. CASE p # home[y]
      BY <2>1, <2>3, <3>2, SalesAssumption DEF ItemsOf
    <3>q. QED BY <3>1, <3>2
  <2>5. ItemsMove(r, q)
    BY <2>3, <2>4 DEF ItemsMove
  <2>q. QED BY <1>1, <1>3, <2>2, <2>5 DEF Move
<1>q. QED BY <1>5, <1>6

\* recalculate reads ...
LEMMA RecalculateReads ==
  ASSUME Base, NEW r \in Request, NEW q, q = req[r].quotation, RecalculateRead(r)
  PROVE  /\ Move(r, q) /\ req'[r].at = "writeTotals"
         /\ UNCHANGED <<quote, home, proposal, history>>
         /\ req'[r].subtotal = SumOf(ItemsOf(q)) /\ req'[r].discount = quote[q].discount
<1>1. /\ req[r].at = "recalculate" /\ UNCHANGED <<quote, home, proposal, history>>
      /\ req' = [req EXCEPT ![r].at = "writeTotals", ![r].subtotal = SumOf(ItemsOf(q)),
                            ![r].discount = quote[q].discount]
  BY DEF RecalculateRead, At, tables
<1>2. q \in Quotation /\ Exists(q)
  BY <1>1, AtWork
<1>3. /\ HandlersMove(r, q) /\ req'[r].at = "writeTotals"
      /\ req'[r].subtotal = SumOf(ItemsOf(q)) /\ req'[r].discount = quote[q].discount
  <2>1. DOMAIN req[r] = {"at", "quotation", "item", "subtotal", "discount"}
    BY <1>1, AtWork
  <2>q. QED BY <1>1, <2>1 DEF Base, IInv, Handlers, HandlersMove
<1>4. RowsMove(q)
  BY <1>1, <1>2 DEF RowsMove, Exists, history
<1>5. ItemsMove(r, q)
  BY <1>1, ItemsKept DEF history
<1>q. QED BY <1>1, <1>3, <1>4, <1>5 DEF Move

\* ... and writes the total of what it has read.
LEMMA RecalculateWrites ==
  ASSUME Base, NEW r \in Request, NEW q, q = req[r].quotation, RecalculateWrite(r)
  PROVE  /\ Move(r, q) /\ req[r].at = "writeTotals" /\ req'[r] = Idle /\ broken' = broken
         /\ UNCHANGED <<home, proposal, byHand>>
         /\ quote'[q].total = TotalOf(req[r].subtotal, req[r].discount)
         /\ quote'[q].status = quote[q].status /\ quote'[q].discount = quote[q].discount
<1>1. /\ req[r].at = "writeTotals" /\ Finish(r) /\ astray' = astray \ {q}
      /\ UNCHANGED <<home, proposal, byHand, crossed, broken>>
      /\ quote' = [quote EXCEPT ![q].total = TotalOf(req[r].subtotal, req[r].discount)]
  BY DEF RecalculateWrite, At
<1>2. q \in Quotation /\ Exists(q)
  BY <1>1, AtWork
<1>3. PICK t : t = TotalOf(req[r].subtotal, req[r].discount)
  OBVIOUS
<1>4. /\ \A p \in Quotation \ {q} : quote'[p] = quote[p]
      /\ quote'[q].total = t
      /\ quote'[q].status = quote[q].status /\ quote'[q].discount = quote[q].discount
  <2>1. quote' = [quote EXCEPT ![q].total = t]
    BY <1>1, <1>3
  <2>q. QED BY <1>2, <2>1 DEF Base, IInv, Rows
<1>5. HandlersMove(r, q) /\ req'[r] = Idle
  BY <1>1, FinishMove
<1>6. RowsMove(q)
  BY <1>1, <1>2, <1>4 DEF RowsMove, Exists
<1>7. ItemsMove(r, q)
  BY <1>1, ItemsKept
<1>q. QED BY <1>1, <1>3, <1>4, <1>5, <1>6, <1>7 DEF Move

\* A handler that fails leaves what it has written.
LEMMA FailStatement ==
  ASSUME Base, NEW r \in Request, NEW q, q = req[r].quotation, Fail(r)
  PROVE  /\ Move(r, q) /\ req'[r] = Idle /\ q \in broken'
         /\ UNCHANGED <<quote, home, proposal, byHand, astray>>
<1>1. /\ req[r] # Idle /\ Finish(r) /\ broken' = broken \cup {q}
      /\ UNCHANGED <<quote, home, proposal, crossed, byHand, astray>>
  BY DEF Fail, tables
<1>2. req[r].at # "idle"
  BY <1>1 DEF Base, IInv, Handlers, Sound
<1>3. Exists(q)
  BY <1>2, AtWork
<1>4. HandlersMove(r, q) /\ req'[r] = Idle
  BY <1>1, <1>2, FinishMove
<1>5. RowsMove(q)
  BY <1>1, <1>3 DEF RowsMove, Exists
<1>6. ItemsMove(r, q)
  BY <1>1, ItemsKept
<1>q. QED BY <1>1, <1>4, <1>5, <1>6 DEF Move

\* So every statement of a handler is a move on its quotation.
LEMMA EveryStatement ==
  ASSUME Base, NEW r \in Request, NEW q, q = req[r].quotation, Resume(r) \/ Fail(r)
  PROVE  Move(r, q)
BY RowStatements, UpdateStatement, AddStatement, DeleteStatement, RecalculateReads,
   RecalculateWrites, FailStatement DEF Resume

\* An arriving request starts with a step that is none of the later ones.
LEMMA EveryStart ==
  ASSUME NEW r \in Request, NEW q \in Quotation, Begin(r, q), Base
  PROVE  \E step, item :
           /\ step \in AllOps
           /\ Start(r, q, step, item)
           /\ Exists(q)
           /\ step \in {"update", "addItem"} => ~Frozen(q)
           /\ step = "addItem" => item \in Fresh
           /\ step = "removeItem" => item \in Item /\ home[item] \in Quotation
<1>1. proposal[q] # "ABSENT" => Exists(q)
  BY DEF Base, Born
<1>q. QED BY <1>1 DEF Begin, UpdateRead, UpdateStatusRead, AddItemRead, RemoveItemRead,
                   RemoveRead, CreateProposalRead, ProposalRead, AllOps, Found

\* What an arriving request leaves as it is, and the handler it becomes.
LEMMA StartHandler ==
  ASSUME Base, NEW r \in Request, NEW q \in Quotation, NEW step \in AllOps, NEW item,
         Start(r, q, step, item)
  PROVE  \E h :
           /\ h.at = step /\ h.quotation = q /\ h.item = item
           /\ h.subtotal = SumOf(ItemsOf(q)) /\ h.discount = quote[q].discount
           /\ req'[r] = h /\ \A s \in Request \ {r} : req'[s] = req[s]
           /\ UNCHANGED <<quote, home, proposal, broken, byHand, astray>>
           /\ crossed' = crossed \cup
                {p \in Quotation : WorksOn(h, p) /\ \E s \in Request : WorksOn(req[s], p)}
<1>1. PICK h : h = [Idle EXCEPT !.at = step, !.quotation = q, !.item = item,
                               !.subtotal = SumOf(ItemsOf(q)), !.discount = quote[q].discount]
  OBVIOUS
<1>2. /\ h.at = step /\ h.quotation = q /\ h.item = item
      /\ h.subtotal = SumOf(ItemsOf(q)) /\ h.discount = quote[q].discount
  BY <1>1 DEF Idle
<1>3. /\ req' = [req EXCEPT ![r] = h]
      /\ UNCHANGED <<quote, home, proposal, broken, byHand, astray>>
      /\ crossed' = crossed \cup
           {p \in Quotation : WorksOn(h, p) /\ \E s \in Request : WorksOn(req[s], p)}
  BY <1>1 DEF Start, tables
<1>4. req'[r] = h /\ \A s \in Request \ {r} : req'[s] = req[s]
  BY <1>3 DEF Base, IInv, Handlers
<1>q. QED BY <1>2, <1>3, <1>4

\* What a new quotation leaves as it is.
LEMMA CreateFacts ==
  ASSUME Base, NEW q \in Quotation, NEW items \in SUBSET Fresh, NEW d, Create(q, items, d)
  PROVE  /\ ~Exists(q) /\ UNCHANGED <<proposal, req, history>>
         /\ \A p \in Quotation \ {q} : quote'[p] = quote[p] /\ ItemsOf(p)' = ItemsOf(p)
         /\ quote'[q].status = "DRAFT" /\ quote'[q].discount = d
         /\ quote'[q].total = TotalOf(SumOf(items), d) /\ ItemsOf(q)' = items
         /\ home' \in [Item -> Homes]
         /\ \A x \in Item :
              \/ home'[x] = home[x]
              \/ home[x] = "UNMADE" /\ home'[x] = q /\ \A s \in Request : req[s].item # x
<1> DEFINE row == [status |-> "DRAFT", deleted |-> FALSE, discount |-> d,
                   total |-> TotalOf(SumOf(items), d)]
<1>1. row.status = "DRAFT" /\ row.discount = d /\ row.total = TotalOf(SumOf(items), d)
  OBVIOUS
<1>2. /\ quote' = [quote EXCEPT ![q] = row] /\ ~Exists(q)
      /\ home' = [x \in Item |-> IF x \in items THEN q ELSE home[x]]
      /\ UNCHANGED <<proposal, req, history>>
  BY DEF Create
<1> HIDE DEF row
<1>3. quote'[q] = row /\ \A p \in Quotation \ {q} : quote'[p] = quote[p]
  BY <1>2 DEF Base, IInv, Rows
<1>4. /\ items \subseteq Item
      /\ \A x \in items : home[x] = "UNMADE" /\ \A r \in Request : req[r].item # x
  BY DEF Fresh
<1>5. \A p \in Quotation \ {q} : ItemsOf(p)' = ItemsOf(p)
  BY <1>2, <1>4, SalesAssumption DEF ItemsOf
<1>6. ItemsOf(q)' = items
  <2>1. ItemsOf(q) = {}
    BY <1>2 DEF Base, Born
  <2>q. QED BY <1>2, <1>4, <2>1 DEF ItemsOf
<1>7. home' \in [Item -> Homes]
  <2>1. home \in [Item -> Homes]
    BY DEF Base, HomeInv
  <2>q. QED BY <1>2, <2>1 DEF Homes
<1>8. \A x \in Item :
        \/ home'[x] = home[x]
        \/ home[x] = "UNMADE" /\ home'[x] = q /\ \A s \in Request : req[s].item # x
  BY <1>2, <1>4
<1>q. QED BY <1>1, <1>2, <1>3, <1>5, <1>6, <1>7, <1>8

-----------------------------------------------------------------------------
\* Every step keeps what is known of items and handlers.
LEMMA HomeStep ==
  ASSUME Base, [Next]_vars
  PROVE  HomeInv'
<1>0. HomeInv
  BY DEF Base
<1>1. CASE UNCHANGED vars
  BY <1>0, <1>1 DEF vars, tables, HomeInv
<1>2. ASSUME NEW q \in Quotation, NEW items \in SUBSET Fresh, NEW d, Create(q, items, d)
      PROVE  HomeInv'
  <2>1. /\ home' \in [Item -> Homes] /\ req' = req
        /\ \A x \in Item :
             \/ home'[x] = home[x]
             \/ home[x] = "UNMADE" /\ home'[x] = q /\ \A s \in Request : req[s].item # x
    BY <1>2, CreateFacts
  <2>2. q # "UNMADE"
    BY SalesAssumption
  <2>q. QED BY <1>0, <2>1, <2>2 DEF HomeInv
<1>3. ASSUME NEW r \in Request, NEW q \in Quotation, Begin(r, q)
      PROVE  HomeInv'
  <2>1. PICK step, item :
          /\ step \in AllOps
          /\ Start(r, q, step, item)
          /\ step = "addItem" => item \in Fresh
          /\ step = "removeItem" => item \in Item /\ home[item] \in Quotation
    BY <1>3, EveryStart
  <2>2. PICK h : /\ h.at = step /\ h.item = item /\ home' = home
                 /\ req'[r] = h /\ \A s \in Request \ {r} : req'[s] = req[s]
    BY <2>1, StartHandler
  <2>3. step = "addItem" => /\ item \in Item /\ home[item] = "UNMADE"
                            /\ \A s \in Request : req[s].item # item
    BY <2>1 DEF Fresh
  <2>4. step = "removeItem" => item \in Item /\ home[item] # "UNMADE"
    BY <2>1, SalesAssumption
  <2>q. QED BY <1>0, <2>2, <2>3, <2>4 DEF HomeInv
<1>4. ASSUME NEW r \in Request, Resume(r) \/ Fail(r)
      PROVE  HomeInv'
  <2>1. PICK q : q = req[r].quotation
    OBVIOUS
  <2>2. HandlersMove(r, q) /\ ItemsMove(r, q)
    BY <1>4, <2>1, EveryStatement DEF Move
  <2>3. q # "UNMADE"
    BY <2>1, <2>2, AtWork, SalesAssumption DEF HandlersMove
  <2>4. req'[r].at \notin {"addItem", "removeItem"}
    BY <2>2 DEF HandlersMove, Idle
  <2>5. home' \in [Item -> Homes] /\ \A s \in Request \ {r} : req'[s] = req[s]
    BY <2>2 DEF HandlersMove, ItemsMove
  <2>6. ASSUME NEW s \in Request, req'[s].at = "addItem"
        PROVE  /\ req'[s].item \in Item /\ home'[req'[s].item] = "UNMADE"
               /\ \A t \in Request :
                    req'[t].at = "addItem" /\ req'[t].item = req'[s].item => t = s
    <3>1. s # r /\ req'[s] = req[s]
      BY <2>4, <2>5, <2>6
    <3>2. PICK x \in Item : x = req[s].item /\ home[x] = "UNMADE"
      BY <1>0, <2>6, <3>1 DEF HomeInv
    <3>3. home'[x] = "UNMADE"
      BY <2>2, <2>6, <3>1, <3>2, SalesAssumption DEF ItemsMove
    <3>q. QED BY <1>0, <2>4, <2>5, <2>6, <3>1, <3>2, <3>3 DEF HomeInv
  <2>7. ASSUME NEW s \in Request, req'[s].at = "removeItem"
        PROVE  req'[s].item \in Item /\ home'[req'[s].item] # "UNMADE"
    <3>1. s # r /\ req'[s] = req[s]
      BY <2>4, <2>5, <2>7
    <3>2. PICK x \in Item : x = req[s].item /\ home[x] # "UNMADE"
      BY <1>0, <2>7, <3>1 DEF HomeInv
    <3>q. QED BY <2>2, <3>1, <3>2 DEF ItemsMove
  <2>q. QED BY <2>5, <2>6, <2>7 DEF HomeInv
<1>q. QED BY <1>1, <1>2, <1>3, <1>4 DEF Next

\* Every step keeps everything that exists of quotations that exist.
LEMMA BornStep ==
  ASSUME Base, [Next]_vars
  PROVE  Born'
<1>0. Born
  BY DEF Base
<1>1. CASE UNCHANGED vars
  BY <1>0, <1>1 DEF vars, tables, Born, Exists, ItemsOf
<1>2. ASSUME NEW q \in Quotation, NEW items \in SUBSET Fresh, NEW d, Create(q, items, d)
      PROVE  Born'
  <2>1. /\ UNCHANGED <<proposal, req>> /\ quote'[q].status = "DRAFT"
        /\ \A p \in Quotation \ {q} : quote'[p] = quote[p] /\ ItemsOf(p)' = ItemsOf(p)
    BY <1>2, CreateFacts
  <2>2. Exists(q)' /\ \A p \in Quotation \ {q} : Exists(p)' <=> Exists(p)
    BY <2>1 DEF Exists
  <2>3. \A r \in Request : req[r].at # "idle" => req[r].quotation \in Quotation
    BY AtWork
  <2>q. QED BY <1>0, <2>1, <2>2, <2>3 DEF Born
<1>3. ASSUME NEW r \in Request, NEW q \in Quotation, Begin(r, q)
      PROVE  Born'
  <2>1. PICK step, item : step \in AllOps /\ Start(r, q, step, item) /\ Exists(q)
    BY <1>3, EveryStart
  <2>2. PICK h : /\ h.quotation = q /\ UNCHANGED <<quote, home, proposal>>
                 /\ req'[r] = h /\ \A s \in Request \ {r} : req'[s] = req[s]
    BY <2>1, StartHandler
  <2>3. \A p : ItemsOf(p)' = ItemsOf(p) /\ (Exists(p)' <=> Exists(p))
    BY <2>2 DEF ItemsOf, Exists
  <2>q. QED BY <1>0, <2>1, <2>2, <2>3 DEF Born
<1>4. ASSUME NEW r \in Request, Resume(r) \/ Fail(r)
      PROVE  Born'
  <2>1. PICK q : q = req[r].quotation
    OBVIOUS
  <2>2. HandlersMove(r, q) /\ RowsMove(q) /\ ItemsMove(r, q)
    BY <1>4, <2>1, EveryStatement DEF Move
  <2>3. q \in Quotation
    BY <2>1, <2>2, AtWork DEF HandlersMove
  <2>4. \A p \in Quotation \ {q} : (Exists(p)' <=> Exists(p)) /\ proposal'[p] = proposal[p]
    BY <2>2 DEF RowsMove, Exists
  <2>5. \A p \in Quotation \ {q} : ItemsOf(p)' \subseteq ItemsOf(p)
    BY <2>2, SalesAssumption DEF ItemsMove, ItemsOf
  <2>6. Exists(q)'
    BY <2>2 DEF RowsMove
  <2>7. ASSUME NEW s \in Request, req'[s].at # "idle" PROVE Exists(req[s].quotation)'
    <3>1. CASE s = r
      <4>1. req'[s].quotation = q
        BY <2>2, <2>7, <3>1 DEF HandlersMove, Idle
      <4>q. QED BY <2>6, <4>1 DEF Exists
    <3>2. CASE s # r
      <4>1. req'[s] = req[s]
        BY <2>2, <3>2 DEF HandlersMove
      <4>2. req[s].quotation \in Quotation /\ Exists(req[s].quotation)
        BY <2>7, <4>1, AtWork
      <4>3. PICK p \in Quotation : p = req[s].quotation
        BY <4>2
      <4>4. Exists(p)'
        BY <2>4, <2>6, <4>2, <4>3
      <4>q. QED BY <4>1, <4>3, <4>4 DEF Exists
    <3>q. QED BY <3>1, <3>2
  <2>8. ASSUME NEW p \in Quotation, ~Exists(p)' PROVE ItemsOf(p)' = {} /\ proposal'[p] = "ABSENT"
    <3>1. p # q
      BY <2>6, <2>8
    <3>2. ~Exists(p)
      BY <2>4, <2>8, <3>1
    <3>3. ItemsOf(p) = {} /\ proposal[p] = "ABSENT"
      BY <1>0, <3>2 DEF Born
    <3>4. ItemsOf(p)' \subseteq {}
      BY <2>5, <3>1, <3>3
    <3>q. QED BY <2>4, <3>1, <3>3, <3>4
  <2>q. QED BY <2>7, <2>8 DEF Born
<1>q. QED BY <1>1, <1>2, <1>3, <1>4 DEF Next

LEMMA BaseStep ==
  ASSUME Base, [Next]_vars
  PROVE  Base'
BY DecisionStep, HomeStep, BornStep DEF Base

-----------------------------------------------------------------------------
(* What holds of a quotation that no two requests have worked on at a time:*)
(* a handler that has looked at it or at its proposal finds them unchanged,*)
(* whatever is done to other quotations meanwhile.                         *)

AloneOn(q) == \A r, s \in Request : WorksOn(req[r], q) /\ WorksOn(req[s], q) => r = s

\* What a handler relies on at its next statement: between the two writes of send nobody
\* decides, and what update and addItem change is not accepted.
Promised(h) ==
  /\ h.at = "sendQuotation" => proposal[h.quotation] # "ACCEPTED"
  /\ h.at \in {"update", "addItem"} => ~Frozen(h.quotation)

BothAccepted(q) ==
  q \notin byHand => (proposal[q] = "ACCEPTED" => quote[q].status = "ACCEPTED")

CalmInv ==
  \A q \in Quotation \ crossed :
    /\ AloneOn(q)
    /\ \A r \in Request : req[r].quotation = q => Promised(req[r])
    /\ BothAccepted(q)

AInv == Base /\ CalmInv

\* The handlers of a move work on no further quotation.
LEMMA WorkShrinks ==
  ASSUME Base, NEW r \in Request, NEW q, Move(r, q), NEW p \in Quotation, NEW s \in Request,
         WorksOn(req[s], p)'
  PROVE  WorksOn(req[s], p)
<1>1. HandlersMove(r, q) /\ ItemsMove(r, q)
  BY DEF Move
<1>2. CASE s = r
  <2>1. Idle.quotation = Null /\ Idle.at = "idle" /\ Null \notin Quotation
    BY SalesAssumption DEF Idle
  <2>2. req'[r].quotation = p /\ p = q /\ req[r].quotation = q
    BY <1>1, <1>2, <2>1 DEF HandlersMove, WorksOn
  <2>q. QED BY <1>2, <2>2 DEF WorksOn
<1>3. CASE s # r
  <2>1. req'[s] = req[s]
    BY <1>1, <1>3 DEF HandlersMove
  <2>2. CASE req[s].quotation = p
    BY <2>2 DEF WorksOn
  <2>3. CASE req[s].quotation # p
    <3>1. req[s].at = "removeItem" /\ home'[req[s].item] = p
      BY <2>1, <2>3 DEF WorksOn
    <3>2. PICK x \in Item : x = req[s].item /\ home[x] # "UNMADE"
      BY <3>1 DEF Base, HomeInv
    <3>3. home[x] = p
      BY <1>1, <3>1, <3>2, SalesAssumption DEF ItemsMove
    <3>q. QED BY <3>1, <3>2, <3>3 DEF WorksOn
  <2>q. QED BY <2>2, <2>3
<1>q. QED BY <1>2, <1>3

\* The handler of a move is the only one on a quotation that is not crossed.
LEMMA OnlyOne ==
  ASSUME AInv, NEW r \in Request, NEW q \in Quotation \ crossed, req[r].quotation = q,
         NEW s \in Request, req[s].quotation = q
  PROVE  s = r
BY DEF AInv, CalmInv, AloneOn, WorksOn

\* After a move what is to be shown is about the quotation it works on.
LEMMA MoveCalm ==
  ASSUME AInv, NEW r \in Request, NEW q, Move(r, q),
         q \notin crossed => Promised(req[r])' /\ BothAccepted(q)'
  PROVE  CalmInv'
<1>1. HandlersMove(r, q) /\ RowsMove(q) /\ Base /\ CalmInv
  BY DEF Move, AInv
<1>2. /\ req[r].quotation = q /\ q \in Quotation
      /\ crossed' = crossed /\ byHand \subseteq byHand'
      /\ \A p \in Quotation \ {q} : quote'[p] = quote[p] /\ proposal'[p] = proposal[p]
      /\ \A s \in Request \ {r} : req'[s] = req[s]
  BY <1>1, AtWork DEF HandlersMove, RowsMove
<1>3. req'[r].quotation \in {q, Null}
  BY <1>1 DEF HandlersMove, Idle
<1> SUFFICES ASSUME NEW p \in Quotation \ crossed
             PROVE  /\ AloneOn(p)'
                    /\ \A s \in Request : req'[s].quotation = p => Promised(req[s])'
                    /\ BothAccepted(p)'
  BY <1>2 DEF CalmInv
<1>4. AloneOn(p)'
  <2>1. AloneOn(p)
    BY <1>1 DEF CalmInv
  <2>2. ASSUME NEW s \in Request, NEW t \in Request, WorksOn(req[s], p)', WorksOn(req[t], p)'
        PROVE  s = t
    <3>1. WorksOn(req[s], p) /\ WorksOn(req[t], p)
      BY <1>1, <2>2, WorkShrinks
    <3>q. QED BY <2>1, <3>1 DEF AloneOn
  <2>q. QED BY <2>2 DEF AloneOn
<1>5. ASSUME NEW s \in Request, req'[s].quotation = p PROVE Promised(req[s])'
  <2>1. CASE p = q
    <3>1. s = r
      BY <1>2, <1>5, <2>1, OnlyOne
    <3>q. QED BY <2>1, <3>1
  <2>2. CASE p # q
    <3>1. s # r /\ req'[s] = req[s]
      BY <1>2, <1>3, <1>5, <2>2, SalesAssumption
    <3>2. Promised(req[s]) /\ req[s].quotation = p
      BY <1>1, <1>5, <3>1 DEF CalmInv
    <3>3. quote'[p] = quote[p] /\ proposal'[p] = proposal[p]
      BY <1>2, <2>2
    <3>q. QED BY <3>1, <3>2, <3>3 DEF Promised, Frozen
  <2>q. QED BY <2>1, <2>2
<1>6. BothAccepted(p)'
  <2>1. CASE p = q
    BY <2>1
  <2>2. CASE p # q
    BY <1>1, <1>2, <2>2 DEF CalmInv, BothAccepted
  <2>q. QED BY <2>1, <2>2
<1>q. QED BY <1>4, <1>5, <1>6

\* The end of a handler that leaves the decision in order.
LEMMA EndCalm ==
  ASSUME AInv, NEW r \in Request, NEW q, Move(r, q), req'[r] = Idle,
         q \notin crossed => BothAccepted(q)'
  PROVE  CalmInv'
<1>1. Promised(req[r])'
  BY DEF Promised, Idle
<1>q. QED BY <1>1, MoveCalm

\* What a handler knows of a quotation that is not crossed.
LEMMA KnownCalm ==
  ASSUME AInv, NEW r \in Request, NEW q, q = req[r].quotation, req[r].at # "idle"
  PROVE  q \in Quotation /\ (q \notin crossed => Promised(req[r]) /\ BothAccepted(q))
BY AtWork DEF AInv, CalmInv

\* Writes that leave proposals and the statuses of quotations alone.
LEMMA OthersCalm ==
  ASSUME AInv, NEW r \in Request,
         \/ UpdateWrite(r) \/ AddItemInsert(r) \/ RemoveItemDelete(r)
         \/ RecalculateRead(r) \/ RecalculateWrite(r) \/ Fail(r)
  PROVE  CalmInv'
<1>1. PICK q : q = req[r].quotation
  OBVIOUS
<1>2. Base
  BY DEF AInv
<1>3. /\ Move(r, q) /\ UNCHANGED <<proposal, byHand>>
      /\ quote'[q].status = quote[q].status
      /\ req'[r].at \in {"idle", "recalculate", "writeTotals"}
  BY <1>1, <1>2, UpdateStatement, AddStatement, DeleteStatement, RecalculateReads,
     RecalculateWrites, FailStatement DEF Idle, history
<1>4. q \notin crossed => BothAccepted(q)
  BY <1>1, <1>3, KnownCalm DEF Move, HandlersMove
<1>5. q \notin crossed => Promised(req[r])' /\ BothAccepted(q)'
  BY <1>3, <1>4 DEF Promised, BothAccepted
<1>q. QED BY <1>3, <1>5, MoveCalm

\* Writes that change a proposal or the row of a quotation.
LEMMA DecisionsCalm ==
  ASSUME AInv, NEW r \in Request,
         \/ \E s \in QuotationStatus : UpdateStatusWrite(r, s)
         \/ RemoveWrite(r) \/ CreateProposalInsert(r) \/ SendProposal(r) \/ SendQuotation(r)
         \/ Accept(r) \/ Reject(r)
  PROVE  CalmInv'
<1>1. PICK q : q = req[r].quotation
  OBVIOUS
<1>2. /\ Move(r, q)
      /\ req'[r] = Idle \/ (SendProposal(r) /\ req'[r].at = "sendQuotation")
  BY <1>1, RowStatements DEF AInv
<1>3. q \in Quotation /\ (q \notin crossed => Promised(req[r]) /\ BothAccepted(q))
  BY <1>1, <1>2, KnownCalm DEF Move, HandlersMove
<1>4. /\ quote = [p \in Quotation |-> quote[p]] /\ proposal \in [Quotation -> ProposalStatus]
      /\ DOMAIN quote[q] = {"status", "deleted", "discount", "total"}
  BY <1>3 DEF AInv, Base, IInv, Rows
<1>5. ASSUME SendProposal(r) PROVE CalmInv'
  <2>1. /\ req[r].at = "send" /\ Proceed(r, "sendQuotation")
        /\ proposal' = [proposal EXCEPT ![q] = "SENT"]
    BY <1>1, <1>5 DEF SendProposal, At
  <2>2. proposal'[q] = "SENT"
    BY <1>3, <1>4, <2>1
  <2>3. req'[r].at = "sendQuotation" /\ req'[r].quotation = q
    <3>1. req'[r].at = "sendQuotation"
      BY <2>1, ProceedMove DEF AInv
    <3>q. QED BY <1>2, <3>1 DEF Move, HandlersMove, Idle
  <2>4. Promised(req[r])' /\ BothAccepted(q)'
    BY <2>2, <2>3 DEF Promised, BothAccepted
  <2>q. QED BY <1>2, <2>4, MoveCalm
<1>6. ASSUME req'[r] = Idle, q \notin crossed => BothAccepted(q)'
      PROVE  CalmInv'
  BY <1>2, <1>6, EndCalm
<1>7. ASSUME req'[r] = Idle, NEW s \in QuotationStatus, UpdateStatusWrite(r, s) PROVE CalmInv'
  <2>1. q \in byHand'
    BY <1>1, <1>7 DEF UpdateStatusWrite
  <2>q. QED BY <1>6, <1>7, <2>1 DEF BothAccepted
<1>8. ASSUME req'[r] = Idle, RemoveWrite(r) PROVE CalmInv'
  <2>1. /\ quote' = [quote EXCEPT ![q].deleted = TRUE] /\ UNCHANGED <<proposal, byHand>>
    BY <1>1, <1>8 DEF RemoveWrite, history
  <2>2. quote'[q].status = quote[q].status
    BY <1>3, <1>4, <2>1
  <2>q. QED BY <1>3, <1>6, <1>8, <2>1, <2>2 DEF BothAccepted
<1>9. ASSUME req'[r] = Idle, CreateProposalInsert(r) PROVE CalmInv'
  <2>1. /\ UNCHANGED <<quote, byHand>>
        /\ proposal' = [proposal EXCEPT ![q] = IF @ = "ABSENT" THEN "DRAFT" ELSE @]
    BY <1>1, <1>9 DEF CreateProposalInsert, history
  <2>2. proposal'[q] = "ACCEPTED" => proposal[q] = "ACCEPTED"
    BY <1>3, <1>4, <2>1
  <2>q. QED BY <1>3, <1>6, <1>9, <2>1, <2>2 DEF BothAccepted
<1>10. ASSUME req'[r] = Idle, SendQuotation(r) PROVE CalmInv'
  <2>1. /\ req[r].at = "sendQuotation" /\ UNCHANGED <<proposal, byHand>>
    BY <1>10 DEF SendQuotation, At, history
  <2>2. q \notin crossed => proposal'[q] # "ACCEPTED"
    BY <1>1, <1>3, <2>1 DEF Promised
  <2>q. QED BY <1>6, <1>10, <2>2 DEF BothAccepted
<1>11. ASSUME req'[r] = Idle, NEW step \in {"accept", "reject"},
              NEW s \in {"ACCEPTED", "REJECTED"}, Decide(r, step, s)
       PROVE  CalmInv'
  <2>1. /\ proposal' = [proposal EXCEPT ![q] = s] /\ quote' = [quote EXCEPT ![q].status = s]
    BY <1>1, <1>11 DEF Decide
  <2>2. proposal'[q] = s /\ quote'[q].status = s
    BY <1>3, <1>4, <2>1
  <2>q. QED BY <1>6, <1>11, <2>2 DEF BothAccepted
<1>q. QED BY <1>2, <1>5, <1>7, <1>8, <1>9, <1>10, <1>11 DEF Accept, Reject

\* An arriving request crosses whatever others are working on, and relies on what it reads.
LEMMA StartCalm ==
  ASSUME AInv, NEW r \in Request, NEW q \in Quotation, Begin(r, q)
  PROVE  CalmInv'
<1>0. Base /\ CalmInv
  BY DEF AInv
<1>1. PICK step, item :
        step \in AllOps /\ Start(r, q, step, item) /\ (step \in {"update", "addItem"} => ~Frozen(q))
  BY <1>0, EveryStart
<1>2. PICK h :
        /\ h.at = step /\ h.quotation = q
        /\ req'[r] = h /\ \A s \in Request \ {r} : req'[s] = req[s]
        /\ UNCHANGED <<quote, home, proposal, byHand>>
        /\ crossed' = crossed \cup
             {p \in Quotation : WorksOn(h, p) /\ \E s \in Request : WorksOn(req[s], p)}
  BY <1>0, <1>1, StartHandler
<1>3. \A p : WorksOn(h, p)' <=> WorksOn(h, p)
  BY <1>2 DEF WorksOn
<1> SUFFICES ASSUME NEW p \in Quotation \ crossed'
             PROVE  /\ AloneOn(p)'
                    /\ \A s \in Request : req'[s].quotation = p => Promised(req[s])'
                    /\ BothAccepted(p)'
  BY DEF CalmInv
<1>4. p \notin crossed /\ (WorksOn(h, p) => \A s \in Request : ~WorksOn(req[s], p))
  BY <1>2
<1>5. AloneOn(p) /\ (\A s \in Request : req[s].quotation = p => Promised(req[s]))
      /\ BothAccepted(p)
  BY <1>0, <1>4 DEF CalmInv
<1>6. AloneOn(p)'
  <2>1. \A s \in Request \ {r} : WorksOn(req[s], p)' <=> WorksOn(req[s], p)
    BY <1>2 DEF WorksOn
  <2>2. WorksOn(req[r], p)' <=> WorksOn(h, p)
    BY <1>2 DEF WorksOn
  <2>q. QED BY <1>4, <1>5, <2>1, <2>2 DEF AloneOn
<1>7. ASSUME NEW s \in Request, req'[s].quotation = p PROVE Promised(req[s])'
  <2>1. CASE s = r
    <3>1. req'[s] = h /\ h.at # "sendQuotation"
      BY <1>1, <1>2, <2>1 DEF AllOps
    <3>q. QED BY <1>1, <1>2, <3>1 DEF Promised, Frozen
  <2>2. CASE s # r
    BY <1>2, <1>5, <1>7, <2>2 DEF Promised, Frozen
  <2>q. QED BY <2>1, <2>2
<1>8. BothAccepted(p)'
  BY <1>2, <1>5 DEF BothAccepted
<1>q. QED BY <1>6, <1>7, <1>8

\* Nobody works on a quotation that is created.
LEMMA CreateCalm ==
  ASSUME AInv, NEW q \in Quotation, NEW items \in SUBSET Fresh, NEW d, Create(q, items, d)
  PROVE  CalmInv'
<1>0. Base /\ CalmInv
  BY DEF AInv
<1>1. /\ ~Exists(q) /\ UNCHANGED <<proposal, req, crossed, byHand>>
      /\ \A p \in Quotation \ {q} : quote'[p] = quote[p]
      /\ \A x \in Item : home'[x] = home[x] \/ home[x] = "UNMADE"
  BY <1>0, CreateFacts DEF history
<1>2. proposal[q] = "ABSENT"
  BY <1>0, <1>1 DEF Base, Born
<1>3. ASSUME NEW r \in Request, NEW p \in Quotation
      PROVE  /\ WorksOn(req[r], p)' => WorksOn(req[r], p)
             /\ req[r].quotation = p => p # q
  <2>1. req[r].at = "removeItem" => home'[req[r].item] = home[req[r].item]
    BY <1>0, <1>1 DEF Base, HomeInv
  <2>2. req[r].quotation = p => p # q
    <3>1. Idle.quotation = Null /\ Null \notin Quotation
      BY SalesAssumption DEF Idle
    <3>2. req[r].at = "idle" => req[r] = Idle
      BY <1>0 DEF Base, IInv, Handlers, Sound
    <3>3. req[r].at # "idle" => Exists(req[r].quotation)
      BY <1>0, AtWork
    <3>q. QED BY <1>1, <3>1, <3>2, <3>3
  <2>q. QED BY <1>1, <2>1, <2>2 DEF WorksOn
<1> SUFFICES ASSUME NEW p \in Quotation \ crossed
             PROVE  /\ AloneOn(p)'
                    /\ \A s \in Request : req[s].quotation = p => Promised(req[s])'
                    /\ BothAccepted(p)'
  BY <1>1 DEF CalmInv
<1>4. AloneOn(p) /\ (\A s \in Request : req[s].quotation = p => Promised(req[s]))
      /\ BothAccepted(p)
  BY <1>0 DEF CalmInv
<1>5. AloneOn(p)'
  BY <1>3, <1>4 DEF AloneOn
<1>6. ASSUME NEW s \in Request, req[s].quotation = p PROVE Promised(req[s])'
  <2>1. quote'[p] = quote[p]
    BY <1>1, <1>3, <1>6
  <2>q. QED BY <1>1, <1>4, <1>6, <2>1 DEF Promised, Frozen
<1>7. BothAccepted(p)'
  BY <1>1, <1>2, <1>4 DEF BothAccepted
<1>q. QED BY <1>5, <1>6, <1>7

\* Every step keeps the calm.
LEMMA CalmStep ==
  ASSUME AInv, [Next]_vars
  PROVE  CalmInv'
<1>1. CASE UNCHANGED vars
  BY <1>1 DEF vars, tables, history, AInv, CalmInv, AloneOn, WorksOn, Promised, Frozen,
              BothAccepted
<1>2. ASSUME NEW r \in Request, Resume(r) \/ Fail(r)
      PROVE  CalmInv'
  BY <1>2, OthersCalm, DecisionsCalm DEF Resume
<1>q. QED BY <1>1, <1>2, StartCalm, CreateCalm DEF Next

LEMMA CalmAlways == Spec => []AInv
<1>1. Init => AInv
  <2> SUFFICES ASSUME Init PROVE AInv
    OBVIOUS
  <2>1. \A r \in Request : req[r] = Idle
    BY DEF Init
  <2>2. Idle.at = "idle" /\ Idle.quotation = Null
    BY DEF Idle
  <2>3. HomeInv
    BY <2>1, <2>2 DEF Init, HomeInv, Homes
  <2>4. Born
    BY <2>1, <2>2, SalesAssumption DEF Init, Born, ItemsOf
  <2>5. CalmInv
    BY <2>1, <2>2, SalesAssumption DEF Init, CalmInv, AloneOn, WorksOn, Promised, BothAccepted
  <2>q. QED BY <2>3, <2>4, <2>5, DecisionInit DEF AInv, Base
<1>2. AInv /\ [Next]_vars => AInv'
  BY BaseStep, CalmStep DEF AInv
<1>q. QED BY <1>1, <1>2, PTL DEF Spec

\* A quotation whose proposal is accepted is accepted itself, unless its status is set by hand
\* or two requests have worked on it at a time; handlers may fail, and requests on other
\* quotations may overlap.
THEOREM AcceptedStaysInBoth == Spec => []AcceptedStays
<1>1. AInv => AcceptedStays
  BY DEF AInv, CalmInv, BothAccepted, AcceptedStays
<1>q. QED BY <1>1, CalmAlways, PTL

\* No step gives an accepted quotation another discount or another item, unless two requests
\* have worked on it at a time: the guards of update and addItem still hold when they write.
THEOREM AcceptedQuotationIsFinal == Spec => AcceptedIsFinal
<1> DEFINE Same(q) == {quote[q].status, quote'[q].status} \subseteq {"ACCEPTED", "CONVERTED"} =>
                        /\ quote'[q].discount = quote[q].discount
                        /\ \A x \in Item : home'[x] = q => home[x] = q
<1>1. ASSUME AInv, [Next]_vars, NEW q \in Quotation \ crossed'
      PROVE  Same(q)
  <2>0. Base /\ CalmInv
    BY <1>1 DEF AInv
  <2>1. ASSUME UNCHANGED home, quote'[q].discount = quote[q].discount PROVE Same(q)
    BY <2>1
  <2>2. ASSUME NEW p \in Quotation, NEW items \in SUBSET Fresh, NEW d, Create(p, items, d)
        PROVE  Same(q)
    <3>1. /\ quote'[p].status = "DRAFT"
          /\ \A t \in Quotation \ {p} : quote'[t] = quote[t]
          /\ \A x \in Item : home'[x] = home[x] \/ home'[x] = p
      BY <2>0, <2>2, CreateFacts
    <3>q. QED BY <3>1
  <2>3. ASSUME NEW r \in Request, NEW p, p = req[r].quotation, Resume(r) \/ Fail(r)
        PROVE  Same(q)
    <3>1. Move(r, p) /\ p \in Quotation
      <4>1. Move(r, p)
        BY <2>0, <2>3, EveryStatement
      <4>q. QED BY <2>0, <2>3, <4>1, AtWork DEF Move, HandlersMove
    <3>2. CASE q # p
      <4>1. quote'[q] = quote[q]
        BY <3>1, <3>2 DEF Move, RowsMove
      <4>2. \A x \in Item : home'[x] = q => home[x] = q
        BY <3>1, <3>2, SalesAssumption DEF Move, ItemsMove
      <4>q. QED BY <4>1, <4>2
    <3>3. CASE q = p
      <4>1. q \notin crossed
        BY <1>1, <3>1 DEF Move, RowsMove
      <4>2. ASSUME req[r].at \in {"update", "addItem"} PROVE Same(q)
        BY <2>3, <3>3, <4>1, <4>2, <1>1, KnownCalm DEF Promised, Frozen
      <4>3. CASE UpdateWrite(r) \/ AddItemInsert(r)
        BY <4>2, <4>3 DEF UpdateWrite, AddItemInsert, At
      <4>4. CASE RemoveItemDelete(r)
        <5>1. quote' = quote
          BY <4>4 DEF RemoveItemDelete
        <5>2. \A x \in Item : home'[x] = home[x] \/ home'[x] = "GONE"
          BY <2>0, <4>4 DEF RemoveItemDelete, Base, HomeInv
        <5>q. QED BY <5>1, <5>2, SalesAssumption
      <4>5. CASE RecalculateRead(r) \/ RecalculateWrite(r) \/ Fail(r)
        BY <2>0, <2>1, <2>3, <3>3, <4>5, RecalculateReads, RecalculateWrites, FailStatement
      <4>6. CASE \/ \E s \in QuotationStatus : UpdateStatusWrite(r, s)
                 \/ RemoveWrite(r) \/ CreateProposalInsert(r) \/ SendProposal(r)
                 \/ SendQuotation(r) \/ Accept(r) \/ Reject(r)
        BY <2>0, <2>1, <2>3, <3>3, <4>6, RowStatements
      <4>q. QED BY <2>3, <4>3, <4>4, <4>5, <4>6 DEF Resume
    <3>q. QED BY <3>2, <3>3
  <2>4. ASSUME NEW r \in Request, NEW p \in Quotation, Begin(r, p) PROVE Same(q)
    <3>1. UNCHANGED <<quote, home>>
      <4>1. PICK step, item : step \in AllOps /\ Start(r, p, step, item)
        BY <2>0, <2>4, EveryStart
      <4>q. QED BY <4>1 DEF Start, tables
    <3>q. QED BY <2>1, <3>1
  <2>5. CASE UNCHANGED vars
    BY <2>1, <2>5 DEF vars, tables
  <2>q. QED BY <1>1, <2>2, <2>3, <2>4, <2>5 DEF Next
<1>2. AInv /\ [Next]_vars => [\A q \in Quotation \ crossed' : Same(q)]_vars
  BY <1>1
<1>q. QED BY <1>2, CalmAlways, PTL DEF AcceptedIsFinal, Spec

-----------------------------------------------------------------------------
(* The totals of a quotation that no two requests have worked on at a time *)
(* and on which no request has failed.                                     *)

Right(q) == quote[q].total = TotalOf(SumOf(ItemsOf(q)), quote[q].discount)

\* What a handler has read is still so when it uses it.
Informed(h) ==
  h.at \in {"update", "writeTotals"} =>
    h.subtotal = SumOf(ItemsOf(h.quotation)) /\ h.discount = quote[h.quotation].discount

\* The handler that is going to write the total of q.
Recalculating(q) ==
  \E r \in Request : req[r].at \in {"recalculate", "writeTotals"} /\ req[r].quotation = q

Totalled ==
  \A q \in Quotation \ (crossed \cup broken) :
    /\ \A r \in Request : req[r].quotation = q => Informed(req[r])
    /\ q \notin astray => Recalculating(q) \/ Right(q)

TInv == AInv /\ Totalled

\* A quotation without items costs nothing.
LEMMA SumOfNothing == SumOf({}) = 0
  BY DEF SumOf, MapThenSumSet, MapThenFoldSet

\* The total of a quotation stays right while its items and its row do.
LEMMA RightStable ==
  ASSUME NEW q \in Quotation, ItemsOf(q)' = ItemsOf(q),
         quote'[q].total = quote[q].total, quote'[q].discount = quote[q].discount
  PROVE  Right(q)' <=> Right(q)
BY DEF Right

\* After a move what is to be shown is about the quotation it works on: another one keeps its
\* items and figures, or has lost an item and nobody is at work on it.
LEMMA MoveTotals ==
  ASSUME TInv, NEW r \in Request, NEW q, Move(r, q),
         q \notin crossed \cup broken' =>
           /\ Informed(req[r])'
           /\ q \notin astray' => req'[r].at \in {"recalculate", "writeTotals"} \/ Right(q)'
  PROVE  Totalled'
<1>1. HandlersMove(r, q) /\ RowsMove(q) /\ ItemsMove(r, q) /\ AInv /\ Base /\ CalmInv /\ Totalled
  BY DEF Move, TInv, AInv
<1>2. /\ req[r].quotation = q /\ q \in Quotation
      /\ crossed' = crossed /\ broken \subseteq broken'
      /\ \A p \in Quotation \ {q} : quote'[p] = quote[p]
      /\ \A s \in Request \ {r} : req'[s] = req[s]
  BY <1>1, AtWork DEF HandlersMove, RowsMove
<1>3. req'[r].quotation \in {q, Null}
      /\ (req'[r].at \in {"recalculate", "writeTotals"} => req'[r].quotation = q)
  BY <1>1 DEF HandlersMove, Idle
<1> SUFFICES ASSUME NEW p \in Quotation \ (crossed \cup broken')
             PROVE  /\ \A s \in Request : req'[s].quotation = p => Informed(req[s])'
                    /\ p \notin astray' => Recalculating(p)' \/ Right(p)'
  BY <1>2 DEF Totalled
<1>4. CASE p = q
  <2>1. ASSUME NEW s \in Request, req'[s].quotation = p PROVE s = r
    BY <1>1, <1>2, <1>4, <2>1, OnlyOne
  <2>2. Informed(req[r])'
    BY <1>4
  <2>3. p \notin astray' => Recalculating(p)' \/ Right(p)'
    BY <1>3, <1>4 DEF Recalculating
  <2>q. QED BY <2>1, <2>2, <2>3
<1>5. CASE p # q
  <2>1. ASSUME NEW s \in Request, req'[s].quotation = p
        PROVE  s # r /\ req'[s] = req[s] /\ req[s].quotation = p
    BY <1>2, <1>3, <1>5, <2>1, SalesAssumption
  <2>2. /\ \A s \in Request : req[s].quotation = p => Informed(req[s])
        /\ p \notin astray => Recalculating(p) \/ Right(p)
    BY <1>1, <1>2 DEF Totalled
  <2>3. CASE (p \in astray' <=> p \in astray) /\ ItemsOf(p)' = ItemsOf(p)
    <3>1. quote'[p] = quote[p]
      BY <1>2, <1>5
    <3>2. ASSUME NEW s \in Request, req'[s].quotation = p PROVE Informed(req[s])'
      BY <2>1, <2>2, <2>3, <3>1, <3>2 DEF Informed
    <3>3. Recalculating(p) => Recalculating(p)'
      BY <1>2, <1>5 DEF Recalculating
    <3>4. Right(p)' <=> Right(p)
      BY <2>3, <3>1, RightStable
    <3>q. QED BY <2>2, <2>3, <3>2, <3>3, <3>4
  <2>4. CASE p \in astray' /\ WorksOn(req[r], p)
    <3>1. AloneOn(p)
      BY <1>1 DEF CalmInv
    <3>2. ASSUME NEW s \in Request, req'[s].quotation = p PROVE FALSE
      BY <2>1, <2>4, <3>1, <3>2 DEF AloneOn, WorksOn
    <3>q. QED BY <2>4, <3>2
  <2>q. QED BY <1>1, <1>5, <2>3, <2>4 DEF ItemsMove
<1>q. QED BY <1>4, <1>5

\* What the handler at work on a quotation knows.
LEMMA KnownTotals ==
  ASSUME TInv, NEW r \in Request, NEW q, q = req[r].quotation, req[r].at # "idle",
         q \notin crossed \cup broken
  PROVE  /\ q \in Quotation /\ Informed(req[r])
         /\ req[r].at \notin {"recalculate", "writeTotals"} /\ q \notin astray => Right(q)
<1>1. q \in Quotation
  BY AtWork DEF TInv, AInv
<1>2. Informed(req[r]) /\ (q \notin astray => Recalculating(q) \/ Right(q))
  BY <1>1 DEF TInv, Totalled
<1>3. ASSUME NEW s \in Request, req[s].quotation = q PROVE s = r
  BY <1>1, <1>3, OnlyOne DEF TInv
<1>q. QED BY <1>1, <1>2, <1>3 DEF Recalculating

\* Every statement of a handler keeps the totals.
LEMMA ResumeTotals ==
  ASSUME TInv, NEW r \in Request, Resume(r) \/ Fail(r)
  PROVE  Totalled'
<1>0. Base
  BY DEF TInv, AInv
<1>1. PICK q : q = req[r].quotation
  OBVIOUS
<1>2. Move(r, q)
  BY <1>0, <1>1, EveryStatement
<1>3. /\ req[r].at # "idle" /\ q \in Quotation
      /\ broken \subseteq broken'
  <2>1. req[r].at # "idle" /\ broken \subseteq broken'
    BY <1>2 DEF Move, HandlersMove, RowsMove
  <2>q. QED BY <1>0, <1>1, <2>1, AtWork
<1>4. Idle.at = "idle"
  BY DEF Idle
<1>5. CASE \/ \E s \in QuotationStatus : UpdateStatusWrite(r, s)
           \/ RemoveWrite(r) \/ CreateProposalInsert(r) \/ SendProposal(r) \/ SendQuotation(r)
           \/ Accept(r) \/ Reject(r)
  <2>1. /\ home' = home /\ astray' = astray
        /\ req[r].at \notin {"recalculate", "writeTotals"}
        /\ req'[r].at \in {"idle", "sendQuotation"}
        /\ quote'[q].total = quote[q].total /\ quote'[q].discount = quote[q].discount
    BY <1>0, <1>1, <1>4, <1>5, RowStatements
  <2>2. Right(q)' <=> Right(q)
    <3>1. ItemsOf(q)' = ItemsOf(q)
      BY <2>1 DEF ItemsOf
    <3>q. QED BY <1>3, <2>1, <3>1, RightStable
  <2>3. Informed(req[r])'
    BY <2>1 DEF Informed
  <2>4. q \notin crossed \cup broken' => (q \notin astray' => Right(q)')
    BY <1>1, <1>3, <2>1, <2>2, KnownTotals
  <2>q. QED BY <1>2, <2>3, <2>4, MoveTotals
<1>6. CASE UpdateWrite(r)
  <2>1. PICK items \in SUBSET Fresh, newItems \in BOOLEAN, newDiscount \in BOOLEAN,
             d \in Discount : Updates(r, q, items, newItems, newDiscount, d)
    BY <1>0, <1>1, <1>6, UpdateStatement
  <2>2. Informed(req[r])'
    <3>1. req'[r] = Idle
      BY <1>0, <1>1, <1>6, UpdateStatement
    <3>q. QED BY <1>4, <3>1 DEF Informed
  <2>3. ASSUME q \notin crossed \cup broken' PROVE Right(q)'
    <3>1. req[r].subtotal = SumOf(ItemsOf(q)) /\ req[r].discount = quote[q].discount
      BY <1>1, <1>3, <1>6, <2>3, KnownTotals DEF Informed, UpdateWrite, At
    <3>q. QED BY <2>1, <3>1 DEF Right, Updates
  <2>q. QED BY <1>2, <2>2, <2>3, MoveTotals
<1>7. CASE AddItemInsert(r)
  <2>1. req'[r].at = "recalculate"
    BY <1>0, <1>1, <1>7, AddStatement
  <2>q. QED BY <1>2, <2>1, MoveTotals DEF Informed
<1>8. CASE RemoveItemDelete(r)
  <2>1. /\ req[r].at = "removeItem" /\ quote' = quote
        /\ \/ req'[r] = Idle /\ home' = home /\ astray' = astray
           \/ req'[r].at = "recalculate"
    BY <1>0, <1>1, <1>8, DeleteStatement
  <2>2. CASE req'[r].at = "recalculate"
    BY <1>2, <2>2, MoveTotals DEF Informed
  <2>3. CASE req'[r] = Idle /\ home' = home /\ astray' = astray
    <3>1. Right(q)' <=> Right(q)
      <4>1. ItemsOf(q)' = ItemsOf(q)
        BY <2>3 DEF ItemsOf
      <4>q. QED BY <1>3, <2>1, <4>1, RightStable
    <3>2. q \notin crossed \cup broken' => (q \notin astray' => Right(q)')
      BY <1>1, <1>3, <2>1, <2>3, <3>1, KnownTotals
    <3>3. Informed(req[r])'
      BY <1>4, <2>3 DEF Informed
    <3>q. QED BY <1>2, <3>2, <3>3, MoveTotals
  <2>q. QED BY <2>1, <2>2, <2>3
<1>9. CASE RecalculateRead(r)
  <2>1. /\ req'[r].at = "writeTotals" /\ UNCHANGED <<quote, home>>
        /\ req'[r].subtotal = SumOf(ItemsOf(q)) /\ req'[r].discount = quote[q].discount
    BY <1>0, <1>1, <1>9, RecalculateReads
  <2>2. req'[r].quotation = q
    BY <1>2, <1>4, <2>1 DEF Move, HandlersMove
  <2>3. ItemsOf(q)' = ItemsOf(q)
    BY <2>1 DEF ItemsOf
  <2>4. Informed(req[r])'
    BY <2>1, <2>2, <2>3 DEF Informed
  <2>q. QED BY <1>2, <2>1, <2>4, MoveTotals
<1>10. CASE RecalculateWrite(r)
  <2>1. /\ req[r].at = "writeTotals" /\ req'[r] = Idle /\ home' = home
        /\ quote'[q].total = TotalOf(req[r].subtotal, req[r].discount)
        /\ quote'[q].discount = quote[q].discount
    BY <1>0, <1>1, <1>10, RecalculateWrites
  <2>2. ItemsOf(q)' = ItemsOf(q)
    BY <2>1 DEF ItemsOf
  <2>3. ASSUME q \notin crossed \cup broken' PROVE Right(q)'
    <3>1. req[r].subtotal = SumOf(ItemsOf(q)) /\ req[r].discount = quote[q].discount
      BY <1>1, <1>3, <2>1, <2>3, KnownTotals DEF Informed
    <3>q. QED BY <2>1, <2>2, <3>1 DEF Right
  <2>4. Informed(req[r])'
    BY <1>4, <2>1 DEF Informed
  <2>q. QED BY <1>2, <2>3, <2>4, MoveTotals
<1>11. CASE Fail(r)
  <2>1. q \in broken'
    BY <1>0, <1>1, <1>11, FailStatement
  <2>q. QED BY <1>2, <2>1, MoveTotals
<1>q. QED BY <1>5, <1>6, <1>7, <1>8, <1>9, <1>10, <1>11 DEF Resume

\* A new quotation has the total of the items it gets.
LEMMA CreateTotals ==
  ASSUME TInv, NEW q \in Quotation, NEW items \in SUBSET Fresh, NEW d, Create(q, items, d)
  PROVE  Totalled'
<1>0. Base /\ Totalled
  BY DEF TInv, AInv
<1>1. /\ ~Exists(q) /\ UNCHANGED <<req, crossed, broken, astray>>
      /\ \A p \in Quotation \ {q} : quote'[p] = quote[p] /\ ItemsOf(p)' = ItemsOf(p)
      /\ quote'[q].discount = d /\ quote'[q].total = TotalOf(SumOf(items), d)
      /\ ItemsOf(q)' = items
  BY <1>0, CreateFacts DEF history
<1>2. ASSUME NEW r \in Request PROVE req[r].quotation # q
  <2>1. Idle.quotation = Null /\ Null \notin Quotation
    BY SalesAssumption DEF Idle
  <2>2. req[r].at = "idle" => req[r] = Idle
    BY <1>0 DEF Base, IInv, Handlers, Sound
  <2>3. req[r].at # "idle" => Exists(req[r].quotation)
    BY <1>0, AtWork
  <2>q. QED BY <1>1, <2>1, <2>2, <2>3
<1>3. Right(q)'
  BY <1>1 DEF Right
<1> SUFFICES ASSUME NEW p \in Quotation \ (crossed \cup broken), p # q
             PROVE  /\ \A s \in Request : req[s].quotation = p => Informed(req[s])'
                    /\ p \notin astray => Recalculating(p)' \/ Right(p)'
  BY <1>1, <1>2, <1>3 DEF Totalled
<1>4. ASSUME NEW s \in Request, req[s].quotation = p PROVE Informed(req[s])'
  BY <1>0, <1>1, <1>4 DEF Totalled, Informed
<1>5. Recalculating(p)' <=> Recalculating(p)
  BY <1>1 DEF Recalculating
<1>6. Right(p)' <=> Right(p)
  BY <1>1, RightStable
<1>q. QED BY <1>0, <1>4, <1>5, <1>6 DEF Totalled

\* The first statement of a handler reads what it will rely on; nobody else is at work on a
\* quotation that it does not cross.
LEMMA StartTotals ==
  ASSUME TInv, NEW r \in Request, NEW q \in Quotation, Begin(r, q)
  PROVE  Totalled'
<1>0. Base /\ Totalled
  BY DEF TInv, AInv
<1>1. PICK step, item : step \in AllOps /\ Start(r, q, step, item)
  BY <1>0, EveryStart
<1>2. PICK h :
        /\ h.at = step /\ h.quotation = q
        /\ h.subtotal = SumOf(ItemsOf(q)) /\ h.discount = quote[q].discount
        /\ req'[r] = h /\ \A s \in Request \ {r} : req'[s] = req[s]
        /\ UNCHANGED <<quote, home, broken, astray>>
        /\ crossed' = crossed \cup
             {p \in Quotation : WorksOn(h, p) /\ \E s \in Request : WorksOn(req[s], p)}
  BY <1>0, <1>1, StartHandler
<1>3. \A p : ItemsOf(p)' = ItemsOf(p)
  BY <1>2 DEF ItemsOf
<1>4. \A p \in Quotation : Right(p)' <=> Right(p)
  BY <1>2, <1>3, RightStable
<1>5. req[r] = Idle /\ Idle.at = "idle"
  BY <1>1 DEF Start, Idle
<1> SUFFICES ASSUME NEW p \in Quotation \ (crossed' \cup broken)
             PROVE  /\ \A s \in Request : req'[s].quotation = p => Informed(req[s])'
                    /\ p \notin astray => Recalculating(p)' \/ Right(p)'
  BY <1>2 DEF Totalled
<1>6. /\ \A s \in Request : req[s].quotation = p => Informed(req[s])
      /\ p \notin astray => Recalculating(p) \/ Right(p)
  BY <1>0, <1>2 DEF Totalled
<1>7. ASSUME NEW s \in Request, req'[s].quotation = p PROVE Informed(req[s])'
  <2>1. CASE s = r
    BY <1>2, <1>3, <2>1 DEF Informed
  <2>2. CASE s # r
    BY <1>2, <1>3, <1>6, <1>7, <2>2 DEF Informed
  <2>q. QED BY <2>1, <2>2
<1>8. Recalculating(p) => Recalculating(p)'
  BY <1>2, <1>5 DEF Recalculating
<1>q. QED BY <1>4, <1>6, <1>7, <1>8

\* Every step keeps the totals.
LEMMA TotalsStep ==
  ASSUME TInv, [Next]_vars
  PROVE  Totalled'
<1>1. CASE UNCHANGED vars
  <2>1. UNCHANGED <<quote, home, req, crossed, broken, astray>>
    BY <1>1 DEF vars, tables, history
  <2>2. \A q : /\ ItemsOf(q)' = ItemsOf(q)
               /\ (Right(q)' <=> Right(q)) /\ (Recalculating(q)' <=> Recalculating(q))
    BY <2>1 DEF ItemsOf, Right, Recalculating
  <2>3. \A r : Informed(req[r])' <=> Informed(req[r])
    BY <2>1, <2>2 DEF Informed
  <2>q. QED BY <2>1, <2>2, <2>3 DEF TInv, Totalled
<1>q. QED BY <1>1, ResumeTotals, CreateTotals, StartTotals DEF Next

\* The total of a quotation that nobody works on is that of its items and its discount, unless
\* two requests have worked on it at a time, one has failed on it, or it has lost an item
\* through another one's URL; whatever is done to other quotations meanwhile.
THEOREM TotalStaysCurrent == Spec => []TotalIsCurrent
<1>1. Init => Totalled
  <2> SUFFICES ASSUME Init PROVE Totalled
    OBVIOUS
  <2>1. \A q \in Quotation : ItemsOf(q) = {} /\ quote[q].total = 0 /\ quote[q].discount = 0
    BY SalesAssumption DEF Init, ItemsOf, NoQuotation
  <2>2. \A r \in Request : req[r].at = "idle"
    BY DEF Init, Idle
  <2>3. \A q \in Quotation : Right(q)
    BY <2>1, SumOfNothing DEF Right, TotalOf
  <2>q. QED BY <2>1, <2>2, <2>3 DEF Totalled, Informed
<1>2. AInv /\ Totalled /\ [Next]_vars => Totalled'
  BY TotalsStep DEF TInv
<1>3. Totalled => TotalIsCurrent
  BY DEF Totalled, Recalculating, Quiet, TotalIsCurrent, Right
<1>q. QED BY <1>1, <1>2, <1>3, CalmAlways, PTL DEF Spec
===============================================================================
