---------------------------- MODULE InvoiceLedger ----------------------------
(***************************************************************************)
(* The accounting back end: InvoicesService, CreditNotesService and        *)
(* PaymentsService over the tables invoices, credit_notes and payments.    *)
(*                                                                         *)
(* A request handler is an async function: it runs to its next `await      *)
(* this.prisma...`, the database executes that one statement atomically,   *)
(* and any other handler may run before it resumes with the row it read.   *)
(* There is no lock and no version column.  Each handler below is therefore*)
(* one action per statement, and req[r] holds what the handler of request  *)
(* r carries from one statement to the next.                               *)
(*                                                                         *)
(* Money is an integer, the cents that the columns store.  VAT, discount   *)
(* and rounding are folded into one number per invoice: `items` is what    *)
(* calcFinancials computes from the item rows, `total` is the totalAmount  *)
(* column.  The handlers compute with doubles, which differ from the cents *)
(* by less than one; StatusesAfterPayment has the one decision in which    *)
(* that counts.                                                            *)
(***************************************************************************)
EXTENDS Integers

CONSTANTS
  Invoice,      \* ids an invoice row may get
  Note,         \* ids a credit note row may get
  Request,      \* HTTP requests being served at the same time
  Total,        \* totals an invoice may be given
  Amount,       \* amounts of payments and credit notes (validated >= 0.01)
  MaxReceived,  \* bound: no payment starts on an invoice that has received it
  Ops,          \* the endpoints that clients use, a subset of AllOps
  MayFail,      \* may a handler die between two statements?
  Null

AllOps == {"update", "issue", "markSent", "recordPayment", "cancel", "remove",
           "createPayment", "issueNote", "applyNote"}

ASSUME LedgerAssumption ==
  /\ Total \subseteq Nat
  /\ Amount \subseteq Nat \ {0}
  /\ MaxReceived \in Nat
  /\ Ops \subseteq AllOps
  /\ MayFail \in BOOLEAN
  /\ Null \notin Invoice \cup Note

VARIABLES
  inv,       \* table invoices
  note,      \* table credit_notes
  received,  \* table payments: the sum of the COMPLETED rows of each invoice
  req,       \* the handlers in progress
  (*************************** history variables ***************************)
  credited,  \* the credit notes that reached each invoice: their totals, each note once
  applied    \* how many times each credit note was taken off its invoice

tables == <<inv, note, received>>
history == <<credited, applied>>
vars == <<inv, note, received, req, credited, applied>>

-----------------------------------------------------------------------------
InvoiceStatus == {"ABSENT", "DRAFT", "ISSUED", "SENT", "PARTIALLY_PAID", "PAID",
                  "CANCELLED"}
NoteStatus == {"ABSENT", "DRAFT", "ISSUED", "APPLIED"}

InvoiceRow == [status : InvoiceStatus, deleted : BOOLEAN,
               items : Nat, total : Nat, paid : Nat, balance : Nat]
NoteRow == [status : NoteStatus, invoice : Invoice \cup {Null}, total : Nat]

NoInvoice == [status |-> "ABSENT", deleted |-> FALSE,
              items |-> 0, total |-> 0, paid |-> 0, balance |-> 0]
NoNote == [status |-> "ABSENT", invoice |-> Null, total |-> 0]

\* `at` names the statement the handler is about to execute: on an invoice, on a
\* note, or on the invoice of the note being applied.
InvoiceStep == {"update", "issue", "markSent", "recordPayment", "cancel", "remove"}
NoteStep == {"issueNote", "applyNote"}
CreditStep == {"fetchInvoice", "creditInvoice"}

Idle == [at |-> "idle", invoice |-> Null, note |-> Null, snap |-> NoInvoice]

Handler ==
  {Idle}
  \cup [at : InvoiceStep, invoice : Invoice, note : {Null}, snap : InvoiceRow]
  \cup [at : NoteStep, invoice : Invoice \cup {Null}, note : Note, snap : {NoInvoice}]
  \cup [at : CreditStep, invoice : Invoice, note : Note, snap : InvoiceRow]

Init ==
  /\ inv = [i \in Invoice |-> NoInvoice]
  /\ note = [c \in Note |-> NoNote]
  /\ received = [i \in Invoice |-> 0]
  /\ req = [r \in Request |-> Idle]
  /\ credited = [i \in Invoice |-> 0]
  /\ applied = [c \in Note |-> 0]

-----------------------------------------------------------------------------
Exists(i) == inv[i].status # "ABSENT"

\* findOne: the row exists and is not soft-deleted; otherwise the request ends
\* with 404 and changes nothing.
Found(i) == Exists(i) /\ ~inv[i].deleted

Closed(i) == inv[i].status \in {"PAID", "CANCELLED"}

NonNegative(x) == IF x > 0 THEN x ELSE 0

\* [mutant] `<` for `<=`
StatusAfterStrict(balance, paid, old) ==
  IF balance < 0 THEN "PAID" ELSE IF paid > 0 THEN "PARTIALLY_PAID" ELSE old

\* The status a payment or a credit leaves behind.  A credit note of exactly the balance is
\* exact in doubles as well: both are the same stored number.
StatusAfter(balance, paid, old) ==
  IF balance <= 0 THEN "PAID" ELSE IF paid > 0 THEN "PARTIALLY_PAID" ELSE old

\* Payments that come to the total to the cent, the last one onto a sum before it, may fall
\* short of it in doubles: 0.80 - (0.10 + 0.70) is above zero, and stored as 0.00.
StatusesAfterPayment(balance, before, a, old) ==
  {StatusAfter(balance, before + a, old)}
    \cup IF balance = 0 /\ before > 0 THEN {"PARTIALLY_PAID"} ELSE {}

\* The handler of r reads invoice i and will next execute `step`.
ReadInvoice(r, i, step, snap) ==
  /\ step \in Ops
  /\ req[r] = Idle
  /\ Found(i)
  /\ req' = [req EXCEPT ![r] = [at |-> step, invoice |-> i, note |-> Null, snap |-> snap]]
  /\ UNCHANGED <<tables, history>>

ReadNote(r, c, step) ==
  /\ step \in Ops
  /\ req[r] = Idle
  /\ req' = [req EXCEPT ![r] = [at |-> step, invoice |-> note[c].invoice, note |-> c,
                                snap |-> NoInvoice]]
  /\ UNCHANGED <<tables, history>>

At(r, step) == req[r].at = step
Finish(r) == req' = [req EXCEPT ![r] = Idle]

\* A write of invoice r's handler is working on, by a statement that ends it.
WriteInvoice(r, row) ==
  /\ inv' = [inv EXCEPT ![req[r].invoice] = row]
  /\ Finish(r)

-----------------------------------------------------------------------------
(* InvoicesService                                                         *)

CreateInvoice(i, t) ==
  /\ ~Exists(i)
  /\ inv' = [inv EXCEPT ![i] = [NoInvoice EXCEPT !.status = "DRAFT", !.items = t,
                                                 !.total = t, !.balance = t]]
  /\ UNCHANGED <<note, received, req, history>>

UpdateRead(r, i) == ~Closed(i) /\ ReadInvoice(r, i, "update", inv[i])

\* New item rows replace the old ones; without them the figures are computed
\* again from the items that were read.  calcFinancials sets balanceDue too.
UpdateWrite(r) ==
  /\ At(r, "update")
  /\ LET row == inv[req[r].invoice]
         old == req[r].snap.items
     IN \/ \E t \in Total :
             WriteInvoice(r, [row EXCEPT !.items = t, !.total = t, !.balance = t])
        \/ WriteInvoice(r, [row EXCEPT !.total = old, !.balance = old])
  /\ UNCHANGED <<note, received, history>>

IssueRead(r, i) ==
  inv[i].status = "DRAFT" /\ ReadInvoice(r, i, "issue", NoInvoice)

MarkSentRead(r, i) == ReadInvoice(r, i, "markSent", NoInvoice)

CancelRead(r, i) == ~Closed(i) /\ ReadInvoice(r, i, "cancel", NoInvoice)

RemoveRead(r, i) ==
  inv[i].status = "DRAFT" /\ ReadInvoice(r, i, "remove", NoInvoice)

SetStatus(r, step, status) ==
  /\ At(r, step)
  /\ WriteInvoice(r, [inv[req[r].invoice] EXCEPT !.status = status])
  /\ UNCHANGED <<note, received, history>>

IssueWrite(r) == SetStatus(r, "issue", "ISSUED")
MarkSentWrite(r) == SetStatus(r, "markSent", "SENT")
CancelWrite(r) == SetStatus(r, "cancel", "CANCELLED")

RemoveWrite(r) ==
  /\ At(r, "remove")
  /\ WriteInvoice(r, [inv[req[r].invoice] EXCEPT !.deleted = TRUE])
  /\ UNCHANGED <<note, received, history>>

RecordPaymentRead(r, i) ==
  received[i] < MaxReceived /\ ReadInvoice(r, i, "recordPayment", inv[i])

\* [mutant] the payment row is not created
RecordPaymentWriteAlone(r, a) ==
  LET i == req[r].invoice
      newPaid == req[r].snap.paid + a
      newBalance == req[r].snap.total - newPaid
  IN /\ At(r, "recordPayment")
     /\ \E status \in StatusesAfterPayment(newBalance, req[r].snap.paid, a, req[r].snap.status) :
          WriteInvoice(r, [inv[i] EXCEPT !.paid = newPaid, !.balance = NonNegative(newBalance),
                                         !.status = status])
     /\ UNCHANGED <<received, note, history>>

\* [mutant] the new balance is computed from balanceDue
RecordPaymentWriteFromBalance(r, a) ==
  LET i == req[r].invoice
      newPaid == req[r].snap.paid + a
      newBalance == req[r].snap.balance - a
  IN /\ At(r, "recordPayment")
     /\ \E status \in StatusesAfterPayment(newBalance, req[r].snap.paid, a, req[r].snap.status) :
          WriteInvoice(r, [inv[i] EXCEPT !.paid = newPaid, !.balance = NonNegative(newBalance),
                                         !.status = status])
     /\ received' = [received EXCEPT ![i] = @ + a]
     /\ UNCHANGED <<note, history>>

\* The $transaction: the invoice row and the payment row together.
RecordPaymentWrite(r, a) ==
  LET i == req[r].invoice
      snap == req[r].snap
      newPaid == snap.paid + a
      newBalance == snap.total - newPaid
  IN /\ At(r, "recordPayment")
     /\ \E status \in StatusesAfterPayment(newBalance, snap.paid, a, snap.status) :
          WriteInvoice(r, [inv[i] EXCEPT !.paid = newPaid, !.balance = NonNegative(newBalance),
                                         !.status = status])
     /\ received' = [received EXCEPT ![i] = @ + a]
     /\ UNCHANGED <<note, history>>

-----------------------------------------------------------------------------
(* PaymentsService                                                         *)

CreatePayment(i, a) ==
  /\ "createPayment" \in Ops
  /\ Exists(i)
  /\ received[i] < MaxReceived
  /\ received' = [received EXCEPT ![i] = @ + a]
  /\ UNCHANGED <<inv, note, req, history>>

-----------------------------------------------------------------------------
(* CreditNotesService                                                      *)

\* The foreign key lets a note name an invoice that exists, in any state.
CreateNote(c, i, a) ==
  /\ note[c].status = "ABSENT"
  /\ i # Null => Exists(i)
  /\ note' = [note EXCEPT ![c] = [status |-> "DRAFT", invoice |-> i, total |-> a]]
  /\ UNCHANGED <<inv, received, req, history>>

IssueNoteRead(r, c) == note[c].status = "DRAFT" /\ ReadNote(r, c, "issueNote")

IssueNoteWrite(r) ==
  /\ At(r, "issueNote")
  /\ note' = [note EXCEPT ![req[r].note].status = "ISSUED"]
  /\ Finish(r)
  /\ UNCHANGED <<inv, received, history>>

ApplyNoteRead(r, c) == note[c].status = "ISSUED" /\ ReadNote(r, c, "applyNote")

ApplyNoteMark(r) ==
  /\ At(r, "applyNote")
  /\ note' = [note EXCEPT ![req[r].note].status = "APPLIED"]
  /\ IF req[r].invoice = Null
       THEN Finish(r)
       ELSE req' = [req EXCEPT ![r].at = "fetchInvoice"]
  /\ UNCHANGED <<inv, received, history>>

\* [mutant] an invoice that was paid or cancelled meanwhile is left alone
ApplyNoteFetchOpen(r) ==
  /\ At(r, "fetchInvoice")
  /\ IF Closed(req[r].invoice)
       THEN Finish(r)
       ELSE req' = [req EXCEPT ![r].at = "creditInvoice", ![r].snap = inv[req[r].invoice]]
  /\ UNCHANGED <<tables, history>>

\* findUnique by id alone: a soft-deleted or cancelled invoice is found too.
ApplyNoteFetch(r) ==
  /\ At(r, "fetchInvoice")
  /\ req' = [req EXCEPT ![r].at = "creditInvoice", ![r].snap = inv[req[r].invoice]]
  /\ UNCHANGED <<tables, history>>

\* The note counts for the invoice, unless it has counted already.
CountNote(i, c) ==
  /\ credited' = [credited EXCEPT ![i] = IF applied[c] = 0 THEN @ + note[c].total ELSE @]
  /\ applied' = [applied EXCEPT ![c] = @ + 1]

\* [mutant] paidAmount is not written
ApplyNoteCreditBalanceOnly(r) ==
  LET i == req[r].invoice
      c == req[r].note
      newBalance == NonNegative(req[r].snap.balance - note[c].total)
  IN /\ At(r, "creditInvoice")
     /\ WriteInvoice(r, [inv[i] EXCEPT !.balance = newBalance])
     /\ CountNote(i, c)
     /\ UNCHANGED <<note, received>>

\* [mutant] paidAmount is incremented by the database, balanceDue computed as before
ApplyNoteCreditIncrement(r) ==
  LET i == req[r].invoice
      c == req[r].note
      newBalance == NonNegative(req[r].snap.balance - note[c].total)
      newPaid == inv[i].paid + note[c].total
  IN /\ At(r, "creditInvoice")
     /\ WriteInvoice(r, [inv[i] EXCEPT
                           !.balance = newBalance,
                           !.paid = newPaid,
                           !.status = StatusAfter(newBalance, newPaid, req[r].snap.status)])
     /\ CountNote(i, c)
     /\ UNCHANGED <<note, received>>

ApplyNoteCredit(r) ==
  LET i == req[r].invoice
      c == req[r].note
      snap == req[r].snap
      newBalance == NonNegative(snap.balance - note[c].total)
      newPaid == snap.paid + note[c].total
  IN /\ At(r, "creditInvoice")
     /\ WriteInvoice(r, [inv[i] EXCEPT
                           !.balance = newBalance,
                           !.paid = newPaid,
                           !.status = StatusAfter(newBalance, newPaid, snap.status)])
     /\ CountNote(i, c)
     /\ UNCHANGED <<note, received>>

-----------------------------------------------------------------------------
\* A rejected statement or a lost connection makes the handler throw; what it
\* had already written stays.
Fail(r) ==
  /\ MayFail
  /\ req[r] # Idle
  /\ Finish(r)
  /\ UNCHANGED <<tables, history>>

Insert ==
  \/ \E i \in Invoice, t \in Total : CreateInvoice(i, t)
  \/ \E i \in Invoice, a \in Amount : CreatePayment(i, a)
  \/ \E c \in Note, i \in Invoice \cup {Null}, a \in Amount : CreateNote(c, i, a)

Begin(r) ==
  \/ \E i \in Invoice :
       \/ UpdateRead(r, i)
       \/ IssueRead(r, i)
       \/ MarkSentRead(r, i)
       \/ CancelRead(r, i)
       \/ RemoveRead(r, i)
       \/ RecordPaymentRead(r, i)
  \/ \E c \in Note : IssueNoteRead(r, c) \/ ApplyNoteRead(r, c)

Resume(r) ==
  \/ UpdateWrite(r)
  \/ IssueWrite(r)
  \/ MarkSentWrite(r)
  \/ CancelWrite(r)
  \/ RemoveWrite(r)
  \/ \E a \in Amount : RecordPaymentWrite(r, a)
  \/ IssueNoteWrite(r)
  \/ ApplyNoteMark(r)
  \/ ApplyNoteFetch(r)
  \/ ApplyNoteCredit(r)

Next == Insert \/ \E r \in Request : Begin(r) \/ Resume(r) \/ Fail(r)

Spec == Init /\ [][Next]_vars

\* The event loop resumes every handler whose statement the database answered.
FairSpec == Spec /\ \A r \in Request : WF_vars(Resume(r))

-----------------------------------------------------------------------------
TypeOK ==
  /\ inv \in [Invoice -> InvoiceRow]
  /\ note \in [Note -> NoteRow]
  /\ received \in [Invoice -> Nat]
  /\ req \in [Request -> Handler]
  /\ credited \in [Invoice -> Nat]
  /\ applied \in [Note -> Nat]

(***************************************************************************)
(* Properties that hold for any interleaving and any failure.              *)
(***************************************************************************)

\* No request has taken a note of invoice i off it after another one had.
NotesCountOnce(i) == \A c \in Note : note[c].invoice = i => applied[c] <= 1

\* Only a note that is applied twice invents money: what any other invoice shows as paid is
\* covered by payment rows and by its notes, each counted once, whatever overlaps or fails
\* (recordPayment and apply write sums that start from a row another handler may have
\* overtaken).
PaidNeverOverstated ==
  \A i \in Invoice : NotesCountOnce(i) => inv[i].paid <= received[i] + credited[i]

\* As long as no invoice is edited, paidAmount, balanceDue and totalAmount of a row
\* agree, although payments and credit notes compute them differently and from rows
\* read earlier.
BalanceIsOutstanding ==
  \A i \in Invoice : inv[i].balance = NonNegative(inv[i].total - inv[i].paid)

\* As long as no invoice is edited, a PAID invoice owes nothing, and a PARTIALLY_PAID one has
\* been paid something and at most its total: one that is overpaid is PAID.  At exactly the
\* total it may be either.
StatusTellsBalance ==
  \A i \in Invoice :
    /\ inv[i].status = "PAID" => inv[i].balance = 0
    /\ inv[i].status = "PARTIALLY_PAID" => inv[i].paid \in 1 .. inv[i].total

(***************************************************************************)
(* Properties of requests that do not overlap on a document; interleavings *)
(* on one break them.                                                      *)
(***************************************************************************)

\* No two handlers are at work on one invoice or on one note.
Apart ==
  \A r, s \in Request : r # s =>
    /\ req[r].invoice # Null => req[r].invoice # req[s].invoice
    /\ req[r].note # Null => req[r].note # req[s].note

ApartSpec == Init /\ [][Next /\ Apart']_vars

\* Moreover no handler dies between marking a note and crediting its invoice.
OrderlySpec ==
  Init /\ [][/\ Next /\ Apart'
             /\ ~\E r \in Request : req[r].at \in CreditStep /\ Fail(r)]_vars

\* Every payment recorded on an invoice and every credit note taken off it is in
\* paidAmount, once ("auto updates paidAmount, balanceDue and status").
PaidIsComplete ==
  \A i \in Invoice : inv[i].paid = received[i] + credited[i]

(***************************************************************************)
(* The ledger that the endpoints describe: each request takes effect at    *)
(* once.  A note whose apply handler has marked it, but not yet reached its *)
(* invoice, still counts as ISSUED.                                        *)
(***************************************************************************)
BeingApplied(c) ==
  \E r \in Request : req[r].note = c /\ req[r].at \in {"fetchInvoice", "creditInvoice"}

Atomic == INSTANCE AtomicLedger WITH
  note <- [c \in Note |-> IF BeingApplied(c) THEN [note[c] EXCEPT !.status = "ISSUED"]
                                            ELSE note[c]]

AtomicSpec == Atomic!Spec

(***************************************************************************)
(* Liveness.                                                               *)
(***************************************************************************)

\* When handlers do not fail, a linked note that became APPLIED reaches its invoice,
\* also when the invoice is paid, cancelled or deleted in between.
AppliedReachesInvoice ==
  \A c \in Note :
    (note[c].status = "APPLIED" /\ note[c].invoice # Null) ~> (applied[c] > 0)

=============================================================================
