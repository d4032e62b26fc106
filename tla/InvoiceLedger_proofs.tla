------------------------ MODULE InvoiceLedger_proofs ------------------------
(***************************************************************************)
(* Proofs about InvoiceLedger for every number of invoices, notes and      *)
(* requests: its types, the documents it links, the money it shows under   *)
(* any interleaving and failure, its balances when nobody edits an         *)
(* invoice, and, when requests share no document, that it is complete and  *)
(* implements AtomicLedger.                                                *)
(***************************************************************************)
EXTENDS InvoiceLedger, TLAPS

-----------------------------------------------------------------------------
(* Typing of the building blocks                                           *)

\* The row of an invoice that does not exist yet is typed.
LEMMA NoInvoiceType == NoInvoice \in InvoiceRow
BY DEF NoInvoice, InvoiceRow, InvoiceStatus

\* The row of a credit note that does not exist yet is typed.
LEMMA NoNoteType == NoNote \in NoteRow
BY DEF NoNote, NoteRow, NoteStatus

\* NonNegative maps integers to naturals and does nothing to naturals.
LEMMA NonNegativeNat ==
  \A x \in Int : NonNegative(x) \in Nat /\ (x \in Nat => NonNegative(x) = x)
BY DEF NonNegative

\* A payment or credit leaves a status of the enumeration behind.
LEMMA StatusAfterType ==
  ASSUME NEW balance \in Int, NEW paid \in Int, NEW old \in InvoiceStatus
  PROVE  StatusAfter(balance, paid, old) \in InvoiceStatus
BY DEF StatusAfter, InvoiceStatus

\* A payment leaves PAID where nothing is owed and PARTIALLY_PAID where something is; at
\* exactly the total, onto a sum that was paid before, either.
LEMMA PaymentStatuses ==
  ASSUME NEW balance \in Int, NEW before \in Nat, NEW a \in Amount, NEW old,
         NEW status \in StatusesAfterPayment(balance, before, a, old)
  PROVE  /\ status \in {"PAID", "PARTIALLY_PAID"}
         /\ status = "PAID" => balance <= 0
         /\ status = "PARTIALLY_PAID" => balance > 0 \/ (balance = 0 /\ before > 0)
BY LedgerAssumption DEF StatusesAfterPayment, StatusAfter

\* What a handler carries at each of its statements.
LEMMA HandlerCarries ==
  ASSUME TypeOK, NEW r \in Request
  PROVE  /\ req[r].snap \in InvoiceRow
         /\ req[r].at \in InvoiceStep \cup CreditStep => req[r].invoice \in Invoice
         /\ req[r].at \in NoteStep \cup CreditStep => req[r].note \in Note
         /\ req[r].at \in NoteStep => req[r].invoice \in Invoice \cup {Null}
BY NoInvoiceType DEF TypeOK, Handler, Idle, InvoiceStep, NoteStep, CreditStep

\* Ending a handler keeps the handlers typed.
LEMMA FinishType ==
  ASSUME TypeOK, NEW r \in Request, Finish(r)
  PROVE  req' \in [Request -> Handler]
BY DEF TypeOK, Finish, Handler

\* A statement that writes a typed row and ends its handler keeps both typed.
LEMMA WriteInvoiceType ==
  ASSUME TypeOK, NEW r \in Request, NEW row \in InvoiceRow, WriteInvoice(r, row)
  PROVE  inv' \in [Invoice -> InvoiceRow] /\ req' \in [Request -> Handler]
BY FinishType DEF WriteInvoice, TypeOK

\* Reading an invoice starts a typed handler.
LEMMA ReadInvoiceType ==
  ASSUME TypeOK, NEW r \in Request, NEW i \in Invoice, NEW step \in InvoiceStep,
         NEW snap \in InvoiceRow, ReadInvoice(r, i, step, snap)
  PROVE  TypeOK'
<1>1. [at |-> step, invoice |-> i, note |-> Null, snap |-> snap] \in Handler
  BY DEF Handler
<1>2. QED
  BY <1>1 DEF TypeOK, ReadInvoice, tables, history

\* Reading a credit note starts a typed handler.
LEMMA ReadNoteType ==
  ASSUME TypeOK, NEW r \in Request, NEW c \in Note, NEW step \in NoteStep,
         ReadNote(r, c, step)
  PROVE  TypeOK'
<1>1. note[c].invoice \in Invoice \cup {Null}
  BY DEF TypeOK, NoteRow
<1>2. [at |-> step, invoice |-> note[c].invoice, note |-> c, snap |-> NoInvoice] \in Handler
  BY <1>1 DEF Handler
<1>3. QED
  BY <1>2 DEF TypeOK, ReadNote, tables, history

-----------------------------------------------------------------------------
(* Type correctness                                                        *)

\* The statements that insert a row keep the state typed.
LEMMA InsertType == TypeOK /\ Insert => TypeOK'
<1> SUFFICES ASSUME TypeOK, Insert PROVE TypeOK'
  OBVIOUS
<1> USE LedgerAssumption
<1>1. ASSUME NEW i \in Invoice, NEW t \in Total, CreateInvoice(i, t)
      PROVE  TypeOK'
  <2>1. [NoInvoice EXCEPT !.status = "DRAFT", !.items = t, !.total = t, !.balance = t]
          \in InvoiceRow
    BY DEF NoInvoice, InvoiceRow, InvoiceStatus
  <2>2. QED
    BY <1>1, <2>1 DEF TypeOK, CreateInvoice, history
<1>2. ASSUME NEW i \in Invoice, NEW a \in Amount, CreatePayment(i, a)
      PROVE  TypeOK'
  BY <1>2 DEF TypeOK, CreatePayment, history
<1>3. ASSUME NEW c \in Note, NEW i \in Invoice \cup {Null}, NEW a \in Amount,
             CreateNote(c, i, a)
      PROVE  TypeOK'
  <2>1. [status |-> "DRAFT", invoice |-> i, total |-> a] \in NoteRow
    BY DEF NoteRow, NoteStatus
  <2>2. QED
    BY <1>3, <2>1 DEF TypeOK, CreateNote, history
<1>4. QED
  BY <1>1, <1>2, <1>3 DEF Insert

\* The first statement of every handler keeps the state typed.
LEMMA BeginType ==
  ASSUME TypeOK, NEW r \in Request, Begin(r)
  PROVE  TypeOK'
<1>1. ASSUME NEW i \in Invoice,
             \/ UpdateRead(r, i) \/ IssueRead(r, i) \/ MarkSentRead(r, i)
             \/ CancelRead(r, i) \/ RemoveRead(r, i) \/ RecordPaymentRead(r, i)
      PROVE  TypeOK'
  <2>1. inv[i] \in InvoiceRow /\ NoInvoice \in InvoiceRow
    BY NoInvoiceType DEF TypeOK
  <2>2. PICK step \in InvoiceStep, snap \in InvoiceRow : ReadInvoice(r, i, step, snap)
    BY <1>1, <2>1 DEF UpdateRead, IssueRead, MarkSentRead, CancelRead, RemoveRead,
                      RecordPaymentRead, InvoiceStep
  <2>3. QED
    BY <2>2, ReadInvoiceType
<1>2. ASSUME NEW c \in Note, IssueNoteRead(r, c) \/ ApplyNoteRead(r, c)
      PROVE  TypeOK'
  BY <1>2, ReadNoteType DEF IssueNoteRead, ApplyNoteRead, NoteStep
<1>3. QED
  BY <1>1, <1>2 DEF Begin

\* A handler that only sets a status keeps the state typed.
LEMMA SetStatusType ==
  ASSUME TypeOK, NEW r \in Request, NEW step \in InvoiceStep, NEW status \in InvoiceStatus,
         SetStatus(r, step, status)
  PROVE  TypeOK'
<1>1. inv[req[r].invoice] \in InvoiceRow
  BY HandlerCarries DEF SetStatus, At, TypeOK
<1>2. [inv[req[r].invoice] EXCEPT !.status = status] \in InvoiceRow
  BY <1>1 DEF InvoiceRow
<1>3. QED
  BY <1>2, WriteInvoiceType DEF TypeOK, SetStatus, history

\* The later statements of every handler keep the state typed.
LEMMA ResumeType ==
  ASSUME TypeOK, NEW r \in Request, Resume(r)
  PROVE  TypeOK'
<1> USE LedgerAssumption
<1> DEFINE i == req[r].invoice
           c == req[r].note
           snap == req[r].snap
<1>0. snap \in InvoiceRow
  BY HandlerCarries
<1>1. CASE UpdateWrite(r)
  <2>1. inv[i] \in InvoiceRow
    BY <1>1, HandlerCarries DEF UpdateWrite, At, InvoiceStep, TypeOK
  <2>2. \A t \in Total :
          [inv[i] EXCEPT !.items = t, !.total = t, !.balance = t] \in InvoiceRow
    BY <2>1 DEF InvoiceRow
  <2>3. [inv[i] EXCEPT !.total = snap.items, !.balance = snap.items] \in InvoiceRow
    BY <1>0, <2>1 DEF InvoiceRow
  <2>4. PICK row \in InvoiceRow : WriteInvoice(r, row)
    BY <1>1, <2>2, <2>3 DEF UpdateWrite
  <2>5. QED
    BY <1>1, <2>4, WriteInvoiceType DEF UpdateWrite, TypeOK, history
<1>2. CASE IssueWrite(r)
  BY <1>2, SetStatusType DEF IssueWrite, InvoiceStep, InvoiceStatus
<1>3. CASE MarkSentWrite(r)
  BY <1>3, SetStatusType DEF MarkSentWrite, InvoiceStep, InvoiceStatus
<1>4. CASE CancelWrite(r)
  BY <1>4, SetStatusType DEF CancelWrite, InvoiceStep, InvoiceStatus
<1>5. CASE RemoveWrite(r)
  <2>1. inv[i] \in InvoiceRow
    BY <1>5, HandlerCarries DEF RemoveWrite, At, InvoiceStep, TypeOK
  <2>2. [inv[i] EXCEPT !.deleted = TRUE] \in InvoiceRow
    BY <2>1 DEF InvoiceRow
  <2>3. QED
    BY <1>5, <2>2, WriteInvoiceType DEF RemoveWrite, TypeOK, history
<1>6. ASSUME NEW a \in Amount, RecordPaymentWrite(r, a)
      PROVE  TypeOK'
  <2> DEFINE newPaid == snap.paid + a
             newBalance == snap.total - newPaid
  <2>1. i \in Invoice /\ inv[i] \in InvoiceRow
    BY <1>6, HandlerCarries DEF RecordPaymentWrite, At, InvoiceStep, TypeOK
  <2>2. /\ newPaid \in Nat
        /\ newBalance \in Int
        /\ snap.status \in InvoiceStatus
    BY <1>0 DEF InvoiceRow
  <2> PICK status \in StatusesAfterPayment(newBalance, snap.paid, a, snap.status) :
        WriteInvoice(r, [inv[i] EXCEPT !.paid = newPaid, !.balance = NonNegative(newBalance),
                                       !.status = status])
    BY <1>6 DEF RecordPaymentWrite
  <2>3. NonNegative(newBalance) \in Nat /\ status \in InvoiceStatus
    <3>1. snap.paid \in Nat
      BY <1>0 DEF InvoiceRow
    <3>q. QED BY <2>2, <3>1, NonNegativeNat, PaymentStatuses DEF InvoiceStatus
  <2>4. [inv[i] EXCEPT !.paid = newPaid, !.balance = NonNegative(newBalance),
                       !.status = status]
          \in InvoiceRow
    BY <2>1, <2>2, <2>3 DEF InvoiceRow
  <2>5. inv' \in [Invoice -> InvoiceRow] /\ req' \in [Request -> Handler]
    BY <2>4, WriteInvoiceType
  <2>6. received' \in [Invoice -> Nat]
    <3>1. received' = [received EXCEPT ![i] = received[i] + a]
      BY <1>6 DEF RecordPaymentWrite
    <3>2. received[i] + a \in Nat
      BY <2>1 DEF TypeOK
    <3>3. QED
      BY <3>1, <3>2 DEF TypeOK
  <2>7. QED
    BY <1>6, <2>5, <2>6 DEF RecordPaymentWrite, TypeOK, history
<1>7. CASE IssueNoteWrite(r)
  <2>1. note' \in [Note -> NoteRow]
    BY <1>7 DEF IssueNoteWrite, TypeOK, NoteRow, NoteStatus
  <2>2. QED
    BY <1>7, <2>1, FinishType DEF IssueNoteWrite, TypeOK, history
<1>8. CASE ApplyNoteMark(r)
  <2>1. note' \in [Note -> NoteRow]
    BY <1>8 DEF ApplyNoteMark, TypeOK, NoteRow, NoteStatus
  <2>2. req[r] \in [at : NoteStep, invoice : Invoice \cup {Null}, note : Note,
                    snap : {NoInvoice}]
    BY <1>8 DEF ApplyNoteMark, At, TypeOK, Handler, Idle, InvoiceStep, CreditStep, NoteStep
  <2>3. req' \in [Request -> Handler]
    <3>1. CASE i = Null
      BY <1>8, <3>1, FinishType DEF ApplyNoteMark
    <3>2. CASE i # Null
      <4>1. [req[r] EXCEPT !.at = "fetchInvoice"] \in Handler
        BY <2>2, <3>2, NoInvoiceType DEF Handler, CreditStep
      <4>2. QED
        BY <1>8, <3>2, <4>1 DEF ApplyNoteMark, TypeOK
    <3>3. QED
      BY <3>1, <3>2
  <2>4. QED
    BY <1>8, <2>1, <2>3 DEF ApplyNoteMark, TypeOK, history
<1>9. CASE ApplyNoteFetch(r)
  <2>1. req[r] \in [at : CreditStep, invoice : Invoice, note : Note, snap : InvoiceRow]
    BY <1>9 DEF ApplyNoteFetch, At, TypeOK, Handler, Idle, InvoiceStep, NoteStep, CreditStep
  <2>2. [req[r] EXCEPT !.at = "creditInvoice", !.snap = inv[i]] \in Handler
    BY <2>1 DEF TypeOK, Handler, CreditStep
  <2>3. QED
    BY <1>9, <2>2 DEF ApplyNoteFetch, TypeOK, tables, history
<1>10. CASE ApplyNoteCredit(r)
  <2> DEFINE newBalance == NonNegative(snap.balance - note[c].total)
             newPaid == snap.paid + note[c].total
  <2>1. i \in Invoice /\ inv[i] \in InvoiceRow /\ c \in Note
    BY <1>10, HandlerCarries DEF ApplyNoteCredit, At, CreditStep, TypeOK
  <2>2. note[c].total \in Nat
    BY <2>1 DEF TypeOK, NoteRow
  <2>3. /\ newPaid \in Nat
        /\ snap.balance - note[c].total \in Int
        /\ snap.status \in InvoiceStatus
    BY <1>0, <2>2 DEF InvoiceRow
  <2>4. /\ newBalance \in Nat
        /\ StatusAfter(newBalance, newPaid, snap.status) \in InvoiceStatus
    BY <2>3, NonNegativeNat, StatusAfterType
  <2>5. [inv[i] EXCEPT !.balance = newBalance, !.paid = newPaid,
                       !.status = StatusAfter(newBalance, newPaid, snap.status)]
          \in InvoiceRow
    BY <2>1, <2>3, <2>4 DEF InvoiceRow
  <2>6. inv' \in [Invoice -> InvoiceRow] /\ req' \in [Request -> Handler]
    BY <1>10, <2>5, WriteInvoiceType DEF ApplyNoteCredit
  <2>7. credited' \in [Invoice -> Nat] /\ applied' \in [Note -> Nat]
    <3> DEFINE n == IF applied[c] = 0 THEN credited[i] + note[c].total ELSE credited[i]
    <3>1. /\ credited' = [credited EXCEPT ![i] = n]
          /\ applied' = [applied EXCEPT ![c] = applied[c] + 1]
      BY <1>10 DEF ApplyNoteCredit, CountNote
    <3>2. n \in Nat /\ applied[c] + 1 \in Nat
      BY <2>1, <2>2 DEF TypeOK
    <3> HIDE DEF n
    <3>3. QED
      BY <3>1, <3>2 DEF TypeOK
  <2>8. QED
    BY <1>10, <2>6, <2>7 DEF ApplyNoteCredit, TypeOK
<1>11. QED
  BY <1>1, <1>2, <1>3, <1>4, <1>5, <1>6, <1>7, <1>8, <1>9, <1>10 DEF Resume

\* Every reachable state of the ledger is typed: amounts stay naturals (the clamps in
\* recordPayment and apply see to it) and a handler always carries the documents it needs.
THEOREM TypeCorrect == Spec => []TypeOK
<1>1. Init => TypeOK
  BY NoInvoiceType, NoNoteType DEF Init, TypeOK, Handler
<1>2. TypeOK /\ [Next]_vars => TypeOK'
  <2> SUFFICES ASSUME TypeOK, [Next]_vars PROVE TypeOK'
    OBVIOUS
  <2>1. CASE Insert
    BY <2>1, InsertType
  <2>2. ASSUME NEW r \in Request, Begin(r)
        PROVE  TypeOK'
    BY <2>2, BeginType
  <2>3. ASSUME NEW r \in Request, Resume(r)
        PROVE  TypeOK'
    BY <2>3, ResumeType
  <2>4. ASSUME NEW r \in Request, Fail(r)
        PROVE  TypeOK'
    BY <2>4, FinishType DEF Fail, tables, history, TypeOK
  <2>5. CASE UNCHANGED vars
    BY <2>5 DEF vars, TypeOK
  <2>6. QED
    BY <2>1, <2>2, <2>3, <2>4, <2>5 DEF Next
<1>3. QED
  BY <1>1, <1>2, PTL DEF Spec

-----------------------------------------------------------------------------
(* Documents that are being worked on exist                                *)

\* Existing notes are worth something and their invoice exists; the documents a handler
\* carries exist, and it carries the invoice its note names.
Linked ==
  /\ \A c \in Note : note[c].status # "ABSENT" =>
       /\ note[c].total > 0
       /\ note[c].invoice \in Invoice => Exists(note[c].invoice)
  /\ \A r \in Request :
       /\ req[r].invoice \in Invoice => Exists(req[r].invoice)
       /\ req[r].note \in Note =>
            /\ note[req[r].note].status # "ABSENT"
            /\ note[req[r].note].invoice = req[r].invoice

\* Once something has been paid, the status after a payment or a credit is one of two.
LEMMA StatusAfterPaid ==
  ASSUME NEW balance \in Int, NEW paid \in Int, NEW old, paid > 0
  PROVE  StatusAfter(balance, paid, old) = IF balance <= 0 THEN "PAID" ELSE "PARTIALLY_PAID"
BY DEF StatusAfter

\* A step preserves Linked when no row disappears or loses its link, and every handler
\* either carries what it carried or documents that exist.
LEMMA LinkedStable ==
  ASSUME TypeOK, TypeOK', Linked,
         \A i \in Invoice : Exists(i) => inv'[i].status # "ABSENT",
         \A c \in Note :
           \/ note'[c] = note[c]
           \/ /\ note[c].status # "ABSENT"
              /\ note'[c].status # "ABSENT"
              /\ note'[c].invoice = note[c].invoice
              /\ note'[c].total = note[c].total
           \/ /\ note[c].status = "ABSENT"
              /\ note'[c].total > 0
              /\ note'[c].invoice \in Invoice => Exists(note'[c].invoice),
         \A r \in Request :
           \/ req'[r].invoice = req[r].invoice /\ req'[r].note = req[r].note
           \/ req'[r] = Idle
           \/ /\ req'[r].invoice \in Invoice => Exists(req'[r].invoice)
              /\ req'[r].note \in Note =>
                   /\ note[req'[r].note].status # "ABSENT"
                   /\ note[req'[r].note].invoice = req'[r].invoice
  PROVE  Linked'
<1> USE LedgerAssumption
<1>1. ASSUME NEW c \in Note, note'[c].status # "ABSENT"
      PROVE  /\ note'[c].total > 0
             /\ note'[c].invoice \in Invoice => inv'[note'[c].invoice].status # "ABSENT"
  <2>1. note[c].status # "ABSENT" =>
          /\ note[c].total > 0
          /\ note[c].invoice \in Invoice => Exists(note[c].invoice)
    BY DEF Linked
  <2>2. QED
    BY <1>1, <2>1
<1>2. ASSUME NEW r \in Request
      PROVE  /\ req'[r].invoice \in Invoice => inv'[req'[r].invoice].status # "ABSENT"
             /\ req'[r].note \in Note =>
                  /\ note'[req'[r].note].status # "ABSENT"
                  /\ note'[req'[r].note].invoice = req'[r].invoice
  <2>1. req[r].invoice \in Invoice => Exists(req[r].invoice)
    BY DEF Linked
  <2>2. req[r].note \in Note => /\ note[req[r].note].status # "ABSENT"
                                /\ note[req[r].note].invoice = req[r].invoice
    BY DEF Linked
  <2>3. Idle.invoice \notin Invoice /\ Idle.note \notin Note
    BY DEF Idle
  <2>4. QED
    BY <2>1, <2>2, <2>3
<1>3. QED
  BY <1>1, <1>2 DEF Linked, Exists

\* What a handler that writes an invoice row and ends leaves alone.
LEMMA WriteInvoiceFrame ==
  ASSUME TypeOK, NEW r \in Request, NEW row, WriteInvoice(r, row),
         req[r].invoice \in Invoice
  PROVE  /\ inv'[req[r].invoice] = row
         /\ \A i \in Invoice : i # req[r].invoice => inv'[i] = inv[i]
         /\ \A q \in Request : q # r => req'[q] = req[q]
         /\ req'[r] = Idle
BY DEF TypeOK, WriteInvoice, Finish

\* What the first statement of a handler does: it changes no table, and the handler
\* carries an existing invoice, with its row where the handler computes from it, or an
\* existing note.
LEMMA BeginEffect ==
  ASSUME TypeOK, NEW r \in Request, Begin(r)
  PROVE  /\ UNCHANGED <<tables, history>>
         /\ \A q \in Request : q # r => req'[q] = req[q]
         /\ req'[r].at \in Ops
         /\ \/ \E i \in Invoice :
                 /\ Exists(i)
                 /\ req'[r].at \in InvoiceStep
                 /\ req'[r].invoice = i
                 /\ req'[r].note = Null
                 /\ req'[r].at = "recordPayment" => req'[r].snap = inv[i]
            \/ \E c \in Note :
                 /\ note[c].status # "ABSENT"
                 /\ req'[r].at \in NoteStep
                 /\ req'[r].invoice = note[c].invoice
                 /\ req'[r].note = c
<1>1. ASSUME NEW i \in Invoice, NEW step \in InvoiceStep, NEW snap,
             step = "recordPayment" => snap = inv[i],
             ReadInvoice(r, i, step, snap)
      PROVE  /\ UNCHANGED <<tables, history>>
             /\ \A q \in Request : q # r => req'[q] = req[q]
             /\ req'[r].at \in Ops
             /\ Exists(i)
             /\ req'[r].at \in InvoiceStep
             /\ req'[r].invoice = i
             /\ req'[r].note = Null
             /\ req'[r].at = "recordPayment" => req'[r].snap = inv[i]
  BY <1>1 DEF ReadInvoice, Found, TypeOK
<1>2. ASSUME NEW c \in Note, NEW step \in NoteStep, ReadNote(r, c, step)
      PROVE  /\ UNCHANGED <<tables, history>>
             /\ \A q \in Request : q # r => req'[q] = req[q]
             /\ req'[r].at \in Ops
             /\ req'[r].at \in NoteStep
             /\ req'[r].invoice = note[c].invoice
             /\ req'[r].note = c
  BY <1>2 DEF ReadNote, TypeOK
<1>3. ASSUME NEW i \in Invoice,
             \/ UpdateRead(r, i) \/ IssueRead(r, i) \/ MarkSentRead(r, i)
             \/ CancelRead(r, i) \/ RemoveRead(r, i) \/ RecordPaymentRead(r, i)
      PROVE  \E step \in InvoiceStep, snap \in InvoiceRow :
               /\ step = "recordPayment" => snap = inv[i]
               /\ ReadInvoice(r, i, step, snap)
  <2>1. inv[i] \in InvoiceRow /\ NoInvoice \in InvoiceRow
    BY NoInvoiceType DEF TypeOK
  <2>2. QED
    BY <1>3, <2>1 DEF UpdateRead, IssueRead, MarkSentRead, CancelRead, RemoveRead,
                      RecordPaymentRead, InvoiceStep
<1>4. ASSUME NEW c \in Note, IssueNoteRead(r, c) \/ ApplyNoteRead(r, c)
      PROVE  note[c].status # "ABSENT" /\ \E step \in NoteStep : ReadNote(r, c, step)
  BY <1>4 DEF IssueNoteRead, ApplyNoteRead, NoteStep
<1>5. CASE \E i \in Invoice :
             \/ UpdateRead(r, i) \/ IssueRead(r, i) \/ MarkSentRead(r, i)
             \/ CancelRead(r, i) \/ RemoveRead(r, i) \/ RecordPaymentRead(r, i)
  <2>1. PICK i \in Invoice, step \in InvoiceStep, snap \in InvoiceRow :
               /\ step = "recordPayment" => snap = inv[i]
               /\ ReadInvoice(r, i, step, snap)
    BY <1>3, <1>5
  <2>2. QED
    BY <1>1, <2>1
<1>6. CASE \E c \in Note : IssueNoteRead(r, c) \/ ApplyNoteRead(r, c)
  <2>1. PICK c \in Note, step \in NoteStep :
               note[c].status # "ABSENT" /\ ReadNote(r, c, step)
    BY <1>4, <1>6
  <2>2. QED
    BY <1>2, <2>1
<1>7. QED
  BY <1>5, <1>6 DEF Begin

\* The later statements preserve Linked.
LEMMA ResumeLinked ==
  ASSUME TypeOK, TypeOK', Linked, NEW r \in Request, Resume(r)
  PROVE  Linked'
<1> USE LedgerAssumption
<1> DEFINE i == req[r].invoice
           c == req[r].note
           snap == req[r].snap
<1>1. ASSUME NEW row, WriteInvoice(r, row), row.status # "ABSENT", i \in Invoice,
             note' = note
      PROVE  Linked'
  <2>1. \A j \in Invoice : Exists(j) => inv'[j].status # "ABSENT"
    BY <1>1, WriteInvoiceFrame DEF Exists
  <2>2. \A q \in Request : req'[q] = req[q] \/ req'[q] = Idle
    BY <1>1, WriteInvoiceFrame
  <2>3. QED
    BY <1>1, <2>1, <2>2, LinkedStable
<1>2. i \in Invoice => Exists(i) /\ inv[i] \in InvoiceRow
  BY DEF Linked, TypeOK
<1>3. snap \in InvoiceRow
  BY HandlerCarries
<1>4. CASE UpdateWrite(r)
  <2>1. i \in Invoice
    BY <1>4, HandlerCarries DEF UpdateWrite, At, InvoiceStep
  <2>2. \A t : [inv[i] EXCEPT !.items = t, !.total = t, !.balance = t].status # "ABSENT"
    BY <1>2, <2>1 DEF InvoiceRow, Exists
  <2>3. [inv[i] EXCEPT !.total = snap.items, !.balance = snap.items].status # "ABSENT"
    BY <1>2, <2>1 DEF InvoiceRow, Exists
  <2>4. PICK row : WriteInvoice(r, row) /\ row.status # "ABSENT"
    BY <1>4, <2>2, <2>3 DEF UpdateWrite
  <2>5. QED
    BY <1>1, <1>4, <2>1, <2>4 DEF UpdateWrite
<1>5. CASE IssueWrite(r) \/ MarkSentWrite(r) \/ CancelWrite(r)
  <2>1. i \in Invoice
    BY <1>5, HandlerCarries DEF IssueWrite, MarkSentWrite, CancelWrite, SetStatus, At,
                                InvoiceStep
  <2>2. PICK status \in {"ISSUED", "SENT", "CANCELLED"} :
          WriteInvoice(r, [inv[i] EXCEPT !.status = status])
    BY <1>5 DEF IssueWrite, MarkSentWrite, CancelWrite, SetStatus
  <2>3. [inv[i] EXCEPT !.status = status].status = status
    BY <1>2, <2>1 DEF InvoiceRow
  <2>4. QED
    BY <1>1, <1>5, <2>1, <2>2, <2>3 DEF IssueWrite, MarkSentWrite, CancelWrite, SetStatus
<1>6. CASE RemoveWrite(r)
  <2>1. i \in Invoice
    BY <1>6, HandlerCarries DEF RemoveWrite, At, InvoiceStep
  <2>2. [inv[i] EXCEPT !.deleted = TRUE].status # "ABSENT"
    BY <1>2, <2>1 DEF InvoiceRow, Exists
  <2>3. QED
    BY <1>1, <1>6, <2>1, <2>2 DEF RemoveWrite
<1>7. ASSUME NEW a \in Amount, RecordPaymentWrite(r, a)
      PROVE  Linked'
  <2>1. i \in Invoice
    BY <1>7, HandlerCarries DEF RecordPaymentWrite, At, InvoiceStep
  <2> DEFINE balance == snap.total - (snap.paid + a)
  <2>2. snap.paid \in Nat /\ balance \in Int
    BY <1>3 DEF InvoiceRow
  <2>3. PICK status \in StatusesAfterPayment(balance, snap.paid, a, snap.status) :
          WriteInvoice(r, [inv[i] EXCEPT !.paid = snap.paid + a,
                                         !.balance = NonNegative(balance), !.status = status])
    BY <1>7 DEF RecordPaymentWrite
  <2> DEFINE row == [inv[i] EXCEPT !.paid = snap.paid + a,
                                   !.balance = NonNegative(balance), !.status = status]
  <2>4. status # "ABSENT"
    BY <2>2, PaymentStatuses
  <2>5. row.status = status
    BY <1>2, <2>1 DEF InvoiceRow
  <2>6. WriteInvoice(r, row) /\ note' = note
    BY <1>7, <2>3 DEF RecordPaymentWrite
  <2> HIDE DEF row
  <2>7. QED
    BY <1>1, <2>1, <2>4, <2>5, <2>6
<1>8. CASE IssueNoteWrite(r)
  <2>1. c \in Note /\ note[c].status # "ABSENT"
    BY <1>8, HandlerCarries DEF IssueNoteWrite, At, NoteStep, Linked
  <2>2. \A d \in Note :
          \/ note'[d] = note[d]
          \/ /\ d = c
             /\ note'[d].status # "ABSENT"
             /\ note'[d].invoice = note[d].invoice
             /\ note'[d].total = note[d].total
    <3>1. note' = [note EXCEPT ![c] = [note[c] EXCEPT !.status = "ISSUED"]]
      BY <1>8 DEF IssueNoteWrite
    <3>2. note[c] \in NoteRow /\ note \in [Note -> NoteRow]
      BY <2>1 DEF TypeOK
    <3>3. note'[c] = [note[c] EXCEPT !.status = "ISSUED"]
      BY <2>1, <3>1, <3>2
    <3>4. /\ note'[c].status # "ABSENT"
          /\ note'[c].invoice = note[c].invoice
          /\ note'[c].total = note[c].total
      BY <3>2, <3>3 DEF NoteRow
    <3>5. \A d \in Note : d # c => note'[d] = note[d]
      BY <3>1, <3>2
    <3>6. QED
      BY <3>4, <3>5
  <2>3. \A q \in Request : req'[q] = req[q] \/ req'[q] = Idle
    BY <1>8 DEF IssueNoteWrite, Finish, TypeOK
  <2>4. inv' = inv
    BY <1>8 DEF IssueNoteWrite
  <2>5. QED
    BY <2>1, <2>2, <2>3, <2>4, LinkedStable DEF Exists
<1>9. CASE ApplyNoteMark(r)
  <2>1. c \in Note /\ note[c].status # "ABSENT"
    BY <1>9, HandlerCarries DEF ApplyNoteMark, At, NoteStep, Linked
  <2>2. \A d \in Note :
          \/ note'[d] = note[d]
          \/ /\ d = c
             /\ note'[d].status # "ABSENT"
             /\ note'[d].invoice = note[d].invoice
             /\ note'[d].total = note[d].total
    <3>1. note' = [note EXCEPT ![c] = [note[c] EXCEPT !.status = "APPLIED"]]
      BY <1>9 DEF ApplyNoteMark
    <3>2. note[c] \in NoteRow /\ note \in [Note -> NoteRow]
      BY <2>1 DEF TypeOK
    <3>3. note'[c] = [note[c] EXCEPT !.status = "APPLIED"]
      BY <2>1, <3>1, <3>2
    <3>4. /\ note'[c].status # "ABSENT"
          /\ note'[c].invoice = note[c].invoice
          /\ note'[c].total = note[c].total
      BY <3>2, <3>3 DEF NoteRow
    <3>5. \A d \in Note : d # c => note'[d] = note[d]
      BY <3>1, <3>2
    <3>6. QED
      BY <3>4, <3>5
  <2>3. \A q \in Request :
          \/ req'[q].invoice = req[q].invoice /\ req'[q].note = req[q].note
          \/ req'[q] = Idle
    BY <1>9 DEF ApplyNoteMark, Finish, TypeOK, Handler, Idle
  <2>4. inv' = inv
    BY <1>9 DEF ApplyNoteMark
  <2>5. QED
    BY <2>1, <2>2, <2>3, <2>4, LinkedStable DEF Exists
<1>10. CASE ApplyNoteFetch(r)
  <2>1. \A q \in Request :
          req'[q].invoice = req[q].invoice /\ req'[q].note = req[q].note
    BY <1>10 DEF ApplyNoteFetch, TypeOK, Handler, Idle
  <2>2. inv' = inv /\ note' = note
    BY <1>10 DEF ApplyNoteFetch, tables
  <2>3. QED
    BY <2>1, <2>2, LinkedStable DEF Exists
<1>11. CASE ApplyNoteCredit(r)
  <2>1. i \in Invoice /\ c \in Note
    BY <1>11, HandlerCarries DEF ApplyNoteCredit, At, CreditStep
  <2>2. note[c].total \in Nat /\ note[c].total > 0
    BY <2>1 DEF Linked, TypeOK, NoteRow
  <2>3. /\ snap.paid + note[c].total \in Int /\ snap.paid + note[c].total > 0
        /\ NonNegative(snap.balance - note[c].total) \in Int
    BY <1>3, <2>2, NonNegativeNat DEF InvoiceRow
  <2> DEFINE balance == NonNegative(snap.balance - note[c].total)
             status == StatusAfter(balance, snap.paid + note[c].total, snap.status)
             row == [inv[i] EXCEPT !.balance = balance, !.paid = snap.paid + note[c].total,
                                   !.status = status]
  <2>4. status # "ABSENT"
    BY <2>3, StatusAfterPaid
  <2>5. row.status = status
    BY <1>2, <2>1 DEF InvoiceRow
  <2>6. QED
    BY <1>1, <1>11, <2>1, <2>4, <2>5 DEF ApplyNoteCredit
<1>12. QED
  BY <1>4, <1>5, <1>6, <1>7, <1>8, <1>9, <1>10, <1>11 DEF Resume

\* Documents never vanish under a handler: what a handler carries, and what a note links
\* to, exists in every reachable state.
THEOREM LinkedAlways == Spec => []Linked
<1> USE LedgerAssumption
<1>1. Init => Linked
  BY DEF Init, Linked, NoNote, Idle
<1>2. TypeOK /\ TypeOK' /\ Linked /\ [Next]_vars => Linked'
  <2> SUFFICES ASSUME TypeOK, TypeOK', Linked, [Next]_vars PROVE Linked'
    OBVIOUS
  <2>1. ASSUME NEW i \in Invoice, NEW t \in Total, CreateInvoice(i, t)
        PROVE  Linked'
    <3>1. \A j \in Invoice : Exists(j) => inv'[j].status # "ABSENT"
      BY <2>1 DEF CreateInvoice, Exists, TypeOK
    <3>2. note' = note /\ req' = req
      BY <2>1 DEF CreateInvoice
    <3>3. QED
      BY <3>1, <3>2, LinkedStable
  <2>2. ASSUME NEW i \in Invoice, NEW a \in Amount, CreatePayment(i, a)
        PROVE  Linked'
    BY <2>2, LinkedStable DEF CreatePayment, Exists
  <2>3. ASSUME NEW c \in Note, NEW i \in Invoice \cup {Null}, NEW a \in Amount,
               CreateNote(c, i, a)
        PROVE  Linked'
    <3>1. \A d \in Note :
            \/ note'[d] = note[d]
            \/ /\ note[d].status = "ABSENT"
               /\ note'[d].total > 0
               /\ note'[d].invoice \in Invoice => Exists(note'[d].invoice)
      <4>1. \A d \in Note : d # c => note'[d] = note[d]
        BY <2>3 DEF CreateNote, TypeOK
      <4>2. note'[c] = [status |-> "DRAFT", invoice |-> i, total |-> a]
        BY <2>3 DEF CreateNote, TypeOK
      <4>3. i \in Invoice => Exists(i)
        BY <2>3 DEF CreateNote
      <4>4. a > 0
        OBVIOUS
      <4>5. QED
        BY <2>3, <4>1, <4>2, <4>3, <4>4 DEF CreateNote
    <3>2. inv' = inv /\ req' = req
      BY <2>3 DEF CreateNote
    <3>3. QED
      BY <3>1, <3>2, LinkedStable DEF Exists
  <2>4. ASSUME NEW r \in Request, Begin(r)
        PROVE  Linked'
    <3>1. inv' = inv /\ note' = note
      BY <2>4, BeginEffect DEF tables
    <3>2. \A q \in Request :
            \/ req'[q] = req[q]
            \/ /\ req'[q].invoice \in Invoice => Exists(req'[q].invoice)
               /\ req'[q].note \in Note =>
                    /\ note[req'[q].note].status # "ABSENT"
                    /\ note[req'[q].note].invoice = req'[q].invoice
      BY <2>4, BeginEffect DEF Linked
    <3>3. QED
      BY <3>1, <3>2, LinkedStable DEF Exists
  <2>5. ASSUME NEW r \in Request, Resume(r)
        PROVE  Linked'
    BY <2>5, ResumeLinked
  <2>6. ASSUME NEW r \in Request, Fail(r)
        PROVE  Linked'
    <3>1. inv' = inv /\ note' = note
      BY <2>6 DEF Fail, tables
    <3>2. \A q \in Request : req'[q] = req[q] \/ req'[q] = Idle
      BY <2>6 DEF Fail, Finish, TypeOK
    <3>3. QED
      BY <3>1, <3>2, LinkedStable DEF Exists
  <2>7. CASE UNCHANGED vars
    BY <2>7, LinkedStable DEF vars, Exists
  <2>8. QED
    BY <2>1, <2>2, <2>3, <2>4, <2>5, <2>6, <2>7 DEF Next, Insert
<1>3. QED
  BY <1>1, <1>2, TypeCorrect, PTL DEF Spec

-----------------------------------------------------------------------------
(* How often a note is taken off its invoice                               *)

\* Each step takes an existing note off its invoice at most once more, and no note disappears
\* or moves to another invoice.
NotesGrow ==
  \A c \in Note :
    /\ \/ applied'[c] = applied[c]
       \/ applied'[c] = applied[c] + 1 /\ note[c].status # "ABSENT"
    /\ note[c].status # "ABSENT" =>
         note'[c].status # "ABSENT" /\ note'[c].invoice = note[c].invoice

LEMMA NextNotes ==
  ASSUME TypeOK, Linked, [Next]_vars
  PROVE  NotesGrow
<1>1. ASSUME applied' = applied, note' = note
      PROVE  NotesGrow
  BY <1>1 DEF NotesGrow
<1>3. ASSUME NEW i \in Invoice, NEW t \in Total, CreateInvoice(i, t)
      PROVE  NotesGrow
  BY <1>1, <1>3 DEF CreateInvoice, history
<1>4. ASSUME NEW i \in Invoice, NEW a \in Amount, CreatePayment(i, a)
      PROVE  NotesGrow
  BY <1>1, <1>4 DEF CreatePayment, history
<1>5. ASSUME NEW c \in Note, NEW i \in Invoice \cup {Null}, NEW a \in Amount,
             CreateNote(c, i, a)
      PROVE  NotesGrow
  <2>1. /\ applied' = applied /\ note[c].status = "ABSENT"
        /\ \A d \in Note : d # c => note'[d] = note[d]
    BY <1>5 DEF CreateNote, history, TypeOK
  <2>q. QED BY <2>1 DEF NotesGrow
<1>6. ASSUME NEW r \in Request, Begin(r)
      PROVE  NotesGrow
  BY <1>1, <1>6, BeginEffect DEF tables, history
<1>7. ASSUME NEW r \in Request,
             \/ UpdateWrite(r) \/ IssueWrite(r) \/ MarkSentWrite(r) \/ CancelWrite(r)
             \/ RemoveWrite(r) \/ ApplyNoteFetch(r)
             \/ \E a \in Amount : RecordPaymentWrite(r, a)
      PROVE  NotesGrow
  BY <1>1, <1>7 DEF UpdateWrite, IssueWrite, MarkSentWrite, CancelWrite, SetStatus, RemoveWrite,
                    ApplyNoteFetch, RecordPaymentWrite, tables, history
<1>8. ASSUME NEW r \in Request, IssueNoteWrite(r) \/ ApplyNoteMark(r)
      PROVE  NotesGrow
  <2> DEFINE c == req[r].note
  <2>1. c \in Note /\ applied' = applied
    BY <1>8, HandlerCarries DEF IssueNoteWrite, ApplyNoteMark, At, NoteStep, history
  <2>2. PICK status \in {"ISSUED", "APPLIED"} :
          note' = [note EXCEPT ![c] = [note[c] EXCEPT !.status = status]]
    BY <1>8 DEF IssueNoteWrite, ApplyNoteMark
  <2>3. /\ \A d \in Note : d # c => note'[d] = note[d]
        /\ note'[c].status = status /\ note'[c].invoice = note[c].invoice
    BY <2>1, <2>2 DEF TypeOK, NoteRow
  <2>q. QED BY <2>1, <2>3 DEF NotesGrow
<1>9. ASSUME NEW r \in Request, ApplyNoteCredit(r)
      PROVE  NotesGrow
  <2> DEFINE c == req[r].note
  <2>1. c \in Note /\ note[c].status # "ABSENT" /\ note' = note
    BY <1>9, HandlerCarries DEF ApplyNoteCredit, At, CreditStep, Linked
  <2>2. applied' = [applied EXCEPT ![c] = applied[c] + 1]
    BY <1>9 DEF ApplyNoteCredit, CountNote
  <2>q. QED BY <2>1, <2>2 DEF NotesGrow, TypeOK
<1>10. ASSUME NEW r \in Request, Fail(r)
       PROVE  NotesGrow
  BY <1>1, <1>10 DEF Fail, tables, history
<1>11. CASE UNCHANGED vars
  BY <1>1, <1>11 DEF vars
<1>q. QED BY <1>3, <1>4, <1>5, <1>6, <1>7, <1>8, <1>9, <1>10, <1>11 DEF Next, Insert, Resume

\* A note that does not exist has not been taken off anything.
Fresh == \A c \in Note : note[c].status = "ABSENT" => applied[c] = 0

LEMMA FreshAlways == Spec => []Fresh
<1>1. Init => Fresh
  BY DEF Init, Fresh
<1>2. TypeOK /\ Linked /\ Fresh /\ [Next]_vars => Fresh'
  <2> SUFFICES ASSUME TypeOK, Linked, Fresh, [Next]_vars PROVE Fresh'
    OBVIOUS
  <2>q. QED BY NextNotes DEF Fresh, NotesGrow
<1>q. QED BY <1>1, <1>2, TypeCorrect, LinkedAlways, PTL DEF Spec

\* NotesCountOnce(i) after a step.
OnceAfter(i) == \A c \in Note : note'[c].invoice = i => applied'[c] <= 1

\* Where each note counts once after a step, each counted once before it.
LEMMA CountedOnceBefore ==
  ASSUME TypeOK, TypeOK', Linked, Fresh, [Next]_vars, NEW i \in Invoice, OnceAfter(i)
  PROVE  NotesCountOnce(i)
<1> SUFFICES ASSUME NEW c \in Note, note[c].invoice = i PROVE applied[c] <= 1
  BY DEF NotesCountOnce
<1>1. NotesGrow
  BY NextNotes
<1>2. CASE note[c].status = "ABSENT"
  BY <1>2 DEF Fresh
<1>3. CASE note[c].status # "ABSENT"
  <2>1. applied'[c] <= 1
    BY <1>1, <1>3 DEF NotesGrow, OnceAfter
  <2>2. applied[c] <= applied'[c] /\ applied[c] \in Nat /\ applied'[c] \in Nat
    BY <1>1 DEF NotesGrow, TypeOK
  <2>q. QED BY <2>1, <2>2
<1>q. QED BY <1>2, <1>3

-----------------------------------------------------------------------------
(* Only a note that is applied twice invents money                         *)

\* What backs the paidAmount of an invoice.
Funds(i) == received[i] + credited[i]

\* The paidAmount a handler will compute from is backed as well: this is what makes
\* PaidNeverOverstated inductive, since that amount may be out of date when it is used.
BackedSnapshots ==
  \A r \in Request :
    req[r].at \in {"recordPayment", "creditInvoice"} /\ NotesCountOnce(req[r].invoice) =>
      req[r].snap.paid <= Funds(req[r].invoice)

Backed == PaidNeverOverstated /\ BackedSnapshots

\* A step preserves Backed when funds do not shrink, a paidAmount that changes is backed
\* by the new funds, and a handler that has read something new read a backed amount.
LEMMA BackedStable ==
  ASSUME TypeOK, TypeOK', Linked, Fresh, Backed, [Next]_vars,
         \A i \in Invoice : received[i] <= received'[i] /\ credited[i] <= credited'[i],
         \A i \in Invoice : \/ inv'[i].paid = inv[i].paid
                            \/ OnceAfter(i) => inv'[i].paid <= received'[i] + credited'[i],
         \A r \in Request :
           \/ req'[r] = req[r]
           \/ req'[r].at \notin {"recordPayment", "creditInvoice"}
           \/ /\ req'[r].invoice \in Invoice
              /\ req'[r].snap = inv[req'[r].invoice]
  PROVE  Backed'
<1>1. ASSUME NEW i \in Invoice, OnceAfter(i)
      PROVE  inv'[i].paid <= received'[i] + credited'[i]
  <2>1. /\ inv[i].paid \in Nat /\ inv'[i].paid \in Nat
        /\ received[i] \in Nat /\ received'[i] \in Nat
        /\ credited[i] \in Nat /\ credited'[i] \in Nat
    BY DEF TypeOK, InvoiceRow
  <2>2. inv[i].paid <= received[i] + credited[i]
    BY <1>1, CountedOnceBefore DEF Backed, PaidNeverOverstated
  <2>3. QED
    BY <1>1, <2>1, <2>2
<1>2. ASSUME NEW r \in Request, req'[r].at \in {"recordPayment", "creditInvoice"},
             OnceAfter(req'[r].invoice)
      PROVE  req'[r].snap.paid <= received'[req'[r].invoice] + credited'[req'[r].invoice]
  <2> DEFINE i == req'[r].invoice
  <2>1. i \in Invoice /\ req'[r].snap \in InvoiceRow
    BY <1>2 DEF TypeOK, Handler, Idle, InvoiceStep, NoteStep, CreditStep
  <2>2. /\ req'[r].snap.paid \in Nat
        /\ received[i] \in Nat /\ received'[i] \in Nat
        /\ credited[i] \in Nat /\ credited'[i] \in Nat
    BY <2>1 DEF TypeOK, InvoiceRow
  <2>3. req'[r].snap.paid <= received[i] + credited[i]
    <3>0. NotesCountOnce(i)
      <4>1. OnceAfter(i)
        BY <1>2
      <4> HIDE DEF i
      <4>q. QED BY <2>1, <4>1, CountedOnceBefore
    <3>1. CASE req'[r] = req[r]
      BY <1>2, <3>0, <3>1 DEF Backed, BackedSnapshots, Funds
    <3>2. CASE req'[r].snap = inv[i]
      BY <2>1, <3>0, <3>2 DEF Backed, PaidNeverOverstated
    <3>3. QED
      BY <1>2, <3>1, <3>2
  <2>4. received[i] <= received'[i] /\ credited[i] <= credited'[i]
    BY <2>1
  <2>5. QED
    BY <2>2, <2>3, <2>4
<1>3. QED
  BY <1>1, <1>2 DEF Backed, PaidNeverOverstated, BackedSnapshots, Funds, NotesCountOnce, OnceAfter

\* The later statements preserve Backed.
LEMMA ResumeBacked ==
  ASSUME TypeOK, TypeOK', Linked, Fresh, Backed, [Next]_vars, NEW r \in Request, Resume(r)
  PROVE  Backed'
<1> USE LedgerAssumption
<1> DEFINE i == req[r].invoice
           c == req[r].note
           snap == req[r].snap
<1>0. snap \in InvoiceRow
  BY HandlerCarries
<1>1. ASSUME NEW row, WriteInvoice(r, row), i \in Invoice, row.paid = inv[i].paid,
             received' = received, credited' = credited
      PROVE  Backed'
  <2>1. \A j \in Invoice : inv'[j].paid = inv[j].paid
    BY <1>1, WriteInvoiceFrame
  <2>2. \A q \in Request : req'[q] = req[q] \/ req'[q] = Idle
    BY <1>1, WriteInvoiceFrame
  <2>3. Idle.at \notin {"recordPayment", "creditInvoice"}
    BY DEF Idle
  <2>4. \A j \in Invoice : received[j] <= received'[j] /\ credited[j] <= credited'[j]
    BY <1>1 DEF TypeOK
  <2>5. \A q \in Request :
          \/ req'[q] = req[q]
          \/ req'[q].at \notin {"recordPayment", "creditInvoice"}
    BY <2>2, <2>3
  <2>6. QED
    BY <2>1, <2>4, <2>5, BackedStable
<1>2. CASE UpdateWrite(r)
  <2>1. i \in Invoice /\ inv[i] \in InvoiceRow
    BY <1>2, HandlerCarries DEF UpdateWrite, At, InvoiceStep, TypeOK
  <2>2. \A t : [inv[i] EXCEPT !.items = t, !.total = t, !.balance = t].paid = inv[i].paid
    BY <2>1 DEF InvoiceRow
  <2>3. [inv[i] EXCEPT !.total = snap.items, !.balance = snap.items].paid = inv[i].paid
    BY <2>1 DEF InvoiceRow
  <2>4. PICK row : WriteInvoice(r, row) /\ row.paid = inv[i].paid
    BY <1>2, <2>2, <2>3 DEF UpdateWrite
  <2>5. QED
    BY <1>1, <1>2, <2>1, <2>4 DEF UpdateWrite, history
<1>3. CASE IssueWrite(r) \/ MarkSentWrite(r) \/ CancelWrite(r)
  <2>1. i \in Invoice /\ inv[i] \in InvoiceRow
    BY <1>3, HandlerCarries DEF IssueWrite, MarkSentWrite, CancelWrite, SetStatus, At,
                                InvoiceStep, TypeOK
  <2>2. PICK status : WriteInvoice(r, [inv[i] EXCEPT !.status = status])
    BY <1>3 DEF IssueWrite, MarkSentWrite, CancelWrite, SetStatus
  <2>3. [inv[i] EXCEPT !.status = status].paid = inv[i].paid
    BY <2>1 DEF InvoiceRow
  <2>4. QED
    BY <1>1, <1>3, <2>1, <2>2, <2>3 DEF IssueWrite, MarkSentWrite, CancelWrite, SetStatus,
                                        history
<1>4. CASE RemoveWrite(r)
  <2>1. i \in Invoice /\ inv[i] \in InvoiceRow
    BY <1>4, HandlerCarries DEF RemoveWrite, At, InvoiceStep, TypeOK
  <2>2. [inv[i] EXCEPT !.deleted = TRUE].paid = inv[i].paid
    BY <2>1 DEF InvoiceRow
  <2>3. QED
    BY <1>1, <1>4, <2>1, <2>2 DEF RemoveWrite, history
<1>5. ASSUME NEW a \in Amount, RecordPaymentWrite(r, a)
      PROVE  Backed'
  <2>1. i \in Invoice /\ inv[i] \in InvoiceRow /\ At(r, "recordPayment")
    BY <1>5, HandlerCarries DEF RecordPaymentWrite, At, InvoiceStep, TypeOK
  <2> DEFINE newBalance == snap.total - (snap.paid + a)
  <2> PICK status : WriteInvoice(r, [inv[i] EXCEPT !.paid = snap.paid + a,
                                                   !.balance = NonNegative(newBalance),
                                                   !.status = status])
    BY <1>5 DEF RecordPaymentWrite
  <2> DEFINE row == [inv[i] EXCEPT !.paid = snap.paid + a, !.balance = NonNegative(newBalance),
                                   !.status = status]
  <2>2. WriteInvoice(r, row)
    OBVIOUS
  <2>3. row.paid = snap.paid + a
    BY <2>1 DEF InvoiceRow
  <2> HIDE DEF row
  <2>4. /\ received' = [received EXCEPT ![i] = received[i] + a]
        /\ credited' = credited
    BY <1>5 DEF RecordPaymentWrite, history
  <2>5. OnceAfter(i) => snap.paid <= received[i] + credited[i]
    <3>1. OnceAfter(i) => NotesCountOnce(i)
      <4> HIDE DEF i
      <4>q. QED BY <2>1, CountedOnceBefore
    <3>q. QED BY <2>1, <3>1 DEF At, Backed, BackedSnapshots, Funds
  <2>6. /\ received[i] \in Nat /\ credited[i] \in Nat /\ snap.paid \in Nat /\ a \in Nat
        /\ received' [i] = received[i] + a
    BY <1>0, <2>1, <2>4 DEF TypeOK, InvoiceRow
  <2>12. inv'[i].paid = snap.paid + a
    BY <2>1, <2>2, <2>3, WriteInvoiceFrame
  <2>7. OnceAfter(i) => inv'[i].paid <= received'[i] + credited'[i]
    BY <2>4, <2>5, <2>6, <2>12
  <2>8. \A j \in Invoice : received[j] <= received'[j] /\ credited[j] <= credited'[j]
    BY <2>4, <2>6 DEF TypeOK
  <2>9. \A j \in Invoice : j # i => inv'[j].paid = inv[j].paid
    BY <2>1, <2>2, WriteInvoiceFrame
  <2>10. \A q \in Request :
           \/ req'[q] = req[q]
           \/ req'[q].at \notin {"recordPayment", "creditInvoice"}
    BY <2>1, <2>2, WriteInvoiceFrame DEF Idle
  <2>11. QED
    BY <2>7, <2>8, <2>9, <2>10, BackedStable
<1>6. CASE IssueNoteWrite(r) \/ ApplyNoteMark(r)
  <2>1. inv' = inv /\ received' = received /\ credited' = credited
    BY <1>6 DEF IssueNoteWrite, ApplyNoteMark, history
  <2>2. \A q \in Request :
          \/ req'[q] = req[q]
          \/ req'[q].at \notin {"recordPayment", "creditInvoice"}
    BY <1>6 DEF IssueNoteWrite, ApplyNoteMark, Finish, Idle, TypeOK, Handler
  <2>3. QED
    BY <2>1, <2>2, BackedStable DEF TypeOK
<1>7. CASE ApplyNoteFetch(r)
  <2>1. inv' = inv /\ received' = received /\ credited' = credited
    BY <1>7 DEF ApplyNoteFetch, tables, history
  <2>2. i \in Invoice
    BY <1>7, HandlerCarries DEF ApplyNoteFetch, At, CreditStep
  <2>3. req'[r].invoice = i /\ req'[r].snap = inv[i]
    BY <1>7 DEF ApplyNoteFetch, TypeOK, Handler, Idle
  <2>4. \A q \in Request : q # r => req'[q] = req[q]
    BY <1>7 DEF ApplyNoteFetch, TypeOK
  <2>5. QED
    BY <2>1, <2>2, <2>3, <2>4, BackedStable DEF TypeOK
<1>8. CASE ApplyNoteCredit(r)
  <2>1. i \in Invoice /\ c \in Note /\ inv[i] \in InvoiceRow /\ At(r, "creditInvoice")
    BY <1>8, HandlerCarries DEF ApplyNoteCredit, At, CreditStep, TypeOK
  <2> DEFINE n == note[c].total
             newBalance == NonNegative(snap.balance - n)
             row == [inv[i] EXCEPT
                       !.balance = newBalance, !.paid = snap.paid + n,
                       !.status = StatusAfter(newBalance, snap.paid + n, snap.status)]
  <2>2. WriteInvoice(r, row)
    BY <1>8 DEF ApplyNoteCredit
  <2>3. row.paid = snap.paid + n
    BY <2>1 DEF InvoiceRow
  <2> HIDE DEF row
  <2> DEFINE m == IF applied[c] = 0 THEN credited[i] + n ELSE credited[i]
  <2>4. /\ credited' = [credited EXCEPT ![i] = m]
        /\ applied' = [applied EXCEPT ![c] = applied[c] + 1]
        /\ received' = received /\ note' = note
    BY <1>8 DEF ApplyNoteCredit, CountNote
  <2>5. OnceAfter(i) => snap.paid <= received[i] + credited[i]
    <3>1. OnceAfter(i) => NotesCountOnce(i)
      <4> HIDE DEF i
      <4>q. QED BY <2>1, CountedOnceBefore
    <3>q. QED BY <2>1, <3>1 DEF At, Backed, BackedSnapshots, Funds
  <2>6. /\ received[i] \in Nat /\ credited[i] \in Nat /\ snap.paid \in Nat /\ n \in Nat
        /\ applied[c] \in Nat /\ applied'[c] = applied[c] + 1
    BY <1>0, <2>1, <2>4 DEF TypeOK, InvoiceRow, NoteRow
  <2>13. OnceAfter(i) => applied[c] = 0
    <3>1. note'[c].invoice = i
      BY <2>1, <2>4 DEF Linked
    <3>2. OnceAfter(i) => applied'[c] <= 1
      BY <2>1, <3>1 DEF OnceAfter
    <3>q. QED BY <2>6, <3>2
  <2>14. /\ credited'[i] = m /\ credited[i] <= m
         /\ OnceAfter(i) => m = credited[i] + n
    BY <2>1, <2>4, <2>6, <2>13 DEF TypeOK
  <2> HIDE DEF n, m
  <2>12. inv'[i].paid = snap.paid + n
    BY <2>1, <2>2, <2>3, WriteInvoiceFrame
  <2>7. OnceAfter(i) => inv'[i].paid <= received'[i] + credited'[i]
    BY <2>4, <2>5, <2>6, <2>12, <2>14
  <2>8. \A j \in Invoice : received[j] <= received'[j] /\ credited[j] <= credited'[j]
    <3>1. \A j \in Invoice : received[j] \in Nat /\ credited[j] \in Nat
      BY DEF TypeOK
    <3>2. \A j \in Invoice : j # i => credited'[j] = credited[j]
      BY <2>4 DEF TypeOK
    <3>q. QED BY <2>4, <2>14, <3>1, <3>2
  <2>9. \A j \in Invoice : j # i => inv'[j].paid = inv[j].paid
    BY <2>1, <2>2, WriteInvoiceFrame
  <2>10. \A q \in Request :
           \/ req'[q] = req[q]
           \/ req'[q].at \notin {"recordPayment", "creditInvoice"}
    BY <2>1, <2>2, WriteInvoiceFrame DEF Idle
  <2>11. QED
    BY <2>7, <2>8, <2>9, <2>10, BackedStable
<1>9. QED
  BY <1>2, <1>3, <1>4, <1>5, <1>6, <1>7, <1>8 DEF Resume

\* For every number of invoices, notes and overlapping requests, with failures anywhere: an
\* invoice of which no note has been applied twice never shows more paid than payments and
\* credit notes, each counted once, account for.  Two overlapping applies of one note are
\* what can invent money.
THEOREM NothingInvented == Spec => []PaidNeverOverstated
<1> USE LedgerAssumption
<1>1. Init => Backed
  BY DEF Init, Backed, PaidNeverOverstated, BackedSnapshots, NoInvoice, Idle
<1>2. TypeOK /\ TypeOK' /\ Linked /\ Fresh /\ Backed /\ [Next]_vars => Backed'
  <2> SUFFICES ASSUME TypeOK, TypeOK', Linked, Fresh, Backed, [Next]_vars PROVE Backed'
    OBVIOUS
  <2>1. ASSUME NEW i \in Invoice, NEW t \in Total, CreateInvoice(i, t)
        PROVE  Backed'
    <3>1. inv' = [inv EXCEPT ![i] = [NoInvoice EXCEPT !.status = "DRAFT", !.items = t,
                                                      !.total = t, !.balance = t]]
      BY <2>1 DEF CreateInvoice
    <3>2. inv'[i].paid = 0
      BY <3>1 DEF TypeOK, NoInvoice
    <3>3. \A j \in Invoice : j # i => inv'[j].paid = inv[j].paid
      BY <3>1 DEF TypeOK
    <3>4. received' = received /\ credited' = credited /\ req' = req
      BY <2>1 DEF CreateInvoice, history
    <3>5. \A j \in Invoice : 0 <= received'[j] + credited'[j]
      BY DEF TypeOK
    <3>6. \A j \in Invoice : received[j] <= received'[j] /\ credited[j] <= credited'[j]
      BY <3>4 DEF TypeOK
    <3>7. QED
      BY <3>2, <3>3, <3>4, <3>5, <3>6, BackedStable
  <2>2. ASSUME NEW i \in Invoice, NEW a \in Amount, CreatePayment(i, a)
        PROVE  Backed'
    <3>1. received' = [received EXCEPT ![i] = received[i] + a]
      BY <2>2 DEF CreatePayment
    <3>2. inv' = inv /\ credited' = credited /\ req' = req
      BY <2>2 DEF CreatePayment, history
    <3>3. \A j \in Invoice : received[j] <= received'[j] /\ credited[j] <= credited'[j]
      BY <3>1, <3>2 DEF TypeOK
    <3>4. QED
      BY <3>2, <3>3, BackedStable
  <2>3. ASSUME NEW c \in Note, NEW i \in Invoice \cup {Null}, NEW a \in Amount,
               CreateNote(c, i, a)
        PROVE  Backed'
    <3>1. inv' = inv /\ received' = received /\ credited' = credited /\ req' = req
      BY <2>3 DEF CreateNote, history
    <3>2. QED
      BY <3>1, BackedStable DEF TypeOK
  <2>4. ASSUME NEW r \in Request, Begin(r)
        PROVE  Backed'
    <3>1. inv' = inv /\ received' = received /\ credited' = credited
      BY <2>4, BeginEffect DEF tables, history
    <3>2. \/ req'[r].at \notin {"recordPayment", "creditInvoice"}
          \/ req'[r].invoice \in Invoice /\ req'[r].snap = inv[req'[r].invoice]
      BY <2>4, BeginEffect DEF InvoiceStep, NoteStep
    <3>3. \A q \in Request : q # r => req'[q] = req[q]
      BY <2>4, BeginEffect
    <3>4. QED
      BY <3>1, <3>2, <3>3, BackedStable DEF TypeOK
  <2>5. ASSUME NEW r \in Request, Resume(r)
        PROVE  Backed'
    BY <2>5, ResumeBacked
  <2>6. ASSUME NEW r \in Request, Fail(r)
        PROVE  Backed'
    <3>1. inv' = inv /\ received' = received /\ credited' = credited
      BY <2>6 DEF Fail, tables, history
    <3>2. \A q \in Request :
            \/ req'[q] = req[q]
            \/ req'[q].at \notin {"recordPayment", "creditInvoice"}
      BY <2>6 DEF Fail, Finish, Idle, TypeOK
    <3>3. QED
      BY <3>1, <3>2, BackedStable DEF TypeOK
  <2>7. CASE UNCHANGED vars
    BY <2>7, BackedStable DEF vars, TypeOK
  <2>8. QED
    BY <2>1, <2>2, <2>3, <2>4, <2>5, <2>6, <2>7 DEF Next, Insert
<1>3. Backed => PaidNeverOverstated
  BY DEF Backed
<1>4. QED
  BY <1>1, <1>2, <1>3, TypeCorrect, LinkedAlways, FreshAlways, PTL DEF Spec

-----------------------------------------------------------------------------
(* Amounts and statuses when nobody edits an invoice                        *)

\* The two balance properties, of one row.
Consistent(row) ==
  /\ row.balance = NonNegative(row.total - row.paid)
  /\ row.status = "PAID" => row.balance = 0
  /\ row.status = "PARTIALLY_PAID" => row.paid \in 1 .. row.total

\* The strengthening that is inductive: the row a handler will compute from is consistent
\* too and, however old it is, has the total its invoice still has.
Balanced ==
  /\ \A i \in Invoice : Consistent(inv[i])
  /\ \A r \in Request :
       /\ req[r].at # "update"
       /\ req[r].at \in {"recordPayment", "creditInvoice"} =>
            /\ req[r].snap.total = inv[req[r].invoice].total
            /\ req[r].snap.balance = NonNegative(req[r].snap.total - req[r].snap.paid)

\* Clamping twice is clamping once: apply subtracts from a balance that is clamped already.
LEMMA ClampTwice ==
  ASSUME NEW x \in Int, NEW n \in Nat
  PROVE  NonNegative(NonNegative(x) - n) = NonNegative(x - n)
BY DEF NonNegative

\* The row that recordPayment and apply write.
Settled(row, paid, balance, status) ==
  [row EXCEPT !.paid = paid, !.balance = NonNegative(balance), !.status = status]

\* What recordPayment and apply write is consistent with the total they read.
LEMMA SettledRow ==
  ASSUME NEW row \in InvoiceRow, NEW paid \in Nat, NEW balance \in Int, NEW status, paid > 0,
         NonNegative(balance) = NonNegative(row.total - paid),
         status = "PAID" => balance <= 0,
         status = "PARTIALLY_PAID" => paid <= row.total
  PROVE  /\ Consistent(Settled(row, paid, balance, status))
         /\ Settled(row, paid, balance, status).total = row.total
<1> DEFINE new == Settled(row, paid, balance, status)
<1>1. /\ new.paid = paid /\ new.balance = NonNegative(balance) /\ new.total = row.total
      /\ new.status = status
  BY DEF InvoiceRow, Settled
<1> HIDE DEF new
<1>2. balance <= 0 => NonNegative(balance) = 0
  BY DEF NonNegative
<1>5. row.total \in Nat
  BY DEF InvoiceRow
<1>3. Consistent(new)
  BY <1>1, <1>2, <1>5 DEF Consistent
<1>4. QED
  BY <1>1, <1>3 DEF new

\* A step preserves Balanced when rows stay consistent, existing invoices keep their total,
\* and a handler that has read something new read it off a table that does not change.
LEMMA BalancedStable ==
  ASSUME TypeOK, TypeOK', Linked, Balanced,
         \A i \in Invoice :
           \/ inv'[i] = inv[i]
           \/ /\ Consistent(inv'[i])
              /\ Exists(i) => inv'[i].total = inv[i].total,
         \A r \in Request :
           \/ req'[r] = req[r]
           \/ req'[r].at \notin {"update", "recordPayment", "creditInvoice"}
           \/ /\ req'[r].at # "update"
              /\ req'[r].invoice \in Invoice
              /\ req'[r].snap = inv[req'[r].invoice]
              /\ inv' = inv
  PROVE  Balanced'
<1>1. ASSUME NEW i \in Invoice
      PROVE  Consistent(inv'[i])
  BY DEF Balanced
<1>2. ASSUME NEW r \in Request
      PROVE  req'[r].at # "update"
  BY DEF Balanced
<1>3. ASSUME NEW r \in Request, req'[r].at \in {"recordPayment", "creditInvoice"}
      PROVE  /\ req'[r].snap.total = inv'[req'[r].invoice].total
             /\ req'[r].snap.balance = NonNegative(req'[r].snap.total - req'[r].snap.paid)
  <2>1. CASE req'[r] = req[r]
    <3>1. req[r].invoice \in Invoice
      BY <1>3, <2>1, HandlerCarries DEF InvoiceStep, CreditStep
    <3>2. Exists(req[r].invoice)
      BY <3>1 DEF Linked
    <3>3. inv'[req[r].invoice].total = inv[req[r].invoice].total
      BY <3>1, <3>2
    <3>4. QED
      BY <1>3, <2>1, <3>3 DEF Balanced
  <2>2. CASE /\ req'[r].invoice \in Invoice
             /\ req'[r].snap = inv[req'[r].invoice]
             /\ inv' = inv
    BY <2>2 DEF Balanced, Consistent
  <2>3. QED
    BY <1>3, <2>1, <2>2
<1>4. QED
  BY <1>1, <1>2, <1>3 DEF Balanced, Consistent

\* The later statements preserve Balanced.
LEMMA ResumeBalanced ==
  ASSUME TypeOK, TypeOK', Linked, Balanced, NEW r \in Request, Resume(r)
  PROVE  Balanced'
<1> USE LedgerAssumption
<1> DEFINE i == req[r].invoice
           c == req[r].note
           snap == req[r].snap
<1>0. snap \in InvoiceRow
  BY HandlerCarries
<1>1. ASSUME NEW row, WriteInvoice(r, row), i \in Invoice, Consistent(row),
             row.total = inv[i].total
      PROVE  Balanced'
  <2>1. /\ inv'[i] = row
        /\ \A j \in Invoice : j # i => inv'[j] = inv[j]
        /\ \A q \in Request : req'[q] = req[q] \/ req'[q] = Idle
    BY <1>1, WriteInvoiceFrame
  <2>2. Idle.at \notin {"update", "recordPayment", "creditInvoice"}
    BY DEF Idle
  <2>3. \A j \in Invoice :
          \/ inv'[j] = inv[j]
          \/ Consistent(inv'[j]) /\ (Exists(j) => inv'[j].total = inv[j].total)
    BY <1>1, <2>1
  <2>4. \A q \in Request :
          \/ req'[q] = req[q]
          \/ req'[q].at \notin {"update", "recordPayment", "creditInvoice"}
    BY <2>1, <2>2
  <2>5. QED
    BY <2>3, <2>4, BalancedStable
<1>2. i \in Invoice => inv[i] \in InvoiceRow /\ Consistent(inv[i])
  BY DEF Balanced, TypeOK
<1>3. CASE UpdateWrite(r)
  BY <1>3 DEF UpdateWrite, At, Balanced
<1>4. CASE IssueWrite(r) \/ MarkSentWrite(r) \/ CancelWrite(r)
  <2>1. i \in Invoice
    BY <1>4, HandlerCarries DEF IssueWrite, MarkSentWrite, CancelWrite, SetStatus, At,
                                InvoiceStep
  <2>2. PICK status \in {"ISSUED", "SENT", "CANCELLED"} :
          WriteInvoice(r, [inv[i] EXCEPT !.status = status])
    BY <1>4 DEF IssueWrite, MarkSentWrite, CancelWrite, SetStatus
  <2> DEFINE row == [inv[i] EXCEPT !.status = status]
  <2>3. /\ row.status = status /\ row.total = inv[i].total
        /\ row.paid = inv[i].paid /\ row.balance = inv[i].balance
    BY <1>2, <2>1 DEF InvoiceRow
  <2> HIDE DEF row
  <2>4. Consistent(row)
    BY <1>2, <2>1, <2>2, <2>3 DEF Consistent
  <2>5. WriteInvoice(r, row)
    BY <2>2 DEF row
  <2>6. QED
    BY <1>1, <2>1, <2>3, <2>4, <2>5
<1>5. CASE RemoveWrite(r)
  <2>1. i \in Invoice
    BY <1>5, HandlerCarries DEF RemoveWrite, At, InvoiceStep
  <2> DEFINE row == [inv[i] EXCEPT !.deleted = TRUE]
  <2>2. WriteInvoice(r, row)
    BY <1>5 DEF RemoveWrite
  <2>3. /\ row.status = inv[i].status /\ row.total = inv[i].total
        /\ row.paid = inv[i].paid /\ row.balance = inv[i].balance
    BY <1>2, <2>1 DEF InvoiceRow
  <2> HIDE DEF row
  <2>4. Consistent(row)
    BY <1>2, <2>1, <2>3 DEF Consistent
  <2>5. QED
    BY <1>1, <2>1, <2>2, <2>3, <2>4
<1>6. ASSUME NEW a \in Amount, RecordPaymentWrite(r, a)
      PROVE  Balanced'
  <2>1. i \in Invoice /\ At(r, "recordPayment")
    BY <1>6, HandlerCarries DEF RecordPaymentWrite, At, InvoiceStep
  <2> DEFINE newPaid == snap.paid + a
             newBalance == snap.total - newPaid
  <2> PICK status \in StatusesAfterPayment(newBalance, snap.paid, a, snap.status) :
        WriteInvoice(r, [inv[i] EXCEPT !.paid = newPaid, !.balance = NonNegative(newBalance),
                                       !.status = status])
    BY <1>6 DEF RecordPaymentWrite
  <2> DEFINE row == Settled(inv[i], newPaid, newBalance, status)
  <2>2. WriteInvoice(r, row)
    BY DEF Settled
  <2>3. snap.total = inv[i].total
    BY <2>1 DEF At, Balanced
  <2>4. /\ snap.paid \in Nat /\ snap.total \in Nat
        /\ newPaid \in Nat /\ newPaid > 0 /\ newBalance \in Int
    BY <1>0 DEF InvoiceRow
  <2>5. NonNegative(newBalance) = NonNegative(inv[i].total - newPaid)
    BY <2>3
  <2>8. /\ status = "PAID" => newBalance <= 0
        /\ status = "PARTIALLY_PAID" => newBalance >= 0
    <3> HIDE DEF newBalance
    <3>q. QED BY <2>4, PaymentStatuses
  <2>9. status = "PARTIALLY_PAID" => newPaid <= inv[i].total
    BY <2>3, <2>4, <2>8
  <2> HIDE DEF newPaid, newBalance
  <2>6. Consistent(row) /\ row.total = inv[i].total
    BY <1>2, <2>1, <2>4, <2>5, <2>8, <2>9, SettledRow
  <2>7. QED
    BY <1>1, <2>1, <2>2, <2>6
<1>7. CASE IssueNoteWrite(r) \/ ApplyNoteMark(r)
  <2>1. inv' = inv
    BY <1>7 DEF IssueNoteWrite, ApplyNoteMark
  <2>2. \A q \in Request :
          \/ req'[q] = req[q]
          \/ req'[q].at \notin {"update", "recordPayment", "creditInvoice"}
    BY <1>7 DEF IssueNoteWrite, ApplyNoteMark, Finish, Idle, TypeOK, Handler
  <2>3. QED
    BY <2>1, <2>2, BalancedStable
<1>8. CASE ApplyNoteFetch(r)
  <2>1. inv' = inv
    BY <1>8 DEF ApplyNoteFetch, tables
  <2>2. i \in Invoice
    BY <1>8, HandlerCarries DEF ApplyNoteFetch, At, CreditStep
  <2>3. req'[r].at = "creditInvoice" /\ req'[r].invoice = i /\ req'[r].snap = inv[i]
    BY <1>8 DEF ApplyNoteFetch, TypeOK, Handler, Idle
  <2>4. \A q \in Request : q # r => req'[q] = req[q]
    BY <1>8 DEF ApplyNoteFetch, TypeOK
  <2>5. QED
    BY <2>1, <2>2, <2>3, <2>4, BalancedStable
<1>9. CASE ApplyNoteCredit(r)
  <2>1. i \in Invoice /\ c \in Note /\ At(r, "creditInvoice")
    BY <1>9, HandlerCarries DEF ApplyNoteCredit, At, CreditStep
  <2>2. note[c].total \in Nat /\ note[c].total > 0
    BY <2>1 DEF Linked, TypeOK, NoteRow
  <2> DEFINE n == note[c].total
             newPaid == snap.paid + n
             newBalance == NonNegative(snap.balance - n)
             row == [inv[i] EXCEPT !.balance = newBalance, !.paid = newPaid,
                                   !.status = StatusAfter(newBalance, newPaid, snap.status)]
  <2>3. WriteInvoice(r, row)
    BY <1>9 DEF ApplyNoteCredit
  <2>4. /\ snap.total = inv[i].total
        /\ snap.balance = NonNegative(snap.total - snap.paid)
    BY <2>1 DEF At, Balanced
  <2>5. /\ n \in Nat /\ newPaid \in Nat /\ newPaid > 0
        /\ snap.total - snap.paid \in Int
        /\ snap.balance - n \in Int
        /\ snap.total - snap.paid - n = snap.total - newPaid
    BY <1>0, <2>2 DEF InvoiceRow
  <2>6. newBalance = NonNegative(snap.total - snap.paid - n)
    BY <2>4, <2>5, ClampTwice
  <2>7. newBalance \in Nat /\ NonNegative(newBalance) = newBalance
    BY <2>5, NonNegativeNat
  <2>8. NonNegative(newBalance) = NonNegative(inv[i].total - newPaid)
    BY <2>4, <2>5, <2>6, <2>7
  <2> DEFINE status == StatusAfter(newBalance, newPaid, snap.status)
             settled == Settled(inv[i], newPaid, newBalance, status)
  <2>9. row = settled
    BY <1>2, <2>1, <2>7 DEF InvoiceRow, Settled
  <2>12. status = IF newBalance <= 0 THEN "PAID" ELSE "PARTIALLY_PAID"
    <3> HIDE DEF newPaid, newBalance
    <3>q. QED BY <2>5, <2>7, StatusAfterPaid
  <2>13. status = "PARTIALLY_PAID" => newPaid <= inv[i].total
    <3>1. inv[i].total \in Nat
      BY <1>2, <2>1 DEF InvoiceRow
    <3> HIDE DEF newPaid, newBalance
    <3>q. QED BY <2>5, <2>7, <2>8, <2>12, <3>1 DEF NonNegative
  <2> HIDE DEF newPaid, newBalance, status
  <2>10. Consistent(settled) /\ settled.total = inv[i].total
    <3>1. /\ inv[i] \in InvoiceRow /\ newBalance \in Int
          /\ status = "PAID" => newBalance <= 0
      BY <1>2, <2>1, <2>7, <2>12
    <3>q. QED BY <2>5, <2>8, <2>13, <3>1, SettledRow
  <2>11. QED
    BY <1>1, <2>1, <2>3, <2>9, <2>10
<1>10. QED
  BY <1>3, <1>4, <1>5, <1>6, <1>7, <1>8, <1>9 DEF Resume

\* Payments and credit notes that overlap in any way, or die half-way, leave every row with
\* a balance and a status that fit its total and paidAmount, unless someone edits the
\* invoice: update is the only operation that can separate them.
THEOREM ConsistentWithoutEdits ==
  ASSUME "update" \notin Ops
  PROVE  Spec => [](BalanceIsOutstanding /\ StatusTellsBalance)
<1> USE LedgerAssumption
<1>1. Init => Balanced
  BY DEF Init, Balanced, Consistent, NonNegative, NoInvoice, Idle
<1>2. TypeOK /\ TypeOK' /\ Linked /\ Balanced /\ [Next]_vars => Balanced'
  <2> SUFFICES ASSUME TypeOK, TypeOK', Linked, Balanced, [Next]_vars PROVE Balanced'
    OBVIOUS
  <2>1. ASSUME NEW i \in Invoice, NEW t \in Total, CreateInvoice(i, t)
        PROVE  Balanced'
    <3> DEFINE row == [NoInvoice EXCEPT !.status = "DRAFT", !.items = t, !.total = t,
                                        !.balance = t]
    <3>1. inv' = [inv EXCEPT ![i] = row] /\ ~Exists(i) /\ req' = req
      BY <2>1 DEF CreateInvoice
    <3>2. Consistent(row)
      BY DEF Consistent, NonNegative, NoInvoice
    <3> HIDE DEF row
    <3>3. inv'[i] = row /\ \A j \in Invoice : j # i => inv'[j] = inv[j]
      BY <3>1 DEF TypeOK
    <3>4. \A j \in Invoice :
            \/ inv'[j] = inv[j]
            \/ Consistent(inv'[j]) /\ (Exists(j) => inv'[j].total = inv[j].total)
      BY <3>1, <3>2, <3>3
    <3>5. QED
      BY <3>1, <3>4, BalancedStable
  <2>2. ASSUME NEW i \in Invoice, NEW a \in Amount, CreatePayment(i, a)
        PROVE  Balanced'
    BY <2>2, BalancedStable DEF CreatePayment
  <2>3. ASSUME NEW c \in Note, NEW i \in Invoice \cup {Null}, NEW a \in Amount,
               CreateNote(c, i, a)
        PROVE  Balanced'
    BY <2>3, BalancedStable DEF CreateNote
  <2>4. ASSUME NEW r \in Request, Begin(r)
        PROVE  Balanced'
    <3>1. inv' = inv
      BY <2>4, BeginEffect DEF tables
    <3>2. \/ req'[r].at \notin {"update", "recordPayment", "creditInvoice"}
          \/ /\ req'[r].at # "update"
             /\ req'[r].invoice \in Invoice
             /\ req'[r].snap = inv[req'[r].invoice]
      BY <2>4, BeginEffect DEF InvoiceStep, NoteStep
    <3>3. \A q \in Request : q # r => req'[q] = req[q]
      BY <2>4, BeginEffect
    <3>4. QED
      BY <3>1, <3>2, <3>3, BalancedStable
  <2>5. ASSUME NEW r \in Request, Resume(r)
        PROVE  Balanced'
    BY <2>5, ResumeBalanced
  <2>6. ASSUME NEW r \in Request, Fail(r)
        PROVE  Balanced'
    <3>1. inv' = inv
      BY <2>6 DEF Fail, tables
    <3>2. \A q \in Request :
            \/ req'[q] = req[q]
            \/ req'[q].at \notin {"update", "recordPayment", "creditInvoice"}
      BY <2>6 DEF Fail, Finish, Idle, TypeOK
    <3>3. QED
      BY <3>1, <3>2, BalancedStable
  <2>7. CASE UNCHANGED vars
    BY <2>7, BalancedStable DEF vars
  <2>8. QED
    BY <2>1, <2>2, <2>3, <2>4, <2>5, <2>6, <2>7 DEF Next, Insert
<1>3. Balanced => BalanceIsOutstanding /\ StatusTellsBalance
  BY DEF Balanced, Consistent, BalanceIsOutstanding, StatusTellsBalance
<1>4. QED
  BY <1>1, <1>2, <1>3, TypeCorrect, LinkedAlways, PTL DEF Spec

\* recordPayment, apply and markSent: a PAID invoice owes nothing and a PARTIALLY_PAID one has
\* been paid something and not more than its total, unless someone edits the invoice.
THEOREM StatusFollowsBalance ==
  ASSUME "update" \notin Ops
  PROVE  Spec => []StatusTellsBalance
BY ConsistentWithoutEdits, PTL

-----------------------------------------------------------------------------
(* Requests on different documents, payments only through recordPayment.   *)

\* At most one handler is at work on invoice i.
Alone(i) ==
  \A r, s \in Request : req[r].invoice = i /\ req[s].invoice = i => r = s

\* Handlers that share no document are alone on each invoice.
LEMMA ApartAlone ==
  ASSUME Apart, NEW i \in Invoice
  PROVE  Alone(i)
BY LedgerAssumption DEF Apart, Alone

Computing == {"recordPayment", "creditInvoice"}

\* What is said of one invoice, and the strengthening that is inductive: the row that a
\* handler will compute from is the present one, and an invoice that is not there has got
\* nothing.
PaidOn(i) == inv[i].paid = received[i] + credited[i]

CompleteOn(i) ==
  /\ PaidOn(i)
  /\ ~Exists(i) => received[i] = 0 /\ credited[i] = 0
  /\ \A r \in Request :
       req[r].at \in Computing /\ req[r].invoice = i => req[r].snap.paid = inv[i].paid

\* Why each note of an invoice counts once where handlers are alone: a note that has counted
\* is APPLIED, and the note of a handler at work has not counted yet.
OnceOn(i) ==
  /\ \A c \in Note : note[c].invoice = i /\ applied[c] # 0 => note[c].status = "APPLIED"
  /\ \A r \in Request : req[r].invoice = i =>
       /\ req[r].note \in Note => applied[req[r].note] = 0
       /\ req[r].at \in CreditStep => note[req[r].note].status = "APPLIED"

\* A step that applies no note and changes no existing one, of handlers that go on as they
\* were, that end, or that begin on a note which is not APPLIED.
LEMMA OnceStable ==
  ASSUME TypeOK, Linked, Fresh, NEW i \in Invoice, OnceOn(i), applied' = applied,
         \A c \in Note : note[c].status # "ABSENT" => note'[c] = note[c],
         \A r \in Request :
           \/ req'[r] = req[r]
           \/ req'[r].invoice # i
           \/ req'[r].note = Null /\ req'[r].at \notin CreditStep
           \/ /\ req'[r].at \notin CreditStep /\ req'[r].note \in Note
              /\ note[req'[r].note].status # "APPLIED"
              /\ note[req'[r].note].invoice = i
           \/ /\ req'[r].at \in CreditStep /\ req[r].at \in CreditStep
              /\ req'[r].note = req[r].note /\ req'[r].invoice = req[r].invoice
  PROVE  OnceOn(i)'
<1> USE LedgerAssumption
<1>1. ASSUME NEW c \in Note, note'[c].invoice = i, applied'[c] # 0
      PROVE  note'[c].status = "APPLIED"
  BY <1>1 DEF OnceOn, Fresh
<1>2. ASSUME NEW r \in Request, req'[r].invoice = i
      PROVE  /\ req'[r].note \in Note => applied'[req'[r].note] = 0
             /\ req'[r].at \in CreditStep => note'[req'[r].note].status = "APPLIED"
  <2>1. CASE /\ req'[r].invoice = req[r].invoice /\ req'[r].note = req[r].note
             /\ req'[r].at \in CreditStep => req[r].at \in CreditStep
    <3>1. req[r].at \in CreditStep => req[r].note \in Note /\ note[req[r].note].status # "ABSENT"
      BY HandlerCarries DEF Linked
    <3>q. QED BY <1>2, <2>1, <3>1 DEF OnceOn
  <2>2. CASE req'[r].note = Null /\ req'[r].at \notin CreditStep
    BY <2>2
  <2>3. CASE /\ req'[r].at \notin CreditStep /\ req'[r].note \in Note
             /\ note[req'[r].note].status # "APPLIED"
             /\ note[req'[r].note].invoice = i
    BY <2>3 DEF OnceOn
  <2>q. QED BY <1>2, <2>1, <2>2, <2>3
<1>q. QED BY <1>1, <1>2 DEF OnceOn

\* The later statements keep it: the only handler at work on the invoice applies the note,
\* and it does so before the note has counted.
LEMMA ResumeOnce ==
  ASSUME TypeOK, TypeOK', Linked, Fresh, NEW j \in Invoice, OnceOn(j), Alone(j),
         NEW r \in Request, Resume(r)
  PROVE  OnceOn(j)'
<1> USE LedgerAssumption
<1> DEFINE i == req[r].invoice
           c == req[r].note
<1>0. Idle.note = Null /\ Idle.at \notin CreditStep /\ Idle.invoice # j
  BY DEF Idle, CreditStep
<1>1. CASE \/ UpdateWrite(r) \/ IssueWrite(r) \/ MarkSentWrite(r) \/ CancelWrite(r)
           \/ RemoveWrite(r) \/ \E a \in Amount : RecordPaymentWrite(r, a)
  <2>1. note' = note /\ applied' = applied /\ Finish(r)
    BY <1>1 DEF UpdateWrite, IssueWrite, MarkSentWrite, CancelWrite, SetStatus, RemoveWrite,
                RecordPaymentWrite, WriteInvoice, history
  <2>2. \A q \in Request : req'[q] = req[q] \/ req'[q] = Idle
    BY <2>1 DEF Finish, TypeOK
  <2>q. QED BY <1>0, <2>1, <2>2, OnceStable
<1>2. CASE ApplyNoteFetch(r)
  <2>1. note' = note /\ applied' = applied /\ req[r].at = "fetchInvoice"
    BY <1>2 DEF ApplyNoteFetch, At, tables, history
  <2>2. /\ req'[r].at = "creditInvoice" /\ req'[r].note = c /\ req'[r].invoice = i
        /\ \A q \in Request : q # r => req'[q] = req[q]
    BY <1>2 DEF ApplyNoteFetch, TypeOK, Handler, Idle
  <2>q. QED BY <2>1, <2>2, OnceStable DEF CreditStep
<1>3. ASSUME IssueNoteWrite(r) \/ ApplyNoteMark(r) \/ ApplyNoteCredit(r)
      PROVE  OnceOn(j)'
  <2>1. /\ c \in Note /\ note[c].status # "ABSENT" /\ note[c].invoice = i
        /\ \A q \in Request : q # r => req'[q] = req[q]
        /\ note' \in [Note -> NoteRow]
    BY <1>3, HandlerCarries DEF IssueNoteWrite, ApplyNoteMark, ApplyNoteCredit, WriteInvoice,
                                At, NoteStep, CreditStep, Linked, Finish, TypeOK
  <2>2. \A d \in Note : d # c => note'[d] = note[d] /\ applied'[d] = applied[d]
    BY <1>3 DEF IssueNoteWrite, ApplyNoteMark, ApplyNoteCredit, CountNote, TypeOK, history
  <2>3. /\ note'[c].invoice = i
        /\ ApplyNoteMark(r) => note'[c].status = "APPLIED"
        /\ ApplyNoteCredit(r) => note' = note
    BY <1>3, <2>1 DEF IssueNoteWrite, ApplyNoteMark, ApplyNoteCredit, TypeOK, NoteRow
  <2>4. /\ ApplyNoteMark(r) \/ req'[r] = Idle
        /\ req'[r].invoice \in {i, Null} /\ req'[r].note \in {c, Null}
        /\ req'[r].note = Null => req'[r].at \notin CreditStep
    BY <1>3, <2>1 DEF IssueNoteWrite, ApplyNoteMark, ApplyNoteCredit, WriteInvoice, Finish,
                      TypeOK, Handler, Idle, CreditStep, At
  <2>5. ~ApplyNoteCredit(r) => applied' = applied
    BY <1>3 DEF IssueNoteWrite, ApplyNoteMark, history
  <2>6. CASE i # j
    <3>1. ASSUME NEW d \in Note, note'[d].invoice = j, applied'[d] # 0
          PROVE  note'[d].status = "APPLIED"
      BY <2>2, <2>3, <2>6, <3>1 DEF OnceOn
    <3>2. ASSUME NEW q \in Request, req'[q].invoice = j
          PROVE  /\ req'[q].note \in Note => applied'[req'[q].note] = 0
                 /\ req'[q].at \in CreditStep => note'[req'[q].note].status = "APPLIED"
      <4>1. req'[q] = req[q]
        BY <2>1, <2>4, <2>6, <3>2
      <4>2. req[q].note \in Note => req[q].note # c
        BY <2>1, <2>6, <3>2, <4>1 DEF Linked
      <4>3. req[q].at \in CreditStep => req[q].note \in Note
        BY HandlerCarries
      <4>q. QED BY <2>2, <3>2, <4>1, <4>2, <4>3 DEF OnceOn
    <3>q. QED BY <3>1, <3>2 DEF OnceOn
  <2>7. CASE i = j
    <3>1. applied[c] = 0 /\ (ApplyNoteCredit(r) => note[c].status = "APPLIED")
      BY <2>1, <2>7 DEF OnceOn, ApplyNoteCredit, At, CreditStep
    <3>2. ASSUME NEW d \in Note, note'[d].invoice = j, applied'[d] # 0
          PROVE  note'[d].status = "APPLIED"
      <4>1. CASE d # c
        BY <2>2, <3>2, <4>1 DEF OnceOn
      <4>2. CASE d = c
        BY <2>3, <2>5, <3>1, <3>2, <4>2
      <4>q. QED BY <4>1, <4>2
    <3>3. ASSUME NEW q \in Request, req'[q].invoice = j
          PROVE  /\ req'[q].note \in Note => applied'[req'[q].note] = 0
                 /\ req'[q].at \in CreditStep => note'[req'[q].note].status = "APPLIED"
      <4>1. q = r
        BY <2>1, <2>7, <3>3 DEF Alone
      <4>2. ApplyNoteMark(r) /\ ~ApplyNoteCredit(r)
        BY <1>0, <2>4, <3>3, <4>1 DEF ApplyNoteMark, ApplyNoteCredit, At
      <4>q. QED BY <2>3, <2>4, <2>5, <3>1, <4>1, <4>2
    <3>q. QED BY <3>2, <3>3 DEF OnceOn
  <2>q. QED BY <2>6, <2>7
<1>q. QED BY <1>1, <1>2, <1>3 DEF Resume

\* A step that moves no money of the invoice, whose handler reads the present row if it
\* reads one.
LEMMA CompleteStable ==
  ASSUME TypeOK, TypeOK', NEW i \in Invoice, CompleteOn(i),
         inv'[i].paid = inv[i].paid, Exists(i) => Exists(i)',
         received'[i] = received[i], credited'[i] = credited[i],
         \A r \in Request :
           \/ req'[r] = req[r]
           \/ req'[r].at \notin Computing
           \/ req'[r].invoice # i
           \/ req'[r].snap = inv[i]
  PROVE  CompleteOn(i)'
<1>1. PaidOn(i)'
  BY DEF CompleteOn, PaidOn
<1>2. ~Exists(i)' => received'[i] = 0 /\ credited'[i] = 0
  BY DEF CompleteOn
<1>3. ASSUME NEW r \in Request, req'[r].at \in Computing, req'[r].invoice = i
      PROVE  req'[r].snap.paid = inv'[i].paid
  <2>1. CASE req'[r] = req[r]
    BY <1>3, <2>1 DEF CompleteOn
  <2>2. CASE req'[r].snap = inv[i]
    BY <2>2
  <2>q. QED BY <1>3, <2>1, <2>2
<1>q. QED BY <1>1, <1>2, <1>3 DEF CompleteOn

\* The write of the only handler on the invoice: it adds to the row what comes in.
LEMMA CompleteWrite ==
  ASSUME TypeOK, NEW i \in Invoice, CompleteOn(i), Alone(i), NEW r \in Request, NEW row,
         WriteInvoice(r, row), i = req[r].invoice, NEW n \in Nat,
         row.paid = inv[i].paid + n, row.status # "ABSENT",
         \/ received' = [received EXCEPT ![i] = received[i] + n] /\ credited' = credited
         \/ credited' = [credited EXCEPT ![i] = credited[i] + n] /\ received' = received
  PROVE  CompleteOn(i)'
<1>1. inv'[i] = row
  BY WriteInvoiceFrame
<1>2. /\ inv[i].paid \in Nat /\ received[i] \in Nat /\ credited[i] \in Nat
      /\ inv[i].paid = received[i] + credited[i]
  BY DEF TypeOK, InvoiceRow, CompleteOn, PaidOn
<1>3. received'[i] + credited'[i] = received[i] + credited[i] + n
  BY <1>2 DEF TypeOK
<1>4. PaidOn(i)'
  BY <1>1, <1>2, <1>3 DEF PaidOn
<1>5. Exists(i)'
  BY <1>1 DEF Exists
<1>6. \A q \in Request : req'[q].at \in Computing => req'[q].invoice # i
  BY WriteInvoiceFrame DEF Alone, Idle, Computing
<1>q. QED BY <1>4, <1>5, <1>6 DEF CompleteOn

\* The later statements keep the paid amounts complete.
LEMMA ResumeComplete ==
  ASSUME TypeOK, TypeOK', Linked, NEW j \in Invoice, OnceOn(j), CompleteOn(j), Alone(j),
         NEW r \in Request, Resume(r)
  PROVE  CompleteOn(j)'
<1> USE LedgerAssumption
<1> DEFINE i == req[r].invoice
           c == req[r].note
           snap == req[r].snap
<1>0. snap \in InvoiceRow
  BY HandlerCarries
<1>0a. ASSUME NEW row, WriteInvoice(r, row), i \in Invoice, i # j,
              received'[j] = received[j], credited'[j] = credited[j]
       PROVE  CompleteOn(j)'
  <2>1. inv'[j] = inv[j]
    BY <1>0a, WriteInvoiceFrame
  <2>2. \A q \in Request : req'[q] = req[q] \/ req'[q].at \notin Computing
    BY <1>0a, WriteInvoiceFrame DEF Idle, Computing
  <2>q. QED BY <1>0a, <2>1, <2>2, CompleteStable DEF Exists
<1>1. ASSUME NEW row, WriteInvoice(r, row), i \in Invoice, row.paid = inv[i].paid,
             row.status # "ABSENT", received' = received, credited' = credited
      PROVE  CompleteOn(j)'
  <2>1. inv'[j].paid = inv[j].paid /\ (Exists(j) => Exists(j)')
    BY <1>1, WriteInvoiceFrame DEF Exists
  <2>2. \A q \in Request : req'[q] = req[q] \/ req'[q].at \notin Computing
    BY <1>1, WriteInvoiceFrame DEF Idle, Computing
  <2>q. QED BY <1>1, <2>1, <2>2, CompleteStable
<1>2. i \in Invoice => inv[i] \in InvoiceRow /\ inv[i].status # "ABSENT"
  BY DEF TypeOK, Linked, Exists
<1>3. CASE UpdateWrite(r)
  <2>1. i \in Invoice /\ received' = received /\ credited' = credited
    BY <1>3, HandlerCarries DEF UpdateWrite, At, InvoiceStep, history
  <2>2. PICK items, total :
          \/ WriteInvoice(r, [inv[i] EXCEPT !.items = items, !.total = total, !.balance = total])
          \/ WriteInvoice(r, [inv[i] EXCEPT !.total = total, !.balance = total])
    BY <1>3 DEF UpdateWrite
  <2>3. \A new \in {[inv[i] EXCEPT !.items = items, !.total = total, !.balance = total],
                    [inv[i] EXCEPT !.total = total, !.balance = total]} :
          new.paid = inv[i].paid /\ new.status = inv[i].status
    BY <1>2, <2>1 DEF InvoiceRow
  <2>4. \E row : WriteInvoice(r, row) /\ row.paid = inv[i].paid /\ row.status = inv[i].status
    BY <2>2, <2>3
  <2>q. QED BY <1>1, <1>2, <2>1, <2>4
<1>4. CASE IssueWrite(r) \/ MarkSentWrite(r) \/ CancelWrite(r)
  <2>1. i \in Invoice /\ received' = received /\ credited' = credited
    BY <1>4, HandlerCarries DEF IssueWrite, MarkSentWrite, CancelWrite, SetStatus, At,
                                InvoiceStep, history
  <2>2. PICK status \in {"ISSUED", "SENT", "CANCELLED"} :
          WriteInvoice(r, [inv[i] EXCEPT !.status = status])
    BY <1>4 DEF IssueWrite, MarkSentWrite, CancelWrite, SetStatus
  <2>3. PICK row : WriteInvoice(r, row) /\ row.paid = inv[i].paid /\ row.status = status
    BY <1>2, <2>1, <2>2 DEF InvoiceRow
  <2>q. QED BY <1>1, <2>1, <2>3
<1>5. CASE RemoveWrite(r)
  <2>1. i \in Invoice /\ received' = received /\ credited' = credited
    BY <1>5, HandlerCarries DEF RemoveWrite, At, InvoiceStep, history
  <2>2. PICK row : WriteInvoice(r, row) /\ row.paid = inv[i].paid /\ row.status = inv[i].status
    BY <1>2, <1>5, <2>1 DEF RemoveWrite, InvoiceRow
  <2>q. QED BY <1>1, <1>2, <2>1, <2>2
<1>6. ASSUME NEW a \in Amount, RecordPaymentWrite(r, a)
      PROVE  CompleteOn(j)'
  <2>1. i \in Invoice /\ req[r].at = "recordPayment"
    BY <1>6, HandlerCarries DEF RecordPaymentWrite, At, InvoiceStep
  <2> DEFINE newPaid == snap.paid + a
             newBalance == snap.total - newPaid
  <2> PICK status \in StatusesAfterPayment(newBalance, snap.paid, a, snap.status) :
        WriteInvoice(r, [inv[i] EXCEPT !.paid = newPaid, !.balance = NonNegative(newBalance),
                                       !.status = status])
    BY <1>6 DEF RecordPaymentWrite
  <2> DEFINE row == Settled(inv[i], newPaid, newBalance, status)
  <2>2. WriteInvoice(r, row)
    BY DEF Settled
  <2>3. /\ newPaid \in Nat /\ newBalance \in Int /\ snap.paid \in Nat
        /\ i = j => newPaid = inv[i].paid + a
    BY <1>0, <2>1 DEF InvoiceRow, CompleteOn, Computing
  <2>4. /\ received' = [received EXCEPT ![i] = received[i] + a]
        /\ credited' = credited
    BY <1>6 DEF RecordPaymentWrite, history
  <2>6. CASE i # j
    <3>1. received'[j] = received[j] /\ credited'[j] = credited[j]
      BY <2>4, <2>6 DEF TypeOK
    <3> HIDE DEF row
    <3>q. QED BY <1>0a, <2>1, <2>2, <2>6, <3>1
  <2> HIDE DEF newPaid, newBalance
  <2>5. row.paid = newPaid /\ row.status # "ABSENT"
    <3>1. status # "ABSENT"
      BY <2>3, PaymentStatuses
    <3>q. QED BY <1>2, <2>1, <3>1 DEF Settled, InvoiceRow
  <2> HIDE DEF row
  <2>7. CASE i = j
    BY <2>1, <2>2, <2>3, <2>4, <2>5, <2>7, CompleteWrite
  <2>q. QED BY <2>6, <2>7
<1>7. CASE IssueNoteWrite(r) \/ ApplyNoteMark(r)
  <2>1. inv' = inv /\ received' = received /\ credited' = credited
    BY <1>7 DEF IssueNoteWrite, ApplyNoteMark, history
  <2>2. \A q \in Request :
          \/ req'[q] = req[q]
          \/ req'[q].at \notin Computing
    BY <1>7 DEF Computing, IssueNoteWrite, ApplyNoteMark, Finish, Idle, TypeOK, Handler
  <2>q. QED BY <2>1, <2>2, CompleteStable DEF Exists
<1>8. CASE ApplyNoteFetch(r)
  <2>1. inv' = inv /\ received' = received /\ credited' = credited
    BY <1>8 DEF ApplyNoteFetch, tables, history
  <2>2. i \in Invoice
    BY <1>8, HandlerCarries DEF ApplyNoteFetch, At, CreditStep
  <2>3. req'[r].invoice = i /\ req'[r].snap = inv[i]
    BY <1>8 DEF ApplyNoteFetch, TypeOK, Handler, Idle
  <2>4. \A q \in Request : q # r => req'[q] = req[q]
    BY <1>8 DEF ApplyNoteFetch, TypeOK
  <2>q. QED BY <2>1, <2>2, <2>3, <2>4, CompleteStable DEF Exists
<1>9. CASE ApplyNoteCredit(r)
  <2>1. i \in Invoice /\ c \in Note /\ req[r].at = "creditInvoice"
    BY <1>9, HandlerCarries DEF ApplyNoteCredit, At, CreditStep
  <2> DEFINE n == note[c].total
             newPaid == snap.paid + n
             newBalance == NonNegative(snap.balance - n)
             row == [inv[i] EXCEPT !.balance = newBalance, !.paid = newPaid,
                                   !.status = StatusAfter(newBalance, newPaid, snap.status)]
  <2>2. WriteInvoice(r, row)
    BY <1>9 DEF ApplyNoteCredit
  <2>3. n \in Nat /\ n > 0
    BY <2>1 DEF Linked, TypeOK, NoteRow
  <2>4. /\ newPaid \in Nat /\ newPaid > 0 /\ snap.balance - n \in Int
        /\ i = j => newPaid = inv[i].paid + n
    BY <1>0, <2>1, <2>3 DEF InvoiceRow, CompleteOn, Computing
  <2>5. newBalance \in Nat
    BY <2>4, NonNegativeNat
  <2>6. /\ \E m : credited' = [credited EXCEPT ![i] = m]
        /\ applied[c] = 0 => credited' = [credited EXCEPT ![i] = credited[i] + n]
        /\ received' = received
    BY <1>9 DEF ApplyNoteCredit, CountNote
  <2>8. CASE i # j
    <3>1. received'[j] = received[j] /\ credited'[j] = credited[j]
      BY <2>6, <2>8 DEF TypeOK
    <3> HIDE DEF row
    <3>q. QED BY <1>0a, <2>1, <2>2, <2>8, <3>1
  <2> HIDE DEF newPaid, newBalance, n
  <2>7. row.paid = newPaid /\ row.status # "ABSENT"
    BY <1>2, <2>1, <2>4, <2>5, StatusAfterPaid DEF InvoiceRow
  <2> HIDE DEF row
  <2>9. CASE i = j
    <3>1. applied[c] = 0
      BY <2>1, <2>9 DEF OnceOn
    <3>2. credited' = [credited EXCEPT ![i] = credited[i] + n] /\ received' = received
      BY <2>6, <3>1
    <3>q. QED BY <2>1, <2>2, <2>3, <2>4, <2>7, <2>9, <3>2, CompleteWrite
  <2>q. QED BY <2>8, <2>9
<1>q. QED BY <1>3, <1>4, <1>5, <1>6, <1>7, <1>8, <1>9 DEF Resume

\* A step keeps an invoice complete on which at most one handler is at work, whatever
\* handlers on other invoices do and wherever handlers fail.
LEMMA NextComplete ==
  ASSUME "createPayment" \notin Ops, TypeOK, TypeOK', Linked, NEW j \in Invoice,
         OnceOn(j), CompleteOn(j), Alone(j), [Next]_vars
  PROVE  CompleteOn(j)'
<1> USE LedgerAssumption
<1>1. ASSUME NEW i \in Invoice, NEW t \in Total, CreateInvoice(i, t)
      PROVE  CompleteOn(j)'
  <2>1. /\ inv' = [inv EXCEPT ![i] = [NoInvoice EXCEPT !.status = "DRAFT", !.items = t,
                                                       !.total = t, !.balance = t]]
        /\ ~Exists(i) /\ received' = received /\ credited' = credited /\ req' = req
    BY <1>1 DEF CreateInvoice, history
  <2>2. /\ inv'[i].paid = 0 /\ inv'[i].status = "DRAFT"
        /\ j # i => inv'[j] = inv[j]
    BY <2>1 DEF TypeOK, NoInvoice
  <2>3. i = j => inv[i].paid = 0
    BY <2>1 DEF CompleteOn, PaidOn
  <2>4. inv'[j].paid = inv[j].paid /\ (Exists(j) => Exists(j)')
    BY <2>1, <2>2, <2>3 DEF Exists
  <2>q. QED BY <2>1, <2>4, CompleteStable
<1>2. ASSUME NEW i \in Invoice, NEW a \in Amount, CreatePayment(i, a)
      PROVE  CompleteOn(j)'
  BY <1>2 DEF CreatePayment
<1>3. ASSUME NEW c \in Note, NEW i \in Invoice \cup {Null}, NEW a \in Amount,
             CreateNote(c, i, a)
      PROVE  CompleteOn(j)'
  BY <1>3, CompleteStable DEF CreateNote, history, Exists
<1>4. ASSUME NEW r \in Request, Begin(r)
      PROVE  CompleteOn(j)'
  <2>1. inv' = inv /\ received' = received /\ credited' = credited
    BY <1>4, BeginEffect DEF tables, history
  <2>2. \/ req'[r].at \notin Computing
        \/ req'[r].invoice \in Invoice /\ req'[r].snap = inv[req'[r].invoice]
    BY <1>4, BeginEffect DEF InvoiceStep, NoteStep, Computing
  <2>3. \A q \in Request : q # r => req'[q] = req[q]
    BY <1>4, BeginEffect
  <2>q. QED BY <2>1, <2>2, <2>3, CompleteStable DEF Exists
<1>5. ASSUME NEW r \in Request, Resume(r)
      PROVE  CompleteOn(j)'
  BY <1>5, ResumeComplete
<1>6. ASSUME NEW r \in Request, Fail(r)
      PROVE  CompleteOn(j)'
  <2>1. inv' = inv /\ received' = received /\ credited' = credited
    BY <1>6 DEF Fail, tables, history
  <2>2. \A q \in Request : req'[q] = req[q] \/ req'[q].at \notin Computing
    BY <1>6 DEF Fail, Finish, Idle, TypeOK, Computing
  <2>q. QED BY <2>1, <2>2, CompleteStable DEF Exists
<1>7. CASE UNCHANGED vars
  BY <1>7, CompleteStable DEF vars, history, tables, Exists
<1>q. QED BY <1>1, <1>2, <1>3, <1>4, <1>5, <1>6, <1>7 DEF Next, Insert

\* A step keeps the notes of such an invoice from counting twice.
LEMMA NextOnce ==
  ASSUME TypeOK, TypeOK', Linked, Fresh, NEW j \in Invoice, OnceOn(j), Alone(j), [Next]_vars
  PROVE  OnceOn(j)'
<1> USE LedgerAssumption
<1>0. Idle.note = Null /\ Idle.at \notin CreditStep
  BY DEF Idle, CreditStep
<1>1. ASSUME UNCHANGED <<note, applied, req>>
      PROVE  OnceOn(j)'
  BY <1>1, OnceStable
<1>2. ASSUME NEW i \in Invoice, NEW t \in Total, CreateInvoice(i, t)
      PROVE  OnceOn(j)'
  BY <1>1, <1>2 DEF CreateInvoice, history
<1>3. ASSUME NEW i \in Invoice, NEW a \in Amount, CreatePayment(i, a)
      PROVE  OnceOn(j)'
  BY <1>1, <1>3 DEF CreatePayment, history
<1>4. ASSUME NEW c \in Note, NEW i \in Invoice \cup {Null}, NEW a \in Amount,
             CreateNote(c, i, a)
      PROVE  OnceOn(j)'
  <2>1. /\ applied' = applied /\ req' = req
        /\ \A d \in Note : note[d].status # "ABSENT" => note'[d] = note[d]
    BY <1>4 DEF CreateNote, history, TypeOK
  <2>q. QED BY <2>1, OnceStable
<1>5. ASSUME NEW r \in Request, Begin(r)
      PROVE  OnceOn(j)'
  <2>1. /\ applied' = applied /\ note' = note
        /\ \A q \in Request : q # r => req'[q] = req[q]
        /\ req'[r].at \notin CreditStep
    BY <1>5, BeginEffect DEF tables, history, InvoiceStep, NoteStep, CreditStep
  <2>2. \/ req'[r].note = Null
        \/ /\ req'[r].note \in Note
           /\ note[req'[r].note].status # "APPLIED"
           /\ note[req'[r].note].invoice = req'[r].invoice
    <3>1. CASE \E i \in Invoice :
                 \/ UpdateRead(r, i) \/ IssueRead(r, i) \/ MarkSentRead(r, i)
                 \/ CancelRead(r, i) \/ RemoveRead(r, i) \/ RecordPaymentRead(r, i)
      BY <3>1 DEF UpdateRead, IssueRead, MarkSentRead, CancelRead, RemoveRead,
                  RecordPaymentRead, ReadInvoice, TypeOK
    <3>2. CASE \E c \in Note : IssueNoteRead(r, c) \/ ApplyNoteRead(r, c)
      BY <3>2 DEF IssueNoteRead, ApplyNoteRead, ReadNote, TypeOK
    <3>q. QED BY <1>5, <3>1, <3>2 DEF Begin
  <2>q. QED BY <2>1, <2>2, OnceStable
<1>6. ASSUME NEW r \in Request, Resume(r)
      PROVE  OnceOn(j)'
  BY <1>6, ResumeOnce
<1>7. ASSUME NEW r \in Request, Fail(r)
      PROVE  OnceOn(j)'
  <2>1. /\ note' = note /\ applied' = applied
        /\ \A q \in Request : req'[q] = req[q] \/ req'[q] = Idle
    BY <1>7 DEF Fail, Finish, tables, history, TypeOK
  <2>q. QED BY <1>0, <2>1, OnceStable
<1>8. CASE UNCHANGED vars
  BY <1>1, <1>8 DEF vars
<1>q. QED BY <1>2, <1>3, <1>4, <1>5, <1>6, <1>7, <1>8 DEF Next, Insert

\* Nothing has been paid at the beginning.
LEMMA InitComplete ==
  ASSUME Init, NEW i \in Invoice
  PROVE  OnceOn(i) /\ CompleteOn(i)
BY LedgerAssumption DEF Init, OnceOn, CompleteOn, PaidOn, NoInvoice, Idle, Computing, CreditStep

\* An invoice on which requests never overlap shows as paid every payment and every credit
\* note it got, although requests overlap on all the others and fail anywhere, as long as
\* payments are recorded on their invoice.
THEOREM PaidIsCompleteWhereAlone ==
  ASSUME NEW i \in Invoice, "createPayment" \notin Ops
  PROVE  Spec /\ []Alone(i) => []PaidOn(i)
<1>1. Init => OnceOn(i) /\ CompleteOn(i)
  BY InitComplete
<1>2. TypeOK /\ TypeOK' /\ Linked /\ Fresh /\ Alone(i) /\ OnceOn(i) /\ CompleteOn(i) /\ [Next]_vars
        => OnceOn(i)' /\ CompleteOn(i)'
  BY NextOnce, NextComplete
<1>3. CompleteOn(i) => PaidOn(i)
  BY DEF CompleteOn
<1>q. QED BY <1>1, <1>2, <1>3, TypeCorrect, LinkedAlways, FreshAlways, PTL DEF Spec

\* Both specifications restrict the schedule, never a handler: their behaviours are behaviours
\* of the services in which handlers at work at the same time share no document.
LEMMA ApartIsSpec == ApartSpec => Spec /\ []Apart
<1>1. Init => Apart
  BY DEF Init, Apart, Idle
<1>2. Apart /\ UNCHANGED vars => Apart'
  BY DEF Apart, vars
<1>3. [Next /\ Apart']_vars => [Next]_vars /\ (Apart' \/ UNCHANGED vars)
  OBVIOUS
<1>q. QED BY <1>1, <1>2, <1>3, PTL DEF ApartSpec, Spec

LEMMA OrderlyIsApart == OrderlySpec => ApartSpec
<1> DEFINE Orderly == /\ Next /\ Apart'
                      /\ ~\E r \in Request : req[r].at \in CreditStep /\ Fail(r)
<1>1. [Orderly]_vars => [Next /\ Apart']_vars
  OBVIOUS
<1>q. QED BY <1>1, PTL DEF OrderlySpec, ApartSpec

\* If no two handlers are at work on one document and payments are recorded on their
\* invoice, paidAmount is the sum of the payments and of the credit notes, whatever else is
\* done to the invoices and wherever handlers fail: of overlapping payments on one invoice
\* one may be lost.
THEOREM PaidIsCompleteApart ==
  ASSUME "createPayment" \notin Ops
  PROVE  ApartSpec => []PaidIsComplete
<1> DEFINE Complete == \A i \in Invoice : OnceOn(i) /\ CompleteOn(i)
<1>1. Init => Complete
  BY InitComplete
<1>2. TypeOK /\ TypeOK' /\ Linked /\ Fresh /\ Apart /\ Complete /\ [Next]_vars => Complete'
  <2> SUFFICES ASSUME TypeOK, TypeOK', Linked, Fresh, Apart, Complete, [Next]_vars,
                      NEW i \in Invoice
               PROVE  OnceOn(i)' /\ CompleteOn(i)'
    OBVIOUS
  <2>1. Alone(i)
    BY ApartAlone
  <2>q. QED BY <2>1, NextOnce, NextComplete
<1>3. Complete => PaidIsComplete
  BY DEF CompleteOn, PaidOn, PaidIsComplete
<1> HIDE DEF Complete
<1>q. QED BY <1>1, <1>2, <1>3, ApartIsSpec, TypeCorrect, LinkedAlways, FreshAlways,
             PTL DEF Spec

-----------------------------------------------------------------------------
(* The endpoints as clients understand them                                *)

\* What the guard of r's handler found when it read still holds when it writes.
Promised(r) ==
  LET i == req[r].invoice
      c == req[r].note
      at == req[r].at
  IN /\ at \in InvoiceStep => Found(i)
     /\ at \in {"update", "cancel"} => ~Closed(i)
     /\ at \in {"issue", "remove"} => inv[i].status = "DRAFT"
     /\ at \in {"update", "recordPayment", "creditInvoice"} => req[r].snap = inv[i]
     /\ at = "issueNote" => note[c].status = "DRAFT"
     /\ at = "applyNote" => note[c].status = "ISSUED"
     /\ at \in CreditStep => note[c].status = "APPLIED"

\* The strengthening for the refinement: nothing a handler has read is out of date, and the
\* items of an invoice come to a total that it may be given.
InTurn ==
  /\ \A i \in Invoice : IF Exists(i) THEN inv[i].items \in Total ELSE inv[i] = NoInvoice
  /\ \A r \in Request : Promised(r)

\* The notes as the abstract ledger shows them.
Seen == [c \in Note |-> IF BeingApplied(c) THEN [note[c] EXCEPT !.status = "ISSUED"]
                                           ELSE note[c]]

\* A handler that carries what it carried keeps its promise when the documents it works on
\* stay as they are.
LEMMA PromisedStable ==
  ASSUME TypeOK, NEW r \in Request, Promised(r), req'[r] = req[r],
         req[r].invoice \in Invoice => inv'[req[r].invoice] = inv[req[r].invoice],
         req[r].note \in Note => note'[req[r].note] = note[req[r].note]
  PROVE  Promised(r)'
<1> DEFINE i == req[r].invoice
           c == req[r].note
<1>1. req[r].at \in InvoiceStep \cup CreditStep => i \in Invoice /\ inv'[i] = inv[i]
  BY HandlerCarries
<1>2. req[r].at \in NoteStep \cup CreditStep => c \in Note /\ note'[c] = note[c]
  BY HandlerCarries
<1>3. CASE req[r].at \in InvoiceStep
  BY <1>1, <1>3 DEF Promised, Found, Exists, Closed, InvoiceStep, CreditStep
<1>4. CASE req[r].at \in NoteStep
  BY <1>2, <1>4 DEF Promised, InvoiceStep, CreditStep, NoteStep
<1>5. CASE req[r].at \in CreditStep
  BY <1>1, <1>2, <1>5 DEF Promised, InvoiceStep, CreditStep
<1>6. CASE req[r].at \notin InvoiceStep \cup NoteStep \cup CreditStep
  BY <1>6 DEF Promised, InvoiceStep, CreditStep, NoteStep
<1>q. QED BY <1>3, <1>4, <1>5, <1>6

\* What a handler does to its own documents breaks no promise of the others.
LEMMA OthersPromise ==
  ASSUME TypeOK, Apart, InTurn, NEW r \in Request,
         \A q \in Request : q # r => req'[q] = req[q],
         \A i \in Invoice : i # req[r].invoice => inv'[i] = inv[i],
         \A c \in Note : c # req[r].note => note'[c] = note[c],
         Promised(r)'
  PROVE  \A q \in Request : Promised(q)'
<1> SUFFICES ASSUME NEW q \in Request, q # r PROVE Promised(q)'
  OBVIOUS
<1>1. req[q].invoice \in Invoice => req[q].invoice # req[r].invoice
  BY LedgerAssumption DEF Apart
<1>2. req[q].note \in Note => req[q].note # req[r].note
  BY LedgerAssumption DEF Apart
<1>q. QED BY <1>1, <1>2, PromisedStable DEF InTurn

\* A handler that has ended promises nothing.
LEMMA IdlePromises ==
  ASSUME NEW r \in Request, req'[r] = Idle
  PROVE  Promised(r)'
BY DEF Promised, Idle, InvoiceStep, CreditStep

\* What the first statement of a handler found holds when it has been executed.
LEMMA BeginPromises ==
  ASSUME TypeOK, NEW r \in Request, Begin(r)
  PROVE  Promised(r)'
<1>1. ASSUME NEW i \in Invoice, NEW step, NEW snap, ReadInvoice(r, i, step, snap)
      PROVE  /\ req'[r].at = step /\ req'[r].invoice = i /\ req'[r].snap = snap
             /\ inv' = inv /\ Found(i)
  BY <1>1 DEF ReadInvoice, TypeOK, tables
<1>2. ASSUME NEW i \in Invoice, UpdateRead(r, i) \/ CancelRead(r, i)
      PROVE  Promised(r)'
  <2>1. PICK step, snap : /\ step \in {"update", "cancel"} /\ ReadInvoice(r, i, step, snap)
                          /\ step = "update" => snap = inv[i]
    BY <1>2 DEF UpdateRead, CancelRead
  <2>2. ~Closed(i)
    BY <1>2 DEF UpdateRead, CancelRead
  <2>3. req'[r].at = step /\ req'[r].invoice = i /\ req'[r].snap = snap /\ Found(i)'
    BY <1>1, <2>1 DEF Found, Exists
  <2>4. ~Closed(i)'
    BY <1>1, <2>1, <2>2 DEF Closed
  <2>q. QED BY <1>1, <2>1, <2>3, <2>4 DEF Promised, CreditStep
<1>3. ASSUME NEW i \in Invoice, IssueRead(r, i) \/ RemoveRead(r, i)
      PROVE  Promised(r)'
  <2>1. PICK step \in {"issue", "remove"} : ReadInvoice(r, i, step, NoInvoice)
    BY <1>3 DEF IssueRead, RemoveRead
  <2>2. inv[i].status = "DRAFT"
    BY <1>3 DEF IssueRead, RemoveRead
  <2>3. req'[r].at = step /\ req'[r].invoice = i /\ Found(i)'
    BY <1>1, <2>1 DEF Found, Exists
  <2>q. QED BY <1>1, <2>1, <2>2, <2>3 DEF Promised, CreditStep
<1>4. ASSUME NEW i \in Invoice, MarkSentRead(r, i) \/ RecordPaymentRead(r, i)
      PROVE  Promised(r)'
  <2>1. PICK step, snap :
          /\ step \in {"markSent", "recordPayment"} /\ ReadInvoice(r, i, step, snap)
          /\ step = "recordPayment" => snap = inv[i]
    BY <1>4 DEF MarkSentRead, RecordPaymentRead
  <2>2. req'[r].at = step /\ req'[r].invoice = i /\ req'[r].snap = snap /\ Found(i)'
    BY <1>1, <2>1 DEF Found, Exists
  <2>q. QED BY <1>1, <2>1, <2>2 DEF Promised, CreditStep
<1>5. ASSUME NEW c \in Note, IssueNoteRead(r, c) \/ ApplyNoteRead(r, c)
      PROVE  Promised(r)'
  <2>1. PICK step \in NoteStep : ReadNote(r, c, step)
    BY <1>5 DEF IssueNoteRead, ApplyNoteRead, NoteStep
  <2>2. req'[r].at = step /\ req'[r].note = c /\ note' = note
    BY <2>1 DEF ReadNote, TypeOK, tables
  <2>3. IF step = "issueNote" THEN note[c].status = "DRAFT" ELSE note[c].status = "ISSUED"
    BY <1>5, <2>2 DEF IssueNoteRead, ApplyNoteRead, ReadNote, TypeOK
  <2>q. QED BY <2>1, <2>2, <2>3 DEF Promised, NoteStep, InvoiceStep, CreditStep
<1>q. QED BY <1>2, <1>3, <1>4, <1>5 DEF Begin

\* The later statements keep every promise: the handler that writes is the only one at work
\* on its documents.
LEMMA ResumeInTurn ==
  ASSUME TypeOK, Linked, InTurn, Apart, NEW r \in Request, Resume(r)
  PROVE  InTurn'
<1> DEFINE i == req[r].invoice
           c == req[r].note
           snap == req[r].snap
<1>1. ASSUME NEW row, WriteInvoice(r, row), i \in Invoice, row.items \in Total,
             row.status # "ABSENT", note' = note
      PROVE  InTurn'
  <2>1. \A j \in Invoice : IF Exists(j)' THEN inv'[j].items \in Total ELSE inv'[j] = NoInvoice
    BY <1>1, WriteInvoiceFrame DEF InTurn, Exists
  <2>2. Promised(r)'
    BY <1>1, WriteInvoiceFrame, IdlePromises
  <2>3. \A q \in Request : Promised(q)'
    BY <1>1, <2>2, WriteInvoiceFrame, OthersPromise
  <2>q. QED BY <2>1, <2>3 DEF InTurn
<1>2. i \in Invoice =>
        inv[i] \in InvoiceRow /\ inv[i].items \in Total /\ inv[i].status # "ABSENT"
  BY DEF TypeOK, Linked, InTurn, Exists
<1>3. ASSUME inv' = inv, Promised(r)',
             \A q \in Request : q # r => req'[q] = req[q],
             \A d \in Note : d # c => note'[d] = note[d]
      PROVE  InTurn'
  <2>1. \A q \in Request : Promised(q)'
    BY <1>3, OthersPromise
  <2>q. QED BY <1>3, <2>1 DEF InTurn, Exists
<1>4. CASE UpdateWrite(r)
  <2>1. i \in Invoice /\ note' = note
    BY <1>4, HandlerCarries DEF UpdateWrite, At, InvoiceStep
  <2>2. PICK total :
          \/ total \in Total /\ WriteInvoice(r, [inv[i] EXCEPT !.items = total, !.total = total,
                                                               !.balance = total])
          \/ WriteInvoice(r, [inv[i] EXCEPT !.total = total, !.balance = total])
    BY <1>4 DEF UpdateWrite
  <2>3. /\ [inv[i] EXCEPT !.items = total, !.total = total, !.balance = total].items = total
        /\ [inv[i] EXCEPT !.total = total, !.balance = total].items = inv[i].items
        /\ [inv[i] EXCEPT !.items = total, !.total = total, !.balance = total].status
             = inv[i].status
        /\ [inv[i] EXCEPT !.total = total, !.balance = total].status = inv[i].status
    BY <1>2, <2>1 DEF InvoiceRow
  <2>4. \E row : WriteInvoice(r, row) /\ row.items \in Total /\ row.status # "ABSENT"
    BY <1>2, <2>1, <2>2, <2>3
  <2>q. QED BY <1>1, <2>1, <2>4
<1>5. CASE IssueWrite(r) \/ MarkSentWrite(r) \/ CancelWrite(r)
  <2>1. i \in Invoice /\ note' = note
    BY <1>5, HandlerCarries DEF IssueWrite, MarkSentWrite, CancelWrite, SetStatus, At,
                                InvoiceStep
  <2>2. PICK status \in {"ISSUED", "SENT", "CANCELLED"} :
          WriteInvoice(r, [inv[i] EXCEPT !.status = status])
    BY <1>5 DEF IssueWrite, MarkSentWrite, CancelWrite, SetStatus
  <2>3. PICK row : WriteInvoice(r, row) /\ row.items = inv[i].items /\ row.status = status
    BY <1>2, <2>1, <2>2 DEF InvoiceRow
  <2>q. QED BY <1>1, <1>2, <2>1, <2>3
<1>6. CASE RemoveWrite(r)
  <2>1. i \in Invoice /\ note' = note
    BY <1>6, HandlerCarries DEF RemoveWrite, At, InvoiceStep
  <2>2. PICK row : /\ WriteInvoice(r, row)
                   /\ row.items = inv[i].items /\ row.status = inv[i].status
    BY <1>2, <1>6, <2>1 DEF RemoveWrite, InvoiceRow
  <2>q. QED BY <1>1, <1>2, <2>1, <2>2
<1>7. CASE (\E a \in Amount : RecordPaymentWrite(r, a)) \/ ApplyNoteCredit(r)
  <2>1. i \in Invoice /\ snap = inv[i] /\ note' = note
    BY <1>7, HandlerCarries DEF RecordPaymentWrite, ApplyNoteCredit, At, InvoiceStep, CreditStep,
                                InTurn, Promised
  <2> DEFINE pays(p, b, s) == [inv[i] EXCEPT !.paid = p, !.balance = b, !.status = s]
             credits(p, b, s) == [inv[i] EXCEPT !.balance = b, !.paid = p, !.status = s]
  <2>2. \A p, b, s : /\ pays(p, b, s).items = inv[i].items /\ pays(p, b, s).status = s
                     /\ credits(p, b, s).items = inv[i].items /\ credits(p, b, s).status = s
    BY <1>2, <2>1 DEF InvoiceRow
  <2>3. \A b, p : StatusAfter(b, p, snap.status) # "ABSENT"
    BY <1>2, <2>1 DEF StatusAfter
  <2>6. \A b, p, a : \A s \in StatusesAfterPayment(b, p, a, snap.status) : s # "ABSENT"
    BY <2>3 DEF StatusesAfterPayment
  <2>4. \E p, b, s :
          s # "ABSENT" /\ (WriteInvoice(r, pays(p, b, s)) \/ WriteInvoice(r, credits(p, b, s)))
    <3>1. CASE \E a \in Amount : RecordPaymentWrite(r, a)
      <4>1. PICK a \in Amount : RecordPaymentWrite(r, a)
        BY <3>1
      <4> DEFINE paid == snap.paid + a
                 balance == snap.total - paid
      <4>2. PICK s \in StatusesAfterPayment(balance, snap.paid, a, snap.status) :
              WriteInvoice(r, pays(paid, NonNegative(balance), s))
        BY <4>1 DEF RecordPaymentWrite
      <4> HIDE DEF pays, paid, balance
      <4>3. s # "ABSENT"
        BY <2>6
      <4>q. QED BY <4>2, <4>3
    <3>2. CASE ApplyNoteCredit(r)
      BY <2>3, <3>2 DEF ApplyNoteCredit
    <3>q. QED BY <1>7, <3>1, <3>2
  <2> HIDE DEF pays, credits
  <2>5. PICK row : WriteInvoice(r, row) /\ row.items = inv[i].items /\ row.status # "ABSENT"
    BY <2>2, <2>4
  <2>q. QED BY <1>1, <1>2, <2>1, <2>5
<1>8. CASE IssueNoteWrite(r)
  <2>1. /\ inv' = inv /\ req'[r] = Idle
        /\ \A q \in Request : q # r => req'[q] = req[q]
        /\ \A d \in Note : d # c => note'[d] = note[d]
    BY <1>8 DEF IssueNoteWrite, Finish, TypeOK
  <2>q. QED BY <1>3, <2>1, IdlePromises
<1>9. CASE ApplyNoteMark(r)
  <2>1. /\ inv' = inv /\ c \in Note
        /\ \A q \in Request : q # r => req'[q] = req[q]
        /\ \A d \in Note : d # c => note'[d] = note[d]
    BY <1>9, HandlerCarries DEF ApplyNoteMark, At, NoteStep, Finish, TypeOK
  <2>2. CASE i = Null
    <3>1. req'[r] = Idle
      BY <1>9, <2>2 DEF ApplyNoteMark, Finish, TypeOK
    <3>q. QED BY <1>3, <2>1, <3>1, IdlePromises
  <2>3. CASE i # Null
    <3>1. /\ req'[r].at = "fetchInvoice" /\ req'[r].note = c
          /\ note'[c].status = "APPLIED"
      BY <1>9, <2>1, <2>3 DEF ApplyNoteMark, TypeOK, Handler, Idle, NoteRow
    <3>2. Promised(r)'
      BY <3>1 DEF Promised, InvoiceStep
    <3>q. QED BY <1>3, <2>1, <3>2
  <2>q. QED BY <2>2, <2>3
<1>10. CASE ApplyNoteFetch(r)
  <2>1. inv' = inv /\ note' = note /\ c \in Note /\ note[c].status = "APPLIED"
    BY <1>10, HandlerCarries DEF ApplyNoteFetch, At, tables, CreditStep, InTurn, Promised
  <2>2. /\ req'[r].at = "creditInvoice" /\ req'[r].note = c
        /\ req'[r].invoice = i /\ req'[r].snap = inv[i]
        /\ \A q \in Request : q # r => req'[q] = req[q]
    BY <1>10 DEF ApplyNoteFetch, TypeOK, Handler, Idle
  <2>3. Promised(r)'
    BY <2>1, <2>2 DEF Promised, InvoiceStep
  <2>q. QED BY <1>3, <2>1, <2>2, <2>3
<1>q. QED BY <1>4, <1>5, <1>6, <1>7, <1>8, <1>9, <1>10 DEF Resume

\* When handlers that share a document take turns, no promise is ever broken: a handler that
\* dies takes its promise with it.
LEMMA NextInTurn ==
  ASSUME Apart, TypeOK, Linked, InTurn, [Next]_vars
  PROVE  InTurn'
<1> USE LedgerAssumption
<1>1. ASSUME \A i \in Invoice : Exists(i) => inv'[i] = inv[i],
             \A i \in Invoice :
               \/ inv'[i] = inv[i]
               \/ Exists(i)' /\ inv'[i].items \in Total,
             \A c \in Note : note[c].status # "ABSENT" => note'[c] = note[c],
             req' = req
      PROVE  InTurn'
  <2>1. \A i \in Invoice : IF Exists(i)' THEN inv'[i].items \in Total ELSE inv'[i] = NoInvoice
    BY <1>1 DEF InTurn, Exists
  <2>2. ASSUME NEW r \in Request
        PROVE  Promised(r)'
    BY <1>1, PromisedStable DEF InTurn, Linked
  <2>q. QED BY <2>1, <2>2 DEF InTurn
<1>2. ASSUME NEW i \in Invoice, NEW t \in Total, CreateInvoice(i, t)
      PROVE  InTurn'
  <2> DEFINE row == [NoInvoice EXCEPT !.status = "DRAFT", !.items = t, !.total = t,
                                      !.balance = t]
  <2>1. inv' = [inv EXCEPT ![i] = row] /\ ~Exists(i) /\ note' = note /\ req' = req
    BY <1>2 DEF CreateInvoice
  <2>2. row.items = t /\ row.status = "DRAFT"
    BY DEF NoInvoice
  <2> HIDE DEF row
  <2>3. inv'[i] = row /\ \A j \in Invoice : j # i => inv'[j] = inv[j]
    BY <2>1 DEF TypeOK
  <2>q. QED BY <1>1, <2>1, <2>2, <2>3 DEF Exists
<1>3. ASSUME NEW i \in Invoice, NEW a \in Amount, CreatePayment(i, a)
      PROVE  InTurn'
  BY <1>1, <1>3 DEF CreatePayment, Exists
<1>4. ASSUME NEW c \in Note, NEW i \in Invoice \cup {Null}, NEW a \in Amount,
             CreateNote(c, i, a)
      PROVE  InTurn'
  BY <1>1, <1>4 DEF CreateNote, Exists, TypeOK
<1>5. ASSUME NEW r \in Request, Begin(r)
      PROVE  InTurn'
  <2>1. /\ inv' = inv /\ note' = note
        /\ \A q \in Request : q # r => req'[q] = req[q]
    BY <1>5, BeginEffect DEF tables
  <2>2. \A q \in Request : Promised(q)'
    BY <1>5, <2>1, BeginPromises, OthersPromise
  <2>q. QED BY <2>1, <2>2 DEF InTurn, Exists
<1>6. ASSUME NEW r \in Request, Resume(r)
      PROVE  InTurn'
  BY <1>6, ResumeInTurn
<1>7. ASSUME NEW r \in Request, Fail(r)
      PROVE  InTurn'
  <2>1. /\ inv' = inv /\ note' = note /\ req'[r] = Idle
        /\ \A q \in Request : q # r => req'[q] = req[q]
    BY <1>7 DEF Fail, Finish, tables, TypeOK
  <2>2. \A q \in Request : Promised(q)'
    BY <2>1, IdlePromises, OthersPromise
  <2>q. QED BY <2>1, <2>2 DEF InTurn, Exists
<1>8. CASE UNCHANGED vars
  BY <1>1, <1>8 DEF vars, Exists
<1>q. QED BY <1>2, <1>3, <1>4, <1>5, <1>6, <1>7, <1>8 DEF Next, Insert

\* The abstract ledger shows the same notes after a step that writes none and neither starts
\* nor ends a handler's way from a note to its invoice.
LEMMA SeenStable ==
  ASSUME note' = note,
         \A r \in Request :
           \/ req'[r] = req[r]
           \/ req'[r].at \notin CreditStep /\ req[r].at \notin CreditStep
           \/ /\ req'[r].at \in CreditStep /\ req[r].at \in CreditStep
              /\ req'[r].note = req[r].note
  PROVE  Seen' = Seen
<1>1. \A c \in Note : BeingApplied(c)' = BeingApplied(c)
  BY DEF BeingApplied, CreditStep
<1>q. QED BY <1>1 DEF Seen

\* A handler that is alone on note c decides how c is shown: as ISSUED while the handler is
\* on its way from the note to its invoice, and as it is otherwise.
Shown(underway, row) == IF underway THEN [row EXCEPT !.status = "ISSUED"] ELSE row

LEMMA SeenOwn ==
  ASSUME Apart, NEW r \in Request, NEW c \in Note, req[r].note = c,
         \A q \in Request : q # r => req'[q] = req[q],
         req'[r].note = c \/ req'[r].at \notin CreditStep,
         note' \in [Note -> NoteRow], \A d \in Note : d # c => note'[d] = note[d]
  PROVE  /\ Seen[c] = Shown(req[r].at \in CreditStep, note[c])
         /\ Seen' = [Seen EXCEPT ![c] = Shown(req'[r].at \in CreditStep, note'[c])]
<1>1. \A q \in Request : q # r => req[q].note # c
  BY LedgerAssumption DEF Apart
<1>2. BeingApplied(c) <=> req[r].at \in CreditStep
  BY <1>1 DEF BeingApplied, CreditStep
<1>3. BeingApplied(c)' <=> req'[r].at \in CreditStep
  BY <1>1 DEF BeingApplied, CreditStep
<1>4. \A d \in Note : d # c => (BeingApplied(d)' <=> BeingApplied(d))
  BY DEF BeingApplied, CreditStep
<1>5. Seen[c] = Shown(req[r].at \in CreditStep, note[c])
  BY <1>2 DEF Seen, Shown
<1>6. \A d \in Note :
        Seen'[d] = IF d = c THEN Shown(req'[r].at \in CreditStep, note'[c]) ELSE Seen[d]
  BY <1>3, <1>4 DEF Seen, Shown
<1>7. /\ Seen' = [d \in Note |-> Seen'[d]]
      /\ Seen = [d \in Note |-> Seen[d]]
  BY DEF Seen
<1>q. QED BY <1>5, <1>6, <1>7

\* The abstract ledger as a state: it stutters when none of this changes.
LEMMA Stutter ==
  ASSUME inv' = inv, Seen' = Seen, received' = received
  PROVE  UNCHANGED Atomic!vars
BY DEF Atomic!vars, Seen

\* The row that a payment or a credit leaves is the one the endpoints promise.
LEMMA SettlesRow ==
  ASSUME inv \in [Invoice -> InvoiceRow], NEW i \in Invoice, NEW paid, NEW balance \in Int,
         NEW status, inv' = [inv EXCEPT ![i] = Settled(inv[i], paid, balance, status)]
  PROVE  Atomic!Settle(i, balance, paid, status)
BY DEF Atomic!Settle, Settled, NonNegative

\* Issuing and applying a note are steps of the abstract ledger.
LEMMA NoteIsAtomic ==
  ASSUME NEW d \in Note, Atomic!IssueNote(d) \/ Atomic!ApplyNote(d)
  PROVE  Atomic!Next
BY DEF Atomic!Next

\* Each later statement is a step of the abstract ledger or is not seen in it.
LEMMA ResumeIsAtomic ==
  ASSUME Apart, TypeOK, TypeOK', Linked, InTurn, NEW r \in Request, Resume(r)
  PROVE  Atomic!Next \/ UNCHANGED Atomic!vars
<1> USE LedgerAssumption
<1> DEFINE i == req[r].invoice
           snap == req[r].snap
<1>0. snap \in InvoiceRow /\ Promised(r)
  BY HandlerCarries DEF InTurn
<1>1. ASSUME req[r].at \in InvoiceStep, Finish(r), note' = note
      PROVE  Seen' = Seen /\ i \in Invoice /\ inv[i] \in InvoiceRow /\ Found(i)
  <2>1. req'[r].at \notin CreditStep /\ \A q \in Request : q # r => req'[q] = req[q]
    BY <1>1 DEF Finish, Idle, CreditStep, TypeOK
  <2>2. req[r].at \notin CreditStep
    BY <1>1 DEF InvoiceStep, CreditStep
  <2>3. i \in Invoice /\ Found(i)
    BY <1>0, <1>1, HandlerCarries DEF Promised
  <2>q. QED BY <1>1, <2>1, <2>2, <2>3, SeenStable DEF TypeOK
<1>2. CASE UpdateWrite(r)
  <2>1. /\ req[r].at = "update" /\ Finish(r) /\ note' = note /\ received' = received
    BY <1>2 DEF UpdateWrite, At, WriteInvoice
  <2>2. Seen' = Seen /\ i \in Invoice /\ inv[i] \in InvoiceRow /\ Found(i)
    BY <1>1, <2>1 DEF InvoiceStep
  <2>3. ~Closed(i) /\ snap = inv[i] /\ inv[i].items \in Total
    BY <1>0, <2>1, <2>2 DEF Promised, InTurn, Found
  <2>4. PICK t \in Total :
          inv' = [inv EXCEPT ![i] = [inv[i] EXCEPT !.items = t, !.total = t, !.balance = t]]
    <3>1. CASE \E t \in Total :
                 WriteInvoice(r, [inv[i] EXCEPT !.items = t, !.total = t, !.balance = t])
      BY <3>1 DEF WriteInvoice
    <3>2. CASE WriteInvoice(r, [inv[i] EXCEPT !.total = snap.items, !.balance = snap.items])
      <4>1. [inv[i] EXCEPT !.total = snap.items, !.balance = snap.items]
              = [inv[i] EXCEPT !.items = snap.items, !.total = snap.items,
                               !.balance = snap.items]
        BY <2>2, <2>3 DEF InvoiceRow
      <4>q. QED BY <2>3, <3>2, <4>1 DEF WriteInvoice
    <3>q. QED BY <1>2, <3>1, <3>2 DEF UpdateWrite
  <2>5. Atomic!Open(i)
    BY <2>2, <2>3 DEF Atomic!Open, Atomic!Live, Found, Exists, Closed
  <2>6. Atomic!Bill(i, t)
    BY <2>1, <2>2, <2>4, <2>5 DEF Atomic!Bill, Seen
  <2>q. QED BY <2>2, <2>6 DEF Atomic!Next
<1>3. ASSUME NEW step \in {"issue", "markSent", "cancel"}, NEW status,
             SetStatus(r, step, status)
      PROVE  /\ i \in Invoice
             /\ step = "issue" => inv[i].status = "DRAFT"
             /\ step = "cancel" => Atomic!Open(i)
             /\ \A guard \in {TRUE} : Atomic!Move(i, guard, status)
  <2>1. /\ req[r].at = step /\ Finish(r) /\ note' = note /\ received' = received
        /\ inv' = [inv EXCEPT ![i] = [inv[i] EXCEPT !.status = status]]
    BY <1>3 DEF SetStatus, At, WriteInvoice
  <2>2. Seen' = Seen /\ i \in Invoice /\ inv[i] \in InvoiceRow /\ Found(i)
    BY <1>1, <2>1 DEF InvoiceStep
  <2>3. step = "issue" => inv[i].status = "DRAFT"
    BY <1>0, <2>1 DEF Promised
  <2>4. step = "cancel" => ~Closed(i)
    BY <1>0, <2>1 DEF Promised
  <2>5. Atomic!Live(i) /\ (step = "cancel" => Atomic!Open(i))
    BY <2>2, <2>4 DEF Atomic!Open, Atomic!Live, Found, Exists, Closed
  <2>6. inv' = [inv EXCEPT ![i].status = status]
    BY <2>1
  <2>7. \A guard \in {TRUE} : Atomic!Move(i, guard, status)
    BY <2>1, <2>2, <2>5, <2>6 DEF Atomic!Move, Seen
  <2>q. QED BY <2>2, <2>3, <2>5, <2>7
<1>4. CASE IssueWrite(r)
  <2>1. i \in Invoice /\ inv[i].status = "DRAFT"
    BY <1>3, <1>4 DEF IssueWrite
  <2>2. Atomic!Move(i, inv[i].status = "DRAFT", "ISSUED")
    BY <1>3, <1>4, <2>1 DEF IssueWrite, Atomic!Move
  <2>q. QED BY <2>1, <2>2 DEF Atomic!Next
<1>5. CASE MarkSentWrite(r)
  <2>1. i \in Invoice /\ Atomic!Move(i, TRUE, "SENT")
    BY <1>3, <1>5 DEF MarkSentWrite
  <2>q. QED BY <2>1 DEF Atomic!Next
<1>6. CASE CancelWrite(r)
  <2>1. i \in Invoice /\ Atomic!Open(i)
    BY <1>3, <1>6 DEF CancelWrite
  <2>2. Atomic!Move(i, Atomic!Open(i), "CANCELLED")
    BY <1>3, <1>6, <2>1 DEF CancelWrite, Atomic!Move
  <2>q. QED BY <2>1, <2>2 DEF Atomic!Next
<1>7. CASE RemoveWrite(r)
  <2>1. /\ req[r].at = "remove" /\ Finish(r) /\ note' = note /\ received' = received
        /\ inv' = [inv EXCEPT ![i] = [inv[i] EXCEPT !.deleted = TRUE]]
    BY <1>7 DEF RemoveWrite, At, WriteInvoice
  <2>2. Seen' = Seen /\ i \in Invoice /\ inv[i] \in InvoiceRow /\ Found(i)
    BY <1>1, <2>1 DEF InvoiceStep
  <2>3. inv[i].status = "DRAFT" /\ Atomic!Live(i)
    BY <1>0, <2>1, <2>2 DEF Promised, Atomic!Live, Found, Exists
  <2>4. Atomic!Delete(i)
    BY <2>1, <2>2, <2>3 DEF Atomic!Delete, Seen
  <2>q. QED BY <2>2, <2>4 DEF Atomic!Next
<1>8. ASSUME NEW a \in Amount, RecordPaymentWrite(r, a)
      PROVE  Atomic!Next
  <2> DEFINE newPaid == snap.paid + a
             newBalance == snap.total - newPaid
  <2> PICK status \in StatusesAfterPayment(newBalance, snap.paid, a, snap.status) :
        WriteInvoice(r, [inv[i] EXCEPT !.paid = newPaid, !.balance = NonNegative(newBalance),
                                       !.status = status])
    BY <1>8 DEF RecordPaymentWrite
  <2>1. /\ req[r].at = "recordPayment" /\ Finish(r) /\ note' = note
        /\ inv' = [inv EXCEPT ![i] = Settled(inv[i], newPaid, newBalance, status)]
        /\ received' = [received EXCEPT ![i] = received[i] + a]
    BY <1>8 DEF RecordPaymentWrite, At, WriteInvoice, Settled
  <2>2. Seen' = Seen /\ i \in Invoice /\ inv[i] \in InvoiceRow /\ Found(i)
    BY <1>1, <2>1 DEF InvoiceStep
  <2>3. snap = inv[i]
    BY <1>0, <2>1 DEF Promised
  <2>4. /\ newPaid \in Int /\ newBalance \in Int /\ snap.paid \in Nat
        /\ newPaid = inv[i].paid + a
        /\ newBalance = inv[i].total - inv[i].paid - a
    <3>1. snap.paid \in Nat /\ snap.total \in Nat /\ a \in Nat /\ a > 0
      BY <1>0 DEF InvoiceRow
    <3>q. QED BY <2>3, <3>1
  <2>5. Atomic!Live(i)
    BY <2>2 DEF Atomic!Live, Found, Exists
  <2> HIDE DEF newPaid, newBalance
  <2>6. Atomic!Settle(i, newBalance, newPaid, status)
    BY <2>1, <2>2, <2>4, SettlesRow DEF TypeOK
  <2>8. \/ status = Atomic!Settled(newBalance)
        \/ status = "PARTIALLY_PAID" /\ inv[i].paid > 0 /\ newBalance = 0
    BY <2>3, <2>4, PaymentStatuses DEF Atomic!Settled
  <2>7. Atomic!Pay(i, a)
    BY <2>1, <2>2, <2>4, <2>5, <2>6, <2>8 DEF Atomic!Pay, Seen
  <2>q. QED BY <2>2, <2>7 DEF Atomic!Next
<1>9. CASE IssueNoteWrite(r)
  <2>0. PICK c \in Note : c = req[r].note
    BY <1>9, HandlerCarries DEF IssueNoteWrite, At, NoteStep
  <2>1. /\ req[r].at = "issueNote" /\ req' = [req EXCEPT ![r] = Idle]
        /\ note' = [note EXCEPT ![c].status = "ISSUED"]
        /\ inv' = inv /\ received' = received
    BY <1>9, <2>0 DEF IssueNoteWrite, At, Finish
  <2>2. Seen[c] = note[c] /\ Seen' = [Seen EXCEPT ![c] = note'[c]]
    <3>1. /\ req[r].at \notin CreditStep /\ req'[r].at \notin CreditStep
          /\ \A q \in Request : q # r => req'[q] = req[q]
          /\ \A d \in Note : d # c => note'[d] = note[d]
      BY <2>1 DEF TypeOK, Idle, CreditStep
    <3>q. QED BY <2>0, <3>1, SeenOwn DEF Shown, TypeOK
  <2>3. note[c].status = "DRAFT"
    BY <1>0, <2>0, <2>1 DEF Promised
  <2>4. Seen[c].status = "DRAFT" /\ Seen' = [Seen EXCEPT ![c].status = "ISSUED"]
    <3>1. note'[c] = [note[c] EXCEPT !.status = "ISSUED"]
      BY <2>1 DEF TypeOK
    <3>q. QED BY <2>2, <2>3, <3>1
  <2>5. Atomic!IssueNote(c)
    BY <2>1, <2>4 DEF Atomic!IssueNote, Seen
  <2>q. QED BY <2>5, NoteIsAtomic
<1>10. CASE ApplyNoteMark(r)
  <2>0. PICK c \in Note : c = req[r].note
    BY <1>10, HandlerCarries DEF ApplyNoteMark, At, NoteStep
  <2>1. /\ req[r].at = "applyNote"
        /\ note' = [note EXCEPT ![c].status = "APPLIED"]
        /\ inv' = inv /\ received' = received
        /\ \A q \in Request : q # r => req'[q] = req[q]
    BY <1>10, <2>0 DEF ApplyNoteMark, At, Finish, TypeOK
  <2>2. /\ req[r].at \notin CreditStep
        /\ note'[c] = [note[c] EXCEPT !.status = "APPLIED"] /\ note[c] \in NoteRow
        /\ \A d \in Note : d # c => note'[d] = note[d]
    BY <2>1 DEF TypeOK, CreditStep
  <2>3. note[c].status = "ISSUED" /\ note[c].invoice = i
    BY <1>0, <2>0, <2>1 DEF Promised, Linked
  <2>4. CASE i = Null
    <3>1. req' = [req EXCEPT ![r] = Idle]
      BY <1>10, <2>4 DEF ApplyNoteMark, Finish
    <3>2. Seen[c] = note[c] /\ Seen' = [Seen EXCEPT ![c] = note'[c]]
      <4>1. req'[r].at \notin CreditStep
        BY <3>1 DEF TypeOK, Idle, CreditStep
      <4>q. QED BY <2>0, <2>1, <2>2, <4>1, SeenOwn DEF Shown, TypeOK
    <3>3. /\ Seen[c].status = "ISSUED" /\ Seen[c].invoice = Null
          /\ Seen' = [Seen EXCEPT ![c].status = "APPLIED"]
      BY <2>1, <2>2, <2>3, <2>4, <3>2
    <3>4. Atomic!ApplyNote(c)
      BY <2>1, <3>3 DEF Atomic!ApplyNote, Seen
    <3>q. QED BY <3>4, NoteIsAtomic
  <2>5. CASE i # Null
    <3>1. req'[r].at = "fetchInvoice" /\ req'[r].note = c
      BY <1>10, <2>0, <2>5 DEF ApplyNoteMark, TypeOK, Handler, Idle
    <3>2. /\ Seen[c] = note[c]
          /\ Seen' = [Seen EXCEPT ![c] = [note'[c] EXCEPT !.status = "ISSUED"]]
      <4>1. req'[r].at \in CreditStep
        BY <3>1 DEF CreditStep
      <4>q. QED BY <2>0, <2>1, <2>2, <3>1, <4>1, SeenOwn DEF Shown, TypeOK
    <3>4. [note'[c] EXCEPT !.status = "ISSUED"] = note[c]
      BY <2>2, <2>3 DEF NoteRow
    <3>5. Seen' = [Seen EXCEPT ![c] = Seen[c]]
      BY <3>2, <3>4
    <3>3. Seen' = Seen
      BY <3>5 DEF Seen
    <3>q. QED BY <2>1, <3>3, Stutter
  <2>q. QED BY <2>4, <2>5
<1>11. CASE ApplyNoteFetch(r)
  <2>1. /\ req[r].at = "fetchInvoice" /\ req'[r].at = "creditInvoice"
        /\ req'[r].note = req[r].note
        /\ \A q \in Request : q # r => req'[q] = req[q]
        /\ inv' = inv /\ note' = note /\ received' = received
    BY <1>11 DEF ApplyNoteFetch, At, TypeOK, Handler, Idle, tables
  <2>2. Seen' = Seen
    BY <2>1, SeenStable DEF CreditStep
  <2>q. QED BY <2>1, <2>2, Stutter
<1>12. CASE ApplyNoteCredit(r)
  <2>0. PICK c \in Note : c = req[r].note
    BY <1>12, HandlerCarries DEF ApplyNoteCredit, At, CreditStep
  <2> DEFINE n == note[c].total
             newPaid == snap.paid + n
             newBalance == NonNegative(snap.balance - n)
  <2>1. /\ req[r].at = "creditInvoice" /\ req' = [req EXCEPT ![r] = Idle]
        /\ note' = note /\ received' = received
        /\ inv' = [inv EXCEPT ![i] = [inv[i] EXCEPT !.balance = newBalance, !.paid = newPaid,
                                        !.status = StatusAfter(newBalance, newPaid, snap.status)]]
    BY <1>12, <2>0 DEF ApplyNoteCredit, At, WriteInvoice, Finish
  <2>2. i \in Invoice /\ inv[i] \in InvoiceRow
    BY <2>1, HandlerCarries DEF CreditStep, TypeOK
  <2>3. /\ snap = inv[i] /\ note[c].status = "APPLIED" /\ note[c].invoice = i
        /\ n \in Nat /\ n > 0
    BY <1>0, <2>0, <2>1, <2>2 DEF Promised, CreditStep, Linked, TypeOK, NoteRow
  <2>4. /\ newPaid \in Int /\ newPaid > 0 /\ snap.balance - n \in Int
    BY <1>0, <2>3 DEF InvoiceRow
  <2>5. /\ newBalance \in Nat
        /\ newBalance = NonNegative(snap.balance - n)
        /\ newBalance <= 0 <=> snap.balance - n <= 0
    BY <2>4 DEF NonNegative
  <2> DEFINE balance == snap.balance - n
  <2>6. StatusAfter(newBalance, newPaid, snap.status) = Atomic!Settled(balance)
    <3> HIDE DEF newPaid, newBalance
    <3>1. StatusAfter(newBalance, newPaid, snap.status) =
            IF newBalance <= 0 THEN "PAID" ELSE "PARTIALLY_PAID"
      BY <2>4, <2>5, StatusAfterPaid
    <3>q. QED BY <2>4, <2>5, <3>1 DEF Atomic!Settled
  <2>7. [inv[i] EXCEPT !.balance = newBalance, !.paid = newPaid,
                       !.status = StatusAfter(newBalance, newPaid, snap.status)]
          = Settled(inv[i], newPaid, balance, Atomic!Settled(balance))
    <3> HIDE DEF newPaid
    <3>1. newBalance = NonNegative(balance)
      OBVIOUS
    <3> HIDE DEF newBalance, balance
    <3>q. QED BY <2>2, <2>6, <3>1 DEF Settled, InvoiceRow
  <2>8. newPaid = inv[i].paid + n /\ balance = inv[i].balance - n
    BY <2>3
  <2>9. inv' = [inv EXCEPT ![i] = Settled(inv[i], newPaid, balance, Atomic!Settled(balance))]
    BY <2>1, <2>7
  <2>10. balance \in Int
    BY <2>4
  <2> HIDE DEF newPaid, balance
  <2>11. Atomic!Settle(i, balance, newPaid, Atomic!Settled(balance))
    BY <2>2, <2>4, <2>9, <2>10, SettlesRow DEF TypeOK
  <2>12. /\ Seen[c] = [note[c] EXCEPT !.status = "ISSUED"]
         /\ Seen' = [Seen EXCEPT ![c] = note[c]]
    <3>1. /\ req[r].at \in CreditStep /\ req'[r].at \notin CreditStep
          /\ \A q \in Request : q # r => req'[q] = req[q]
      BY <2>1 DEF TypeOK, Idle, CreditStep
    <3>q. QED BY <2>0, <2>1, <3>1, SeenOwn DEF Shown, TypeOK
  <2>14. /\ Seen[c].status = "ISSUED" /\ Seen[c].invoice = i /\ Seen[c].total = n
         /\ Seen' = [Seen EXCEPT ![c].status = "APPLIED"]
    <3>1. note[c] \in NoteRow
      BY DEF TypeOK
    <3>3. [Seen[c] EXCEPT !.status = "APPLIED"] = note[c]
      BY <2>3, <2>12, <3>1 DEF NoteRow
    <3>4. Seen[c].status = "ISSUED" /\ Seen[c].invoice = i /\ Seen[c].total = n
      BY <2>3, <2>12, <3>1 DEF NoteRow
    <3>q. QED BY <2>12, <3>3, <3>4
  <2> HIDE DEF n
  <2>15. i # Null
    BY <2>2
  <2>16. Atomic!ApplyNote(c)
    BY <2>1, <2>8, <2>11, <2>14, <2>15 DEF Atomic!ApplyNote, Seen
  <2>q. QED BY <2>16, NoteIsAtomic
<1>q. QED BY <1>2, <1>4, <1>5, <1>6, <1>7, <1>8, <1>9, <1>10, <1>11, <1>12 DEF Resume

\* Every step of the ledger is a step of the abstract one or is not seen in it.
LEMMA NextIsAtomic ==
  ASSUME "createPayment" \notin Ops, TypeOK, TypeOK', Linked, Apart, InTurn, [Next]_vars,
         ~\E r \in Request : req[r].at \in CreditStep /\ Fail(r)
  PROVE  [Atomic!Next]_(Atomic!vars)
<1> USE LedgerAssumption
<1>1. ASSUME NEW i \in Invoice, NEW t \in Total, CreateInvoice(i, t)
      PROVE  Atomic!Next
  <2>1. /\ inv[i].status = "ABSENT" /\ note' = note /\ received' = received /\ req' = req
        /\ inv' = [inv EXCEPT ![i] = [NoInvoice EXCEPT !.status = "DRAFT", !.items = t,
                                                       !.total = t, !.balance = t]]
    BY <1>1 DEF CreateInvoice, Exists
  <2>2. Seen' = Seen
    BY <2>1, SeenStable
  <2>3. inv[i] = NoInvoice
    BY <2>1 DEF InTurn, Exists
  <2>4. Atomic!Bill(i, t)
    BY <2>1, <2>2, <2>3 DEF Atomic!Bill, Seen
  <2>q. QED BY <2>4 DEF Atomic!Next
<1>2. ASSUME NEW c \in Note, NEW i \in Invoice \cup {Null}, NEW a \in Amount,
             CreateNote(c, i, a)
      PROVE  Atomic!Next
  <2> DEFINE row == [status |-> "DRAFT", invoice |-> i, total |-> a]
  <2>1. /\ note[c].status = "ABSENT" /\ inv' = inv /\ received' = received /\ req' = req
        /\ i # Null => inv[i].status # "ABSENT"
        /\ note' = [note EXCEPT ![c] = row]
    BY <1>2 DEF CreateNote, Exists
  <2>2. ~BeingApplied(c) /\ \A d \in Note : BeingApplied(d)' = BeingApplied(d)
    BY <2>1 DEF BeingApplied, Linked
  <2> HIDE DEF row
  <2>3. Seen[c].status = "ABSENT" /\ Seen' = [Seen EXCEPT ![c] = row]
    BY <2>1, <2>2 DEF Seen, TypeOK
  <2>4. Atomic!AddNote(c, i, a)
    BY <2>1, <2>3 DEF Atomic!AddNote, Seen, row
  <2>q. QED BY <2>4 DEF Atomic!Next
<1>3. ASSUME NEW r \in Request, Begin(r)
      PROVE  UNCHANGED Atomic!vars
  <2>1. inv' = inv /\ note' = note /\ received' = received
    BY <1>3, BeginEffect DEF tables
  <2>2. req'[r].at \notin CreditStep /\ \A q \in Request : q # r => req'[q] = req[q]
    BY <1>3, BeginEffect DEF InvoiceStep, NoteStep, CreditStep
  <2>3. req[r].at \notin CreditStep
    BY <1>3 DEF Begin, UpdateRead, IssueRead, MarkSentRead, CancelRead, RemoveRead,
                RecordPaymentRead, IssueNoteRead, ApplyNoteRead, ReadInvoice, ReadNote,
                Idle, CreditStep
  <2>q. QED BY <2>1, <2>2, <2>3, SeenStable, Stutter
<1>4. ASSUME NEW r \in Request, Resume(r)
      PROVE  Atomic!Next \/ UNCHANGED Atomic!vars
  BY <1>4, ResumeIsAtomic
<1>6. ASSUME NEW r \in Request, Fail(r)
      PROVE  UNCHANGED Atomic!vars
  <2>1. /\ inv' = inv /\ note' = note /\ received' = received /\ req'[r] = Idle
        /\ \A q \in Request : q # r => req'[q] = req[q]
    BY <1>6 DEF Fail, Finish, tables, TypeOK
  <2>2. req[r].at \notin CreditStep /\ req'[r].at \notin CreditStep
    BY <1>6, <2>1 DEF Idle, CreditStep
  <2>q. QED BY <2>1, <2>2, SeenStable, Stutter
<1>5. CASE UNCHANGED vars
  <2>1. inv' = inv /\ note' = note /\ received' = received /\ req' = req
    BY <1>5 DEF vars
  <2>q. QED BY <2>1, SeenStable, Stutter
<1>q. QED BY <1>1, <1>2, <1>3, <1>4, <1>5, <1>6 DEF Next, Insert, CreatePayment

\* If no two handlers are at work on one document, none dies between marking a note and
\* crediting its invoice, and payments are recorded on their invoice, then InvoicesService,
\* CreditNotesService and PaymentsService implement the ledger their endpoints describe:
\* every request takes effect at once, on the state its guard was evaluated in, however
\* requests on different documents overlap.
THEOREM LedgerIsAtomicApart ==
  ASSUME "createPayment" \notin Ops
  PROVE  OrderlySpec => AtomicSpec
<1> DEFINE Spared == ~\E r \in Request : req[r].at \in CreditStep /\ Fail(r)
<1>1. Init => Atomic!Init
  <2> SUFFICES ASSUME Init PROVE Atomic!Init
    OBVIOUS
  <2>1. \A c \in Note : ~BeingApplied(c)
    BY DEF Init, BeingApplied, Idle
  <2>2. Seen = [c \in Note |-> NoNote]
    BY <2>1 DEF Init, Seen
  <2>q. QED BY <2>2 DEF Init, Atomic!Init, Seen, NoInvoice, NoNote
<1>2. Init => InTurn
  BY DEF Init, InTurn, Promised, Exists, NoInvoice, Idle, InvoiceStep, CreditStep
<1>3. TypeOK /\ Linked /\ Apart /\ InTurn /\ [Next]_vars => InTurn'
  BY NextInTurn
<1>4. /\ TypeOK /\ TypeOK' /\ Linked /\ Apart /\ InTurn /\ [Next]_vars
      /\ Spared \/ UNCHANGED vars
      => [Atomic!Next]_(Atomic!vars)
  <2>1. UNCHANGED vars => UNCHANGED Atomic!vars
    BY SeenStable, Stutter DEF vars
  <2>q. QED BY <2>1, NextIsAtomic
<1>5. [/\ Next /\ Apart'
       /\ ~\E r \in Request : req[r].at \in CreditStep /\ Fail(r)]_vars
      => Spared \/ UNCHANGED vars
  OBVIOUS
<1> HIDE DEF Spared
<1>q. QED BY <1>1, <1>2, <1>3, <1>4, <1>5, OrderlyIsApart, ApartIsSpec, TypeCorrect,
             LinkedAlways, PTL DEF OrderlySpec, AtomicSpec, Atomic!Spec, Spec

=============================================================================
