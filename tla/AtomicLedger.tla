---------------------------- MODULE AtomicLedger ----------------------------
(***************************************************************************)
(* What the accounting endpoints promise to a client: every accepted       *)
(* request takes effect in one step, on the state its guard was evaluated  *)
(* in.  InvoiceLedger implements this specification when requests that     *)
(* overlap share no document and no handler dies between a credit note and *)
(* its invoice.                                                            *)
(***************************************************************************)
EXTENDS Integers

CONSTANTS Invoice, Note, Total, Amount, Null

VARIABLES inv, note, received

vars == <<inv, note, received>>

Live(i) == inv[i].status # "ABSENT" /\ ~inv[i].deleted
Open(i) == Live(i) /\ inv[i].status \notin {"PAID", "CANCELLED"}

Init ==
  /\ inv = [i \in Invoice |-> [status |-> "ABSENT", deleted |-> FALSE, items |-> 0,
                               total |-> 0, paid |-> 0, balance |-> 0]]
  /\ note = [c \in Note |-> [status |-> "ABSENT", invoice |-> Null, total |-> 0]]
  /\ received = [i \in Invoice |-> 0]

\* Draw up or edit an invoice: its total, and the whole of it as balance.
Bill(i, t) ==
  /\ \/ inv[i].status = "ABSENT" /\ inv' = [inv EXCEPT ![i] =
             [@ EXCEPT !.status = "DRAFT", !.items = t, !.total = t, !.balance = t]]
     \/ Open(i) /\ inv' = [inv EXCEPT ![i] =
             [@ EXCEPT !.items = t, !.total = t, !.balance = t]]
  /\ UNCHANGED <<note, received>>

Move(i, guard, status) ==
  /\ Live(i) /\ guard
  /\ inv' = [inv EXCEPT ![i].status = status]
  /\ UNCHANGED <<note, received>>

Delete(i) ==
  /\ Live(i) /\ inv[i].status = "DRAFT"
  /\ inv' = [inv EXCEPT ![i].deleted = TRUE]
  /\ UNCHANGED <<note, received>>

\* Money arriving for an invoice lowers its balance, down to nothing.
Settle(i, balance, paid, status) ==
  inv' = [inv EXCEPT ![i].paid = paid,
                     ![i].balance = IF balance > 0 THEN balance ELSE 0,
                     ![i].status = status]

Settled(balance) == IF balance > 0 THEN "PARTIALLY_PAID" ELSE "PAID"

Pay(i, a) ==
  /\ Live(i)
  /\ LET balance == inv[i].total - inv[i].paid - a
     IN \/ Settle(i, balance, inv[i].paid + a, Settled(balance))
        \/ /\ inv[i].paid > 0 /\ balance = 0  \* the sum of doubles falls short of the total
           /\ Settle(i, balance, inv[i].paid + a, "PARTIALLY_PAID")
  /\ received' = [received EXCEPT ![i] = @ + a]
  /\ UNCHANGED note

AddNote(c, i, a) ==
  /\ note[c].status = "ABSENT"
  /\ i # Null => inv[i].status # "ABSENT"
  /\ note' = [note EXCEPT ![c] = [status |-> "DRAFT", invoice |-> i, total |-> a]]
  /\ UNCHANGED <<inv, received>>

IssueNote(c) ==
  /\ note[c].status = "DRAFT"
  /\ note' = [note EXCEPT ![c].status = "ISSUED"]
  /\ UNCHANGED <<inv, received>>

ApplyNote(c) ==
  /\ note[c].status = "ISSUED"
  /\ note' = [note EXCEPT ![c].status = "APPLIED"]
  /\ LET i == note[c].invoice
     IN IF i = Null THEN UNCHANGED inv
        ELSE LET balance == inv[i].balance - note[c].total
             IN Settle(i, balance, inv[i].paid + note[c].total, Settled(balance))
  /\ UNCHANGED received

Next ==
  \/ \E i \in Invoice :
       \/ \E t \in Total : Bill(i, t)
       \/ Move(i, inv[i].status = "DRAFT", "ISSUED")
       \/ Move(i, TRUE, "SENT")
       \/ Move(i, Open(i), "CANCELLED")
       \/ Delete(i)
       \/ \E a \in Amount : Pay(i, a)
  \/ \E c \in Note :
       \/ \E i \in Invoice \cup {Null}, a \in Amount : AddNote(c, i, a)
       \/ IssueNote(c)
       \/ ApplyNote(c)

Spec == Init /\ [][Next]_vars

=============================================================================
