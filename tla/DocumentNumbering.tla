-------------------------- MODULE DocumentNumbering --------------------------
(***************************************************************************)
(* How invoices, credit notes, quotations, travel cases and bookings get   *)
(* their numbers (FT-2025-0007).  Each service's generateNumber takes the  *)
(* next value of a counter row with one atomic upsert, and create inserts  *)
(* the document with a later statement; the table has a unique index on    *)
(* (tenant, number).  Requests overlap and may die in between, and the     *)
(* year may change while they run.                                         *)
(*                                                                         *)
(* A number is the triple its string is rendered from: zero-padding a value*)
(* to four digits gives different strings for different values.            *)
(***************************************************************************)
EXTENDS Integers

CONSTANTS
  Tenant,
  Kind,                 \* the kinds of documents created, a subset of AllKinds
  Request,              \* create calls; each is made at most once
  FirstYear, LastYear,  \* bound: the years during which calls are made
  MayFail               \* may a handler die between two statements?

\* SequenceCounter.type
AllKinds == {"invoice_invoice", "invoice_proforma", "invoice_receipt", "credit_note",
             "quotation", "case", "booking"}

ASSUME NumberingAssumption ==
  /\ Kind \subseteq AllKinds
  /\ FirstYear \in Nat
  /\ LastYear \in Nat
  /\ FirstYear <= LastYear
  /\ MayFail \in BOOLEAN

VARIABLES
  year,     \* what new Date().getFullYear() returns
  counter,  \* table sequence_counters: lastValue, 0 when there is no row
  req       \* the create calls and, once "stored", the documents

vars == <<year, counter, req>>

Year == FirstYear .. LastYear

\* [mutant] receipts numbered like invoices
PrefixSharing(k) ==
  CASE k = "invoice_invoice"  -> "FT"
    [] k = "invoice_proforma" -> "PRF"
    [] k = "invoice_receipt"  -> "FT"
    [] k = "credit_note"      -> "NC"
    [] k = "quotation"        -> "PRV"
    [] k = "case"             -> "PRA"
    [] k = "booking"          -> "BOO"

Prefix(k) ==
  CASE k = "invoice_invoice"  -> "FT"
    [] k = "invoice_proforma" -> "PRF"
    [] k = "invoice_receipt"  -> "RC"
    [] k = "credit_note"      -> "NC"
    [] k = "quotation"        -> "PRV"
    [] k = "case"             -> "PRA"
    [] k = "booking"          -> "BOO"

\* The three types of invoices share a table, the other kinds have their own.
Table(k) ==
  IF k \in {"invoice_invoice", "invoice_proforma", "invoice_receipt"} THEN "invoices" ELSE k

\* value is 0 until the call has been given a number.
Call ==
  [at : {"idle", "numbering", "failed"},
   tenant : Tenant, kind : Kind, year : Year, value : {0}]
  \cup
  [at : {"inserting", "stored", "failed"},
   tenant : Tenant, kind : Kind, year : Year, value : Nat \ {0}]

Number(c) == <<Prefix(c.kind), c.year, c.value>>

\* Two calls whose documents the unique index forbids to coexist.
Clash(c, d) ==
  c.tenant = d.tenant /\ Table(c.kind) = Table(d.kind) /\ Number(c) = Number(d)

\* The counter row a call uses: sequence_counters is unique on (tenant, type, year).
Series == Tenant \X Kind \X Year
SeriesOf(c) == <<c.tenant, c.kind, c.year>>

\* A call's tenant and kind are those it will be made with.
Init ==
  /\ year = FirstYear
  /\ counter = [q \in Series |-> 0]
  /\ req \in [Request -> [at : {"idle"}, tenant : Tenant, kind : Kind,
                          year : {FirstYear}, value : {0}]]

\* getFullYear() runs before the first await.
Create(r) ==
  /\ req[r].at = "idle"
  /\ req' = [req EXCEPT ![r].at = "numbering", ![r].year = year]
  /\ UNCHANGED <<year, counter>>

\* [mutant] the year is asked for again when the number is put together
TakeNumberThisYear(r) ==
  LET c == req[r]
      next == counter[SeriesOf(c)] + 1
  IN /\ c.at = "numbering"
     /\ counter' = [counter EXCEPT ![SeriesOf(c)] = next]
     /\ req' = [req EXCEPT ![r].at = "inserting", ![r].value = next, ![r].year = year]
     /\ UNCHANGED year

\* sequenceCounter.upsert: INSERT ... ON CONFLICT DO UPDATE lastValue + 1.
TakeNumber(r) ==
  LET c == req[r]
      next == counter[SeriesOf(c)] + 1
  IN /\ c.at = "numbering"
     /\ counter' = [counter EXCEPT ![SeriesOf(c)] = next]
     /\ req' = [req EXCEPT ![r].at = "inserting", ![r].value = next]
     /\ UNCHANGED year

\* The insert, which the unique index rejects if the number is taken.
Insert(r) ==
  /\ req[r].at = "inserting"
  /\ LET taken == \E s \in Request : req[s].at = "stored" /\ Clash(req[r], req[s])
     IN req' = [req EXCEPT ![r].at = IF taken THEN "failed" ELSE "stored"]
  /\ UNCHANGED <<year, counter>>

\* The handler throws, or the process dies: no document, and the number is lost.
Fail(r) ==
  /\ MayFail
  /\ req[r].at \in {"numbering", "inserting"}
  /\ req' = [req EXCEPT ![r].at = "failed"]
  /\ UNCHANGED <<year, counter>>

NewYear ==
  /\ year < LastYear
  /\ year' = year + 1
  /\ UNCHANGED <<counter, req>>

Next ==
  \/ NewYear
  \/ \E r \in Request : Create(r) \/ TakeNumber(r) \/ Insert(r) \/ Fail(r)

Spec == Init /\ [][Next]_vars

-----------------------------------------------------------------------------
TypeOK ==
  /\ year \in Year
  /\ counter \in [Series -> Nat]
  /\ req \in [Request -> Call]

\* Documents and calls that hold a number never share it within a tenant's table, also
\* across types of invoices, years and overlapping calls.
NoCollision ==
  \A r, s \in Request :
    r # s /\ req[r].value > 0 /\ req[s].value > 0 => ~Clash(req[r], req[s])

\* Every value a counter has reached belongs to a call of its series: a gap in the
\* numbers of the stored documents is a call that failed or has not finished, never a
\* skipped value.
Accounted ==
  \A q \in Series : \A v \in 1 .. counter[q] :
    \E r \in Request : SeriesOf(req[r]) = q /\ req[r].value = v

\* No create is refused because of its number: calls fail only if the database or the
\* process does.
NeverRefused == ~MayFail => \A r \in Request : req[r].at # "failed"

=============================================================================
