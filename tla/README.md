# Formal models of the Travel Agency Management System

TLA+ specifications of the back end in `src/apps/backend` (NestJS over Prisma and PostgreSQL) and of
the administration front end in `src/apps/frontend-admin` (Next.js), with TLC configurations that
check them on small instances and proofs checked by TLAPS.

## 1. The system

One Node.js process serves a REST API. A request handler is an `async` function: it runs alone until
it awaits a database call, the database executes that one statement atomically (READ COMMITTED, a few
explicit `$transaction`s), and meanwhile any other handler may run. There are no locks, no row
versions and no conditional updates (`UPDATE … WHERE status = …`): a handler reads a row, decides, and
later writes by id. So every handler with more than one statement can be overtaken, and can be cut
off between two statements by a rejected statement, a lost connection or the death of the process.
All the behaviour that is hard to test comes from this.

| Component | State it keeps | Operations | Interacts with | Hard behaviour | What makes it correct |
|---|---|---|---|---|---|
| Accounting: invoices, payments, credit notes | `invoices`, `payments`, `credit_notes` | create, update, issue, markSent, recordPayment, cancel, remove; payment create; credit note create, issue, apply | apply writes invoices; recordPayment writes payments | read–compute–write on amounts; check–then–write on status; apply is four statements | amounts and status agree; nothing is lost, invented or credited twice |
| Document numbers | `sequence_counters` | `generateNumber` in five services | unique index of each document table | atomic upsert followed by a separate insert; year read first | no number twice, no insert refused, gaps only from failures |
| Authentication | `users` (failedLogins, lockedUntil, refreshToken), roles | login, register, refresh, logout, changePassword | guards and strategies; users and superadmin change the same rows | counter and lock computed from a stale row; refresh racing logout | lock after five failures; logout and block end a session |
| Users, roles, permissions | `users`, `user_roles`, `roles`, `role_permissions` | create, update, toggle, remove, assignRoles; role create, update, remove, syncPermissions | tokens carry a copy of roles | delete-all then create-many without a transaction; check-then-delete | a user never loses roles half-way; a role in use is not deleted |
| Tenants, super-administration, settings, bootstrap | `tenants`, `users`, `tenant_settings` | create/update/suspend/activate tenant, block/unblock user, reset password; start-up creation of owner and super admin | login checks the tenant | two instances starting; suspend racing login | exactly one super admin and owner tenant |
| Sales: quotations, proposals, opportunities, pricing | `quotations`, `quotation_items`, `proposals`, `opportunities` | create, update, updateStatus, add/removeItem, remove; proposal create, send, accept, reject | accept and send change the quotation | two tables updated separately; recalculation from items read earlier | totals match items; accepted proposal has an accepted quotation |
| Travel cases, passengers, checklists, itineraries, services | `travel_cases`, `case_status_history`, children | create, update, updateStatus, add note, remove; child CRUD | inherits from a quotation | status and history written separately; one lead passenger | history ends in the current status |
| Bookings, booking documents | `bookings`, client statistics | create, update, confirm, cancel, markPaidToSupplier, remove | client statistics recomputed after each change | statistics computed from an aggregate and written later | statistics match the bookings |
| CRM: leads, clients, contacts, tags, preferences, history | `leads`, `clients`, … | CRUD, convert lead, notes, tags | conversion creates a client | check-then-create; conversion in several statements | a lead is converted once |
| Workflows: tasks, approvals, reminders | `tasks`, `approvals`, `reminders` | CRUD, decide, complete | — | two deciders | a decision is final |
| Communications: email, WhatsApp, templates | `communications`, `communication_templates` | send, template CRUD, sendWithTemplate | external providers | external call between two writes | a message is marked as what happened to it |
| Documents, document templates | `client_documents`, `document_templates` | CRUD, refreshStatuses | — | batch refresh against edits; one default per type | status follows the dates |
| Suppliers, contracts, contacts | `suppliers`, … | CRUD, score, contacts | — | none: at most a look-up and one write; the branch that moves the primary contact is never taken | the row is the one asked for |
| Analytics | none | read-only aggregates | all tables | — | — |
| HTTP layer | none | routing, guards, validation pipe | every request | the first route that fits serves; a permission no role has | every route is reached, with a permission somebody has |
| Audit log | `audit_logs` | append | every service | errors swallowed | — |
| Front end (`apps/frontend-admin`) | tokens in cookies, the store, the cache of queries | axios interceptor, refresh, proxy route, pages, filters, forms | API | several 401 answers and their refreshes; a load that started before a save; two programs that share no types | a session is kept as long as the server has it; what is shown is current; what is asked for exists |

Everything else in the repository (the other applications, the packages, most directories under
`modules/`, the tests) is a placeholder without code. There are no tests, so the statements the code is
held against come from the Swagger summaries of the controllers, the messages of the exceptions, the
comments and the schema.


## 2. Conventions of the modules

*A handler is one action per database statement.* `req[r]` is the handler that serves request `r`:
`req[r].at` names the statement it executes next, the other fields are the local variables that
survive the `await` (ids, rows read, values to be written). The first action of a handler reads and
checks (`UpdateRead`, `ApplyNoteRead`, …) or, where the code starts with an insert, inserts; a failed
guard is a request that ends with 4xx and changes nothing, so the action is simply not enabled. The
following actions (`…Write`, `…Insert`, …) are the further statements. A `$transaction([...])` is one
action. `Request` bounds how many handlers overlap; a request that ends makes room for the next one,
so behaviours are unbounded sequences of requests.

*Failures.* `Fail(r)` ends a handler between two statements and leaves behind what it wrote: a rejected
statement, a lost connection, the death of the process. `MayFail` switches it off where a property
needs handlers that run to their end.

*Ids* are model values taken from small sets: an insert takes an id whose row is absent. Soft deletion is
a flag of the row, as in the schema. A row that is deleted for good makes room for a new one only where
the module says so (roles: handlers that held the old id hold `Gone` from then on).

*History variables* record what no table does (money taken off an invoice, the lead a client was made
from) and are read by no guard. Three of them occur in several modules: `alone` (no two requests have
overlapped so far), `unbroken` (no handler has stopped halfway) and `calm`, both together. A property
of the form `calm => …` is checked in a run that explores overlapping and failing handlers too, so the
premise is a state that behaviours reach and leave, and the same run tells what overlap breaks.
Where every handler works on one row of the component and what hangs on it, the condition is one on that
row, since the others are busy all the time: `Apart` of the ledger, `crossed` and `broken` of the
quotations, of the bookings with the statistics of clients, of the leads with the addresses of clients,
and of the cases.

*Mixes.* `mix`, chosen in `Init`, is the set of endpoints that the clients of a behaviour use (in `Sales`,
with the quotations there may be). Endpoints
that touch no row in common need not be interleaved, so the state space is a sum instead of a product.
Each MC module says which mixes its run has; the proofs hold for any.

*Mutants.* Definitions marked `[mutant]` are alternative forms of the definition that follows them, as
a plausible mistake would write it. No action uses them. Each property of a passing run is violated
when one of them takes the place of the original (`mutants` in `PROJECT.json`).

## 3. The modules and the code

| Composition | Modules | Runs |
|---|---|---|
| Money | `InvoiceLedger` implements `AtomicLedger` | `ledger_…` |
| Numbers | `DocumentNumbering` | `numbering` |
| Sales, bookings, customers, cases | `Sales`, `Bookings`, `Customers`, `TravelCases` | one each |
| The office | `Office` = `Identity` (`Accounts`, `Roles`, `AdminClient`) and `BackOffice` (`Documents`, `Communications`, `Workflows`), over `Handlers`; `Accounts` implements `Sessions` | `office`, `approvals` |
| The front end | `AdminSite` = `AdminPages` over `Endpoints` over `Routes`, and `AdminLists` | `admin_pages` |

### InvoiceLedger, AtomicLedger

`InvoiceLedger` is `InvoicesService`, `CreditNotesService` and `PaymentsService`. `inv` has, per invoice,
`status`, `deleted`, the total computed from its item rows (`items`), `total`, `paid` and `balance`;
`received` is the sum of the completed payment rows. `recordPayment` is `RecordPaymentRead` and
`RecordPaymentWrite` (the transaction of the invoice update and the payment insert); `apply` is four
statements, `ApplyNoteRead`, `ApplyNoteMark`, `ApplyNoteFetch`, `ApplyNoteCredit`, and both compute new
amounts from the row they read. `PATCH` is `UpdateRead`/`UpdateWrite`: with items it replaces them, and
in both cases it resets total and balance. Status changes are `…Read` and `…Write` around a check.

`AtomicLedger` is what the endpoints promise to a client: every request takes effect in one step. It is
written without handlers, and `InvoiceLedger` implements it (`AtomicSpec`) as long as no two handlers
share a document (`Apart`) and none dies between a note and its invoice; the refinement mapping shows a
note whose handler has marked it but not yet reached its invoice as still `ISSUED`.

Money is in cents, as the columns store it, but the handlers compute with doubles. That shows in one
decision: payments that come to the total exactly may fall short of it as a sum of doubles, so
`StatusesAfterPayment` leaves both `PAID` and `PARTIALLY_PAID` open for the last of them. A credit note of
exactly the balance is compared with the same stored number, and stays exact (`StatusAfter`). The history
variable `credited` counts each credit note once, however often it is taken off, and `applied` counts how
often that was.

### DocumentNumbering

`generateNumber` of the five services that have one (credit notes and invoices share tables and
prefixes only with themselves). `counter` is `sequence_counters`; a call asks for the year, upserts the
counter, inserts the document. The unique index on (tenant, number) is part of `Insert`, which it can
refuse. The year may change between any two statements (`NewYear`).

### Sales

`QuotationsService` and `ProposalsService`. The items of a quotation are the ids whose `home` is the
quotation; `total` stands for the figures that `calculateFinancials` returns. `addItem` and `removeItem`
change the items, read them again (`RecalculateRead`) and write the totals (`RecalculateWrite`). A
proposal's `send` writes two rows with two statements; `accept` and `reject` write both in a
transaction, without looking at any status. `removeItem` deletes an item by its own id, whatever
quotation the URL names. `byHand` remembers the quotations whose status the status endpoint has set,
`astray` those that have lost an item through the URL of another one since their total was computed,
`crossed` those that two requests have worked on at a time and `broken` those on which one has failed. A
handler that is about to delete an item of another quotation works on both (`WorksOn`).

### Bookings

`BookingsService`. After an insert and after a deletion `syncClientStats` aggregates the bookings of the
client (`Aggregate`) and writes the result into its row (`WriteStats`). `update` computes the margin from
what the request brings and, for the rest, from the row it read, and does not compute statistics.
A handler works on the booking it has read and will write, and on the client whose statistics it computes
(`WorksOn`); `crossed` are the bookings and clients that two have worked on at a time, `broken` the clients
whose statistics a handler failed to write.

### Customers

`LeadsService` and `ClientsService`. `convert` reads the lead, creates a client unless one is named,
and marks the lead `WON` with a link to the client, in three statements. Creation and change of a
client's address look the address up first; no unique index backs that up. A handler works on its lead,
and on the address it is going to give to a client (`WorksOn`); `crossed` are the leads and addresses that
two have worked on at a time, `broken` the leads that a conversion failed to mark.

### TravelCases

`CasesService`, `PassengersService`, the bulk route of `ItinerariesService` and `ChecklistsService`.
`changes` is the status history of each case, in the order its rows were inserted; `updateStatus` writes
the case and its history with two statements, a `PATCH` may write the status without any history
(`patched`). `given` counts how often a case was given each status, when it was made and by
`updateStatus`. `plans` keeps, of an itinerary, the bulk requests its days come from. Every handler works on
one case: `crossed` are the cases on which two handlers have been at work at the same time, `broken` those
on which one has failed, and what is said of the other cases holds whatever happens to these.

### Handlers

What the newer modules share: `req[r]` with the next statement (`at`), the row worked on (`on`) and what
was read (`seen`); `Start`, `Proceed` and `Finish` are the first, a further and the last statement of a
handler, `AtOnce` a request of one statement, `Break` and `Fail` the ways to stop halfway. The history
variables `alone` and `unbroken` are kept here. The earlier modules have handlers of their own with more
fields and keep them.

### Accounts, Sessions

`AuthService`, the JWT strategies, and what `UsersService`, `TenantsService` and `SuperAdminService` do to
the same rows. `login` is a read of the user (`Login`), a refusal (`RefuseLogin`), a wrong password with
its count and lock (`RefuseWrongPassword`, `CountFailure`) or the reset of the counter and, after the
roles have been read, the storing of the refresh token (`AcceptPassword`, `OpenSession`). `refresh`
reads the stored token and writes a new one (`Refresh`, `Rotate`). Requests of a signed-in user begin
with the look of the strategy at the user's row (`Authenticate`), and the handler that follows may act on
a row that has changed since. `LockExpires` is time passing. `wrong` and `tries` count wrong passwords
independently of the row.

`Sessions` is the promise, with a step for each statement of a login (`Ask`, `Accept`, `SignIn`) and of a
refresh (`Renew`, `Continue`): a session is opened by a login that was asked for while the tenant took
logins and accepted while its user was admitted, or by a refresh that began while it was open; anything
may close one. The mapping shows a stored refresh token as an open session and the handlers under way as
users who are asking, accepted or renewing (`Under`). `SessionsAreOpenedByLogin` is that every step of the
accounts is one of `Sessions`, whatever overlaps, and that in calm behaviours what opens a session is the
last statement of a login (`OpenedByLogin`).

### Roles

`RolesService`, `PermissionsService`, `UsersService.assignRoles` and `DatabaseBootstrap`. The tables are sets
(`role`, `permission`) and sets of pairs (`grants`, `assigned`); replacing rows is a delete and an insert
(`DeleteGrants`, `InsertGrants`; `DeleteAssigned`, `InsertAssigned`), the insert of a pair that exists or
that names a row that is gone is refused (`…Refused`). `Bootstrap` … `InsertAll` are the statements of a
server that starts; any number start at the same time. `asked` and `given` are what the last request for
a role or a user wanted.

### AdminClient, Identity

`lib/api.ts`, the auth store, the layouts and the proxy route. Every call of a page goes through `Send`,
the backend's answer (`ServerAccepts`, `ServerRefuses`) or its loss (`CallFails`), and its handling;
a call that was refused asks for a refresh, once, without regard to the other calls (`AskForRefresh`,
`ServerRenews`, `SendAgain`). Tokens age (`AccessExpires`, `CookiesExpire`) and the backend may end the
session (`ServerChanges`). `Identity` puts `Accounts`, `Roles` and `AdminClient` together.

### Documents, Communications, Workflows, BackOffice

`Documents` is `ClientDocumentsService` and `DocumentTemplatesService`, with days that pass; `computeStatus`
is the code's. `Communications` is `CommunicationsService` with the providers: a message is inserted as
`QUEUED`, the provider takes it (`ProviderTakes`), refuses it, is missing, or takes it and its answer is
lost (`AnswerLost`), and the result is recorded. `Workflows` is `WorkflowsService` with the validation of
the body of a decision (`Validated`). `BackOffice` and `Office` compose them: in a behaviour one module is
at work, since they write no table of one another.

### Routes, Endpoints, AdminPages

`Routes` has every route of every controller, in the order the framework registers them, and the
permission each asks for; `Serving` picks the first that fits. `Endpoints` has the DTOs and enumerations of
the parameters and bodies that pages send, with the validation of the global pipe (`Accepts`), and the
parts of the answers. `AdminPages` has each page: its queries, its filters, its forms and what it reads;
a query is refused by the route, the permission, the pipe or the database, or shown, or does not fit.
The two sides are transcribed separately, each from its own program.

### AdminLists, AdminSite

`AdminLists` is the cache of the task lists with loads, saves and invalidation (`TaskSaved`), and the pager
that pages with a filter share (`Choose`, `Turn`) against `buildPaginatedResult` (`Paginated`). In a
behaviour of `AdminSite` the user tours the pages, or stays on the tasks, or turns pages (`tour`).

## 4. The runs

Every run bounds the ids, the values and `|Request|`. Two overlapping handlers suffice for every
interleaving error of the code, since each of them consists of one handler's write between a read and
a write of another. `CHECK_DEADLOCK FALSE` is set everywhere because the system may rest: clients need
not send anything, and the ids of a small instance run out.

| Run | What it asks | Bounds and why they are enough |
|---|---|---|
| `ledger_concurrent` | Is what an invoice shows as paid always backed by payments and by credit notes, each counted once, whatever overlaps or fails, unless a note is applied twice? | one invoice, one note, two requests, totals 1 and 3, amounts 1 and 2: under-, exact and overpayment occur. `MaxReceived = 1` stops starting payments on an invoice that has received something; one more may be under way. |
| `ledger_no_edits` | Without `PATCH` and failures, do balance, paid amount and total agree, does the status fit them (at exactly the total either of two), and does an applied note reach its invoice? | total 3 and `MaxReceived = 2`; `FairSpec`. A `PATCH` on a partly paid invoice resets the balance, which is why edits are excluded. |
| `ledger_apart` | Requests on different documents overlap and fail: is every payment and credit in the paid amount, does the ledger implement `AtomicLedger`? | two requests, two invoices and two notes under `OrderlySpec`: no two handlers share a document (`Apart`) and none dies between marking a note and crediting its invoice. Two notes on one invoice and on two, and payments in any order, so that notes and payments meet: the two sums they write, from the balance and from the total, are compared. Amount 2 against totals 2 and 3: the exact last payment, a part payment and an overpayment. |
| `ledger_lost_payment` (violation) | Is every payment in `paidAmount` when two are recorded at once? | the smallest instance that shows it. |
| `numbering` | Do documents or calls of a tenant ever share a number, is every counter value accounted for? | three calls over two tenants, two invoice types that share a table and a kind that does not, one turn of the year, failures. Three calls give one number each to two overlapping calls and one more before or after. |
| `sales` | Are decisions in both rows and does a sent proposal get its quotation out of `DRAFT`, whatever overlaps? On a quotation whose own requests do not overlap: does the total follow the items, does an accepted one stay so, whatever is done to the other? | two items with prices 1 and 2, so that sets of items have distinct sums; discounts 0 and 1; two requests; three mixes: everything about items and totals of one quotation, everything about its proposal, with status changes in both, and the items of two quotations, where one may lose an item through the URL of the other. |
| `bookings` | Where requests for one booking, or for the statistics of one client, do not overlap: are statistics, margins and the deletion guard right, whatever is done to the others? | two bookings, two clients, two requests that may overlap and fail: both bookings may be of one client, whose aggregate can be overtaken by an insert and by a deletion, or of two, so that each client is served while the other is. |
| `customers` | Where requests for one lead, or that give out one address, do not overlap: is a lead converted once, and for good, are addresses distinct, whatever else is done meanwhile? | one lead, two clients, two addresses: a second conversion, and an address moved from one client to another, both happen, also while the other address is given out or the lead is worked on. |
| `travel_cases` | Has a case its history and checklist unless a handler for it fails? If requests for it do not overlap: a history that is a chain, one leader, one itinerary, not deleted while active, whatever happens to the other case? | two cases, three passengers (an old leader, a new one and a third), two plans; two requests that meet on one case or work on both; histories of the first row and a change, plus those under way (`MaxChanges`); four mixes, none of which separates endpoints that a property relates. |
| `office` | Locks; what opens a session; somebody left to sign in; roles replaced as asked; the administrator's role after overlapping bootstraps; a session kept by the browser and calls that end; documents, default templates and messages that tell the truth | two of each kind of row, two requests, failures. `MaxAttempts = 2` instead of five: one failure below, at and above (`MaxFailed = 3`) the limit. Two calls of the browser meet one expired token. Three days (`Horizon = 2`, `Soon = 1`): valid, expiring and expired on consecutive days. Fifteen mixes (`MCOffice`). |
| `approvals` (violation) | Is an approval that was granted `APPROVED`? | one approval. |
| `admin_pages` | Is every route reached, and permitted to whom it is for (nine to nobody), are refusals and misfits of pages exactly the known ones, are lists and pagers current? | every page, filter, form and route there is; three lists, two saves, two filters of up to three pages (first, middle, last). |

**Fairness.** `FairSpec` of the ledger and of sales adds weak fairness of each handler's next statement:
a handler whose statement has been answered is resumed. That is what the Node.js event loop does. No
client has to send anything. Liveness there is stated for handlers that do not fail: nothing in the
code resumes or repairs one that died. `ClientFairness` says that a call of the browser is answered, or
times out, and that its answer is then dealt with, which the browser's event loop does; it does not say
that the answer is a good one. The client of `lib/api.ts` has a timeout of 30 s; the refresh is a bare
`axios.post` without one, and ends because the proxy route gives up on the backend after 30 s.

## 5. What the checks show

Whatever overlaps or fails: money is never invented, except by applying one credit note twice; numbers
never collide; a decision is in both rows unless a `send` overtook it; nobody is locked out by fewer
wrong passwords than the limit; a message that is `SENT` was sent; the administrator has the whole
catalogue once all servers have started; a session is opened only by a login that was accepted or a
refresh that began while it was open. Unless a handler for it fails, a case misses neither checklist nor
history. Calls that refresh at the same time never throw the user out of a session that the server still
has. The guards that compare a status, and then write by id, hold only while requests do not overlap,
and deletes followed by inserts only if they run to their end; `calm`, `alone` and `crossed` mark these
properties. For invoices, quotations, bookings, leads and travel cases it takes an overlap on the same
one to break them, for the statistics of a client an overlap of two that compute them, and for an
address one of two that give it to a client.

Where the code contradicts a statement of the repository and a run shows it:

- *Lost payment* (`ledger_lost_payment`): `recordPayment` adds to the `paidAmount` it read before its
  transaction; of two overlapping payments one is missing although both payment rows exist.
- *No approval is ever granted* (`approvals`): `approved` of `DecideApprovalDto` has no validator, so the
  validation pipe refuses every body that has it, and one without it is a rejection.

Met while the properties got their premises or exceptions; each names them:

- *Ledger.* Two overlapping `apply` requests take a credit note off its invoice twice, which is the only
  way an invoice shows money that nobody paid (the premise of `PaidNeverOverstated`). An invoice paid to
  the cent in several payments may stay `PARTIALLY_PAID` with a stored balance of 0.00: 0.80 − (0.10 +
  0.70) is above zero in doubles (the alternative that `StatusTellsBalance` leaves open). If `apply` dies
  after its first write the note is `APPLIED` and never credited. `PATCH` of a partly paid invoice makes
  the whole total due again; `cancel` may overtake a payment and leave a paid invoice cancelled;
  `markSent` has no guard, so it reopens a paid invoice. `createPayment` inserts a payment that no
  invoice adds up.
- *Sales.* `send` writes the quotation's status unconditionally as its second statement; an accept in
  between ends with an accepted proposal of a quotation that is `SENT`. Overlapping changes of items may
  store a total that misses one. An item may be deleted through the URL of another quotation, whose
  total is then computed instead; the first one keeps a total with the item (`astray`).
  `updateStatus` accepts any status.
- *Bookings.* `update` of an amount leaves `totalSpent` as it was until the next sync; the older of two
  overlapping syncs may be written last; `confirm` and `remove` may both succeed.
- *Customers.* Two overlapping conversions make two clients of a lead; a conversion does not look the
  address up; a late `update` may undo `WON`.
- *Cases.* A case may be deleted while a status change sets it in progress; two leaders and mixed
  itineraries result from overlapping requests; a `PATCH` writes a status without history; a case made
  from a quotation inherits its total but not its balance.
- *Accounts and roles.* Overlapping attempts count as one, and a late one brings back a counter that a
  login has reset; a refresh that has read the token stores a new one after a logout (`Continue`), and a
  login that has been accepted ends a lock and opens a session although the user was locked, removed or the
  tenant closed meanwhile (`SignIn`). A role may be
  deleted together with an assignment made after the count of its users; a refused insert leaves a role
  or user with nothing. `AuthService.register` and `createMany` of permissions are called by no
  controller, nor is `ProposalsService.markViewed`.
- *Documents and messages.* The default template is cleared before the new one is written, so a refused
  creation leaves none; an inactive template may be made the default. A message whose handler dies stays
  `QUEUED` for ever, sent or not; one whose provider's answer is lost is `FAILED` though sent.
- *Routes* (`ForNobody`). All seven routes of `v1/tenants`, and POST and DELETE of `v1/permissions`, ask for a
  role named `super_admin`; the summaries of three of them say "(super admin only)"
  (`tenants.controller.ts:37`, `permissions.controller.ts:29`, `:50`). The bootstrap makes no such role: its
  super admin has the flag `isSuperAdmin`, which the guard of `superadmin` reads, and no role. So none of the
  users it sets up is let through to these nine.
- *Pages* (the exceptions in `AdminSite`). The list of clients is refused unless a status is chosen,
  because an empty one is sent; so are the opportunities in `NEEDS_ANALYSIS`, the search of payments,
  documents `MISSING`, suppliers of the types `HOTEL`, `DMC` and `GROUND_HANDLER`, communications
  `CANCELLED`. The unread count and the pages of the super admin are asked for below `v1`, where there
  is no such route. An agent is shown figures and settings it may not read. Settings are saved through a
  route that does not exist; a new client's notes and its source `ADVERTISING` are refused. The summary
  of the cash flow, the weighted value of the pipeline, the history of the forecast, the settings as a
  list and the mark of overdue tasks are read and never given.
- *Front end, not in a property.* A wrong password without a refresh cookie makes the interceptor load
  the login page again, so its message is lost; giving up leaves the store signed in; lists are not
  invalidated by the pages that create a client or a case; links to the details of a client and to new
  and single quotations have no page; the lists of leads, bookings and invoices have no pager buttons.
  The supplier filter `preferred` always arrives as `false`. `invoicesLastMonth` ends at midnight of
  the last day; overdue counts of the dashboard and of the invoice statistics take different statuses.

## 6. Proofs

The proofs hold for every value of the constants that satisfies the assumption of the module: any number
of rows, requests, amounts and years, where TLC checks one small instance. The theorems of module `M`
are in `M_proofs`; those about the modules that `Office` composes are in `Office_proofs`, for behaviours
of `OfficeSpec`, and those about `AdminLists` in `AdminSite_proofs`. Every safety invariant and every action
property that a passing run checks is a theorem, with the exceptions at the end of this section.

| Theorem | Statement | Argument |
|---|---|---|
| `TypeCorrect`, `LinkedAlways` | `InvoiceLedger`: types; what a note or a handler refers to exists | types are inductive; `Linked` is, given the types |
| `NothingInvented` | `PaidNeverOverstated` | not inductive, because handlers write amounts computed from rows that may be out of date. `Backed` adds that the *snapshot* a handler carries is backed as well; funds only grow, so an old snapshot stays backed. Both are claimed of invoices of which each note has counted at most once, which is so before a step if it is so after it (`CountedOnceBefore`, from `NextNotes` and `FreshAlways`) |
| `ConsistentWithoutEdits`, `StatusFollowsBalance` | `BalanceIsOutstanding`, `StatusTellsBalance` if `"update" \notin Ops` | `Balanced` adds that snapshots are consistent and have the total of the present row, which nothing but `update` changes; `ClampTwice` makes the two ways of computing a balance agree; `PaymentStatuses` says what a payment may leave as status |
| `PaidIsCompleteWhereAlone`, `PaidIsCompleteApart` | an invoice on which requests never overlap (`Alone`) shows as paid all that it got, whatever overlaps and fails elsewhere; `PaidIsComplete` under `ApartSpec`, where no two handlers share a document; both if no request is `createPayment` | `CompleteOn(i)` adds that the paid amount a handler at work on `i` has read is that of the row, and that nothing was received for an invoice that does not exist; `OnceOn(i)`, that the note a handler at work on `i` is about to take off has not counted yet; only the handlers on `i` matter to them |
| `LedgerIsAtomicApart` | `OrderlySpec => AtomicSpec`, the refinement, for any number of overlapping requests on different documents, if no request is `createPayment` | `InTurn` adds to types and links that what each handler has read and checked is still so (`Promised`), and that the items of an invoice come to a total it may be given; a handler's write touches its own documents only, so the others keep their promises (`OthersPromise`). The statement that completes a request maps to the step of `AtomicLedger` and every other one to a stutter, also the marking of a note by `apply`, since the mapping (`Seen`) shows the note as `ISSUED` until its invoice is credited (`SeenOwn`) |
| `NumberingTypeCorrect`, `NumbersNeverCollide`, `NumbersAccounted`, `NumbersNeverRefused` | `DocumentNumbering` | `Counted`: values held in a series are distinct, at most the counter, and cover it; `PrefixInjective` lifts this to tables that several kinds share |
| `DecisionsAgree` | `DecisionAgrees` for quotations not set by hand | `IInv` = the rows have their fields, every handler carries what its next statement needs (`Sound`), `DecisionAgrees` |
| `AcceptedStaysInBoth`, `AcceptedQuotationIsFinal` | `AcceptedStays`, `AcceptedIsFinal` of `Sales` | `Base` holds whatever overlaps: an item stays with its quotation until it is deleted, only its handler inserts it (`HomeInv`), and items, proposals and handlers are those of quotations that exist (`Born`). From it each statement is shown to be a `Move`: it writes the rows of its own quotation, and another one keeps its items or is `astray` and was worked on. `CalmInv` says of each quotation that is not `crossed` that one handler at most works on it (`AloneOn`), that nobody decides between the two writes of `send`, and that what `update` and `addItem` are about to change is not accepted (`Promised`) |
| `TotalStaysCurrent` | `TotalIsCurrent` of `Sales` | `Totalled`: of a quotation that is neither `crossed` nor `broken`, the sum and discount in the hands of its handler are current (`Informed`), and its stored total, unless it is `astray` or about to be written (`Recalculating`), is right (`Right`). `MoveTotals` reduces a step to the quotation it works on: a quotation that loses an item to it has no other handler, by `AloneOn`. Of the sum only that of no items is needed (`SumOfNothing`): a total is right because it is the same sum over the same set |
| `CustomersTypeCorrect`, `LeadConvertedOnce`, `ConvertedLeadIsFinal` | `Customers` | types are inductive together with `Linked`: the rows a handler is going to write exist. Every step then inserts a lead, adds a handler (`Joins`) or moves one (`Move`). `CalmInv` says of each lead that is not `crossed` that one handler at most works on it (`AloneOn`) and that what its guard found still holds (`Guarded`); `OnceOn` adds that a lead that has a client is converted or about to be marked, so a handler that is about to make one is the first (`CreatesFirst`) |
| `AddressesStayDistinct` | `EmailsDistinct` | `DistinctOn` an address that is not `crossed`: one client at most has it without having been made from a lead (`Plain`), and none but itself when a handler is about to give it the address (`GivesFreely`). That also holds of a handler that found the address in its client's row and writes it back after another has changed it |
| `MarginStaysCurrent`, `ConfirmedStays` | `MarginIsCurrent`, `ConfirmedIsKept` of `Bookings` | `Shape` holds whatever overlaps: rows and handlers have their fields, and the row a handler will write is one of its client's. Every statement after the first is then a `Move`, which writes the row of its own booking at most. `CalmInv` says of each booking that is not `crossed` that one handler at most works on it (`AloneOn`), and that what `update`, `confirm` and `remove` read of the row is still so (`Guarded`) |
| `StatsStayCurrent` | `StatsAreCurrent` of `Bookings` | `SyncedOn` a client that is neither `crossed` nor `broken`: its statistics are those of its bookings (`Counted`) or a handler is about to compute or write them (`Counting`), and what one has computed is still so (`Carries`). A deletion counts as work on the client before it deletes, so nobody else has an aggregate of it in hand (`OthersAway`); `TotalStable` says which bookings the number and the sum depend on |
| `CasesTypeCorrect`, `ActiveCaseIsKept`, `CaseHasOneLeader`, `ItineraryIsOnePlan` | `TravelCases` | `TInv` adds to the types that what a handler carries fits its next statement (`Fits`); `CalmInv` says of each case on which requests have not overlapped (`CalmOn`) that one handler at most is at work on it (`AloneOn`), that what this one relies on is so (`Guarded`: before the leader is set there is none, before a plan is inserted there is none, before a deletion the case is not active), and the three properties (`KeptOn`). A step of a handler for one case leaves the others calm (`OthersCalm`) |
| `CaseMissesNothing`, `HistoryStaysChain` | `NothingIsMissing`, `HistoryIsChain` | `HistoryInv`: each time a case was given a status is in its history or is about to be recorded by a handler of its own (`Tally`, counted with cardinalities of finite sets); on a case on which requests neither overlap nor fail that record leads from the end of the history to the present status (`Chained`) |
| `SessionStays` | `SessionIsKept` of `AdminClient` | `SessionInv`: while a session is sound the server has it, the cookie of the refresh token is there, no refresh has been denied and no logout is under way (`SoundIsSafe`); a login has the client to itself (`LoginAlone`) |
| `LockIsAlwaysEarned`, `FailuresAreCounted`, `SomeoneIsAlwaysLeft`, `OnlyLoginOpensSessions` | `LockIsEarned`, `FailuresCount`, `SomeoneIsLeft`, `SessionsAreOpenedByLogin` of `Accounts` | `LockInv`: a counter in a row, or in the hands of a handler that is going to write it, stands for as many wrong passwords as it says (`CountersAreEarned`). `CalmInv`: while calm one handler is at work and what it has read is still true (`StillTrue`), so the one that opens a session is that of an accepted login. The step simulation of `Sessions` needs the types only: `UnderMoves` says what a moving handler does to the users under each statement, and a step outside a login and a refresh gives no row a token (`ElsewhereIsAdministration`) |
| `AlwaysReplacedAsAsked`, `AdministratorAlwaysHasAll` | `ReplacedAsAsked`, `AdministratorHasAll` of `Roles` | `RolesInv`: what a handler has still to insert (`Owes`) and what is stored make up what was asked; for the administrator, nobody but a bootstrap touches the role (`SparesAdmin`), which grants everything or has a bootstrap about to insert the grants (`AdminIsKept`) |
| `StatusAlwaysTellsDelivery` | `StatusTellsDelivery` | `DeliveryInv`: one handler at most has a message in hand, and what it will record agrees with the provider, the exceptions of the property (a lost answer, a dead handler) included |
| `StatusAlwaysTellsExpiry`, `AlwaysOneDefault` | `StatusTellsExpiry`, `OneDefault` | `ExpiryInv` says the same of the status a handler is about to write; `DefaultInv` that the type it is about to give a default has none |
| `ListIsCurrent` | `ShownIsCurrent` of `AdminSite` | `ListsInv` says of every list, on the screen or not, that an answer on its way and one that counts as new tell of every save that has returned, unless the list is `missed` (`UpToDate`) |
| `PageStaysInList` | `PageExists` of `AdminSite` | `PagerInv` adds that the page asked for exists as well, and that the buttons are those of an answer for that page |

What the theorems assume of constants beyond typing: `"update" \notin Ops` and `"createPayment" \notin Ops`
in the theorems on the ledger that name them, which are the conditions under which the code keeps these
promises (as in the runs `ledger_no_edits`, whose handlers are fair, and `ledger_apart`; section 5 says
what goes wrong without them); that ids of different kinds differ;
and of `AdminLists` that there is a list and a filter.

Only model-checked:

- liveness (`AppliedReachesInvoice`, `SentReachesQuotation`, `CallsEnd`): enabledness and with it fairness are
  beyond the prover;
- `RoutedAsMeant`, `RefusalsAreKnown`, `AnswersFit`: finite tables, which TLC covers completely; there is no
  constant for which a proof would say more.

## 7. What is abstracted

VAT, discounts of invoice lines and rounding are folded into one number per invoice; totals of invoices
are natural numbers. Amounts are whole cents; the DTO asks for at least 0.01 only. Statuses nothing writes or distinguishes (`OVERDUE`, `REFUNDED`, several lead and
case states) are merged with one that is treated alike, as the comment at each status set says. Texts,
dates other than those of documents, currencies, tenants (except in `DocumentNumbering` and `Accounts`) and
permissions (except in `Routes`) are left out: every query is restricted to the tenant of the token, and
tenants share no row. `PATCH` bodies are typed `Partial<…>`, which the validation pipe does not check; the
models bring the fields that the services handle. The audit log swallows its errors, so its insert is not
a statement that can fail a handler. E-mail addresses are compared in lower case.

`bcrypt` looks at 72 bytes; the first 72 of a refresh token hold its header and the user's id, so any
signed refresh token of a user matches the stored hash, and `Accounts` stores whether there is one.

React Query, axios, the e-mail and WhatsApp providers and the router of NestJS are outside `src/`; they
are modelled by what the code relies on, and the comments say `external`.

## 8. Not modelled, and what could come next

- *Opportunities and pricing, suppliers and contracts, contacts, tags, preferences, booking documents*: one
  statement, or a look-up and one write, without a state of another component; overlaps can at most
  write twice. Their routes and the parameters of their lists are in `Routes` and `Endpoints`.
- *Services and single itinerary days of a case, notes and tags of leads and clients, added checklist
  items*: inserts and deletes of rows that nothing else reads.
- *Creation and verification of tenants, settings*: one statement each.
- *Analytics and notifications*: reads only; the parts of the answers are in `Endpoints`, the numbers
  are not computed.
- *Throttling, CORS, logging, exception filter*: configuration of libraries.
- *The look of the pages* and the login page of the super admin.
- *Placeholders*: the other applications, the packages and most directories under `modules/` hold no code.

What would add most next: percentages, commissions and VAT as functions over integers with rounding,
checked against a reference definition (with the negative total of an oversized discount); the figures
of the dashboard against those of the statistics endpoints; the composition of `Sales` and `TravelCases`
through the case that is made of a quotation.
