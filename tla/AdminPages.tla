----------------------------- MODULE AdminPages ------------------------------
(***************************************************************************)
(* The pages of the administration front end as clients of the backend:    *)
(* what they ask for when they are opened, when a filter is chosen and when*)
(* a form is submitted, and whether the backend takes it and answers what  *)
(* the page goes on to read.  The two are compiled apart and share no type,*)
(* so that nothing but a running system compares them.                     *)
(*                                                                         *)
(* A text typed by the user is the value "text"; one filter at a time is   *)
(* chosen.  How long answers are kept is in module AdminLists.             *)
(***************************************************************************)
EXTENDS Endpoints, TLC

VARIABLES
  user,     \* who is signed in
  page,     \* the page that is shown
  choice,   \* the filter that is chosen, a field and a value
  answers,  \* the queries of the page: awaited, refused, unfit or shown
  saved,    \* the last submission: its form, what was chosen in it, and whether it was taken
  visited   \* the route a client asks for, 0 when none

pageVars == <<user, page, choice, answers, saved, visited>>

-----------------------------------------------------------------------------
(* Queries: the path and parameters asked for, and what is read            *)

\* Always the same request.
Fixed(path, params, reads) ==
  [path |-> <<"v1">> \o path, sends |-> params, filtered |-> FALSE, reads |-> reads]

\* A request that follows the filters of the page.
Filtered(path, params, reads) ==
  [path |-> <<"v1">> \o path, sends |-> params, filtered |-> TRUE, reads |-> reads]

None == <<>>
NoChoice == <<"", "">>
Nothing == {NoChoice}
Offer(field, values) == {<<field, v>> : v \in values}
Typed == Offer("search", {"text"})
Numbered == [page |-> "1", limit |-> "20", search |-> ""]
Listed == [limit |-> "50"]

DashboardPage ==
  [queries |->
     [kpis |-> Fixed(<<"analytics", "dashboard">>, None,
        Parts({"revenue.thisMonth", "revenue.ytd", "revenue.changePercent", "margins.percent",
               "margins.ytd", "leads.total", "leads.new", "leads.conversionRate",
               "cases.active", "cases.upcoming", "clients.total", "clients.newThisMonth",
               "alerts.bookingsPending", "alerts.overdueInvoices", "alerts.overdueAmount"})),
      sales |-> Fixed(<<"analytics", "sales">>, [period |-> "6M"], Parts({"monthlyRevenue"})),
      leadStats |-> Fixed(<<"leads", "stats", "pipeline">>, None, Parts({"byStatus[]"})),
      caseStats |-> Fixed(<<"cases", "stats">>, None, Parts({"upcoming[]"}))],
   choices |-> Nothing]

AnalyticsPage ==
  [queries |->
     [sales |-> Filtered(<<"analytics", "sales">>, [period |-> "6M"],
        Parts({"monthlyRevenue", "topDestinations[]"})),
      margins |-> Fixed(<<"analytics", "margins">>, None,
        Parts({"byServiceType[]", "overall.totalRevenue", "overall.totalCost",
               "overall.totalMargin", "overall.marginPercent"})),
      clients |-> Fixed(<<"analytics", "clients">>, None, Parts({"bySource[]"})),
      forecast |-> Fixed(<<"analytics", "forecasts">>, None,
        Parts({"historical[]", "forecast[]"}))],
   choices |-> Offer("period", {"1M", "3M", "6M", "12M"})]

ClientsPage ==
  [queries |->
     [clients |-> Filtered(<<"clients">>,
        [page |-> "1", limit |-> "20", search |-> "", status |-> ""],
        Rows({"id", "firstName", "lastName", "companyName", "email", "phone", "type", "status",
              "isVip", "tags[]", "totalSpent", "totalBookings", "createdAt"}))],
   choices |-> Nothing \cup Typed \cup Offer("status", {"ACTIVE", "INACTIVE", "BLACKLISTED"})]

LeadsPage ==
  [queries |->
     [stats |-> Fixed(<<"leads", "stats", "pipeline">>, None,
        Parts({"byStatus[]", "total", "conversionRate", "avgBudget"})),
      leads |-> Filtered(<<"leads">>, [page |-> "1", limit |-> "15"],
        Rows({"id", "firstName", "lastName", "email", "phone", "status", "priority",
              "destination", "departureDate", "budget", "assignedTo", "createdAt"}))],
   choices |-> Nothing \cup Offer("status", {"NEW", "CONTACTED", "QUALIFIED", "PROPOSAL_SENT",
                                             "WON", "LOST"})]

OpportunitiesPage ==
  [queries |->
     [stats |-> Fixed(<<"opportunities", "stats", "pipeline">>, None,
        Parts({"byStage[]", "totalWeightedValue"})),
      opportunities |-> Filtered(<<"opportunities">>, Listed,
        Rows({"id", "title", "stage", "probability", "estimatedValue", "expectedCloseDate",
              "client", "assignedTo"}))],
   choices |-> Nothing \cup Typed \cup
     Offer("stage", {"PROSPECTING", "QUALIFICATION", "NEEDS_ANALYSIS", "PROPOSAL",
                     "NEGOTIATION", "CLOSED_WON", "CLOSED_LOST"})]

QuotationsPage ==
  [queries |->
     [stats |-> Fixed(<<"quotations", "stats">>, None,
        Parts({"byStatus[]", "totals._count", "totals._sum", "conversionRate"})),
      quotations |-> Filtered(<<"quotations">>, Numbered,
        Rows({"id", "number", "status", "destination", "departureDate", "currency",
              "totalAmount", "totalMargin", "marginPercent", "validUntil", "createdAt",
              "client", "_count.items"}))],
   choices |-> Nothing \cup Typed \cup
     Offer("status", {"DRAFT", "SENT", "VIEWED", "ACCEPTED", "REJECTED", "EXPIRED",
                      "CONVERTED"})]

CasesPage ==
  [queries |->
     [cases |-> Filtered(<<"cases">>, Numbered,
        Rows({"id", "number", "title", "status", "destination", "departureDate", "returnDate",
              "totalAmount", "balance", "client", "_count.passengers", "_count.services",
              "_count.checklists"}))],
   choices |-> Nothing \cup Typed \cup
     Offer("status", {"INQUIRY", "CONFIRMED", "IN_PROGRESS", "COMPLETED", "CANCELLED",
                      "REFUNDED"})]

CaseDetailPage ==
  [queries |->
     [case |-> Fixed(<<"cases", ":id">>, None,
        Parts({"id", "number", "title", "status", "destination", "departureDate", "returnDate",
               "numberOfPeople", "totalAmount", "totalCost", "totalPaid", "balance",
               "internalNotes", "client", "passengers[]", "itinerary[]", "services[]",
               "checklists[]", "notes[]"}))],
   choices |-> Nothing]

NewCasePage ==
  [queries |->
     [clients |-> Fixed(<<"clients">>, [limit |-> "100", status |-> "ACTIVE"],
        Rows({"id", "firstName", "lastName", "companyName"}))],
   choices |-> Nothing]

BookingsPage ==
  [queries |->
     [bookings |-> Filtered(<<"bookings">>, Numbered,
        Rows({"id", "number", "type", "status", "description", "supplierName",
              "confirmationCode", "serviceDate", "currency", "amount", "marginAmount",
              "marginPercent", "isPaidToSupplier", "case"}))],
   choices |-> Nothing \cup Typed \cup
     Offer("type", {"FLIGHT", "HOTEL", "PACKAGE", "CRUISE", "TRAIN", "FERRY", "CAR_RENTAL",
                    "TRANSFER", "EXCURSION", "INSURANCE", "VISA", "TICKET", "OTHER"}) \cup
     Offer("status", {"ON_REQUEST", "PENDING", "CONFIRMED", "CANCELLED", "REFUNDED",
                      "NO_SHOW"})]

InvoicesPage ==
  [queries |->
     [stats |-> Fixed(<<"invoices", "stats">>, None,
        Parts({"totals._sum", "overdue._sum", "overdue._count"})),
      invoices |-> Filtered(<<"invoices">>, Numbered,
        Rows({"id", "number", "type", "status", "issuedAt", "dueDate", "currency",
              "totalAmount", "balanceDue", "clientName"}))],
   choices |-> Nothing \cup Typed \cup
     Offer("status", {"DRAFT", "ISSUED", "SENT", "PAID", "PARTIALLY_PAID", "OVERDUE",
                      "CANCELLED", "REFUNDED"})]

PaymentsPage ==
  [queries |->
     [cashflow |-> Fixed(<<"payments", "cash-flow">>, None,
        Parts({"summary.incoming", "summary.outgoing", "summary.net"})),
      payments |-> Filtered(<<"payments">>, Listed,
        Rows({"id", "direction", "method", "status", "amount", "paidAt", "client",
              "invoice"}))],
   choices |-> Nothing \cup Typed \cup Offer("direction", {"INCOMING", "OUTGOING"}) \cup
     Offer("status", {"PENDING", "COMPLETED", "FAILED", "REFUNDED", "CANCELLED"})]

DocumentsPage ==
  [queries |->
     [documents |-> Filtered(<<"client-documents">>, Listed,
        Rows({"id", "type", "status", "documentNumber", "expiryDate", "nationality",
              "holderFirstName", "holderLastName", "client"}))],
   choices |-> Nothing \cup Typed \cup
     Offer("type", {"PASSPORT", "IDENTITY_CARD", "DRIVING_LICENSE", "VISA", "HEALTH_CARD",
                    "TAX_CODE_CARD", "RESIDENCE_PERMIT", "OTHER"}) \cup
     Offer("status", {"VALID", "EXPIRED", "EXPIRING_SOON", "MISSING"})]

SuppliersPage ==
  [queries |->
     [suppliers |-> Filtered(<<"suppliers">>, Listed,
        Rows({"id", "type", "status", "name", "code", "country", "email", "contactPerson",
              "defaultCommissionRate", "overallScore", "isPreferred"}))],
   choices |-> Nothing \cup Typed \cup Offer("isPreferred", {"true", "false"}) \cup
     Offer("type", {"AIRLINE", "HOTEL", "HOTEL_CHAIN", "TOUR_OPERATOR", "TRANSFER_COMPANY",
                    "CRUISE_LINE", "CAR_RENTAL", "INSURANCE_COMPANY", "DMC", "VISA_AGENCY",
                    "GROUND_HANDLER", "OTHER"})]

CommunicationsPage ==
  [queries |->
     [stats |-> Fixed(<<"communications", "stats">>, None,
        Parts({"byStatus[]", "byChannel[]", "total"})),
      communications |-> Filtered(<<"communications">>, Listed,
        Rows({"id", "channel", "status", "toAddress", "subject", "body", "sentAt", "createdAt",
              "client", "author"}))],
   choices |-> Nothing \cup Typed \cup Offer("channel", {"EMAIL", "WHATSAPP", "SMS"}) \cup
     Offer("status", {"QUEUED", "SENT", "DELIVERED", "READ", "FAILED", "BOUNCED",
                      "CANCELLED"})]

WorkflowsPage ==
  [queries |->
     [mine |-> Fixed(<<"workflows", "tasks", "mine">>, None,
        Parts({"todo", "overdue", "dueToday", "dueThisWeek", "tasks[]"})),
      all |-> Filtered(<<"workflows", "tasks">>, Listed,
        Rows({"id", "title", "description", "status", "priority", "dueDate", "assignedTo",
              "isOverdue"}))],
   choices |-> Nothing \cup Offer("status", {"TODO", "IN_PROGRESS", "DONE", "CANCELLED"}) \cup
     Offer("priority", {"LOW", "MEDIUM", "HIGH", "URGENT"})]

SettingsPage ==
  [queries |-> [settings |-> Fixed(<<"settings">>, None, Parts({"settings[]"}))],
   choices |-> Nothing]

NewClientPage == [queries |-> None, choices |-> Nothing]

\* The header that every page of the dashboard carries.
Header ==
  [unread |-> Fixed(<<"notifications", "unread-count">>, None, Parts({"unreadCount"}))]

SuperAdminPage ==
  [queries |-> [stats |-> Fixed(<<"superadmin", "stats">>, None,
     Parts({"tenants.total", "tenants.planDistribution", "users.total", "recentTenants[]"}))],
   choices |-> Nothing]

SuperTenantsPage ==
  [queries |-> [tenants |-> Filtered(<<"superadmin", "tenants">>, [page |-> "1", limit |-> "20"],
     Rows({"id", "name", "slug", "email", "plan", "isActive", "isVerified", "createdAt",
           "_count.users"}))],
   choices |-> Nothing \cup Typed]

SuperUsersPage ==
  [queries |-> [users |-> Filtered(<<"superadmin", "users">>, [page |-> "1", limit |-> "30"],
     Rows({"id", "email", "firstName", "lastName", "status", "isSuperAdmin", "lastLoginAt",
           "lockedUntil", "createdAt", "tenant"}))],
   choices |-> Nothing \cup Typed]

-----------------------------------------------------------------------------
(* Forms: the request of a submission, what it always carries, and what may*)
(* be chosen or filled in besides                                          *)

Form(method, path, body, choices) ==
  [method |-> method, path |-> <<"v1">> \o path, body |-> body, choices |-> choices]

NewClientForm ==
  Form("POST", <<"clients">>,
       [type |-> "INDIVIDUAL", country |-> "IT", source |-> "WALK_IN", isVip |-> "false",
        firstName |-> "text", lastName |-> "text"],
       Nothing \cup Offer("notes", {"text"}) \cup
       {<<f, "text">> : f \in {"companyName", "email", "phone", "mobile", "address", "city",
                              "postalCode", "taxCode", "vatNumber"}} \cup
       Offer("source", {"REFERRAL", "WEBSITE", "SOCIAL_MEDIA", "ADVERTISING", "OTHER"}))

NewCaseForm ==
  Form("POST", <<"cases">>, [title |-> "text", status |-> "INQUIRY"],
       Nothing \cup {<<f, "text">> : f \in {"clientId", "destination", "departureDate",
                                          "returnDate", "numberOfPeople", "travelType",
                                          "totalAmount", "internalNotes"}} \cup
       Offer("status", {"CONFIRMED", "IN_PROGRESS", "COMPLETED", "CANCELLED", "REFUNDED"}))

NewTaskForm ==
  Form("POST", <<"workflows", "tasks">>, [title |-> "text", priority |-> "MEDIUM"],
       Nothing \cup Offer("priority", {"LOW", "HIGH", "URGENT"}))

TaskStatusForm ==
  Form("PATCH", <<"workflows", "tasks", ":id">>, [status |-> "TODO"],
       Nothing \cup Offer("status", {"DONE", "IN_PROGRESS"}))

SettingForm == Form("PATCH", <<"settings", ":id">>, [value |-> "text"], Nothing)

\* suspend, activate and verify of a tenant are sent alike, as are block and unblock of a user.
TenantForm == Form("POST", <<"superadmin", "tenants", ":id", "suspend">>,
                   [reason |-> "text"], Nothing)
UserForm == Form("POST", <<"superadmin", "users", ":id", "block">>, None, Nothing)

-----------------------------------------------------------------------------
(* The backend                                                             *)

\* Who takes the parameters of a request, and what comes back.
Contracts ==
  {[path |-> <<"v1", "clients">>, query |-> QueryClientsDto, gives |-> ClientsFindAll],
   [path |-> <<"v1", "leads">>, query |-> QueryLeadsDto, gives |-> LeadsFindAll],
   [path |-> <<"v1", "opportunities">>, query |-> QueryOpportunitiesDto,
    gives |-> OpportunitiesFindAll],
   [path |-> <<"v1", "quotations">>, query |-> QueryQuotationsDto,
    gives |-> QuotationsFindAll],
   [path |-> <<"v1", "cases">>, query |-> QueryCasesDto, gives |-> CasesFindAll],
   [path |-> <<"v1", "bookings">>, query |-> QueryBookingsDto, gives |-> BookingsFindAll],
   [path |-> <<"v1", "invoices">>, query |-> QueryInvoicesDto, gives |-> InvoicesFindAll],
   [path |-> <<"v1", "payments">>, query |-> QueryPaymentsDto, gives |-> PaymentsFindAll],
   [path |-> <<"v1", "client-documents">>, query |-> QueryDocumentsDto,
    gives |-> DocumentsFindAll],
   [path |-> <<"v1", "suppliers">>, query |-> QuerySuppliersDto, gives |-> SuppliersFindAll],
   [path |-> <<"v1", "communications">>, query |-> QueryCommunicationsDto,
    gives |-> CommunicationsFindAll],
   [path |-> <<"v1", "workflows", "tasks">>, query |-> QueryTasksDto, gives |-> TasksFindAll],
   [path |-> <<"v1", "analytics", "sales">>, query |-> PeriodDto, gives |-> SalesAnalytics]}
  \cup
  {[path |-> <<"v1">> \o c[1], query |-> Unchecked(None), gives |-> c[2]] : c \in
     {<<<<"analytics", "dashboard">>, DashboardKpis>>,
      <<<<"analytics", "margins">>, MarginAnalytics>>,
      <<<<"analytics", "clients">>, ClientAnalytics>>,
      <<<<"analytics", "forecasts">>, Forecasts>>,
      <<<<"leads", "stats", "pipeline">>, LeadsPipelineStats>>,
      <<<<"opportunities", "stats", "pipeline">>, OpportunitiesPipelineStats>>,
      <<<<"quotations", "stats">>, QuotationsStats>>,
      <<<<"cases", "stats">>, CasesStats>>, <<<<"cases", ":id">>, CasesFindOne>>,
      <<<<"invoices", "stats">>, InvoicesStats>>,
      <<<<"payments", "cash-flow">>, PaymentsCashFlow>>,
      <<<<"communications", "stats">>, CommunicationsStats>>,
      <<<<"workflows", "tasks", "mine">>, TasksMine>>,
      <<<<"settings">>, SettingsFindAll>>}}

ContractOf(path) == CHOOSE c \in Contracts : c.path = path

BodyOf(path) ==
  CASE path = <<"v1", "clients">> -> CreateClientDto
    [] path = <<"v1", "cases">> -> CreateCaseDto
    [] path = <<"v1", "workflows", "tasks">> -> CreateTaskDto
    [] path = <<"v1", "workflows", "tasks", ":id">> -> UpdateTaskDto

\* A request reaches a handler that the user may use.
Admitted(method, path) ==
  \E r \in Serving(method, AddressOf(path)) : Allowed(user, r.needs)

\* What is chosen replaces what is sent otherwise.
With(sent, c) ==
  IF c = NoChoice THEN sent
  ELSE [f \in DOMAIN sent \cup {c[1]} |-> IF f = c[1] THEN c[2] ELSE sent[f]]

\* The page reads no part that the answer does not have.
Fit(reads, gives) == reads.shape = gives.shape /\ reads.has \subseteq gives.has

Outcome(query, c) ==
  LET contract == ContractOf(query.path)
      params == IF query.filtered THEN With(query.sends, c) ELSE query.sends
  IN  IF ~Admitted("GET", query.path) \/ ~Accepts(contract.query, params) THEN "refused"
      ELSE IF Fit(query.reads, contract.gives) THEN "shown" ELSE "unfit"

Taken(form, c) ==
  /\ Admitted(form.method, form.path)
  /\ Accepts(BodyOf(form.path), With(form.body, c))

-----------------------------------------------------------------------------
(* The browser                                                             *)

AgencyPages ==
  [dashboard |-> DashboardPage, analytics |-> AnalyticsPage, clients |-> ClientsPage,
   clientNew |-> NewClientPage, leads |-> LeadsPage, opportunities |-> OpportunitiesPage,
   quotations |-> QuotationsPage, cases |-> CasesPage, caseNew |-> NewCasePage,
   caseDetail |-> CaseDetailPage, bookings |-> BookingsPage, invoices |-> InvoicesPage,
   payments |-> PaymentsPage, documents |-> DocumentsPage, suppliers |-> SuppliersPage,
   communications |-> CommunicationsPage, workflows |-> WorkflowsPage,
   settings |-> SettingsPage]

SuperPages ==
  [super |-> SuperAdminPage, superTenants |-> SuperTenantsPage, superUsers |-> SuperUsersPage]

\* Other clients of the backend show no page.
NoPage == [queries |-> None, choices |-> Nothing]
Pages == AgencyPages @@ SuperPages @@ [elsewhere |-> NoPage]

\* The layouts: a page of the super admin is shown to the super admin only.
PagesOf(u) == DOMAIN (IF u = "super admin" THEN SuperPages ELSE AgencyPages)
Queries(p) == IF p \in DOMAIN AgencyPages THEN Pages[p].queries @@ Header ELSE Pages[p].queries
Choices(p) == Pages[p].choices

Forms ==
  [clientNew |-> {NewClientForm}, caseNew |-> {NewCaseForm},
   workflows |-> {NewTaskForm, TaskStatusForm}, settings |-> {SettingForm},
   superTenants |-> {TenantForm}, superUsers |-> {UserForm}]

NotSaved == [form |-> <<>>, choice |-> NoChoice, taken |-> TRUE]

Awaited(p) == [q \in DOMAIN Queries(p) |-> "awaited"]

PagesInit ==
  /\ user \in Users
  /\ page = IF user = "super admin" THEN "super" ELSE "dashboard"
  /\ choice = NoChoice
  /\ answers = Awaited(page)
  /\ saved = NotSaved
  /\ visited = 0

OpenPage(p) ==
  /\ p \in PagesOf(user) \ {page}
  /\ page' = p
  /\ choice' = NoChoice
  /\ answers' = Awaited(p)
  /\ saved' = NotSaved
  /\ visited' = 0
  /\ UNCHANGED user

\* A filter is set or cleared: what follows the filters is asked for again.
ChooseFilter(c) ==
  /\ c \in Choices(page) \ {choice}
  /\ choice' = c
  /\ answers' = [q \in DOMAIN answers |->
                   IF Queries(page)[q].filtered THEN "awaited" ELSE answers[q]]
  /\ UNCHANGED <<user, page, saved, visited>>

Answer(q) ==
  /\ answers[q] = "awaited"
  /\ answers' = [answers EXCEPT ![q] = Outcome(Queries(page)[q], choice)]
  /\ UNCHANGED <<user, page, choice, saved, visited>>

Submit(form, c) ==
  /\ c \in form.choices
  /\ saved' = [form |-> form.path, choice |-> c, taken |-> Taken(form, c)]
  /\ UNCHANGED <<user, page, choice, answers, visited>>

\* Some other client asks for the i-th route at its address.
Visit(i) ==
  /\ page' = "elsewhere"
  /\ choice' = NoChoice
  /\ answers' = Awaited(page')
  /\ saved' = NotSaved
  /\ visited' = i
  /\ UNCHANGED user

PagesNext ==
  \/ \E p \in PagesOf(user) : OpenPage(p)
  \/ \E c \in Choices(page) : ChooseFilter(c)
  \/ \E q \in DOMAIN answers : Answer(q)
  \/ page \in DOMAIN Forms /\ \E form \in Forms[page] : \E c \in form.choices : Submit(form, c)
  \/ \E i \in DOMAIN AllRoutes : Visit(i)
=============================================================================
