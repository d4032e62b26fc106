------------------------------- MODULE Routes --------------------------------
(***************************************************************************)
(* The addresses of the backend: the routes that its controllers declare,  *)
(* in the order in which the framework registers them, and the permission  *)
(* that the guards ask for.  The first route that fits an address serves   *)
(* it, so that a route may hide another one that is declared below it.     *)
(*                                                                         *)
(* A path is the sequence of its segments, without the global prefix; every*)
(* parameter is written ":id".  A route needs a permission, or             *)
(*   "public"           nothing,                                           *)
(*   "signed in"        an access token,                                   *)
(*   "refresh token"    a refresh token in its place,                      *)
(*   "role super_admin" a role of that name,                               *)
(*   "superadmin"       the flag isSuperAdmin of the user.                 *)
(***************************************************************************)
EXTENDS Sequences, Integers, FiniteSets

GET(path, needs) == <<"GET", path, needs>>
POST(path, needs) == <<"POST", path, needs>>
PUT(path, needs) == <<"PUT", path, needs>>
PATCH(path, needs) == <<"PATCH", path, needs>>
DELETE(path, needs) == <<"DELETE", path, needs>>

\* The routes of a controller whose path is base.
Under(base, routes) ==
  [i \in DOMAIN routes |->
     [method |-> routes[i][1], path |-> base \o routes[i][2], needs |-> routes[i][3]]]

-----------------------------------------------------------------------------
(* The controllers                                                         *)

\* [mutant] An entry's id is matched before "stats".
AuditLogRoutesSwapped == Under(<<"v1", "audit-log">>, <<
  GET(<<>>, <<"audit", "read">>),
  GET(<<":id">>, <<"audit", "read">>),
  GET(<<"stats">>, <<"audit", "read">>)>>)

AuditLogRoutes == Under(<<"v1", "audit-log">>, <<
  GET(<<>>, <<"audit", "read">>),
  GET(<<"stats">>, <<"audit", "read">>),
  GET(<<":id">>, <<"audit", "read">>)>>)

AuthRoutes == Under(<<"v1", "auth">>, <<
  POST(<<"login">>, <<"public">>),
  POST(<<"refresh">>, <<"refresh token">>),
  POST(<<"logout">>, <<"signed in">>),
  GET(<<"me">>, <<"signed in">>),
  PATCH(<<"change-password">>, <<"signed in">>)>>)

PermissionsRoutes == Under(<<"v1", "permissions">>, <<
  POST(<<>>, <<"role super_admin">>),
  GET(<<>>, <<"signed in">>),
  GET(<<":id">>, <<"signed in">>),
  DELETE(<<":id">>, <<"role super_admin">>)>>)

RolesRoutes == Under(<<"v1", "roles">>, <<
  POST(<<>>, <<"roles", "create">>),
  GET(<<>>, <<"roles", "read">>),
  GET(<<":id">>, <<"roles", "read">>),
  PATCH(<<":id">>, <<"roles", "update">>),
  PATCH(<<":id", "permissions">>, <<"roles", "update">>),
  DELETE(<<":id">>, <<"roles", "delete">>)>>)

SettingsRoutes == Under(<<"v1", "settings">>, <<
  GET(<<>>, <<"settings", "read">>),
  GET(<<":id">>, <<"settings", "read">>),
  PUT(<<>>, <<"settings", "update">>),
  PUT(<<"bulk">>, <<"settings", "update">>),
  DELETE(<<":id">>, <<"settings", "update">>)>>)

SuperadminRoutes == Under(<<"superadmin">>, <<
  GET(<<"stats">>, <<"superadmin">>),
  GET(<<"tenants">>, <<"superadmin">>),
  GET(<<"tenants", ":id">>, <<"superadmin">>),
  POST(<<"tenants">>, <<"superadmin">>),
  PATCH(<<"tenants", ":id">>, <<"superadmin">>),
  POST(<<"tenants", ":id", "suspend">>, <<"superadmin">>),
  POST(<<"tenants", ":id", "activate">>, <<"superadmin">>),
  POST(<<"tenants", ":id", "verify">>, <<"superadmin">>),
  GET(<<"users">>, <<"superadmin">>),
  POST(<<"users", ":id", "block">>, <<"superadmin">>),
  POST(<<"users", ":id", "unblock">>, <<"superadmin">>),
  POST(<<"users", ":id", "reset-password">>, <<"superadmin">>)>>)

TenantsRoutes == Under(<<"v1", "tenants">>, <<
  POST(<<>>, <<"role super_admin">>),
  GET(<<>>, <<"role super_admin">>),
  GET(<<":id">>, <<"role super_admin">>),
  GET(<<"slug", ":id">>, <<"role super_admin">>),
  PATCH(<<":id">>, <<"role super_admin">>),
  PATCH(<<":id", "toggle-active">>, <<"role super_admin">>),
  DELETE(<<":id">>, <<"role super_admin">>)>>)

UsersRoutes == Under(<<"v1", "users">>, <<
  POST(<<>>, <<"users", "create">>),
  GET(<<>>, <<"users", "read">>),
  GET(<<":id">>, <<"users", "read">>),
  PATCH(<<":id">>, <<"users", "update">>),
  PATCH(<<":id", "toggle-status">>, <<"users", "update">>),
  POST(<<":id", "roles">>, <<"users", "update">>),
  DELETE(<<":id">>, <<"users", "delete">>)>>)

HealthRoutes == Under(<<>>, <<
  GET(<<>>, <<"public">>),
  GET(<<"health">>, <<"public">>)>>)

CreditNotesRoutes == Under(<<"v1", "credit-notes">>, <<
  POST(<<>>, <<"invoices", "create">>),
  GET(<<>>, <<"invoices", "read">>),
  GET(<<":id">>, <<"invoices", "read">>),
  POST(<<":id", "issue">>, <<"invoices", "update">>),
  POST(<<":id", "apply">>, <<"invoices", "update">>)>>)

InvoicesRoutes == Under(<<"v1", "invoices">>, <<
  POST(<<>>, <<"invoices", "create">>),
  GET(<<>>, <<"invoices", "read">>),
  GET(<<"stats">>, <<"invoices", "read">>),
  GET(<<":id">>, <<"invoices", "read">>),
  PATCH(<<":id">>, <<"invoices", "update">>),
  POST(<<":id", "issue">>, <<"invoices", "update">>),
  POST(<<":id", "mark-sent">>, <<"invoices", "update">>),
  POST(<<":id", "record-payment">>, <<"invoices", "update">>),
  POST(<<":id", "cancel">>, <<"invoices", "delete">>),
  DELETE(<<":id">>, <<"invoices", "delete">>)>>)

PaymentsRoutes == Under(<<"v1", "payments">>, <<
  POST(<<>>, <<"invoices", "create">>),
  GET(<<>>, <<"invoices", "read">>),
  GET(<<"cash-flow">>, <<"analytics", "read">>),
  GET(<<":id">>, <<"invoices", "read">>)>>)

AnalyticsRoutes == Under(<<"v1", "analytics">>, <<
  GET(<<"dashboard">>, <<"analytics", "read">>),
  GET(<<"sales">>, <<"analytics", "read">>),
  GET(<<"margins">>, <<"analytics", "read">>),
  GET(<<"clients">>, <<"analytics", "read">>),
  GET(<<"leads">>, <<"analytics", "read">>),
  GET(<<"forecasts">>, <<"analytics", "read">>)>>)

BookingDocumentsRoutes == Under(<<"v1", "bookings", ":id", "documents">>, <<
  POST(<<>>, <<"documents", "create">>),
  GET(<<>>, <<"documents", "read">>),
  DELETE(<<":id">>, <<"documents", "delete">>)>>)

BookingsRoutes == Under(<<"v1", "bookings">>, <<
  POST(<<>>, <<"bookings", "create">>),
  GET(<<>>, <<"bookings", "read">>),
  GET(<<"stats">>, <<"bookings", "read">>),
  GET(<<":id">>, <<"bookings", "read">>),
  PATCH(<<":id">>, <<"bookings", "update">>),
  POST(<<":id", "confirm">>, <<"bookings", "update">>),
  POST(<<":id", "cancel">>, <<"bookings", "cancel">>),
  POST(<<":id", "mark-paid-supplier">>, <<"bookings", "update">>),
  DELETE(<<":id">>, <<"bookings", "delete">>)>>)

CommunicationsRoutes == Under(<<"v1", "communications">>, <<
  POST(<<"send">>, <<"communications", "send">>),
  GET(<<>>, <<"communications", "read">>),
  GET(<<"stats">>, <<"communications", "read">>),
  GET(<<":id">>, <<"communications", "read">>),
  POST(<<"templates">>, <<"communications", "create">>),
  GET(<<"templates", "list">>, <<"communications", "read">>),
  POST(<<"templates", ":id", "send">>, <<"communications", "send">>)>>)

ClientsRoutes == Under(<<"v1", "clients">>, <<
  POST(<<>>, <<"clients", "create">>),
  GET(<<>>, <<"clients", "read">>),
  GET(<<":id">>, <<"clients", "read">>),
  GET(<<":id", "stats">>, <<"clients", "read">>),
  PATCH(<<":id">>, <<"clients", "update">>),
  DELETE(<<":id">>, <<"clients", "delete">>),
  GET(<<":id", "notes">>, <<"clients", "read">>),
  POST(<<":id", "notes">>, <<"clients", "update">>),
  POST(<<":id", "tags", ":id">>, <<"clients", "update">>),
  DELETE(<<":id", "tags", ":id">>, <<"clients", "update">>)>>)

ContactsRoutes == Under(<<"v1", "contacts">>, <<
  POST(<<>>, <<"clients", "create">>),
  GET(<<>>, <<"clients", "read">>),
  GET(<<":id">>, <<"clients", "read">>),
  PATCH(<<":id">>, <<"clients", "update">>),
  DELETE(<<":id">>, <<"clients", "update">>)>>)

CustomerHistoryRoutes == Under(<<"v1", "history">>, <<
  GET(<<"client", ":id">>, <<"clients", "read">>),
  GET(<<"lead", ":id">>, <<"leads", "read">>)>>)

CustomerPreferencesRoutes == Under(<<"v1", "clients", ":id", "preferences">>, <<
  GET(<<>>, <<"clients", "read">>),
  PUT(<<>>, <<"clients", "update">>),
  PUT(<<"bulk">>, <<"clients", "update">>),
  DELETE(<<":id">>, <<"clients", "update">>)>>)

CustomerTagsRoutes == Under(<<"v1", "tags">>, <<
  POST(<<>>, <<"clients", "create">>),
  GET(<<>>, <<"clients", "read">>),
  GET(<<":id">>, <<"clients", "read">>),
  PATCH(<<":id">>, <<"clients", "update">>),
  DELETE(<<":id">>, <<"clients", "delete">>)>>)

LeadsRoutes == Under(<<"v1", "leads">>, <<
  POST(<<>>, <<"leads", "create">>),
  GET(<<>>, <<"leads", "read">>),
  GET(<<"stats", "pipeline">>, <<"leads", "read">>),
  GET(<<":id">>, <<"leads", "read">>),
  PATCH(<<":id">>, <<"leads", "update">>),
  POST(<<":id", "convert">>, <<"leads", "convert">>),
  DELETE(<<":id">>, <<"leads", "delete">>),
  GET(<<":id", "notes">>, <<"leads", "read">>),
  POST(<<":id", "notes">>, <<"leads", "update">>),
  POST(<<":id", "tags", ":id">>, <<"leads", "update">>),
  DELETE(<<":id", "tags", ":id">>, <<"leads", "update">>)>>)

ClientDocumentsRoutes == Under(<<"v1", "client-documents">>, <<
  POST(<<>>, <<"documents", "create">>),
  GET(<<>>, <<"documents", "read">>),
  GET(<<"expiry-alerts">>, <<"documents", "read">>),
  POST(<<"refresh-statuses">>, <<"documents", "create">>),
  GET(<<":id">>, <<"documents", "read">>),
  PATCH(<<":id">>, <<"documents", "create">>),
  DELETE(<<":id">>, <<"documents", "delete">>)>>)

DocumentTemplatesRoutes == Under(<<"v1", "document-templates">>, <<
  POST(<<>>, <<"documents", "create">>),
  GET(<<>>, <<"documents", "read">>),
  GET(<<"default", ":id">>, <<"documents", "read">>),
  GET(<<":id">>, <<"documents", "read">>),
  POST(<<":id", "render">>, <<"documents", "read">>),
  PATCH(<<":id">>, <<"documents", "create">>),
  DELETE(<<":id">>, <<"documents", "delete">>)>>)

NotificationsRoutes == Under(<<"notifications">>, <<
  GET(<<"unread-count">>, <<"signed in">>),
  GET(<<"list">>, <<"signed in">>)>>)

OpportunitiesRoutes == Under(<<"v1", "opportunities">>, <<
  POST(<<>>, <<"quotations", "create">>),
  GET(<<>>, <<"quotations", "read">>),
  GET(<<"stats", "pipeline">>, <<"quotations", "read">>),
  GET(<<":id">>, <<"quotations", "read">>),
  PATCH(<<":id">>, <<"quotations", "update">>),
  DELETE(<<":id">>, <<"quotations", "delete">>)>>)

PricingRoutes == Under(<<"v1", "pricing">>, <<
  POST(<<"suggest">>, <<"quotations", "read">>),
  GET(<<"quotation", ":id", "margin">>, <<"quotations", "read">>),
  GET(<<"stats">>, <<"analytics", "read">>)>>)

ProposalsRoutes == Under(<<"v1", "proposals">>, <<
  POST(<<"quotation", ":id">>, <<"quotations", "create">>),
  GET(<<>>, <<"quotations", "read">>),
  GET(<<"quotation", ":id">>, <<"quotations", "read">>),
  PATCH(<<":id">>, <<"quotations", "update">>),
  POST(<<":id", "send">>, <<"quotations", "update">>),
  POST(<<":id", "accept">>, <<"quotations", "approve">>),
  POST(<<":id", "reject">>, <<"quotations", "update">>)>>)

QuotationsRoutes == Under(<<"v1", "quotations">>, <<
  POST(<<>>, <<"quotations", "create">>),
  GET(<<>>, <<"quotations", "read">>),
  GET(<<"stats">>, <<"quotations", "read">>),
  GET(<<"number", ":id">>, <<"quotations", "read">>),
  GET(<<":id">>, <<"quotations", "read">>),
  PATCH(<<":id">>, <<"quotations", "update">>),
  PATCH(<<":id", "status">>, <<"quotations", "update">>),
  POST(<<":id", "items">>, <<"quotations", "update">>),
  DELETE(<<":id", "items", ":id">>, <<"quotations", "update">>),
  DELETE(<<":id">>, <<"quotations", "delete">>)>>)

SupplierContractsRoutes == Under(<<"v1", "suppliers", ":id", "contracts">>, <<
  POST(<<>>, <<"suppliers", "update">>),
  GET(<<>>, <<"suppliers", "read">>),
  GET(<<"expiring">>, <<"suppliers", "read">>),
  GET(<<":id">>, <<"suppliers", "read">>),
  PATCH(<<":id">>, <<"suppliers", "update">>),
  POST(<<":id", "commissions">>, <<"suppliers", "update">>)>>)

SuppliersRoutes == Under(<<"v1", "suppliers">>, <<
  POST(<<>>, <<"suppliers", "create">>),
  GET(<<>>, <<"suppliers", "read">>),
  GET(<<"stats">>, <<"suppliers", "read">>),
  GET(<<":id">>, <<"suppliers", "read">>),
  PATCH(<<":id">>, <<"suppliers", "update">>),
  PATCH(<<":id", "score">>, <<"suppliers", "update">>),
  POST(<<":id", "contacts">>, <<"suppliers", "update">>),
  POST(<<":id", "issues">>, <<"suppliers", "update">>),
  DELETE(<<":id">>, <<"suppliers", "delete">>)>>)

CasesRoutes == Under(<<"v1", "cases">>, <<
  POST(<<>>, <<"cases", "create">>),
  GET(<<>>, <<"cases", "read">>),
  GET(<<"stats">>, <<"cases", "read">>),
  GET(<<":id">>, <<"cases", "read">>),
  PATCH(<<":id">>, <<"cases", "update">>),
  PATCH(<<":id", "status">>, <<"cases", "update">>),
  GET(<<":id", "notes">>, <<"cases", "read">>),
  POST(<<":id", "notes">>, <<"cases", "update">>),
  DELETE(<<":id">>, <<"cases", "delete">>)>>)

ChecklistsRoutes == Under(<<"v1", "cases", ":id", "checklists">>, <<
  POST(<<>>, <<"cases", "update">>),
  GET(<<>>, <<"cases", "read">>),
  GET(<<"progress">>, <<"cases", "read">>),
  POST(<<":id", "toggle">>, <<"cases", "update">>),
  PATCH(<<":id">>, <<"cases", "update">>),
  DELETE(<<":id">>, <<"cases", "update">>)>>)

ItinerariesRoutes == Under(<<"v1", "cases", ":id", "itinerary">>, <<
  POST(<<>>, <<"cases", "update">>),
  POST(<<"bulk">>, <<"cases", "update">>),
  GET(<<>>, <<"cases", "read">>),
  PATCH(<<":id">>, <<"cases", "update">>),
  DELETE(<<":id">>, <<"cases", "update">>)>>)

PassengersRoutes == Under(<<"v1", "cases", ":id", "passengers">>, <<
  POST(<<>>, <<"cases", "update">>),
  GET(<<>>, <<"cases", "read">>),
  GET(<<":id">>, <<"cases", "read">>),
  PATCH(<<":id">>, <<"cases", "update">>),
  DELETE(<<":id">>, <<"cases", "update">>)>>)

CaseServicesRoutes == Under(<<"v1", "cases", ":id", "services">>, <<
  POST(<<>>, <<"cases", "update">>),
  GET(<<>>, <<"cases", "read">>),
  PATCH(<<":id">>, <<"cases", "update">>),
  POST(<<":id", "confirm">>, <<"cases", "update">>),
  DELETE(<<":id">>, <<"cases", "update">>)>>)

WorkflowsRoutes == Under(<<"v1", "workflows">>, <<
  POST(<<"tasks">>, <<"cases", "update">>),
  GET(<<"tasks">>, <<"cases", "read">>),
  GET(<<"tasks", "mine">>, <<"cases", "read">>),
  PATCH(<<"tasks", ":id">>, <<"cases", "update">>),
  POST(<<"tasks", ":id", "complete">>, <<"cases", "update">>),
  DELETE(<<"tasks", ":id">>, <<"cases", "update">>),
  POST(<<"approvals">>, <<"cases", "create">>),
  GET(<<"approvals", "pending">>, <<"cases", "read">>),
  POST(<<"approvals", ":id", "decide">>, <<"cases", "update">>),
  POST(<<"reminders">>, <<"cases", "create">>),
  GET(<<"reminders", "upcoming">>, <<"cases", "read">>),
  GET(<<"reminders", "due">>, <<"cases", "read">>),
  POST(<<"reminders", ":id", "done">>, <<"cases", "update">>),
  GET(<<"stats">>, <<"cases", "read">>)>>)

-----------------------------------------------------------------------------
(* The application                                                         *)

\* In the order of the imports of AppModule.
AllRoutes ==
  TenantsRoutes \o AuthRoutes \o AuditLogRoutes \o UsersRoutes \o RolesRoutes \o
  PermissionsRoutes \o SettingsRoutes \o SuperadminRoutes \o
  ClientsRoutes \o LeadsRoutes \o ContactsRoutes \o CustomerTagsRoutes \o
  CustomerPreferencesRoutes \o CustomerHistoryRoutes \o
  OpportunitiesRoutes \o QuotationsRoutes \o ProposalsRoutes \o PricingRoutes \o
  CasesRoutes \o PassengersRoutes \o ItinerariesRoutes \o CaseServicesRoutes \o
  ChecklistsRoutes \o BookingsRoutes \o BookingDocumentsRoutes \o
  InvoicesRoutes \o PaymentsRoutes \o CreditNotesRoutes \o
  ClientDocumentsRoutes \o DocumentTemplatesRoutes \o
  SuppliersRoutes \o SupplierContractsRoutes \o CommunicationsRoutes \o
  AnalyticsRoutes \o WorkflowsRoutes \o NotificationsRoutes \o HealthRoutes

\* A parameter takes any segment, a literal only itself.
Fits(path, address) ==
  /\ Len(path) = Len(address)
  /\ \A i \in DOMAIN path : path[i] = ":id" \/ path[i] = address[i]

\* The address a client writes for a path: no id is a literal of some other route.
AddressOf(path) == [i \in DOMAIN path |-> IF path[i] = ":id" THEN "a1b2" ELSE path[i]]

\* The routes that serve an address: at most one, the first that fits it.
Serving(method, address) ==
  LET fitting == {i \in DOMAIN AllRoutes : /\ AllRoutes[i].method = method
                                           /\ Fits(AllRoutes[i].path, address)}
  IN  {AllRoutes[i] : i \in {j \in fitting : \A k \in fitting : j <= k}}

-----------------------------------------------------------------------------
(* Permissions                                                             *)

Each(resource, actions) == {<<resource, action>> : action \in actions}
Edited == {"create", "read", "update", "delete"}

\* PERMISSIONS of the bootstrap, which the role Amministratore is given all of.
Permissions ==
  Each("users", Edited) \cup Each("roles", Edited) \cup Each("permissions", {"read"}) \cup
  Each("settings", {"read", "update"}) \cup Each("audit", {"read"}) \cup
  Each("clients", Edited \cup {"export"}) \cup Each("leads", Edited \cup {"convert"}) \cup
  Each("quotations", Edited \cup {"approve", "export"}) \cup Each("cases", Edited) \cup
  Each("bookings", Edited \cup {"cancel"}) \cup Each("invoices", Edited \cup {"export"}) \cup
  Each("documents", {"create", "read", "delete"}) \cup Each("analytics", {"read", "export"}) \cup
  Each("suppliers", Edited) \cup Each("communications", {"create", "read", "send"})

\* agentPerms of the bootstrap, for the role Agente di Viaggio: those of them that exist.
AgentPermissions ==
  Permissions \cap
    (Each("clients", {"create", "read", "update"}) \cup
     Each("leads", {"create", "read", "update", "convert"}) \cup
     Each("quotations", {"create", "read", "update", "export"}) \cup
     Each("cases", {"create", "read", "update"}) \cup
     Each("bookings", {"create", "read", "update"}) \cup Each("invoices", {"read"}) \cup
     Each("documents", {"create", "read"}) \cup Each("suppliers", {"read"}) \cup
     Each("communications", {"create", "read", "send"}))

\* The users the bootstrap makes, and one with the role of an agent.
Users == {"administrator", "agent", "super admin"}

Granted(user) ==
  CASE user = "administrator" -> Permissions
    [] user = "agent" -> AgentPermissions
    [] user = "super admin" -> {}

\* The roles of each: the bootstrap makes these two, and gives its super admin none.
RolesOf(user) ==
  CASE user = "administrator" -> {"Amministratore"}
    [] user = "agent" -> {"Agente di Viaggio"}
    [] user = "super admin" -> {}

\* RolesGuard.
HasRole(user, role) == role \in RolesOf(user)

\* PermissionsGuard.
HasPermission(user, permission) ==
  HasRole(user, "super_admin") \/ permission \in Granted(user)

\* SuperAdminGuard.
IsSuperAdmin(user) == user = "super admin"

\* The guards of a route, for a user who shows an access token.
Allowed(user, needs) ==
  CASE needs = <<"public">> \/ needs = <<"signed in">> -> TRUE
    [] needs = <<"refresh token">> -> FALSE
    [] needs = <<"role super_admin">> -> HasRole(user, "super_admin")
    [] needs = <<"superadmin">> -> IsSuperAdmin(user)
    [] OTHER -> HasPermission(user, needs)
=============================================================================
