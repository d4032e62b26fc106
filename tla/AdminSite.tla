------------------------------ MODULE AdminSite -------------------------------
(***************************************************************************)
(* The administration front end: in a behaviour the user goes through the  *)
(* pages (and other clients through the routes), or stays on the tasks, or *)
(* turns the pages of a list, as tour says.                                *)
(***************************************************************************)
EXTENDS AdminPages, AdminLists

VARIABLE tour

vars == <<pageVars, listVars, pagerVars, tour>>

Init ==
  /\ tour \in {"pages", "tasks", "pager"}
  /\ IF tour = "pages" THEN PagesInit
     ELSE /\ user = "administrator" /\ page = "elsewhere" /\ choice = NoChoice
          /\ answers = None /\ saved = NotSaved /\ visited = 0
  /\ IF tour = "tasks" THEN ListsInit
     ELSE /\ onScreen = CHOOSE l \in List : TRUE
          /\ cache = [l \in List |-> Entry] /\ save = [s \in Save |-> "no"] /\ missed = {}
  /\ IF tour = "pager" THEN PagerInit
     ELSE /\ pager = [page |-> 1, filter |-> CHOOSE f \in Filter : TRUE, awaited |-> TRUE,
                      meta |-> NoAnswer]
          /\ pages = [f \in Filter |-> 0] /\ hasty = FALSE /\ shrunk = FALSE

Next ==
  \/ tour = "pages" /\ PagesNext /\ UNCHANGED <<listVars, pagerVars, tour>>
  \/ tour = "tasks" /\ ListsNext /\ UNCHANGED <<pageVars, pagerVars, tour>>
  \/ tour = "pager" /\ PagerNext /\ UNCHANGED <<pageVars, listVars, tour>>

Spec == Init /\ [][Next]_vars

-----------------------------------------------------------------------------
(* Routes                                                                  *)

\* The routes that no user of the bootstrap may use: they ask for the role super_admin
\* ("super admin only"), and the bootstrap gives its super admin a flag and no role.
ForNobody(route) ==
  \/ \E i \in DOMAIN TenantsRoutes : route = TenantsRoutes[i]
  \/ \E i \in DOMAIN PermissionsRoutes :
       route = PermissionsRoutes[i] /\ route.method \in {"POST", "DELETE"}

\* Who of the bootstrap's users a route is for: the administrator, to whom all permissions
\* are granted, the super admin, or nobody.
MeantFor(route) ==
  IF ForNobody(route) THEN {}
  ELSE IF \E i \in DOMAIN SuperadminRoutes : route = SuperadminRoutes[i] THEN {"super admin"}
  ELSE {"administrator"}

\* Every route is reached at its address and no other one hides it; but for those of ForNobody
\* and the refresh, which takes another token, the administrator or the super admin of the
\* bootstrap gets past its guards (the order of the routes of the controllers and of
\* AppModule's imports; RequirePermissions and Roles against PERMISSIONS and the bootstrap).
RoutedAsMeant ==
  visited # 0 =>
    LET route == AllRoutes[visited]
        users == {u \in Users : Allowed(u, route.needs)}
    IN  /\ Serving(route.method, AddressOf(route.path)) = {route}
        /\ MeantFor(route) \subseteq users \/ route.needs = <<"refresh token">>
        /\ ForNobody(route) => users = {}

-----------------------------------------------------------------------------
(* Pages: what the front end sends, the backend takes, with the exceptions *)
(* that the code has today                                                 *)

\* Filters with a value that the backend does not have, by page.
UnknownToBackend ==
  {<<"opportunities", <<"stage", "NEEDS_ANALYSIS">>>>,
   <<"payments", <<"search", "text">>>>,
   <<"documents", <<"status", "MISSING">>>>,
   <<"communications", <<"status", "CANCELLED">>>>} \cup
  {<<"suppliers", <<"type", t>>>> : t \in {"HOTEL", "DMC", "GROUND_HANDLER"}}

\* The list of clients sends an empty status unless one is chosen.
EmptyStatus(p, q, c) == p = "clients" /\ q = "clients" /\ c[1] # "status"

\* Asked for below v1, where notifications and the super admin are not.
NotBelowV1(p, q) == q = "unread" \/ p \in DOMAIN SuperPages

\* Shown to an agent, who may not read it.
NotForAgents(p, q) ==
  \/ p \in {"dashboard", "analytics"} /\ q \in {"kpis", "sales", "margins", "clients", "forecast"}
  \/ p = "payments" /\ q = "cashflow"
  \/ p = "settings"

RefusedQuery(p, q, c) ==
  \/ NotBelowV1(p, q)
  \/ EmptyStatus(p, q, c)
  \/ <<p, c>> \in UnknownToBackend /\ Queries(p)[q].filtered
  \/ user = "agent" /\ NotForAgents(p, q)

\* A setting is changed by a route that does not exist; the other forms send a field, a
\* source or a path that the backend does not know.
RefusedForm(p, c) ==
  \/ p \in DOMAIN SuperPages \cup {"settings"}
  \/ p = "clientNew" /\ c \in {<<"notes", "text">>, <<"source", "ADVERTISING">>}

\* What a page asks for and submits is refused exactly when it is listed above: the
\* parameters, values and paths the pages send against the DTOs, enumerations, routes and
\* permissions of the backend.
RefusalsAreKnown ==
  /\ \A q \in DOMAIN answers : answers[q] # "awaited" =>
       (answers[q] = "refused" <=> RefusedQuery(page, q, choice))
  /\ saved # NotSaved => (saved.taken <=> ~RefusedForm(page, saved.choice))

\* Parts that the pages read and the backend does not give: the summary of the cash flow,
\* the weighted value of the pipeline, the history of the forecast as a list, the settings as
\* a list, and the mark of overdue tasks.
Missing ==
  {<<"payments", "cashflow">>, <<"opportunities", "stats">>, <<"analytics", "forecast">>,
   <<"settings", "settings">>, <<"workflows", "all">>}

\* A page reads of an answer only what it has, but for what is listed above (the interfaces
\* of the pages against the selects and results of the services).
AnswersFit ==
  \A q \in DOMAIN answers : answers[q] \in {"shown", "unfit"} =>
    (answers[q] = "unfit" <=> <<page, q>> \in Missing)

-----------------------------------------------------------------------------
(* Lists                                                                   *)

\* The list of tasks on the screen tells of every save that has returned, once it is loaded,
\* unless its load failed or was under way when the save returned (invalidateQueries of both
\* lists in onSuccess).
ShownIsCurrent ==
  LET entry == cache[onScreen]
  IN  entry.has /\ entry.load = "no" /\ onScreen \notin missed =>
        {s \in Save : save[s] = "returned"} \subseteq entry.data

\* A pager stays within the pages of its list, as long as nobody clicks while an answer is
\* awaited and the lists lose no page (setPage(1) with every filter; the buttons follow
\* hasPrevPage and hasNextPage of buildPaginatedResult).
PageExists ==
  ~pager.awaited /\ ~hasty /\ ~shrunk => pager.page \in 1 .. AtLeastOne(pages[pager.filter])
=============================================================================
