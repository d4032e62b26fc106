----------------------------- MODULE TravelCases -----------------------------
(***************************************************************************)
(* CasesService, PassengersService, ItinerariesService and                 *)
(* ChecklistsService over the tables travel_cases, case_status_history,    *)
(* passengers, case_itinerary and case_checklists.  A handler is one action*)
(* per database statement and req[r] is what it carries between them, as in*)
(* InvoiceLedger.                                                          *)
(*                                                                         *)
(* Of an itinerary only the plan is kept that a bulk request brought its   *)
(* days in, of the checklist one of its five default items.  Notes, money, *)
(* single days, services and texts are left out.                           *)
(***************************************************************************)
EXTENDS Integers, Sequences, FiniteSets

CONSTANTS
  Case,        \* ids a travel case may get
  Passenger,   \* ids a passenger may get
  Plan,        \* itineraries that requests bring
  Request,     \* HTTP requests being served at the same time
  MaxChanges,  \* bound: rows a case may get in case_status_history
  Mixes,       \* sets of endpoints; the clients of a behaviour use one of them
  MayFail,     \* may a handler die between two statements?
  Null

AllOps == {"update", "updateStatus", "remove", "addPassenger", "updatePassenger",
           "removePassenger", "replacePlan", "toggle", "removeItem"}

ASSUME CasesAssumption ==
  /\ MaxChanges \in Nat
  /\ Mixes \subseteq SUBSET AllOps
  /\ MayFail \in BOOLEAN
  /\ Null \notin Case \cup Passenger \cup Plan \cup {"GONE"}
  /\ "GONE" \notin Case

VARIABLES
  case,       \* table travel_cases
  changes,    \* table case_status_history: the rows of each case, in order
  checklist,  \* table case_checklists: a default item of each case
  plans,      \* table case_itinerary: the plans whose days a case has
  passenger,  \* table passengers: the case of each, and whether isLeader is set
  req,        \* the handlers in progress
  mix,        \* the endpoints that clients use
  (*************************** history variables ***************************)
  crossed,    \* cases on which two handlers have been at work at the same time
  broken,     \* cases on which a handler has failed
  patched,    \* cases whose status a PATCH has set
  given       \* how often a case was given each status, when it was made and by updateStatus;
              \* counted until a handler for the case fails

children == <<checklist, plans, passenger>>
history == <<broken, patched, given>>
vars == <<case, changes, children, req, mix, crossed, history>>

-----------------------------------------------------------------------------
\* CONFIRMED, CANCELLED and REFUNDED are treated like INQUIRY, COMPLETED like IN_PROGRESS.
CaseStatus == {"INQUIRY", "IN_PROGRESS"}

NoCase == [status |-> "ABSENT", deleted |-> FALSE]
CaseRow == [status : CaseStatus, deleted : BOOLEAN]
Change == [from : CaseStatus \cup {Null}, to : CaseStatus]
PassengerRow == [case : Case \cup {Null, "GONE"}, leader : BOOLEAN]

\* `old` is the status, or the state of the checklist item, that the handler has read, `new`
\* the status that it is going to write.
Idle == [at |-> "idle", case |-> Null, passenger |-> Null, plan |-> Null,
         old |-> Null, new |-> Null]
Steps == {"createChecklist", "update", "updateStatus", "recordStatus", "remove",
          "unsetForNew", "insertLeader", "insertPassenger", "findPassenger", "unset",
          "setLeader", "clearLeader", "removePassenger", "deletePlan", "insertPlan", "toggle",
          "removeItem"}
Handler ==
  [at : Steps \cup {"idle"}, case : Case \cup {Null}, passenger : Passenger \cup {Null},
   plan : Plan \cup {Null}, old : CaseStatus \cup {"OPEN", "DONE", Null},
   new : CaseStatus \cup {Null}]

NoneGiven == [s \in CaseStatus |-> 0]

Init ==
  /\ case = [c \in Case |-> NoCase]
  /\ changes = [c \in Case |-> <<>>]
  /\ checklist = [c \in Case |-> "NONE"]
  /\ plans = [c \in Case |-> {}]
  /\ passenger = [p \in Passenger |-> [case |-> Null, leader |-> FALSE]]
  /\ req = [r \in Request |-> Idle]
  /\ mix \in Mixes
  /\ crossed = {}
  /\ broken = {}
  /\ patched = {}
  /\ given = [c \in Case |-> NoneGiven]

-----------------------------------------------------------------------------
Exists(c) == case[c].status # "ABSENT"

\* findOne and checkCase
Found(c) == Exists(c) /\ ~case[c].deleted

Aboard(p) == passenger[p].case \in Case

At(r, step) == req[r].at = step
Finish(r) == req' = [req EXCEPT ![r] = Idle]
Proceed(r, step) == req' = [req EXCEPT ![r].at = step]

\* No handler is at work on case c.
Quiet(c) == \A r \in Request : req[r].case # c

\* A request for case c arrives; handlers for other cases do not touch what it touches.
Arrive(r, c) ==
  /\ req[r] = Idle
  /\ crossed' = IF Quiet(c) THEN crossed ELSE crossed \cup {c}

\* The first statement of a handler reads a row and leaves the tables alone.
Start(r, op, h) ==
  /\ op \in mix
  /\ Arrive(r, h.case)
  /\ req' = [req EXCEPT ![r] = h]
  /\ UNCHANGED <<case, changes, children, mix, history>>

StartOnCase(r, c, op, h) == Found(c) /\ Start(r, op, [h EXCEPT !.case = c])

\* A passenger is looked up by id; neither its case nor the path is compared.
StartOnPassenger(r, p, op, h) ==
  Aboard(p) /\ Start(r, op, [h EXCEPT !.passenger = p, !.case = passenger[p].case])

\* Case c is given status s, which is to be in its history.
Give(c, s) == given' = IF c \in broken THEN given ELSE [given EXCEPT ![c][s] = @ + 1]

-----------------------------------------------------------------------------
(* CasesService                                                            *)

\* The case and the first row of its history are one statement.
Create(r, c, s) ==
  /\ Arrive(r, c)
  /\ ~Exists(c)
  /\ case' = [case EXCEPT ![c] = [status |-> s, deleted |-> FALSE]]
  /\ changes' = [changes EXCEPT ![c] = <<[from |-> Null, to |-> s]>>]
  /\ req' = [req EXCEPT ![r] = [Idle EXCEPT !.at = "createChecklist", !.case = c]]
  /\ Give(c, s)
  /\ UNCHANGED <<children, mix, broken, patched>>

CreateChecklist(r) ==
  /\ At(r, "createChecklist")
  /\ checklist' = [checklist EXCEPT ![req[r].case] = "OPEN"]
  /\ Finish(r)
  /\ UNCHANGED <<case, changes, plans, passenger, mix, crossed, history>>

\* A PATCH may bring a status like any other field; one without changes nothing here.
UpdateRead(r, c, s) ==
  StartOnCase(r, c, "update", [Idle EXCEPT !.at = "update", !.new = s])

UpdateWrite(r) ==
  /\ At(r, "update")
  /\ case' = [case EXCEPT ![req[r].case].status = req[r].new]
  /\ patched' = patched \cup {req[r].case}
  /\ Finish(r)
  /\ UNCHANGED <<changes, children, mix, crossed, broken, given>>

UpdateStatusRead(r, c, s) ==
  /\ Len(changes[c]) < MaxChanges
  /\ StartOnCase(r, c, "updateStatus",
                 [Idle EXCEPT !.at = "updateStatus", !.old = case[c].status, !.new = s])

\* [mutant] the change is not recorded
UpdateStatusWriteOnly(r) ==
  /\ At(r, "updateStatus")
  /\ case' = [case EXCEPT ![req[r].case].status = req[r].new]
  /\ Give(req[r].case, req[r].new)
  /\ Finish(r)
  /\ UNCHANGED <<changes, children, mix, crossed, broken, patched>>

UpdateStatusWrite(r) ==
  /\ At(r, "updateStatus")
  /\ case' = [case EXCEPT ![req[r].case].status = req[r].new]
  /\ Give(req[r].case, req[r].new)
  /\ Proceed(r, "recordStatus")
  /\ UNCHANGED <<changes, children, mix, crossed, broken, patched>>

\* [mutant] the old status is read after the new one is written
RecordStatusLate(r) ==
  /\ At(r, "recordStatus")
  /\ changes' = [changes EXCEPT ![req[r].case] =
                   Append(@, [from |-> case[req[r].case].status, to |-> req[r].new])]
  /\ Finish(r)
  /\ UNCHANGED <<case, children, mix, crossed, history>>

RecordStatus(r) ==
  /\ At(r, "recordStatus")
  /\ changes' = [changes EXCEPT ![req[r].case] =
                   Append(@, [from |-> req[r].old, to |-> req[r].new])]
  /\ Finish(r)
  /\ UNCHANGED <<case, children, mix, crossed, history>>

\* [mutant] any case may be deleted
RemoveReadAny(r, c) == StartOnCase(r, c, "remove", [Idle EXCEPT !.at = "remove"])

RemoveRead(r, c) ==
  case[c].status # "IN_PROGRESS" /\ StartOnCase(r, c, "remove", [Idle EXCEPT !.at = "remove"])

RemoveWrite(r) ==
  /\ At(r, "remove")
  /\ case' = [case EXCEPT ![req[r].case].deleted = TRUE]
  /\ Finish(r)
  /\ UNCHANGED <<changes, children, mix, crossed, history>>

-----------------------------------------------------------------------------
(* PassengersService                                                       *)

AddPassengerRead(r, c, leader) ==
  StartOnCase(r, c, "addPassenger",
              [Idle EXCEPT !.at = IF leader THEN "unsetForNew" ELSE "insertPassenger"])

\* updateMany: nobody in the case is its leader.
UnsetLeaders(r) ==
  /\ req[r].at \in {"unsetForNew", "unset"}
  /\ passenger' = [p \in Passenger |->
       IF passenger[p].case = req[r].case THEN [passenger[p] EXCEPT !.leader = FALSE]
       ELSE passenger[p]]
  /\ Proceed(r, IF At(r, "unset") THEN "setLeader" ELSE "insertLeader")
  /\ UNCHANGED <<case, changes, checklist, plans, mix, crossed, history>>

InsertPassenger(r, p) ==
  /\ req[r].at \in {"insertLeader", "insertPassenger"}
  /\ passenger[p].case = Null
  /\ passenger' = [passenger EXCEPT ![p] = [case |-> req[r].case,
                                            leader |-> At(r, "insertLeader")]]
  /\ Finish(r)
  /\ UNCHANGED <<case, changes, checklist, plans, mix, crossed, history>>

\* [mutant] the old leader stays
UpdatePassengerReadKeeping(r, p, leader) ==
  StartOnPassenger(r, p, "updatePassenger",
                   [Idle EXCEPT !.at = IF leader THEN "setLeader" ELSE "clearLeader"])

\* An update without isLeader changes nothing here.
UpdatePassengerRead(r, p, leader) ==
  StartOnPassenger(r, p, "updatePassenger",
                   [Idle EXCEPT !.at = IF leader THEN "findPassenger" ELSE "clearLeader"])

\* The passenger is looked up again for its case; p!.caseId throws if it is gone.
FindPassenger(r) ==
  /\ At(r, "findPassenger")
  /\ IF Aboard(req[r].passenger) THEN Proceed(r, "unset") ELSE Finish(r)
  /\ UNCHANGED <<case, changes, children, mix, crossed, history>>

\* update and delete throw if the row is gone.
UpdatePassengerWrite(r) ==
  /\ req[r].at \in {"setLeader", "clearLeader"}
  /\ passenger' = IF Aboard(req[r].passenger)
                  THEN [passenger EXCEPT ![req[r].passenger].leader = At(r, "setLeader")]
                  ELSE passenger
  /\ Finish(r)
  /\ UNCHANGED <<case, changes, checklist, plans, mix, crossed, history>>

RemovePassengerRead(r, p) ==
  StartOnPassenger(r, p, "removePassenger", [Idle EXCEPT !.at = "removePassenger"])

RemovePassengerWrite(r) ==
  /\ At(r, "removePassenger")
  /\ passenger' = [passenger EXCEPT ![req[r].passenger] = [case |-> "GONE", leader |-> FALSE]]
  /\ Finish(r)
  /\ UNCHANGED <<case, changes, checklist, plans, mix, crossed, history>>

-----------------------------------------------------------------------------
(* ItinerariesService and ChecklistsService                                *)

ReplacePlanRead(r, c, k) ==
  StartOnCase(r, c, "replacePlan", [Idle EXCEPT !.at = "deletePlan", !.plan = k])

\* [mutant] the new days are added to the old ones
DeletePlanNothing(r) ==
  /\ At(r, "deletePlan")
  /\ Proceed(r, "insertPlan")
  /\ UNCHANGED <<case, changes, children, mix, crossed, history>>

DeletePlan(r) ==
  /\ At(r, "deletePlan")
  /\ plans' = [plans EXCEPT ![req[r].case] = {}]
  /\ Proceed(r, "insertPlan")
  /\ UNCHANGED <<case, changes, checklist, passenger, mix, crossed, history>>

InsertPlan(r) ==
  /\ At(r, "insertPlan")
  /\ plans' = [plans EXCEPT ![req[r].case] = @ \cup {req[r].plan}]
  /\ Finish(r)
  /\ UNCHANGED <<case, changes, checklist, passenger, mix, crossed, history>>

\* An item is looked up by its id; the case may be deleted.
StartOnItem(r, c, op, h) ==
  checklist[c] \in {"OPEN", "DONE"} /\ Start(r, op, [h EXCEPT !.case = c])

ToggleRead(r, c) ==
  StartOnItem(r, c, "toggle", [Idle EXCEPT !.at = "toggle", !.old = checklist[c]])

\* The update throws if the item is gone.
ToggleWrite(r) ==
  /\ At(r, "toggle")
  /\ checklist' = [checklist EXCEPT ![req[r].case] =
                     IF @ = "REMOVED" THEN @ ELSE IF req[r].old = "OPEN" THEN "DONE" ELSE "OPEN"]
  /\ Finish(r)
  /\ UNCHANGED <<case, changes, plans, passenger, mix, crossed, history>>

RemoveItemRead(r, c) == StartOnItem(r, c, "removeItem", [Idle EXCEPT !.at = "removeItem"])

RemoveItemWrite(r) ==
  /\ At(r, "removeItem")
  /\ checklist' = [checklist EXCEPT ![req[r].case] = "REMOVED"]
  /\ Finish(r)
  /\ UNCHANGED <<case, changes, plans, passenger, mix, crossed, history>>

-----------------------------------------------------------------------------
\* A rejected statement or a lost connection ends the handler; what it wrote stays.
Fail(r) ==
  /\ MayFail
  /\ req[r] # Idle
  /\ Finish(r)
  /\ broken' = broken \cup {req[r].case}
  /\ given' = [given EXCEPT ![req[r].case] = NoneGiven]
  /\ UNCHANGED <<case, changes, children, mix, crossed, patched>>

OnCase(r, c) ==
  \/ \E s \in CaseStatus :
       Create(r, c, s) \/ UpdateRead(r, c, s) \/ UpdateStatusRead(r, c, s)
  \/ RemoveRead(r, c)
  \/ \E leader \in BOOLEAN : AddPassengerRead(r, c, leader)
  \/ \E k \in Plan : ReplacePlanRead(r, c, k)
  \/ ToggleRead(r, c)
  \/ RemoveItemRead(r, c)

OnPassenger(r, p) ==
  \/ \E leader \in BOOLEAN : UpdatePassengerRead(r, p, leader)
  \/ RemovePassengerRead(r, p)

Resume(r) ==
  \/ CreateChecklist(r)
  \/ UpdateWrite(r)
  \/ UpdateStatusWrite(r)
  \/ RecordStatus(r)
  \/ RemoveWrite(r)
  \/ UnsetLeaders(r)
  \/ \E p \in Passenger : InsertPassenger(r, p)
  \/ FindPassenger(r)
  \/ UpdatePassengerWrite(r)
  \/ RemovePassengerWrite(r)
  \/ DeletePlan(r)
  \/ InsertPlan(r)
  \/ ToggleWrite(r)
  \/ RemoveItemWrite(r)

Next ==
  \E r \in Request :
    \/ \E c \in Case : OnCase(r, c)
    \/ \E p \in Passenger : OnPassenger(r, p)
    \/ Resume(r)
    \/ Fail(r)

Spec == Init /\ [][Next]_vars

-----------------------------------------------------------------------------
\* Types, and the foreign keys: what a case has, and what a handler works on, belongs to a
\* case that was made.
TypeOK ==
  /\ case \in [Case -> CaseRow \cup {NoCase}]
  /\ changes \in [Case -> Seq(Change)]
  /\ checklist \in [Case -> {"NONE", "OPEN", "DONE", "REMOVED"}]
  /\ plans \in [Case -> SUBSET Plan]
  /\ passenger \in [Passenger -> PassengerRow]
  /\ req \in [Request -> Handler]
  /\ mix \in Mixes
  /\ crossed \subseteq Case
  /\ broken \subseteq Case
  /\ patched \subseteq Case
  /\ given \in [Case -> [CaseStatus -> Nat]]
  /\ \A c \in Case : ~Exists(c) => changes[c] = <<>> /\ checklist[c] = "NONE" /\ plans[c] = {}
  /\ \A p \in Passenger : Aboard(p) => Exists(passenger[p].case)

\* The rows of the history of case c that record status s.
Rows(c, s) == {i \in DOMAIN changes[c] : changes[c][i].to = s}

\* Unless a handler for it fails, a case gets its checklist and a row of history for the status
\* it was made with and for each one that the status endpoint set, also when requests overlap
\* and write them in another order ("default checklist", "Update case status with history
\* tracking").
NothingIsMissing ==
  \A c \in Case \ broken :
    Exists(c) /\ Quiet(c) =>
      /\ checklist[c] # "NONE"
      /\ \A s \in CaseStatus : Cardinality(Rows(c, s)) = given[c][s]

\* The history of a case is a chain of changes from its first status to the present one, if
\* requests for it neither overlap nor fail and no PATCH sets its status, whatever happens to
\* other cases meanwhile.
HistoryIsChain ==
  \A c \in Case \ (crossed \cup broken \cup patched) :
    Exists(c) /\ Quiet(c) =>
      /\ changes[c][Len(changes[c])].to = case[c].status
      /\ \A i \in 2 .. Len(changes[c]) : changes[c][i].from = changes[c][i - 1].to

\* If requests for it do not overlap, a case is not deleted in progress, nor set in progress
\* when it is deleted ("Cannot delete an active or completed case").
ActiveIsKept ==
  \A c \in Case \ crossed : ~(case[c].status = "IN_PROGRESS" /\ case[c].deleted)

\* If requests for it do not overlap, a case has at most one leader, whatever handler fails.
OneLeader ==
  \A p, q \in Passenger :
    /\ passenger[p].leader /\ passenger[q].leader
    /\ passenger[p].case = passenger[q].case
    /\ passenger[p].case \notin crossed
    => p = q

\* If requests for a case do not overlap, the days of its itinerary come from one request
\* ("Replace entire itinerary with bulk days"), whatever handler fails.
OnePlan == \A c \in Case \ crossed : \A k, l \in plans[c] : k = l

===============================================================================
