-------------------------- MODULE TravelCases_proofs --------------------------
(***************************************************************************)
(* Proofs about TravelCases for any number of cases, passengers, plans and *)
(* overlapping requests, for any length of a history and with failures.    *)
(***************************************************************************)
EXTENDS TravelCases, FiniteSetTheorems, TLAPS

\* What a handler carries fits its next statement and the rows that exist.
Fits(h) ==
  /\ h.at = "idle" => h = Idle
  /\ h.at # "idle" => h.case \in Case /\ Exists(h.case)
  /\ h.at \in {"update", "updateStatus", "recordStatus"} => h.new \in CaseStatus
  /\ h.at \in {"updateStatus", "recordStatus"} => h.old \in CaseStatus
  /\ h.at \in {"findPassenger", "unset", "setLeader", "clearLeader", "removePassenger"} =>
       h.passenger \in Passenger /\ passenger[h.passenger].case \in {h.case, "GONE"}
  /\ h.at \in {"deletePlan", "insertPlan"} => h.plan \in Plan

TInv == TypeOK /\ \A r \in Request : Fits(req[r])

\* Cases stay, and a passenger keeps its case until it is removed.
Lasting ==
  /\ \A c \in Case : Exists(c) => Exists(c)'
  /\ \A p \in Passenger :
       passenger[p].case # Null => passenger'[p].case \in {passenger[p].case, "GONE"}

\* A handler keeps fitting while others are at work.
LEMMA FitsLasting ==
  ASSUME TInv, Lasting, NEW h \in Handler, Fits(h)
  PROVE  Fits(h)'
<1>1. (h.at # "idle" => h.case \in Case /\ Exists(h.case))'
  BY DEF Lasting, Fits
<1>2. ASSUME h.at \in {"findPassenger", "unset", "setLeader", "clearLeader", "removePassenger"}
      PROVE  h.passenger \in Passenger /\ passenger'[h.passenger].case \in {h.case, "GONE"}
  <2>1. /\ h.passenger \in Passenger
        /\ passenger[h.passenger].case \in {h.case, "GONE"}
        /\ h.case \in Case
    BY <1>2 DEF Fits
  <2>2. passenger[h.passenger].case # Null
    BY <2>1, CasesAssumption
  <2>q. QED BY <2>1, <2>2 DEF Lasting
<1>q. QED BY <1>1, <1>2 DEF Fits

\* Any statement: it leaves typed tables behind, and its handler in a state that fits.
LEMMA MoveTyped ==
  ASSUME TInv, Lasting, NEW r \in Request, NEW h \in Handler, req' = [req EXCEPT ![r] = h],
         Fits(h)'
  PROVE  req' \in [Request -> Handler] /\ \A s \in Request : Fits(req[s])'
<1>1. req \in [Request -> Handler] /\ req' \in [Request -> Handler]
  BY DEF TInv, TypeOK
<1>2. ASSUME NEW s \in Request PROVE Fits(req[s])'
  <2>1. CASE s = r
    BY <1>1, <2>1
  <2>2. CASE s # r
    <3>1. req'[s] = req[s] /\ req[s] \in Handler /\ Fits(req[s])
      BY <1>1, <2>2 DEF TInv
    <3>2. \A g \in Handler : Fits(g) => Fits(g)'
      BY FitsLasting
    <3>q. QED BY <3>1, <3>2
  <2>q. QED BY <2>1, <2>2
<1>q. QED BY <1>1, <1>2

\* The end of a handler always fits.
LEMMA IdleFits == Idle \in Handler /\ Fits(Idle)'
BY DEF Idle, Handler, Fits

\* Counting a status keeps the type.
LEMMA GiveTyped ==
  ASSUME TInv, NEW c \in Case, NEW s \in CaseStatus, Give(c, s)
  PROVE  given' \in [Case -> [CaseStatus -> Nat]]
BY DEF Give, TInv, TypeOK

\* A handler that starts with what fits keeps the types.
LEMMA StartTyped ==
  ASSUME TInv, NEW r \in Request, NEW op, NEW h \in Handler, Start(r, op, h), Fits(h),
         h.case \in Case
  PROVE  TInv'
<1>1. /\ req' = [req EXCEPT ![r] = h]
      /\ UNCHANGED <<case, changes, checklist, plans, passenger, mix, broken, patched, given>>
      /\ crossed' \subseteq Case
  BY DEF Start, Arrive, children, history, TInv, TypeOK
<1>2. Lasting
  BY <1>1 DEF Lasting, Exists
<1>3. Fits(h)'
  BY <1>2, FitsLasting
<1>4. req' \in [Request -> Handler] /\ \A s \in Request : Fits(req[s])'
  BY <1>1, <1>2, <1>3, MoveTyped
<1>5. TypeOK'
  BY <1>1, <1>4 DEF TInv, TypeOK, Exists, Aboard
<1>q. QED BY <1>4, <1>5 DEF TInv

\* The first statement of every request keeps the types.
LEMMA RequestTyped ==
  ASSUME TInv, NEW r \in Request,
         (\E c \in Case : OnCase(r, c)) \/ (\E p \in Passenger : OnPassenger(r, p))
  PROVE  TInv'
<1>1. ASSUME NEW c \in Case, NEW s \in CaseStatus, Create(r, c, s)
      PROVE  TInv'
  <2> DEFINE h == [Idle EXCEPT !.at = "createChecklist", !.case = c]
  <2>1. h \in Handler /\ h.at = "createChecklist" /\ h.case = c
    BY DEF Idle, Handler, Steps
  <2>2. req' = [req EXCEPT ![r] = h]
    BY <1>1 DEF Create
  <2> HIDE DEF h
  <2>3. /\ case' = [case EXCEPT ![c] = [status |-> s, deleted |-> FALSE]]
        /\ changes' = [changes EXCEPT ![c] = <<[from |-> Null, to |-> s]>>]
        /\ UNCHANGED <<checklist, plans, passenger, mix, broken, patched>>
        /\ crossed' \subseteq Case
        /\ given' \in [Case -> [CaseStatus -> Nat]]
    BY <1>1, GiveTyped DEF Create, Arrive, children, TInv, TypeOK
  <2>4. case' \in [Case -> CaseRow \cup {NoCase}] /\ case'[c].status # "ABSENT"
        /\ \A d \in Case \ {c} : case'[d] = case[d]
    BY <2>3 DEF TInv, TypeOK, CaseRow, CaseStatus
  <2>5. Lasting
    BY <2>3, <2>4 DEF Lasting, Exists
  <2>6. Fits(h)'
    BY <2>1, <2>4 DEF Fits, Exists
  <2>7. req' \in [Request -> Handler] /\ \A t \in Request : Fits(req[t])'
    BY <2>1, <2>2, <2>5, <2>6, MoveTyped
  <2>8. <<[from |-> Null, to |-> s]>> \in Seq(Change)
    BY DEF Change
  <2>9. changes' \in [Case -> Seq(Change)] /\ \A d \in Case \ {c} : changes'[d] = changes[d]
    BY <2>3, <2>8 DEF TInv, TypeOK
  <2>10. TypeOK'
    BY <2>3, <2>4, <2>5, <2>7, <2>9 DEF TInv, TypeOK, Exists, Aboard, Lasting
  <2>q. QED BY <2>7, <2>10 DEF TInv
<1>2. ASSUME NEW c \in Case, NEW s \in CaseStatus, UpdateRead(r, c, s)
      PROVE  TInv'
  <2> DEFINE h == [[Idle EXCEPT !.at = "update", !.new = s] EXCEPT !.case = c]
  <2>1. h \in Handler /\ h.at = "update" /\ h.case = c /\ h.new = s
    BY DEF Idle, Handler, Steps
  <2>2. Start(r, "update", h) /\ Exists(c)
    BY <1>2 DEF UpdateRead, StartOnCase, Found
  <2> HIDE DEF h
  <2>3. Fits(h)
    BY <2>1, <2>2 DEF Fits
  <2>q. QED BY <2>1, <2>2, <2>3, StartTyped
<1>3. ASSUME NEW c \in Case, NEW s \in CaseStatus, UpdateStatusRead(r, c, s)
      PROVE  TInv'
  <2> DEFINE h == [[Idle EXCEPT !.at = "updateStatus", !.old = case[c].status, !.new = s]
                     EXCEPT !.case = c]
  <2>1. Start(r, "updateStatus", h) /\ Exists(c)
    BY <1>3 DEF UpdateStatusRead, StartOnCase, Found
  <2>2. case[c].status \in CaseStatus
    BY <2>1 DEF TInv, TypeOK, Exists, CaseRow, NoCase
  <2>3. /\ h \in Handler /\ h.at = "updateStatus" /\ h.case = c /\ h.new = s
        /\ h.old = case[c].status
    BY <2>2 DEF Idle, Handler, Steps
  <2> HIDE DEF h
  <2>4. Fits(h)
    BY <2>1, <2>2, <2>3 DEF Fits
  <2>q. QED BY <2>1, <2>3, <2>4, StartTyped
<1>4. ASSUME NEW c \in Case, RemoveRead(r, c)
      PROVE  TInv'
  <2> DEFINE h == [[Idle EXCEPT !.at = "remove"] EXCEPT !.case = c]
  <2>1. h \in Handler /\ h.at = "remove" /\ h.case = c
    BY DEF Idle, Handler, Steps
  <2>2. Start(r, "remove", h) /\ Exists(c)
    BY <1>4 DEF RemoveRead, StartOnCase, Found
  <2> HIDE DEF h
  <2>3. Fits(h)
    BY <2>1, <2>2 DEF Fits
  <2>q. QED BY <2>1, <2>2, <2>3, StartTyped
<1>5. ASSUME NEW c \in Case, NEW leader \in BOOLEAN, AddPassengerRead(r, c, leader)
      PROVE  TInv'
  <2> DEFINE h == [[Idle EXCEPT !.at = IF leader THEN "unsetForNew" ELSE "insertPassenger"]
                     EXCEPT !.case = c]
  <2>1. h \in Handler /\ h.at \in {"unsetForNew", "insertPassenger"} /\ h.case = c
    BY DEF Idle, Handler, Steps
  <2>2. Start(r, "addPassenger", h) /\ Exists(c)
    BY <1>5 DEF AddPassengerRead, StartOnCase, Found
  <2> HIDE DEF h
  <2>3. Fits(h)
    BY <2>1, <2>2 DEF Fits
  <2>q. QED BY <2>1, <2>2, <2>3, StartTyped
<1>6. ASSUME NEW c \in Case, NEW k \in Plan, ReplacePlanRead(r, c, k)
      PROVE  TInv'
  <2> DEFINE h == [[Idle EXCEPT !.at = "deletePlan", !.plan = k] EXCEPT !.case = c]
  <2>1. h \in Handler /\ h.at = "deletePlan" /\ h.case = c /\ h.plan = k
    BY DEF Idle, Handler, Steps
  <2>2. Start(r, "replacePlan", h) /\ Exists(c)
    BY <1>6 DEF ReplacePlanRead, StartOnCase, Found
  <2> HIDE DEF h
  <2>3. Fits(h)
    BY <2>1, <2>2 DEF Fits
  <2>q. QED BY <2>1, <2>2, <2>3, StartTyped
<1>7. ASSUME NEW c \in Case, ToggleRead(r, c)
      PROVE  TInv'
  <2> DEFINE h == [[Idle EXCEPT !.at = "toggle", !.old = checklist[c]] EXCEPT !.case = c]
  <2>1. Start(r, "toggle", h) /\ checklist[c] \in {"OPEN", "DONE"}
    BY <1>7 DEF ToggleRead, StartOnItem
  <2>2. h \in Handler /\ h.at = "toggle" /\ h.case = c
    BY <2>1 DEF Idle, Handler, Steps
  <2> HIDE DEF h
  <2>3. Fits(h)
    BY <2>1, <2>2 DEF Fits, TInv, TypeOK
  <2>q. QED BY <2>1, <2>2, <2>3, StartTyped
<1>10. ASSUME NEW c \in Case, RemoveItemRead(r, c)
       PROVE  TInv'
  <2> DEFINE h == [[Idle EXCEPT !.at = "removeItem"] EXCEPT !.case = c]
  <2>1. Start(r, "removeItem", h) /\ checklist[c] \in {"OPEN", "DONE"}
    BY <1>10 DEF RemoveItemRead, StartOnItem
  <2>2. h \in Handler /\ h.at = "removeItem" /\ h.case = c
    BY DEF Idle, Handler, Steps
  <2> HIDE DEF h
  <2>3. Fits(h)
    BY <2>1, <2>2 DEF Fits, TInv, TypeOK
  <2>q. QED BY <2>1, <2>2, <2>3, StartTyped
<1>8. ASSUME NEW p \in Passenger, NEW op,
             NEW step \in {"findPassenger", "clearLeader", "removePassenger"},
             StartOnPassenger(r, p, op, [Idle EXCEPT !.at = step])
      PROVE  TInv'
  <2> DEFINE c == passenger[p].case
             h == [[Idle EXCEPT !.at = step] EXCEPT !.passenger = p, !.case = c]
  <2>1. Start(r, op, h) /\ c \in Case /\ Exists(c)
    BY <1>8 DEF StartOnPassenger, Aboard, TInv, TypeOK
  <2>2. h \in Handler /\ h.at = step /\ h.case = c /\ h.passenger = p
    BY <2>1 DEF Idle, Handler, Steps
  <2> HIDE DEF h
  <2>3. Fits(h)
    BY <2>1, <2>2 DEF Fits
  <2>q. QED BY <2>1, <2>2, <2>3, StartTyped
<1>9. ASSUME NEW p \in Passenger, OnPassenger(r, p)
      PROVE  TInv'
  <2>1. ASSUME NEW leader \in BOOLEAN, UpdatePassengerRead(r, p, leader)
        PROVE  TInv'
    <3>1. CASE leader
      BY <1>8, <2>1, <3>1 DEF UpdatePassengerRead
    <3>2. CASE ~leader
      BY <1>8, <2>1, <3>2 DEF UpdatePassengerRead
    <3>q. QED BY <3>1, <3>2
  <2>2. CASE RemovePassengerRead(r, p)
    BY <1>8, <2>2 DEF RemovePassengerRead
  <2>q. QED BY <1>9, <2>1, <2>2 DEF OnPassenger
<1>q. QED BY <1>1, <1>2, <1>3, <1>4, <1>5, <1>6, <1>7, <1>9, <1>10 DEF OnCase

\* A statement after the first: it changes the tables within their types, and the handler ends
\* or goes on to a step that needs no more than what it carries.
LEMMA StepTyped ==
  ASSUME TInv, Lasting, NEW r \in Request, NEW h \in Handler, req' = [req EXCEPT ![r] = h],
         Fits(h)',
         case' \in [Case -> CaseRow \cup {NoCase}],
         changes' \in [Case -> Seq(Change)],
         checklist' \in [Case -> {"NONE", "OPEN", "DONE", "REMOVED"}],
         plans' \in [Case -> SUBSET Plan],
         passenger' \in [Passenger -> PassengerRow],
         mix' = mix, crossed' = crossed, broken' \subseteq Case,
         patched' \subseteq Case, given' \in [Case -> [CaseStatus -> Nat]],
         \A c \in Case : ~Exists(c)' =>
           /\ changes'[c] = changes[c]
           /\ checklist'[c] = checklist[c]
           /\ plans'[c] = plans[c],
         \A p \in Passenger : Aboard(p)' => Exists(passenger'[p].case)
  PROVE  TInv'
<1>1. req' \in [Request -> Handler] /\ \A s \in Request : Fits(req[s])'
  BY MoveTyped
<1>2. \A c \in Case :
        ~Exists(c)' => changes'[c] = <<>> /\ checklist'[c] = "NONE" /\ plans'[c] = {}
  BY DEF TInv, TypeOK, Lasting
<1>3. \A p \in Passenger : Aboard(p)' => Exists(passenger[p].case)'
  BY DEF Lasting, Aboard
<1>q. QED BY <1>1, <1>2, <1>3 DEF TInv, TypeOK

\* Handler h is what req[r] becomes when it proceeds to a step.
Moved(h, r, step) ==
  /\ h = [req[r] EXCEPT !.at = step]
  /\ h.at = step
  /\ h.case = req[r].case
  /\ h.passenger = req[r].passenger
  /\ h.plan = req[r].plan
  /\ h.old = req[r].old
  /\ h.new = req[r].new

\* What a working handler carries, and that it may proceed to another step.
LEMMA AtWork ==
  ASSUME TInv, NEW r \in Request, ~At(r, "idle")
  PROVE  /\ req[r] \in Handler
         /\ Fits(req[r])
         /\ req[r].case \in Case
         /\ Exists(req[r].case)
         /\ case[req[r].case] \in CaseRow
         /\ \A step \in Steps : \E h \in Handler : Moved(h, r, step)
<1>1. req[r] \in Handler /\ Fits(req[r])
  BY DEF TInv, TypeOK
<1>2. req[r].case \in Case /\ Exists(req[r].case)
  BY <1>1 DEF Fits, At
<1>3. case[req[r].case] \in CaseRow
  BY <1>2 DEF TInv, TypeOK, Exists, NoCase
<1>4. ASSUME NEW step \in Steps
      PROVE  \E h \in Handler : Moved(h, r, step)
  <2>1. [req[r] EXCEPT !.at = step] \in Handler /\ Moved([req[r] EXCEPT !.at = step], r, step)
    BY <1>1 DEF Handler, Moved
  <2>q. QED BY <2>1
<1>q. QED BY <1>1, <1>2, <1>3, <1>4

\* Every later statement of a handler keeps the types.
LEMMA ResumeTyped ==
  ASSUME TInv, NEW r \in Request, Resume(r)
  PROVE  TInv'
<1>1. CASE CreateChecklist(r)
  <2>1. /\ Finish(r)
        /\ checklist' \in [Case -> {"NONE", "OPEN", "DONE", "REMOVED"}]
        /\ \A c \in Case \ {req[r].case} : checklist'[c] = checklist[c]
        /\ UNCHANGED <<case, changes, plans, passenger, mix, crossed, broken, patched, given>>
    BY <1>1 DEF CreateChecklist, history, TInv, TypeOK
  <2>2. req[r].case \in Case /\ Exists(req[r].case)
    BY <1>1, AtWork DEF CreateChecklist, At
  <2>3. Lasting
    BY <2>1 DEF Lasting, Exists
  <2>q. QED BY <2>1, <2>2, <2>3, IdleFits, StepTyped DEF Finish, TInv, TypeOK, Exists, Aboard
<1>2. CASE UpdateWrite(r)
  <2> DEFINE c == req[r].case
  <2>1. req[r].at = "update" /\ c \in Case /\ case[c] \in CaseRow /\ req[r].new \in CaseStatus
    BY <1>2, AtWork DEF UpdateWrite, At, Fits
  <2>2. /\ Finish(r)
        /\ case' = [case EXCEPT ![c].status = req[r].new]
        /\ UNCHANGED <<changes, checklist, plans, passenger, mix, crossed, broken, given>>
        /\ patched' \subseteq Case
    BY <1>2, <2>1 DEF UpdateWrite, children, TInv, TypeOK
  <2> HIDE DEF c
  <2>3. case' \in [Case -> CaseRow \cup {NoCase}] /\ \A d \in Case : Exists(d)' <=> Exists(d)
    BY <2>1, <2>2 DEF TInv, TypeOK, CaseRow, CaseStatus, Exists
  <2>4. Lasting
    BY <2>2, <2>3 DEF Lasting
  <2>q. QED BY <2>2, <2>3, <2>4, IdleFits, StepTyped DEF Finish, TInv, TypeOK, Exists, Aboard
<1>3. CASE UpdateStatusWrite(r)
  <2>1. /\ req[r].at = "updateStatus" /\ req[r].case \in Case /\ case[req[r].case] \in CaseRow
        /\ req[r].new \in CaseStatus /\ req[r].old \in CaseStatus
    BY <1>3, AtWork DEF UpdateStatusWrite, At, Fits
  <2>0. PICK c \in Case : c = req[r].case
    BY <2>1
  <2>3. PICK h \in Handler : Moved(h, r, "recordStatus")
    BY <2>1, AtWork DEF At, Steps
  <2>2. /\ req' = [req EXCEPT ![r] = h]
        /\ case' = [case EXCEPT ![c].status = req[r].new]
        /\ UNCHANGED <<changes, checklist, plans, passenger, mix, crossed, broken, patched>>
        /\ given' \in [Case -> [CaseStatus -> Nat]]
    BY <1>3, <2>0, <2>1, <2>3, GiveTyped DEF UpdateStatusWrite, Proceed, Moved, children
  <2>4. case' \in [Case -> CaseRow \cup {NoCase}] /\ \A d \in Case : Exists(d)' <=> Exists(d)
    BY <2>0, <2>1, <2>2 DEF TInv, TypeOK, CaseRow, CaseStatus, Exists
  <2>5. Exists(c)
    BY <2>0, <2>1 DEF Exists, CaseRow, CaseStatus
  <2>6. Lasting
    BY <2>2, <2>4 DEF Lasting
  <2>8. h.at = "recordStatus" /\ h.case = c /\ h.new \in CaseStatus /\ h.old \in CaseStatus
    BY <2>0, <2>1, <2>3 DEF Moved
  <2>9. Exists(c)'
    BY <2>4, <2>5
  <2>7. Fits(h)'
    BY <2>8, <2>9 DEF Fits
  <2>q. QED BY <2>2, <2>3, <2>4, <2>6, <2>7, StepTyped DEF TInv, TypeOK, Exists, Aboard
<1>4. CASE RecordStatus(r)
  <2> DEFINE c == req[r].case
             d == [from |-> req[r].old, to |-> req[r].new]
  <2>1. /\ req[r].at = "recordStatus" /\ c \in Case /\ Exists(c)
        /\ d \in Change
    BY <1>4, AtWork DEF RecordStatus, At, Fits, Change
  <2>2. /\ Finish(r)
        /\ changes' = [changes EXCEPT ![c] = Append(changes[c], d)]
        /\ UNCHANGED <<case, checklist, plans, passenger, mix, crossed, broken, patched, given>>
    BY <1>4 DEF RecordStatus, children, history
  <2> HIDE DEF c, d
  <2>3. changes \in [Case -> Seq(Change)] /\ changes[c] \in Seq(Change)
    BY <2>1 DEF TInv, TypeOK
  <2>4. Append(changes[c], d) \in Seq(Change)
    BY <2>1, <2>3
  <2>5. changes' \in [Case -> Seq(Change)] /\ \A e \in Case \ {c} : changes'[e] = changes[e]
    BY <2>2, <2>3, <2>4
  <2>6. Lasting
    BY <2>2 DEF Lasting, Exists
  <2>q. QED BY <2>1, <2>2, <2>5, <2>6, IdleFits, StepTyped DEF Finish, TInv, TypeOK, Exists, Aboard
<1>5. CASE RemoveWrite(r)
  <2> DEFINE c == req[r].case
  <2>1. c \in Case /\ case[c] \in CaseRow
    BY <1>5, AtWork DEF RemoveWrite, At
  <2>2. /\ Finish(r)
        /\ case' = [case EXCEPT ![c].deleted = TRUE]
        /\ UNCHANGED <<changes, checklist, plans, passenger, mix, crossed, broken, patched, given>>
    BY <1>5 DEF RemoveWrite, children, history
  <2> HIDE DEF c
  <2>3. case' \in [Case -> CaseRow \cup {NoCase}] /\ \A d \in Case : Exists(d)' <=> Exists(d)
    BY <2>1, <2>2 DEF TInv, TypeOK, CaseRow, Exists
  <2>4. Lasting
    BY <2>2, <2>3 DEF Lasting
  <2>q. QED BY <2>2, <2>3, <2>4, IdleFits, StepTyped DEF Finish, TInv, TypeOK, Exists, Aboard
<1>6. ASSUME UnsetLeaders(r)
      PROVE  TInv'
  <2>1. /\ req[r].at \in {"unsetForNew", "unset"}
        /\ req[r].case \in Case
        /\ Exists(req[r].case)
        /\ req[r].at = "unset" =>
             /\ req[r].passenger \in Passenger
             /\ passenger[req[r].passenger].case \in {req[r].case, "GONE"}
    BY <1>6, AtWork DEF UnsetLeaders, At, Fits
  <2>2. PICK step \in {"insertLeader", "setLeader"} :
          /\ req' = [req EXCEPT ![r] = [req[r] EXCEPT !.at = step]]
          /\ step = "setLeader" => req[r].at = "unset"
    BY <1>6 DEF UnsetLeaders, Proceed, At
  <2>3. PICK h \in Handler : Moved(h, r, step)
    BY <2>1, AtWork DEF At, Steps
  <2>4. /\ req' = [req EXCEPT ![r] = h]
        /\ passenger' = [p \in Passenger |->
             IF passenger[p].case = req[r].case THEN [passenger[p] EXCEPT !.leader = FALSE]
             ELSE passenger[p]]
        /\ UNCHANGED <<case, changes, checklist, plans, mix, crossed, broken, patched, given>>
    BY <1>6, <2>2, <2>3 DEF UnsetLeaders, Moved, history
  <2>5. /\ passenger' \in [Passenger -> PassengerRow]
        /\ \A p \in Passenger : passenger'[p].case = passenger[p].case
    <3>1. \A p \in Passenger :
            /\ passenger[p] \in PassengerRow
            /\ [passenger[p] EXCEPT !.leader = FALSE] \in PassengerRow
            /\ [passenger[p] EXCEPT !.leader = FALSE].case = passenger[p].case
      BY DEF TInv, TypeOK, PassengerRow
    <3>q. QED BY <2>4, <3>1
  <2>6. Lasting
    BY <2>4, <2>5 DEF Lasting, Exists
  <2>7. Fits(h)'
    <3>1. /\ h.at = step /\ h.case = req[r].case /\ h.passenger = req[r].passenger
          /\ h.case \in Case /\ Exists(h.case)'
      BY <2>1, <2>3, <2>4 DEF Moved, Exists
    <3>2. h.at = "setLeader" =>
            h.passenger \in Passenger /\ passenger'[h.passenger].case \in {h.case, "GONE"}
      BY <2>1, <2>2, <2>5, <3>1
    <3>q. QED BY <3>1, <3>2 DEF Fits
  <2>8. \A p \in Passenger : Aboard(p)' => Exists(passenger'[p].case)
    BY <2>4, <2>5 DEF TInv, TypeOK, Aboard
  <2>q. QED BY <2>4, <2>5, <2>6, <2>7, <2>8, StepTyped DEF TInv, TypeOK, Exists
<1>7. ASSUME NEW p \in Passenger, InsertPassenger(r, p)
      PROVE  TInv'
  <2>1. /\ req[r].case \in Case /\ Exists(req[r].case)
        /\ passenger[p].case = Null
        /\ Finish(r)
        /\ passenger' = [passenger EXCEPT ![p] = [case |-> req[r].case,
                                                  leader |-> At(r, "insertLeader")]]
        /\ UNCHANGED <<case, changes, checklist, plans, mix, crossed, broken, patched, given>>
    BY <1>7, AtWork DEF InsertPassenger, At, history
  <2>2. /\ passenger' \in [Passenger -> PassengerRow]
        /\ passenger'[p].case = req[r].case
        /\ \A q \in Passenger \ {p} : passenger'[q] = passenger[q]
    BY <2>1 DEF TInv, TypeOK, PassengerRow, At
  <2>3. Lasting
    BY <2>1, <2>2 DEF Lasting, Exists
  <2>4. \A q \in Passenger : Aboard(q)' => Exists(passenger'[q].case)
    BY <2>1, <2>2 DEF TInv, TypeOK, Aboard
  <2>q. QED BY <2>1, <2>2, <2>3, <2>4, IdleFits, StepTyped DEF Finish, TInv, TypeOK, Exists
<1>8. ASSUME FindPassenger(r)
      PROVE  TInv'
  <2>1. /\ req[r].at = "findPassenger"
        /\ UNCHANGED <<case, changes, checklist, plans, passenger>>
        /\ UNCHANGED <<mix, crossed, broken, patched, given>>
    BY <1>8 DEF FindPassenger, At, children, history
  <2>2. Lasting
    BY <2>1 DEF Lasting, Exists
  <2>3. PICK h \in Handler : Moved(h, r, "unset")
    BY <2>1, AtWork DEF At, Steps
  <2>4. /\ req[r].case \in Case /\ Exists(req[r].case) /\ req[r].passenger \in Passenger
        /\ passenger[req[r].passenger].case \in {req[r].case, "GONE"}
    BY <2>1, AtWork DEF At, Fits
  <2>5. Fits(h)'
    BY <2>1, <2>3, <2>4 DEF Fits, Exists, Moved
  <2>6. req' = [req EXCEPT ![r] = h] \/ req' = [req EXCEPT ![r] = Idle]
    BY <1>8, <2>3 DEF FindPassenger, Proceed, Finish, Moved
  <2>7. CASE req' = [req EXCEPT ![r] = h]
    BY <2>1, <2>2, <2>5, <2>7, StepTyped DEF TInv, TypeOK, Exists, Aboard
  <2>8. CASE req' = [req EXCEPT ![r] = Idle]
    BY <2>1, <2>2, <2>8, IdleFits, StepTyped DEF TInv, TypeOK, Exists, Aboard
  <2>q. QED BY <2>6, <2>7, <2>8
<1>9. ASSUME UpdatePassengerWrite(r)
      PROVE  TInv'
  <2> DEFINE p == req[r].passenger
             l == At(r, "setLeader")
  <2>1. /\ l \in BOOLEAN
        /\ Finish(r)
        /\ passenger' = IF Aboard(p) THEN [passenger EXCEPT ![p].leader = l] ELSE passenger
        /\ UNCHANGED <<case, changes, checklist, plans, mix, crossed, broken, patched, given>>
    BY <1>9 DEF UpdatePassengerWrite, At, history
  <2> HIDE DEF p, l
  <2>2. /\ passenger' \in [Passenger -> PassengerRow]
        /\ \A q \in Passenger : passenger'[q].case = passenger[q].case
    BY <2>1 DEF TInv, TypeOK, PassengerRow
  <2>3. Lasting
    BY <2>1, <2>2 DEF Lasting, Exists
  <2>4. \A q \in Passenger : Aboard(q)' => Exists(passenger'[q].case)
    BY <2>1, <2>2 DEF TInv, TypeOK, Aboard
  <2>q. QED BY <2>1, <2>2, <2>3, <2>4, IdleFits, StepTyped DEF Finish, TInv, TypeOK, Exists
<1>10. ASSUME RemovePassengerWrite(r)
       PROVE  TInv'
  <2>1. /\ Finish(r)
        /\ passenger' = [passenger EXCEPT ![req[r].passenger] = [case |-> "GONE", leader |-> FALSE]]
        /\ UNCHANGED <<case, changes, checklist, plans, mix, crossed, broken, patched, given>>
    BY <1>10 DEF RemovePassengerWrite, history
  <2>2. /\ passenger' \in [Passenger -> PassengerRow]
        /\ \A q \in Passenger : \/ passenger'[q] = passenger[q]
                                 \/ passenger'[q].case = "GONE"
    BY <2>1 DEF TInv, TypeOK, PassengerRow
  <2>3. Lasting
    BY <2>1, <2>2 DEF Lasting, Exists
  <2>4. \A q \in Passenger : Aboard(q)' => Exists(passenger'[q].case)
    BY <2>1, <2>2, CasesAssumption DEF TInv, TypeOK, Aboard
  <2>q. QED BY <2>1, <2>2, <2>3, <2>4, IdleFits, StepTyped DEF Finish, TInv, TypeOK, Exists
<1>11. ASSUME DeletePlan(r)
       PROVE  TInv'
  <2>1. /\ req[r].at = "deletePlan" /\ req[r].case \in Case /\ Exists(req[r].case)
        /\ req[r].plan \in Plan
    BY <1>11, AtWork DEF DeletePlan, At, Fits
  <2>2. PICK h \in Handler : Moved(h, r, "insertPlan")
    BY <2>1, AtWork DEF At, Steps
  <2>3. /\ req' = [req EXCEPT ![r] = h]
        /\ plans' \in [Case -> SUBSET Plan]
        /\ \A c \in Case \ {req[r].case} : plans'[c] = plans[c]
        /\ UNCHANGED <<case, changes, checklist, passenger, mix, crossed, broken, patched, given>>
    BY <1>11, <2>2 DEF DeletePlan, Proceed, Moved, history, TInv, TypeOK
  <2>4. Lasting
    BY <2>3 DEF Lasting, Exists
  <2>5. Fits(h)'
    BY <2>1, <2>2, <2>3 DEF Fits, Exists, Moved
  <2>q. QED BY <2>1, <2>3, <2>4, <2>5, StepTyped DEF TInv, TypeOK, Exists, Aboard
<1>12. ASSUME InsertPlan(r)
       PROVE  TInv'
  <2>1. req[r].case \in Case /\ Exists(req[r].case) /\ req[r].plan \in Plan
    BY <1>12, AtWork DEF InsertPlan, At, Fits
  <2>2. /\ Finish(r)
        /\ plans' \in [Case -> SUBSET Plan]
        /\ \A c \in Case \ {req[r].case} : plans'[c] = plans[c]
        /\ UNCHANGED <<case, changes, checklist, passenger, mix, crossed, broken, patched, given>>
    BY <1>12, <2>1 DEF InsertPlan, history, TInv, TypeOK
  <2>3. Lasting
    BY <2>2 DEF Lasting, Exists
  <2>q. QED BY <2>1, <2>2, <2>3, IdleFits, StepTyped DEF Finish, TInv, TypeOK, Exists, Aboard
<1>13. ASSUME ToggleWrite(r) \/ RemoveItemWrite(r)
       PROVE  TInv'
  <2>1. req[r].case \in Case /\ Exists(req[r].case)
    BY <1>13, AtWork DEF ToggleWrite, RemoveItemWrite, At
  <2>2. /\ Finish(r)
        /\ checklist' \in [Case -> {"NONE", "OPEN", "DONE", "REMOVED"}]
        /\ \A c \in Case \ {req[r].case} : checklist'[c] = checklist[c]
        /\ UNCHANGED <<case, changes, plans, passenger, mix, crossed, broken, patched, given>>
    <3>1. CASE ToggleWrite(r)
      BY <3>1 DEF ToggleWrite, history, TInv, TypeOK
    <3>2. CASE RemoveItemWrite(r)
      BY <3>2 DEF RemoveItemWrite, history, TInv, TypeOK
    <3>q. QED BY <1>13, <3>1, <3>2
  <2>3. Lasting
    BY <2>2 DEF Lasting, Exists
  <2>q. QED BY <2>1, <2>2, <2>3, IdleFits, StepTyped DEF Finish, TInv, TypeOK, Exists, Aboard
<1>q. QED
  BY <1>1, <1>2, <1>3, <1>4, <1>5, <1>6, <1>7, <1>8, <1>9, <1>10, <1>11, <1>12, <1>13
  DEF Resume

\* A handler that dies was at work on a case.
LEMMA FailingCase ==
  ASSUME TInv, NEW r \in Request, Fail(r)
  PROVE  req[r].at # "idle" /\ req[r].case \in Case
<1>1. req[r] \in Handler /\ req[r] # Idle
  BY DEF Fail, TInv, TypeOK
<1>2. req[r].at # "idle"
  BY <1>1 DEF TInv, Fits
<1>q. QED BY <1>2 DEF TInv, Fits

\* A handler that dies leaves the types alone.
LEMMA FailTyped ==
  ASSUME TInv, NEW r \in Request, Fail(r)
  PROVE  TInv'
<1>1. /\ Finish(r)
      /\ broken' \subseteq Case
      /\ UNCHANGED <<case, changes, checklist, plans, passenger, mix, crossed, patched>>
      /\ given' \in [Case -> [CaseStatus -> Nat]]
  BY FailingCase DEF Fail, NoneGiven, children, TInv, TypeOK
<1>2. Lasting
  BY <1>1 DEF Lasting, Exists
<1>q. QED BY <1>1, <1>2, IdleFits, StepTyped DEF Finish, TInv, TypeOK, Exists, Aboard

\* Every step keeps the types.
LEMMA NextTyped == TInv /\ [Next]_vars => TInv'
<1> SUFFICES ASSUME TInv, [Next]_vars PROVE TInv'
  OBVIOUS
<1>1. CASE UNCHANGED vars
  BY <1>1 DEF vars, children, history, TInv, TypeOK, Fits, Exists, Aboard
<1>2. ASSUME NEW r \in Request, \/ \E c \in Case : OnCase(r, c)
                               \/ \E p \in Passenger : OnPassenger(r, p)
      PROVE  TInv'
  BY <1>2, RequestTyped
<1>3. ASSUME NEW r \in Request, Resume(r)
      PROVE  TInv'
  BY <1>3, ResumeTyped
<1>4. ASSUME NEW r \in Request, Fail(r)
      PROVE  TInv'
  BY <1>4, FailTyped
<1>q. QED BY <1>1, <1>2, <1>3, <1>4 DEF Next

\* The empty tables have their types.
LEMMA InitTyped == Init => TInv
<1> SUFFICES ASSUME Init PROVE TInv
  OBVIOUS
<1>1. /\ case \in [Case -> CaseRow \cup {NoCase}]
      /\ changes \in [Case -> Seq(Change)]
      /\ checklist \in [Case -> {"NONE", "OPEN", "DONE", "REMOVED"}]
      /\ plans \in [Case -> SUBSET Plan]
  BY DEF Init
<1>2. req \in [Request -> Handler] /\ \A r \in Request : Fits(req[r])
  BY DEF Init, Idle, Handler, Fits
<1>3. passenger \in [Passenger -> PassengerRow] /\ \A p \in Passenger : ~Aboard(p)
  BY CasesAssumption DEF Init, PassengerRow, Aboard
<1>4. \A c \in Case : ~Exists(c) => changes[c] = <<>> /\ checklist[c] = "NONE" /\ plans[c] = {}
  BY DEF Init
<1>5. given \in [Case -> [CaseStatus -> Nat]]
  BY DEF Init, NoneGiven
<1>q. QED BY <1>1, <1>2, <1>3, <1>4, <1>5 DEF Init, TInv, TypeOK

\* The tables keep their types and foreign keys, in any interleaving and with any failures:
\* what hangs on a case, and what a handler is about to write, belongs to a case that exists.
THEOREM CasesTypeCorrect == Spec => []TypeOK
<1>1. Spec => []TInv
  BY InitTyped, NextTyped, PTL DEF Spec
<1>q. QED BY <1>1, PTL DEF TInv

-----------------------------------------------------------------------------
(* What holds on a case as long as no two requests for it have overlapped: *)
(* at most one handler is at work on it, and no other touches what that one *)
(* has read, so it is still so when it writes.                              *)

AloneOn(c) == \A r, s \in Request : req[r].case = c /\ req[s].case = c => r = s

LeaderOf(p, c) == passenger[p].case = c /\ passenger[p].leader

\* What a handler has read or prepared, and relies on at its next statement.
Guarded(h) ==
  /\ h.at \in {"insertLeader", "setLeader"} => \A p \in Passenger : ~LeaderOf(p, h.case)
  /\ h.at = "insertPlan" => plans[h.case] = {}
  /\ h.at = "remove" => case[h.case].status # "IN_PROGRESS"
  /\ h.at \in {"update", "updateStatus"} => ~case[h.case].deleted

KeptOn(c) ==
  /\ ~(case[c].status = "IN_PROGRESS" /\ case[c].deleted)
  /\ \A p, q \in Passenger : LeaderOf(p, c) /\ LeaderOf(q, c) => p = q
  /\ \A k, l \in plans[c] : k = l

CalmOn(c) ==
  /\ AloneOn(c)
  /\ \A r \in Request : req[r].case = c => Guarded(req[r])
  /\ KeptOn(c)

LeadersAboard == \A p \in Passenger : passenger[p].leader => Aboard(p)

CalmInv == LeadersAboard /\ \A c \in Case \ crossed : CalmOn(c)

\* The step changes nothing on other cases than c.
OnlyOn(c) ==
  \A d \in Case \ {c} :
    /\ case'[d] = case[d]
    /\ plans'[d] = plans[d]
    /\ \A p \in Passenger : LeaderOf(p, d)' => LeaderOf(p, d)

\* A step of a handler for one case leaves the others as calm as they were.
LEMMA OthersCalm ==
  ASSUME TInv, NEW c \in Case, NEW d \in Case \ {c}, OnlyOn(c), CalmOn(d),
         NEW r \in Request, NEW h \in Handler, req' = [req EXCEPT ![r] = h],
         h.case \in {c, Null}
  PROVE  CalmOn(d)'
<1>1. req'[r].case # d /\ \A s \in Request \ {r} : req'[s] = req[s]
  BY CasesAssumption DEF TInv, TypeOK
<1>2. \A s \in Request : req'[s].case = d => req'[s] = req[s] /\ req[s].case = d
  BY <1>1
<1>3. AloneOn(d)'
  BY <1>2 DEF CalmOn, AloneOn
<1>4. ASSUME NEW s \in Request, req'[s].case = d PROVE Guarded(req[s])'
  <2>1. req'[s] = req[s] /\ req[s].case = d /\ Guarded(req[s])
    BY <1>2, <1>4 DEF CalmOn
  <2>2. PICK g \in Handler : g = req[s]
    BY DEF TInv, TypeOK
  <2>3. Guarded(g)'
    BY <2>1, <2>2 DEF Guarded, OnlyOn
  <2>q. QED BY <2>1, <2>2, <2>3
<1>5. KeptOn(d)'
  BY DEF CalmOn, KeptOn, OnlyOn
<1>q. QED BY <1>3, <1>4, <1>5 DEF CalmOn

\* An arriving request relies on what it reads.
LEMMA StartCalm ==
  ASSUME TInv, CalmInv, NEW r \in Request, NEW op, NEW h \in Handler, Start(r, op, h),
         h.case \in Case, Guarded(h)
  PROVE  CalmInv'
<1>1. PICK c \in Case : c = h.case
  OBVIOUS
<1>2. /\ req' = [req EXCEPT ![r] = h] /\ req \in [Request -> Handler] /\ req[r] = Idle
      /\ UNCHANGED <<case, plans, passenger>>
      /\ crossed' = IF Quiet(c) THEN crossed ELSE crossed \cup {c}
  BY <1>1 DEF Start, Arrive, children, TInv, TypeOK
<1>3. OnlyOn(c) /\ LeadersAboard'
  BY <1>2 DEF OnlyOn, LeaderOf, CalmInv, LeadersAboard, Aboard
<1>4. ASSUME NEW d \in Case \ {c}, d \notin crossed' PROVE CalmOn(d)'
  <2>1. CalmOn(d)
    BY <1>2, <1>4 DEF CalmInv
  <2>q. QED BY <1>1, <1>2, <1>3, <2>1, OthersCalm
<1>5. ASSUME c \notin crossed' PROVE CalmOn(c)'
  <2>1. CalmOn(c) /\ Quiet(c)
    BY <1>2, <1>5 DEF CalmInv
  <2>2. \A s \in Request : req'[s].case = c => s = r
    BY <1>2, <2>1 DEF Quiet
  <2>3. req'[r] = h /\ Guarded(h)'
    BY <1>2 DEF Guarded, LeaderOf
  <2>4. KeptOn(c)'
    BY <1>2, <2>1 DEF CalmOn, KeptOn, LeaderOf
  <2>q. QED BY <2>2, <2>3, <2>4 DEF CalmOn, AloneOn
<1>q. QED BY <1>3, <1>4, <1>5 DEF CalmInv

\* A handler at work is the only one on its case.
LEMMA WriteCalm ==
  ASSUME TInv, CalmInv, NEW r \in Request, NEW c \in Case, req[r].case = c, NEW h \in Handler,
         req' = [req EXCEPT ![r] = h], h.case \in {c, Null}, crossed' = crossed,
         OnlyOn(c), LeadersAboard',
         c \notin crossed => Guarded(h)' /\ KeptOn(c)'
  PROVE  CalmInv'
<1>1. \A d \in Case \ {c} : d \notin crossed' => CalmOn(d)'
  BY OthersCalm DEF CalmInv
<1>2. ASSUME c \notin crossed PROVE CalmOn(c)'
  <2>1. req \in [Request -> Handler] /\ AloneOn(c)
    BY <1>2 DEF CalmInv, CalmOn, TInv, TypeOK
  <2>2. \A s \in Request : req'[s].case = c => s = r
    BY <2>1 DEF AloneOn
  <2>3. req'[r] = h
    BY <2>1
  <2>q. QED BY <1>2, <2>2, <2>3 DEF CalmOn, AloneOn
<1>q. QED BY <1>1, <1>2 DEF CalmInv

\* The first statement of every request keeps the calm.
LEMMA RequestCalm ==
  ASSUME TInv, CalmInv, NEW r \in Request,
         \/ \E c \in Case : OnCase(r, c)
         \/ \E p \in Passenger : OnPassenger(r, p)
  PROVE  CalmInv'
<1>1. ASSUME NEW c \in Case, NEW s \in CaseStatus, Create(r, c, s)
      PROVE  CalmInv'
  <2> DEFINE h == [Idle EXCEPT !.at = "createChecklist", !.case = c]
  <2>1. /\ req' = [req EXCEPT ![r] = h] /\ req \in [Request -> Handler]
        /\ case' = [case EXCEPT ![c] = [status |-> s, deleted |-> FALSE]]
        /\ UNCHANGED <<plans, passenger>>
        /\ crossed' = IF Quiet(c) THEN crossed ELSE crossed \cup {c}
    BY <1>1 DEF Create, Arrive, children, TInv, TypeOK
  <2>2. h \in Handler /\ h.at = "createChecklist" /\ h.case = c
    BY DEF Idle, Handler, Steps
  <2> HIDE DEF h
  <2>3. OnlyOn(c) /\ LeadersAboard' /\ ~case'[c].deleted
    BY <2>1 DEF OnlyOn, LeaderOf, CalmInv, LeadersAboard, Aboard, TInv, TypeOK
  <2>4. ASSUME NEW d \in Case \ {c}, d \notin crossed' PROVE CalmOn(d)'
    <3>1. CalmOn(d)
      BY <2>1, <2>4 DEF CalmInv
    <3>q. QED BY <2>1, <2>2, <2>3, <3>1, OthersCalm
  <2>5. ASSUME c \notin crossed' PROVE CalmOn(c)'
    <3>1. CalmOn(c) /\ Quiet(c)
      BY <2>1, <2>5 DEF CalmInv
    <3>2. \A t \in Request : req'[t].case = c => t = r
      BY <2>1, <3>1 DEF Quiet
    <3>3. req'[r] = h /\ Guarded(h)'
      BY <2>1, <2>2 DEF Guarded
    <3>4. KeptOn(c)'
      BY <2>1, <2>3, <3>1 DEF CalmOn, KeptOn, LeaderOf
    <3>q. QED BY <3>2, <3>3, <3>4 DEF CalmOn, AloneOn
  <2>q. QED BY <2>3, <2>4, <2>5 DEF CalmInv
<1>2. ASSUME NEW c \in Case, NEW s \in CaseStatus, UpdateRead(r, c, s)
      PROVE  CalmInv'
  <2> DEFINE h == [[Idle EXCEPT !.at = "update", !.new = s] EXCEPT !.case = c]
  <2>1. h \in Handler /\ h.at = "update" /\ h.case = c
    BY DEF Idle, Handler, Steps
  <2>2. Start(r, "update", h) /\ Found(c)
    BY <1>2 DEF UpdateRead, StartOnCase
  <2>3. PICK g \in Handler : g = h
    BY <2>1
  <2>4. Guarded(g)
    BY <2>1, <2>2, <2>3 DEF Guarded, Found
  <2>q. QED BY <2>1, <2>2, <2>3, <2>4, StartCalm
<1>3. ASSUME NEW c \in Case, NEW s \in CaseStatus, UpdateStatusRead(r, c, s)
      PROVE  CalmInv'
  <2> DEFINE h == [[Idle EXCEPT !.at = "updateStatus", !.old = case[c].status, !.new = s]
                     EXCEPT !.case = c]
  <2>1. Start(r, "updateStatus", h) /\ Found(c)
    BY <1>3 DEF UpdateStatusRead, StartOnCase
  <2>2. case[c].status \in CaseStatus
    BY <2>1 DEF TInv, TypeOK, Found, Exists, CaseRow, NoCase
  <2>3. h \in Handler /\ h.at = "updateStatus" /\ h.case = c
    BY <2>2 DEF Idle, Handler, Steps
  <2>4. PICK g \in Handler : g = h
    BY <2>3
  <2>5. Guarded(g)
    BY <2>1, <2>3, <2>4 DEF Guarded, Found
  <2>q. QED BY <2>1, <2>3, <2>4, <2>5, StartCalm
<1>4. ASSUME NEW c \in Case, RemoveRead(r, c)
      PROVE  CalmInv'
  <2> DEFINE h == [[Idle EXCEPT !.at = "remove"] EXCEPT !.case = c]
  <2>1. h \in Handler /\ h.at = "remove" /\ h.case = c
    BY DEF Idle, Handler, Steps
  <2>2. Start(r, "remove", h) /\ case[c].status # "IN_PROGRESS"
    BY <1>4 DEF RemoveRead, StartOnCase
  <2>3. PICK g \in Handler : g = h
    BY <2>1
  <2>4. Guarded(g)
    BY <2>1, <2>2, <2>3 DEF Guarded
  <2>q. QED BY <2>1, <2>2, <2>3, <2>4, StartCalm
<1>5. ASSUME NEW op, NEW h \in Handler, Start(r, op, h),
             h.case \in Case,
             h.at \in {"unsetForNew", "insertPassenger", "deletePlan", "toggle", "removeItem",
                       "findPassenger", "clearLeader", "removePassenger"}
      PROVE  CalmInv'
  <2>1. Guarded(h)
    BY <1>5 DEF Guarded
  <2>q. QED BY <1>5, <2>1, StartCalm
<1>6. ASSUME NEW c \in Case, NEW leader \in BOOLEAN, AddPassengerRead(r, c, leader)
      PROVE  CalmInv'
  <2> DEFINE h == [[Idle EXCEPT !.at = IF leader THEN "unsetForNew" ELSE "insertPassenger"]
                     EXCEPT !.case = c]
  <2>1. h \in Handler /\ h.case \in Case /\ h.at \in {"unsetForNew", "insertPassenger"}
    BY DEF Idle, Handler, Steps
  <2>2. Start(r, "addPassenger", h)
    BY <1>6 DEF AddPassengerRead, StartOnCase
  <2> HIDE DEF h
  <2>q. QED BY <1>5, <2>1, <2>2
<1>7. ASSUME NEW c \in Case, NEW k \in Plan, ReplacePlanRead(r, c, k)
      PROVE  CalmInv'
  <2> DEFINE h == [[Idle EXCEPT !.at = "deletePlan", !.plan = k] EXCEPT !.case = c]
  <2>1. h \in Handler /\ h.case \in Case /\ h.at = "deletePlan"
    BY DEF Idle, Handler, Steps
  <2>2. Start(r, "replacePlan", h)
    BY <1>7 DEF ReplacePlanRead, StartOnCase
  <2> HIDE DEF h
  <2>q. QED BY <1>5, <2>1, <2>2
<1>8. ASSUME NEW c \in Case, ToggleRead(r, c)
      PROVE  CalmInv'
  <2> DEFINE h == [[Idle EXCEPT !.at = "toggle", !.old = checklist[c]] EXCEPT !.case = c]
  <2>1. Start(r, "toggle", h) /\ checklist[c] \in {"OPEN", "DONE"}
    BY <1>8 DEF ToggleRead, StartOnItem
  <2>2. h \in Handler /\ h.case \in Case /\ h.at = "toggle"
    BY <2>1 DEF Idle, Handler, Steps
  <2>3. PICK g \in Handler : g = h
    BY <2>2
  <2>q. QED BY <1>5, <2>1, <2>2, <2>3
<1>11. ASSUME NEW c \in Case, RemoveItemRead(r, c)
       PROVE  CalmInv'
  <2> DEFINE h == [[Idle EXCEPT !.at = "removeItem"] EXCEPT !.case = c]
  <2>1. h \in Handler /\ h.case \in Case /\ h.at = "removeItem"
    BY DEF Idle, Handler, Steps
  <2>2. Start(r, "removeItem", h)
    BY <1>11 DEF RemoveItemRead, StartOnItem
  <2> HIDE DEF h
  <2>q. QED BY <1>5, <2>1, <2>2
<1>9. ASSUME NEW p \in Passenger, NEW op,
             NEW step \in {"findPassenger", "clearLeader", "removePassenger"},
             StartOnPassenger(r, p, op, [Idle EXCEPT !.at = step])
      PROVE  CalmInv'
  <2> DEFINE h == [[Idle EXCEPT !.at = step] EXCEPT !.passenger = p, !.case = passenger[p].case]
  <2>1. Start(r, op, h) /\ passenger[p].case \in Case
    BY <1>9 DEF StartOnPassenger, Aboard
  <2>2. h \in Handler /\ h.case \in Case /\ h.at = step
    BY <2>1 DEF Idle, Handler, Steps
  <2>3. PICK g \in Handler : g = h
    BY <2>2
  <2>q. QED BY <1>5, <2>1, <2>2, <2>3
<1>10. ASSUME NEW p \in Passenger, OnPassenger(r, p)
       PROVE  CalmInv'
  <2>1. ASSUME NEW leader \in BOOLEAN, UpdatePassengerRead(r, p, leader)
        PROVE  CalmInv'
    <3>1. CASE leader
      BY <1>9, <2>1, <3>1 DEF UpdatePassengerRead
    <3>2. CASE ~leader
      BY <1>9, <2>1, <3>2 DEF UpdatePassengerRead
    <3>q. QED BY <3>1, <3>2
  <2>2. CASE RemovePassengerRead(r, p)
    BY <1>9, <2>2 DEF RemovePassengerRead
  <2>q. QED BY <1>10, <2>1, <2>2 DEF OnPassenger
<1>q. QED BY <1>1, <1>2, <1>3, <1>4, <1>6, <1>7, <1>8, <1>10, <1>11 DEF OnCase

\* What a handler with a step before it knows while nobody else is at work on its case.
LEMMA CalmAtWork ==
  ASSUME TInv, CalmInv, NEW r \in Request, ~At(r, "idle")
  PROVE  \E c \in Case :
           /\ req[r].case = c
           /\ case[c] \in CaseRow
           /\ LeadersAboard
           /\ c \notin crossed => Guarded(req[r]) /\ KeptOn(c)
BY AtWork DEF CalmInv, CalmOn

\* A handler that ends relies on nothing.
LEMMA EndCalm ==
  ASSUME TInv, CalmInv, NEW r \in Request, NEW c \in Case, req[r].case = c, Finish(r),
         crossed' = crossed, OnlyOn(c), LeadersAboard', c \notin crossed => KeptOn(c)'
  PROVE  CalmInv'
<1>1. PICK h \in Handler : h = Idle
  BY IdleFits
<1>2. h.case = Null /\ Guarded(h)'
  BY <1>1 DEF Guarded, Idle
<1>q. QED BY <1>1, <1>2, WriteCalm DEF Finish

\* Every later statement of a handler keeps the calm.
LEMMA ResumeCalm ==
  ASSUME TInv, CalmInv, NEW r \in Request, Resume(r)
  PROVE  CalmInv'
<1>1. ASSUME ~At(r, "idle"), Finish(r), UNCHANGED <<case, plans, passenger, crossed>>
      PROVE  CalmInv'
  <2>1. PICK c \in Case : req[r].case = c /\ LeadersAboard /\ (c \notin crossed => KeptOn(c))
    BY <1>1, CalmAtWork
  <2>2. OnlyOn(c) /\ LeadersAboard' /\ (c \notin crossed => KeptOn(c)')
    BY <1>1, <2>1 DEF OnlyOn, LeadersAboard, KeptOn, LeaderOf, Aboard
  <2>q. QED BY <1>1, <2>1, <2>2, EndCalm
<1>2. CASE CreateChecklist(r) \/ RecordStatus(r) \/ ToggleWrite(r) \/ RemoveItemWrite(r)
  BY <1>1, <1>2
  DEF CreateChecklist, RecordStatus, ToggleWrite, RemoveItemWrite, At, children, history
<1>3. CASE UpdateWrite(r)
  <2>1. PICK c \in Case : /\ req[r].case = c /\ case[c] \in CaseRow /\ LeadersAboard
                          /\ c \notin crossed => Guarded(req[r]) /\ KeptOn(c)
    BY <1>3, CalmAtWork DEF UpdateWrite, At
  <2>2. /\ req[r].at = "update" /\ Finish(r)
        /\ case' = [case EXCEPT ![c].status = req[r].new]
        /\ UNCHANGED <<plans, passenger, crossed>>
    BY <1>3, <2>1 DEF UpdateWrite, At, children
  <2>3. OnlyOn(c) /\ LeadersAboard' /\ case'[c].deleted = case[c].deleted
    BY <2>1, <2>2 DEF OnlyOn, LeadersAboard, LeaderOf, Aboard, TInv, TypeOK, CaseRow
  <2>4. c \notin crossed => KeptOn(c)'
    BY <2>1, <2>2, <2>3 DEF Guarded, KeptOn, LeaderOf
  <2>q. QED BY <2>1, <2>2, <2>3, <2>4, EndCalm
<1>4. CASE UpdateStatusWrite(r)
  <2>1. PICK c \in Case : /\ req[r].case = c /\ case[c] \in CaseRow /\ LeadersAboard
                          /\ c \notin crossed => Guarded(req[r]) /\ KeptOn(c)
    BY <1>4, CalmAtWork DEF UpdateStatusWrite, At
  <2>2. PICK h \in Handler : Moved(h, r, "recordStatus")
    BY <1>4, AtWork DEF UpdateStatusWrite, At, Steps
  <2>3. /\ req[r].at = "updateStatus" /\ req' = [req EXCEPT ![r] = h]
        /\ case' = [case EXCEPT ![c].status = req[r].new]
        /\ UNCHANGED <<plans, passenger, crossed>>
        /\ h.case = c /\ Guarded(h)'
    BY <1>4, <2>1, <2>2 DEF UpdateStatusWrite, Proceed, Moved, At, Guarded, children
  <2>4. OnlyOn(c) /\ LeadersAboard' /\ case'[c].deleted = case[c].deleted
    BY <2>1, <2>3 DEF OnlyOn, LeadersAboard, LeaderOf, Aboard, TInv, TypeOK, CaseRow
  <2>5. c \notin crossed => KeptOn(c)'
    BY <2>1, <2>3, <2>4 DEF Guarded, KeptOn, LeaderOf
  <2>q. QED BY <2>1, <2>3, <2>4, <2>5, WriteCalm
<1>5. CASE RemoveWrite(r)
  <2>1. PICK c \in Case : /\ req[r].case = c /\ case[c] \in CaseRow /\ LeadersAboard
                          /\ c \notin crossed => Guarded(req[r]) /\ KeptOn(c)
    BY <1>5, CalmAtWork DEF RemoveWrite, At
  <2>2. /\ req[r].at = "remove" /\ Finish(r)
        /\ case' = [case EXCEPT ![c].deleted = TRUE]
        /\ UNCHANGED <<plans, passenger, crossed>>
    BY <1>5, <2>1 DEF RemoveWrite, At, children, history
  <2>3. OnlyOn(c) /\ LeadersAboard' /\ case'[c].status = case[c].status
    BY <2>1, <2>2 DEF OnlyOn, LeadersAboard, LeaderOf, Aboard, TInv, TypeOK, CaseRow
  <2>4. c \notin crossed => KeptOn(c)'
    BY <2>1, <2>2, <2>3 DEF Guarded, KeptOn, LeaderOf
  <2>q. QED BY <2>1, <2>2, <2>3, <2>4, EndCalm
<1>6. CASE UnsetLeaders(r)
  <2>1. PICK c \in Case : /\ req[r].case = c /\ LeadersAboard
                          /\ c \notin crossed => KeptOn(c)
    BY <1>6, CalmAtWork DEF UnsetLeaders, At
  <2>2. PICK step \in {"insertLeader", "setLeader"} :
          req' = [req EXCEPT ![r] = [req[r] EXCEPT !.at = step]]
    BY <1>6 DEF UnsetLeaders, Proceed, At
  <2>3. PICK h \in Handler : Moved(h, r, step)
    BY <1>6, AtWork DEF UnsetLeaders, At, Steps
  <2>4. /\ passenger' = [p \in Passenger |->
             IF passenger[p].case = c THEN [passenger[p] EXCEPT !.leader = FALSE]
             ELSE passenger[p]]
        /\ UNCHANGED <<case, plans, crossed>>
        /\ req' = [req EXCEPT ![r] = h] /\ h.case = c /\ h.at = step
    BY <1>6, <2>1, <2>2, <2>3 DEF UnsetLeaders, Moved, history
  <2>5. \A p \in Passenger :
          /\ passenger'[p].case = passenger[p].case
          /\ passenger'[p].leader => passenger[p].leader
          /\ passenger[p].case = c => ~passenger'[p].leader
    BY <2>4 DEF TInv, TypeOK, PassengerRow
  <2>6. OnlyOn(c) /\ LeadersAboard'
    BY <2>1, <2>4, <2>5 DEF OnlyOn, LeadersAboard, LeaderOf, Aboard
  <2>7. Guarded(h)' /\ (c \notin crossed => KeptOn(c)')
    BY <2>1, <2>4, <2>5 DEF Guarded, KeptOn, LeaderOf
  <2>q. QED BY <2>1, <2>4, <2>6, <2>7, WriteCalm
<1>7. ASSUME NEW p \in Passenger, InsertPassenger(r, p)
      PROVE  CalmInv'
  <2>1. PICK c \in Case : /\ req[r].case = c /\ LeadersAboard
                          /\ c \notin crossed => Guarded(req[r]) /\ KeptOn(c)
    BY <1>7, CalmAtWork DEF InsertPassenger, At
  <2>2. /\ Finish(r) /\ UNCHANGED <<case, plans, crossed>>
        /\ passenger'[p].case = c
        /\ passenger'[p].leader => req[r].at = "insertLeader"
        /\ \A q \in Passenger \ {p} : passenger'[q] = passenger[q]
    BY <1>7, <2>1 DEF InsertPassenger, At, history, TInv, TypeOK
  <2>3. OnlyOn(c) /\ LeadersAboard'
    BY <2>1, <2>2 DEF OnlyOn, LeadersAboard, LeaderOf, Aboard
  <2>4. c \notin crossed => KeptOn(c)'
    BY <2>1, <2>2 DEF Guarded, KeptOn, LeaderOf
  <2>q. QED BY <2>1, <2>2, <2>3, <2>4, EndCalm
<1>8. CASE FindPassenger(r)
  <2>1. req[r].at = "findPassenger" /\ UNCHANGED <<case, plans, passenger, crossed>>
    BY <1>8 DEF FindPassenger, At, children, history
  <2>2. CASE Finish(r)
    BY <1>1, <2>1, <2>2 DEF At
  <2>3. CASE Proceed(r, "unset")
    <3>1. PICK h \in Handler : Moved(h, r, "unset")
      BY <2>1, AtWork DEF At, Steps
    <3>2. req' = [req EXCEPT ![r] = h] /\ Guarded(h)'
      BY <2>3, <3>1 DEF Proceed, Moved, Guarded
    <3>3. PICK c \in Case : req[r].case = c /\ LeadersAboard /\ (c \notin crossed => KeptOn(c))
      BY <2>1, CalmAtWork DEF At
    <3>4. OnlyOn(c) /\ LeadersAboard' /\ (c \notin crossed => KeptOn(c)') /\ h.case = c
      BY <2>1, <3>1, <3>3 DEF OnlyOn, LeadersAboard, KeptOn, LeaderOf, Aboard, Moved
    <3>q. QED BY <2>1, <3>2, <3>3, <3>4, WriteCalm
  <2>q. QED BY <1>8, <2>2, <2>3 DEF FindPassenger
<1>9. CASE UpdatePassengerWrite(r)
  <2>1. PICK c \in Case : /\ req[r].case = c /\ LeadersAboard
                          /\ c \notin crossed => Guarded(req[r]) /\ KeptOn(c)
    BY <1>9, CalmAtWork DEF UpdatePassengerWrite, At
  <2>2. PICK p \in Passenger, l \in BOOLEAN :
          /\ l => req[r].at = "setLeader"
          /\ req[r].at \in {"setLeader", "clearLeader"}
          /\ passenger[p].case \in {c, "GONE"}
          /\ Finish(r)
          /\ passenger' = IF Aboard(p) THEN [passenger EXCEPT ![p].leader = l] ELSE passenger
          /\ UNCHANGED <<case, plans, crossed>>
    <3>1. /\ req[r].at \in {"setLeader", "clearLeader"}
          /\ req[r].passenger \in Passenger
          /\ passenger[req[r].passenger].case \in {req[r].case, "GONE"}
          /\ Finish(r)
          /\ passenger' = IF Aboard(req[r].passenger)
               THEN [passenger EXCEPT ![req[r].passenger].leader = At(r, "setLeader")]
               ELSE passenger
          /\ UNCHANGED <<case, plans, crossed>>
      BY <1>9, AtWork DEF UpdatePassengerWrite, Fits, At, history
    <3>2. At(r, "setLeader") \in BOOLEAN /\ (At(r, "setLeader") => req[r].at = "setLeader")
      BY DEF At
    <3>q. QED BY <2>1, <3>1, <3>2
  <2>3. CASE Aboard(p)
    <3>1. /\ passenger'[p] = [passenger[p] EXCEPT !.leader = l]
          /\ \A q \in Passenger \ {p} : passenger'[q] = passenger[q]
          /\ passenger[p] \in PassengerRow
      BY <2>2, <2>3 DEF TInv, TypeOK
    <3>2. passenger'[p].case = c /\ passenger[p].case = c /\ passenger'[p].leader = l
      BY <2>2, <2>3, <3>1, CasesAssumption DEF PassengerRow, Aboard
    <3>3. OnlyOn(c) /\ LeadersAboard'
      BY <2>1, <2>2, <3>1, <3>2 DEF OnlyOn, LeadersAboard, LeaderOf, Aboard
    <3>4. c \notin crossed => KeptOn(c)'
      BY <2>1, <2>2, <3>1, <3>2 DEF KeptOn, Guarded, LeaderOf
    <3>q. QED BY <2>1, <2>2, <3>3, <3>4, EndCalm
  <2>4. CASE ~Aboard(p)
    BY <1>1, <2>2, <2>4 DEF At
  <2>q. QED BY <2>3, <2>4
<1>10. CASE RemovePassengerWrite(r)
  <2>1. PICK c \in Case : /\ req[r].case = c /\ LeadersAboard
                          /\ c \notin crossed => KeptOn(c)
    BY <1>10, CalmAtWork DEF RemovePassengerWrite, At
  <2>2. /\ Finish(r) /\ UNCHANGED <<case, plans, crossed>>
        /\ \A q \in Passenger : passenger'[q] = passenger[q] \/ ~passenger'[q].leader
    BY <1>10 DEF RemovePassengerWrite, history, TInv, TypeOK
  <2>3. OnlyOn(c) /\ LeadersAboard' /\ (c \notin crossed => KeptOn(c)')
    BY <2>1, <2>2 DEF OnlyOn, LeadersAboard, KeptOn, LeaderOf, Aboard
  <2>q. QED BY <2>1, <2>2, <2>3, EndCalm
<1>11. CASE DeletePlan(r)
  <2>1. PICK c \in Case : /\ req[r].case = c /\ LeadersAboard
                          /\ c \notin crossed => KeptOn(c)
    BY <1>11, CalmAtWork DEF DeletePlan, At
  <2>2. PICK h \in Handler : Moved(h, r, "insertPlan")
    BY <1>11, AtWork DEF DeletePlan, At, Steps
  <2>3. /\ plans'[c] = {} /\ \A d \in Case \ {c} : plans'[d] = plans[d]
        /\ UNCHANGED <<case, passenger, crossed>>
        /\ req' = [req EXCEPT ![r] = h] /\ h.case = c /\ h.at = "insertPlan"
    BY <1>11, <2>1, <2>2 DEF DeletePlan, Proceed, Moved, history, TInv, TypeOK
  <2>4. OnlyOn(c) /\ LeadersAboard' /\ (c \notin crossed => KeptOn(c)') /\ Guarded(h)'
    BY <2>1, <2>3 DEF OnlyOn, LeadersAboard, KeptOn, Guarded, LeaderOf, Aboard
  <2>q. QED BY <2>1, <2>3, <2>4, WriteCalm
<1>12. CASE InsertPlan(r)
  <2>1. PICK c \in Case : /\ req[r].case = c /\ LeadersAboard
                          /\ c \notin crossed => Guarded(req[r]) /\ KeptOn(c)
    BY <1>12, CalmAtWork DEF InsertPlan, At
  <2>2. /\ req[r].at = "insertPlan" /\ Finish(r)
        /\ plans'[c] = plans[c] \cup {req[r].plan}
        /\ \A d \in Case \ {c} : plans'[d] = plans[d]
        /\ UNCHANGED <<case, passenger, crossed>>
    BY <1>12, <2>1 DEF InsertPlan, At, history, TInv, TypeOK
  <2>3. OnlyOn(c) /\ LeadersAboard'
    BY <2>1, <2>2 DEF OnlyOn, LeadersAboard, LeaderOf, Aboard
  <2>4. c \notin crossed => KeptOn(c)'
    BY <2>1, <2>2 DEF Guarded, KeptOn, LeaderOf
  <2>q. QED BY <2>1, <2>2, <2>3, <2>4, EndCalm
<1>q. QED
  BY <1>2, <1>3, <1>4, <1>5, <1>6, <1>7, <1>8, <1>9, <1>10, <1>11, <1>12 DEF Resume

\* Every step keeps the calm.
LEMMA NextCalm == TInv /\ CalmInv /\ [Next]_vars => CalmInv'
<1> SUFFICES ASSUME TInv, CalmInv, [Next]_vars PROVE CalmInv'
  OBVIOUS
<1>1. CASE UNCHANGED vars
  BY <1>1
  DEF vars, children, CalmInv, CalmOn, AloneOn, Guarded, KeptOn, LeadersAboard, LeaderOf, Aboard
<1>2. ASSUME NEW r \in Request, \/ \E c \in Case : OnCase(r, c)
                               \/ \E p \in Passenger : OnPassenger(r, p)
      PROVE  CalmInv'
  BY <1>2, RequestCalm
<1>3. ASSUME NEW r \in Request, Resume(r)
      PROVE  CalmInv'
  BY <1>3, ResumeCalm
<1>4. ASSUME NEW r \in Request, Fail(r)
      PROVE  CalmInv'
  <2>1. req[r].at # "idle" /\ Finish(r) /\ UNCHANGED <<case, plans, passenger, crossed>>
    BY <1>4, FailingCase DEF Fail, children
  <2>2. PICK c \in Case : req[r].case = c /\ LeadersAboard /\ (c \notin crossed => KeptOn(c))
    BY <2>1, CalmAtWork DEF At
  <2>3. OnlyOn(c) /\ LeadersAboard' /\ (c \notin crossed => KeptOn(c)')
    BY <2>1, <2>2 DEF OnlyOn, LeadersAboard, KeptOn, LeaderOf, Aboard
  <2>q. QED BY <2>1, <2>2, <2>3, EndCalm
<1>q. QED BY <1>1, <1>2, <1>3, <1>4 DEF Next

\* Nobody is at work on the empty tables.
LEMMA InitCalm == Init => CalmInv
<1> SUFFICES ASSUME Init PROVE CalmInv
  OBVIOUS
<1>1. \A r \in Request, c \in Case : req[r].case # c
  BY CasesAssumption DEF Init, Idle
<1>2. LeadersAboard /\ \A c \in Case : KeptOn(c)
  BY DEF Init, LeadersAboard, KeptOn, NoCase, LeaderOf
<1>q. QED BY <1>1, <1>2 DEF CalmInv, CalmOn, AloneOn

LEMMA CalmAlways == Spec => []CalmInv
<1>1. Spec => [](TInv /\ CalmInv)
  BY InitTyped, InitCalm, NextTyped, NextCalm, PTL DEF Spec
<1>q. QED BY <1>1, PTL

\* A case that is in progress is not deleted, and a deleted one is not set in progress, as
\* long as requests for it do not overlap: remove checks the status that it then deletes.
THEOREM ActiveCaseIsKept == Spec => []ActiveIsKept
<1>1. CalmInv => ActiveIsKept
  BY DEF CalmInv, CalmOn, KeptOn, ActiveIsKept
<1>q. QED BY <1>1, CalmAlways, PTL

\* As long as requests for it do not overlap a case has at most one leader, also when a
\* handler dies between unsetting the old leader and setting the new one.
THEOREM CaseHasOneLeader == Spec => []OneLeader
<1>1. CalmInv => OneLeader
  <2> SUFFICES ASSUME CalmInv, NEW p \in Passenger, NEW q \in Passenger,
                      passenger[p].leader, passenger[q].leader,
                      passenger[p].case = passenger[q].case, passenger[p].case \notin crossed
               PROVE  p = q
    BY DEF OneLeader
  <2>1. passenger[p].case \in Case
    BY DEF CalmInv, LeadersAboard, Aboard
  <2>q. QED BY <2>1 DEF CalmInv, CalmOn, KeptOn, LeaderOf
<1>q. QED BY <1>1, CalmAlways, PTL

\* As long as requests for the case do not overlap its itinerary is never made of two plans,
\* also when a handler dies between deleting the old days and inserting the new ones.
THEOREM ItineraryIsOnePlan == Spec => []OnePlan
<1>1. CalmInv => OnePlan
  BY DEF CalmInv, CalmOn, KeptOn, OnePlan
<1>q. QED BY <1>1, CalmAlways, PTL

-----------------------------------------------------------------------------
(* The history of a case: what it misses, a handler is about to insert.    *)

Recording(r, c) == req[r].at = "recordStatus" /\ req[r].case = c

\* The checklist is there, or the handler that makes the case is about to insert it.
Listed(c) ==
  \/ checklist[c] # "NONE"
  \/ \E r \in Request : req[r].at = "createChecklist" /\ req[r].case = c

\* The handlers that have given case c status s and are about to record it.
Recorders(c, s) == {r \in Request : Recording(r, c) /\ req[r].new = s}

\* Each time that the case was given a status is in its history, or a handler is about to
\* record it.
Tally(c) ==
  \A s \in CaseStatus :
    /\ IsFiniteSet(Rows(c, s))
    /\ IsFiniteSet(Recorders(c, s))
    /\ given[c][s] = Cardinality(Rows(c, s)) + Cardinality(Recorders(c, s))

\* The history is a chain that ends in the present status, or in the one before it as long
\* as a handler is about to record the last change.
Chained(c) ==
  /\ changes[c] # <<>>
  /\ \A i \in 2 .. Len(changes[c]) : changes[c][i].from = changes[c][i - 1].to
  /\ \A r \in Request :
       Recording(r, c) =>
         /\ changes[c][Len(changes[c])].to = req[r].old
         /\ req[r].new = case[c].status
  /\ (\A r \in Request : ~Recording(r, c)) =>
       changes[c][Len(changes[c])].to = case[c].status

\* The status that updateStatus has read is still the present one.
ReadIsPresent(h) == h.at = "updateStatus" => h.old = case[h.case].status

HistoryInv ==
  /\ \A c \in Case \ broken : (Exists(c) => Listed(c)) /\ Tally(c)
  /\ \A c \in Case \ (crossed \cup broken) :
       /\ c \notin patched /\ Exists(c) => Chained(c)
       /\ \A r \in Request : req[r].case = c => ReadIsPresent(req[r])

\* Counting a status of one case leaves the other counts alone.
LEMMA GivenOnly ==
  ASSUME TInv, NEW c \in Case, NEW s \in CaseStatus, Give(c, s)
  PROVE  /\ \A d \in Case \ {c} : given'[d] = given[d]
         /\ c \notin broken => \A u \in CaseStatus :
              given'[c][u] = given[c][u] + IF u = s THEN 1 ELSE 0
<1>1. given \in [Case -> [CaseStatus -> Nat]]
  BY DEF TInv, TypeOK
<1>q. QED BY <1>1 DEF Give

\* A step that touches neither the rows nor the recorders of a case keeps its tally.
LEMMA TallyKept ==
  ASSUME NEW c \in Case, Tally(c), changes'[c] = changes[c], given'[c] = given[c],
         \A t \in Request : /\ Recording(t, c)' <=> Recording(t, c)
                            /\ Recording(t, c) => req'[t] = req[t]
  PROVE  Tally(c)'
<1>1. ASSUME NEW s \in CaseStatus
      PROVE  Rows(c, s)' = Rows(c, s) /\ Recorders(c, s)' = Recorders(c, s)
  BY DEF Rows, Recorders
<1>q. QED BY <1>1 DEF Tally

\* A statement that leaves statuses and histories alone, of a handler that owed none.
LEMMA HistoryKept ==
  ASSUME TInv, HistoryInv, NEW r \in Request, NEW h \in Handler, req' = [req EXCEPT ![r] = h],
         \A c \in Case : case'[c].status = case[c].status,
         changes' = changes, patched' = patched, broken' = broken, given' = given,
         crossed \subseteq crossed',
         \A c \in Case : checklist[c] # "NONE" => checklist'[c] # "NONE",
         req[r].at \notin {"createChecklist", "recordStatus"}, h.at # "recordStatus",
         ReadIsPresent(h), h.at = "updateStatus" => h.case \in Case
  PROVE  HistoryInv'
<1>1. req \in [Request -> Handler]
  BY DEF TInv, TypeOK
<1>2. req'[r] = h /\ \A s \in Request \ {r} : req'[s] = req[s]
  BY <1>1
<1>3. \A c \in Case : Exists(c)' <=> Exists(c)
  BY DEF Exists
<1>4. ASSUME NEW c \in Case, Listed(c) PROVE Listed(c)'
  BY <1>2, <1>4 DEF Listed
<1>5. \A s \in Request, c \in Case : Recording(s, c)' <=> Recording(s, c)
  BY <1>2 DEF Recording
<1>6. \A s \in Request, c \in Case : Recording(s, c) => req'[s] = req[s]
  BY <1>2 DEF Recording
<1>7. ASSUME NEW c \in Case, Tally(c) PROVE Tally(c)'
  BY <1>5, <1>6, <1>7, TallyKept
<1>8. ASSUME NEW c \in Case, Chained(c) PROVE Chained(c)'
  BY <1>5, <1>6, <1>8 DEF Chained
<1>9. ASSUME NEW c \in Case \ (crossed' \cup broken'), NEW s \in Request, req'[s].case = c
      PROVE  ReadIsPresent(req[s])'
  <2>1. CASE s = r
    BY <1>2, <1>9, <2>1 DEF ReadIsPresent
  <2>2. CASE s # r
    <3>1. req'[s] = req[s] /\ ReadIsPresent(req[s]) /\ Fits(req[s])
      BY <1>2, <1>9, <2>2 DEF HistoryInv, TInv
    <3>2. req[s].at = "updateStatus" => req[s].case \in Case
      BY <3>1 DEF Fits
    <3>q. QED BY <3>1, <3>2 DEF ReadIsPresent
  <2>q. QED BY <2>1, <2>2
<1>q. QED BY <1>3, <1>4, <1>7, <1>8, <1>9 DEF HistoryInv

\* A handler that has failed is behind, for good, what is said of its case.
LEMMA FailHistory ==
  ASSUME TInv, HistoryInv, NEW r \in Request, Fail(r)
  PROVE  HistoryInv'
<1>1. PICK c \in Case : req[r].case = c
  BY FailingCase
<1>2. /\ req' = [req EXCEPT ![r] = Idle] /\ req \in [Request -> Handler]
      /\ broken' = broken \cup {c}
      /\ UNCHANGED <<case, changes, checklist, patched, crossed>>
      /\ \A d \in Case \ {c} : given'[d] = given[d]
  BY <1>1 DEF Fail, Finish, children, TInv, TypeOK
<1>3. req'[r] = Idle /\ \A t \in Request \ {r} : req'[t] = req[t]
  BY <1>2
<1>4. \A t \in Request, d \in Case \ {c} :
        (Recording(t, d)' <=> Recording(t, d)) /\ (Recording(t, d) => req'[t] = req[t])
  BY <1>1, <1>3 DEF Recording, Idle
<1>5. \A d \in Case \ {c} : Listed(d) => Listed(d)'
  BY <1>1, <1>2, <1>3 DEF Listed
<1>6. \A d \in Case \ {c} : Chained(d) => Chained(d)'
  BY <1>2, <1>4 DEF Chained
<1>8. ASSUME NEW d \in Case \ {c}, Tally(d) PROVE Tally(d)'
  BY <1>2, <1>4, <1>8, TallyKept
<1>7. ASSUME NEW d \in Case \ (crossed' \cup broken'), NEW t \in Request, req'[t].case = d
      PROVE  ReadIsPresent(req[t])'
  <2>1. t # r
    BY <1>3, <1>7, CasesAssumption DEF Idle
  <2>2. req'[t] = req[t] /\ ReadIsPresent(req[t])
    BY <1>2, <1>3, <1>7, <2>1 DEF HistoryInv
  <2>q. QED BY <1>2, <2>2 DEF ReadIsPresent
<1>q. QED BY <1>2, <1>5, <1>6, <1>7, <1>8 DEF HistoryInv, Exists

\* A request that arrives only reads.
LEMMA StartHistory ==
  ASSUME TInv, HistoryInv, NEW r \in Request, NEW op, NEW h \in Handler, Start(r, op, h),
         h.at # "recordStatus", ReadIsPresent(h), h.at = "updateStatus" => h.case \in Case
  PROVE  HistoryInv'
<1>1. /\ req' = [req EXCEPT ![r] = h] /\ req[r].at = "idle"
      /\ UNCHANGED <<case, changes, checklist, patched, broken, given>>
      /\ crossed \subseteq crossed'
  BY DEF Start, Arrive, children, history, Idle, TInv, TypeOK
<1>2. ReadIsPresent(h)'
  BY <1>1 DEF ReadIsPresent
<1>q. QED BY <1>1, HistoryKept

\* The case, its first status and its history are inserted together.
LEMMA CreateHistory ==
  ASSUME TInv, CalmInv, HistoryInv, NEW r \in Request, NEW c \in Case, NEW s \in CaseStatus,
         Create(r, c, s)
  PROVE  HistoryInv'
<1> DEFINE h == [Idle EXCEPT !.at = "createChecklist", !.case = c]
           first == [from |-> Null, to |-> s]
<1>1. /\ h.at = "createChecklist" /\ h.case = c
      /\ req' = [req EXCEPT ![r] = h] /\ req[r] = Idle /\ req \in [Request -> Handler]
      /\ ~Exists(c)
      /\ case' = [case EXCEPT ![c] = [status |-> s, deleted |-> FALSE]]
      /\ changes' = [changes EXCEPT ![c] = <<first>>]
      /\ UNCHANGED <<checklist, patched, broken>>
      /\ crossed \subseteq crossed'
      /\ Give(c, s)
  BY DEF Create, Arrive, children, TInv, TypeOK, Idle
<1>2. req'[r] = h /\ \A t \in Request \ {r} : req'[t] = req[t]
  BY <1>1
<1>3. /\ case'[c].status = s /\ changes'[c] = <<first>>
      /\ \A d \in Case \ {c} : case'[d] = case[d] /\ changes'[d] = changes[d]
  BY <1>1 DEF TInv, TypeOK
<1>4. req[r].at = "idle"
  BY <1>1 DEF Idle
<1>5. \A t \in Request : req[t].at # "idle" => req[t].case # c
  BY <1>1 DEF TInv, Fits
<1> HIDE DEF h
<1>6. \A t \in Request, d \in Case :
        /\ Recording(t, d)' <=> Recording(t, d)
        /\ Recording(t, d) => req'[t] = req[t] /\ d # c
  BY <1>1, <1>2, <1>4, <1>5 DEF Recording
<1>7. Listed(c)' /\ \A d \in Case : Listed(d) => Listed(d)'
  BY <1>1, <1>2, <1>4 DEF Listed
<1>8. Len(<<first>>) = 1 /\ <<first>>[1] = first /\ DOMAIN <<first>> = {1} /\ first.to = s
      /\ <<first>> # <<>>
  OBVIOUS
<1> HIDE DEF first
<1>9. Chained(c)'
  BY <1>3, <1>6, <1>8 DEF Chained
<1>10. \A d \in Case \ {c} : Chained(d) => Chained(d)'
  BY <1>1, <1>3, <1>6 DEF Chained
<1>13. ASSUME NEW d \in Case \ broken, Tally(d) PROVE Tally(d)'
  <2>1. CASE d # c
    BY <1>1, <1>3, <1>6, <1>13, <2>1, GivenOnly, TallyKept
  <2>2. CASE d = c
    <3>1. changes[c] = <<>>
      BY <1>1 DEF TInv, TypeOK
    <3>2. \A t \in Request : ~Recording(t, c) /\ ~Recording(t, c)'
      BY <1>6
    <3>3. ASSUME NEW u \in CaseStatus
          PROVE  /\ Rows(c, u) = {} /\ Rows(c, u)' = IF u = s THEN {1} ELSE {}
                 /\ Recorders(c, u) = {} /\ Recorders(c, u)' = {}
      <4>1. Rows(c, u) = {}
        BY <3>1 DEF Rows
      <4>2. Rows(c, u)' = IF u = s THEN {1} ELSE {}
        BY <1>3, <1>8 DEF Rows
      <4>q. QED BY <3>2, <4>1, <4>2 DEF Recorders
    <3>4. IsFiniteSet({}) /\ IsFiniteSet({1}) /\ Cardinality({}) = 0 /\ Cardinality({1}) = 1
      BY FS_EmptySet, FS_Singleton
    <3>5. ASSUME NEW u \in CaseStatus
          PROVE  given[c][u] = 0 /\ given'[c][u] = IF u = s THEN 1 ELSE 0
      <4>1. given[c][u] = Cardinality(Rows(c, u)) + Cardinality(Recorders(c, u))
        BY <1>13, <2>2 DEF Tally
      <4>2. given[c][u] = 0
        BY <3>3, <3>4, <4>1
      <4>3. given'[c][u] = given[c][u] + IF u = s THEN 1 ELSE 0
        BY <1>1, <1>13, <2>2, GivenOnly
      <4>q. QED BY <4>2, <4>3
    <3>q. QED BY <2>2, <3>3, <3>4, <3>5 DEF Tally
  <2>q. QED BY <2>1, <2>2
<1>11. ASSUME NEW d \in Case \ (crossed' \cup broken'), NEW t \in Request, req'[t].case = d
       PROVE  ReadIsPresent(req[t])'
  <2>1. CASE t = r
    BY <1>1, <1>2, <2>1 DEF ReadIsPresent
  <2>2. CASE t # r
    <3>1. req'[t] = req[t] /\ ReadIsPresent(req[t]) /\ Fits(req[t])
      BY <1>1, <1>2, <1>11, <2>2 DEF HistoryInv, TInv
    <3>2. req[t].at = "updateStatus" => req[t].case \in Case \ {c}
      BY <1>5, <3>1 DEF Fits
    <3>q. QED BY <1>3, <3>1, <3>2 DEF ReadIsPresent
  <2>q. QED BY <2>1, <2>2
<1>12. \A d \in Case \ {c} : Exists(d)' => Exists(d)
  BY <1>3 DEF Exists
<1>q. QED BY <1>1, <1>7, <1>9, <1>10, <1>11, <1>12, <1>13 DEF HistoryInv

\* The checklist is inserted.
LEMMA ChecklistHistory ==
  ASSUME TInv, HistoryInv, NEW r \in Request, CreateChecklist(r)
  PROVE  HistoryInv'
<1>1. /\ req[r].at = "createChecklist" /\ req[r].case \in Case
      /\ req' = [req EXCEPT ![r] = Idle] /\ req \in [Request -> Handler]
      /\ checklist' = [checklist EXCEPT ![req[r].case] = "OPEN"]
      /\ UNCHANGED <<case, changes, patched, broken, given, crossed>>
  BY AtWork DEF CreateChecklist, Finish, At, history, TInv, TypeOK
<1>2. req'[r].at = "idle" /\ \A t \in Request \ {r} : req'[t] = req[t]
  BY <1>1 DEF Idle
<1>3. checklist'[req[r].case] = "OPEN"
      /\ \A d \in Case \ {req[r].case} : checklist'[d] = checklist[d]
  BY <1>1 DEF TInv, TypeOK
<1>4. \A d \in Case : Listed(d) => Listed(d)'
  BY <1>1, <1>2, <1>3 DEF Listed
<1>5. \A t \in Request, d \in Case :
        (Recording(t, d)' <=> Recording(t, d)) /\ (Recording(t, d) => req'[t] = req[t])
  BY <1>1, <1>2 DEF Recording
<1>6. \A d \in Case : Chained(d) => Chained(d)'
  BY <1>1, <1>5 DEF Chained
<1>8. ASSUME NEW d \in Case, Tally(d) PROVE Tally(d)'
  BY <1>1, <1>5, <1>8, TallyKept
<1>7. ASSUME NEW d \in Case \ (crossed' \cup broken'), NEW t \in Request, req'[t].case = d
      PROVE  ReadIsPresent(req[t])'
  BY <1>1, <1>2, <1>7 DEF ReadIsPresent, HistoryInv
<1>q. QED BY <1>1, <1>4, <1>6, <1>7, <1>8 DEF HistoryInv, Exists

\* PATCH writes a status that no history tells of.
LEMMA PatchHistory ==
  ASSUME TInv, CalmInv, HistoryInv, NEW r \in Request, UpdateWrite(r)
  PROVE  HistoryInv'
<1>1. /\ req[r].at = "update" /\ req[r].case \in Case /\ Exists(req[r].case)
      /\ req' = [req EXCEPT ![r] = Idle] /\ req \in [Request -> Handler]
      /\ case' = [case EXCEPT ![req[r].case].status = req[r].new]
      /\ patched' = patched \cup {req[r].case}
      /\ UNCHANGED <<checklist, changes, broken, given, crossed>>
  BY AtWork DEF UpdateWrite, Finish, At, children, TInv, TypeOK
<1>2. req'[r].at = "idle" /\ \A t \in Request \ {r} : req'[t] = req[t]
  BY <1>1 DEF Idle
<1>10. PICK c \in Case : c = req[r].case
  BY <1>1
<1>3. \A d \in Case \ {c} : case'[d] = case[d]
  BY <1>1, <1>10 DEF TInv, TypeOK
<1>4. \A d \in Case : Listed(d) => Listed(d)'
  BY <1>1, <1>2 DEF Listed
<1>5. \A t \in Request, d \in Case :
        (Recording(t, d)' <=> Recording(t, d)) /\ (Recording(t, d) => req'[t] = req[t])
  BY <1>1, <1>2 DEF Recording
<1>6. ASSUME NEW d \in Case, Tally(d) PROVE Tally(d)'
  BY <1>1, <1>5, <1>6, TallyKept
<1>7. c \in patched' /\ \A d \in Case \ {c} : Chained(d) => Chained(d)'
  BY <1>1, <1>3, <1>5, <1>10 DEF Chained
<1>8. ASSUME NEW d \in Case \ (crossed' \cup broken'), NEW t \in Request, req'[t].case = d
      PROVE  ReadIsPresent(req[t])'
  <2>1. CASE t = r
    BY <1>2, <2>1 DEF ReadIsPresent
  <2>2. CASE t # r
    <3>1. req'[t] = req[t] /\ ReadIsPresent(req[t]) /\ AloneOn(d)
      BY <1>1, <1>2, <1>8, <2>2 DEF HistoryInv, CalmInv, CalmOn
    <3>2. d # c
      BY <1>8, <1>10, <2>2, <3>1 DEF AloneOn
    <3>q. QED BY <1>3, <1>8, <3>1, <3>2 DEF ReadIsPresent
  <2>q. QED BY <2>1, <2>2
<1>9. \A d \in Case : Exists(d)' => Exists(d)
  BY <1>1, <1>3, <1>10 DEF Exists
<1>q. QED BY <1>1, <1>4, <1>6, <1>7, <1>8, <1>9 DEF HistoryInv

\* updateStatus writes the status, and goes on to record it.
LEMMA StatusHistory ==
  ASSUME TInv, CalmInv, HistoryInv, NEW r \in Request, UpdateStatusWrite(r)
  PROVE  HistoryInv'
<1>1. PICK h \in Handler : Moved(h, r, "recordStatus")
  BY AtWork DEF UpdateStatusWrite, At, Steps
<1>2. /\ req[r].at = "updateStatus" /\ req[r].case \in Case /\ Exists(req[r].case)
      /\ case[req[r].case] \in CaseRow
      /\ req' = [req EXCEPT ![r] = h] /\ req \in [Request -> Handler]
      /\ case' = [case EXCEPT ![req[r].case].status = req[r].new]
      /\ UNCHANGED <<checklist, changes, patched, broken, crossed>>
      /\ Give(req[r].case, req[r].new) /\ req[r].new \in CaseStatus
  BY <1>1, AtWork DEF UpdateStatusWrite, Proceed, Moved, At, Fits, children, TInv, TypeOK
<1>3. PICK c \in Case : c = req[r].case
  BY <1>2
<1>4. /\ req'[r].at = "recordStatus" /\ req'[r].case = c /\ req'[r].new = req[r].new
      /\ req'[r].old = req[r].old
      /\ \A t \in Request \ {r} : req'[t] = req[t]
  BY <1>1, <1>2, <1>3 DEF Moved
<1>5. case'[c].status = req[r].new /\ \A d \in Case \ {c} : case'[d] = case[d]
  BY <1>2, <1>3 DEF TInv, TypeOK, CaseRow
<1>6. \A d \in Case : Listed(d) => Listed(d)'
  BY <1>2, <1>4 DEF Listed
<1>7. \A t \in Request, d \in Case \ {c} :
        (Recording(t, d)' <=> Recording(t, d)) /\ (Recording(t, d) => req'[t] = req[t])
  BY <1>2, <1>4 DEF Recording
<1>8. ASSUME NEW d \in Case \ broken, Tally(d) PROVE Tally(d)'
  <2>1. CASE d # c
    BY <1>2, <1>3, <1>7, <1>8, <2>1, GivenOnly, TallyKept
  <2>2. CASE d = c
    <3>1. ASSUME NEW s \in CaseStatus
          PROVE  /\ Rows(c, s)' = Rows(c, s)
                 /\ r \notin Recorders(c, s)
                 /\ Recorders(c, s)' =
                      Recorders(c, s) \cup IF s = req[r].new THEN {r} ELSE {}
      <4>1. Rows(c, s)' = Rows(c, s)
        BY <1>2 DEF Rows
      <4>2. r \notin Recorders(c, s)
        BY <1>2 DEF Recorders, Recording
      <4>3. \A t \in Request : t \in Recorders(c, s)' <=>
                               t \in Recorders(c, s) \/ (t = r /\ s = req[r].new)
        BY <1>4, <4>2 DEF Recorders, Recording
      <4>4. Recorders(c, s) \subseteq Request /\ Recorders(c, s)' \subseteq Request
        BY DEF Recorders
      <4>q. QED BY <4>1, <4>2, <4>3, <4>4
    <3>2. ASSUME NEW s \in CaseStatus
          PROVE  /\ IsFiniteSet(Recorders(c, s)')
                 /\ Cardinality(Recorders(c, s)') =
                      Cardinality(Recorders(c, s)) + IF s = req[r].new THEN 1 ELSE 0
                 /\ Cardinality(Recorders(c, s)) \in Nat
      <4>1. IsFiniteSet(Recorders(c, s))
        BY <1>8, <2>2 DEF Tally
      <4>2. Cardinality(Recorders(c, s)) \in Nat
        BY <4>1, FS_CardinalityType
      <4>3. CASE s = req[r].new
        <5>1. Recorders(c, s)' = Recorders(c, s) \cup {r} /\ r \notin Recorders(c, s)
          BY <3>1, <4>3
        <5>q. QED BY <4>1, <4>2, <4>3, <5>1, FS_AddElement
      <4>4. CASE s # req[r].new
        <5>1. Recorders(c, s)' = Recorders(c, s)
          BY <3>1, <4>4
        <5>q. QED BY <4>1, <4>2, <4>4, <5>1
      <4>q. QED BY <4>3, <4>4
    <3>3. ASSUME NEW s \in CaseStatus
          PROVE  /\ IsFiniteSet(Rows(c, s)) /\ Cardinality(Rows(c, s)) \in Nat
                 /\ given[c][s] = Cardinality(Rows(c, s)) + Cardinality(Recorders(c, s))
                 /\ given'[c][s] = given[c][s] + IF s = req[r].new THEN 1 ELSE 0
      BY <1>2, <1>3, <1>8, <2>2, GivenOnly, FS_CardinalityType DEF Tally
    <3>q. QED BY <2>2, <3>1, <3>2, <3>3 DEF Tally
  <2>q. QED BY <2>1, <2>2
<1>9. \A d \in Case \ {c} : Chained(d) => Chained(d)'
  BY <1>2, <1>5, <1>7 DEF Chained
<1>10. ASSUME c \notin crossed \cup broken, Chained(c) PROVE Chained(c)'
  <2>1. \A t \in Request \ {r} : req[t].case # c
    BY <1>3, <1>10 DEF CalmInv, CalmOn, AloneOn
  <2>2. \A t \in Request : ~Recording(t, c)
    BY <1>2, <2>1 DEF Recording
  <2>3. changes[c][Len(changes[c])].to = case[c].status
    BY <1>10, <2>2 DEF Chained
  <2>4. req[r].old = case[c].status
    BY <1>2, <1>3, <1>10 DEF HistoryInv, ReadIsPresent
  <2>5. \A t \in Request : Recording(t, c)' => t = r
    BY <1>4, <2>1 DEF Recording
  <2>6. Recording(r, c)'
    BY <1>4 DEF Recording
  <2>q. QED BY <1>2, <1>4, <1>5, <1>10, <2>3, <2>4, <2>5, <2>6 DEF Chained
<1>11. ASSUME NEW d \in Case \ (crossed' \cup broken'), NEW t \in Request, req'[t].case = d
       PROVE  ReadIsPresent(req[t])'
  <2>1. CASE t = r
    BY <1>4, <2>1 DEF ReadIsPresent
  <2>2. CASE t # r
    <3>1. req'[t] = req[t] /\ ReadIsPresent(req[t]) /\ AloneOn(d)
      BY <1>2, <1>4, <1>11, <2>2 DEF HistoryInv, CalmInv, CalmOn
    <3>2. d # c
      BY <1>3, <1>11, <2>2, <3>1 DEF AloneOn
    <3>q. QED BY <1>5, <1>11, <3>1, <3>2 DEF ReadIsPresent
  <2>q. QED BY <2>1, <2>2
<1>12. \A d \in Case : Exists(d)' => Exists(d)
  BY <1>2, <1>3, <1>5 DEF Exists
<1>q. QED BY <1>2, <1>6, <1>8, <1>9, <1>10, <1>11, <1>12 DEF HistoryInv

\* The change is recorded: the chain is one longer.
LEMMA RecordHistory ==
  ASSUME TInv, CalmInv, HistoryInv, NEW r \in Request, RecordStatus(r)
  PROVE  HistoryInv'
<1> DEFINE new == [from |-> req[r].old, to |-> req[r].new]
<1>1. /\ req[r].at = "recordStatus" /\ req[r].case \in Case /\ Exists(req[r].case)
      /\ new \in Change
      /\ req' = [req EXCEPT ![r] = Idle] /\ req \in [Request -> Handler]
      /\ changes' = [changes EXCEPT ![req[r].case] = Append(changes[req[r].case], new)]
      /\ UNCHANGED <<checklist, case, patched, broken, given, crossed>>
  BY AtWork DEF RecordStatus, Finish, At, Fits, Change, children, history, TInv, TypeOK
<1>2. PICK c \in Case : c = req[r].case
  BY <1>1
<1>3. req'[r].at = "idle" /\ \A t \in Request \ {r} : req'[t] = req[t]
  BY <1>1 DEF Idle
<1>4. new.from = req[r].old /\ new.to = req[r].new
  OBVIOUS
<1> HIDE DEF new
<1>5. /\ changes'[c] = Append(changes[c], new) /\ changes[c] \in Seq(Change)
      /\ \A d \in Case \ {c} : changes'[d] = changes[d]
  BY <1>1, <1>2 DEF TInv, TypeOK
<1>6. PICK n \in Nat : n = Len(changes[c])
  BY <1>5
<1>7. /\ Len(changes'[c]) = n + 1 /\ DOMAIN changes'[c] = 1 .. n + 1 /\ DOMAIN changes[c] = 1 .. n
      /\ changes'[c][n + 1] = new /\ \A i \in 1 .. n : changes'[c][i] = changes[c][i]
      /\ changes'[c] # <<>>
  BY <1>1, <1>5, <1>6
<1>8. \A d \in Case : Listed(d) => Listed(d)'
  BY <1>1, <1>3 DEF Listed
<1>9. \A t \in Request, d \in Case :
        /\ Recording(t, d)' <=> Recording(t, d) /\ t # r
        /\ Recording(t, d) /\ t # r => req'[t] = req[t]
        /\ d # c => ~Recording(r, d)
  BY <1>1, <1>2, <1>3 DEF Recording
<1>10. \A d \in Case \ {c} : Chained(d) => Chained(d)'
  BY <1>1, <1>5, <1>9 DEF Chained
<1>11. ASSUME NEW d \in Case, Tally(d) PROVE Tally(d)'
  <2>1. CASE d # c
    BY <1>1, <1>5, <1>9, <1>11, <2>1, TallyKept
  <2>2. CASE d = c
    <3>1. ASSUME NEW s \in CaseStatus, s # req[r].new
          PROVE  Rows(c, s)' = Rows(c, s) /\ Recorders(c, s)' = Recorders(c, s)
      <4>1. Rows(c, s)' = Rows(c, s)
        BY <1>4, <1>7, <3>1 DEF Rows
      <4>2. r \notin Recorders(c, s)
        BY <3>1 DEF Recorders
      <4>q. QED BY <1>9, <4>1, <4>2 DEF Recorders
    <3>2. ASSUME NEW s \in CaseStatus, s = req[r].new
          PROVE  /\ Rows(c, s)' = Rows(c, s) \cup {n + 1} /\ n + 1 \notin Rows(c, s)
                 /\ Recorders(c, s)' = Recorders(c, s) \ {r} /\ r \in Recorders(c, s)
      <4>1. Rows(c, s)' = Rows(c, s) \cup {n + 1} /\ n + 1 \notin Rows(c, s)
        BY <1>4, <1>7, <3>2 DEF Rows
      <4>2. r \in Recorders(c, s)
        BY <1>1, <1>2, <3>2 DEF Recorders, Recording
      <4>3. Recorders(c, s)' = Recorders(c, s) \ {r}
        BY <1>9 DEF Recorders
      <4>q. QED BY <4>1, <4>2, <4>3
    <3>3. ASSUME NEW s \in CaseStatus
          PROVE  /\ IsFiniteSet(Rows(c, s)) /\ Cardinality(Rows(c, s)) \in Nat
                 /\ IsFiniteSet(Recorders(c, s)) /\ Cardinality(Recorders(c, s)) \in Nat
                 /\ given'[c][s] = Cardinality(Rows(c, s)) + Cardinality(Recorders(c, s))
      BY <1>1, <1>11, <2>2, FS_CardinalityType DEF Tally
    <3>4. ASSUME NEW s \in CaseStatus, s = req[r].new
          PROVE  /\ IsFiniteSet(Rows(c, s)')
                 /\ Cardinality(Rows(c, s)') = Cardinality(Rows(c, s)) + 1
                 /\ IsFiniteSet(Recorders(c, s)')
                 /\ Cardinality(Recorders(c, s)') = Cardinality(Recorders(c, s)) - 1
      <4>1. IsFiniteSet(Rows(c, s)') /\ Cardinality(Rows(c, s)') = Cardinality(Rows(c, s)) + 1
        BY <3>2, <3>3, <3>4, FS_AddElement
      <4>2. /\ IsFiniteSet(Recorders(c, s)')
            /\ Cardinality(Recorders(c, s)') = Cardinality(Recorders(c, s)) - 1
        BY <3>2, <3>3, <3>4, FS_RemoveElement
      <4>q. QED BY <4>1, <4>2
    <3>5. ASSUME NEW s \in CaseStatus
          PROVE  /\ IsFiniteSet(Rows(c, s)') /\ IsFiniteSet(Recorders(c, s)')
                 /\ given'[c][s] = Cardinality(Rows(c, s)') + Cardinality(Recorders(c, s)')
      <4>1. CASE s = req[r].new
        BY <3>3, <3>4, <4>1
      <4>2. CASE s # req[r].new
        BY <3>1, <3>3, <4>2
      <4>q. QED BY <4>1, <4>2
    <3>q. QED BY <2>2, <3>5 DEF Tally
  <2>q. QED BY <2>1, <2>2
<1>12. ASSUME c \notin crossed, Chained(c) PROVE Chained(c)'
  <2>1. Recording(r, c)
    BY <1>1, <1>2 DEF Recording
  <2>2. changes[c][n].to = new.from /\ new.to = case'[c].status
    BY <1>1, <1>4, <1>6, <1>12, <2>1 DEF Chained
  <2>3. n > 0
    BY <1>5, <1>6, <1>12 DEF Chained
  <2>4. ASSUME NEW i \in 2 .. n + 1 PROVE changes'[c][i].from = changes'[c][i - 1].to
    <3>1. CASE i = n + 1
      BY <1>7, <2>2, <2>3, <3>1
    <3>2. CASE i # n + 1
      <4>1. i \in 2 .. Len(changes[c]) /\ i \in 1 .. n /\ i - 1 \in 1 .. n
        BY <1>6, <2>4, <3>2
      <4>2. changes[c][i].from = changes[c][i - 1].to
        BY <1>12, <4>1 DEF Chained
      <4>q. QED BY <1>7, <4>1, <4>2
    <3>q. QED BY <3>1, <3>2
  <2>5. \A t \in Request : ~Recording(t, c)'
    BY <1>2, <1>3, <1>12 DEF CalmInv, CalmOn, AloneOn, Recording
  <2>6. changes'[c][Len(changes'[c])].to = case'[c].status
    BY <1>7, <2>2
  <2>q. QED BY <1>7, <2>4, <2>5, <2>6 DEF Chained
<1>13. ASSUME NEW d \in Case \ (crossed' \cup broken'), NEW t \in Request, req'[t].case = d
       PROVE  ReadIsPresent(req[t])'
  BY <1>1, <1>3, <1>13 DEF ReadIsPresent, HistoryInv
<1>q. QED BY <1>1, <1>8, <1>10, <1>11, <1>12, <1>13 DEF HistoryInv, Exists

\* Arriving requests keep the history in order.
LEMMA RequestHistory ==
  ASSUME TInv, CalmInv, HistoryInv, NEW r \in Request,
         (\E c \in Case : OnCase(r, c)) \/ (\E p \in Passenger : OnPassenger(r, p))
  PROVE  HistoryInv'
<1>1. ASSUME NEW op, NEW h \in Handler, Start(r, op, h),
             h.at \notin {"recordStatus", "updateStatus"}
      PROVE  HistoryInv'
  BY <1>1, StartHistory DEF ReadIsPresent
<1>2. ASSUME NEW c \in Case, NEW s \in CaseStatus, Create(r, c, s)
      PROVE  HistoryInv'
  BY <1>2, CreateHistory
<1>3. ASSUME NEW c \in Case, NEW s \in CaseStatus, UpdateStatusRead(r, c, s)
      PROVE  HistoryInv'
  <2> DEFINE h == [[Idle EXCEPT !.at = "updateStatus", !.old = case[c].status, !.new = s]
                     EXCEPT !.case = c]
  <2>1. Start(r, "updateStatus", h) /\ Found(c)
    BY <1>3 DEF UpdateStatusRead, StartOnCase
  <2>2. case[c].status \in CaseStatus
    BY <2>1 DEF TInv, TypeOK, Found, Exists, CaseRow, NoCase
  <2>3. h \in Handler /\ h.at = "updateStatus" /\ h.case = c /\ h.old = case[c].status
    BY <2>2 DEF Idle, Handler, Steps
  <2>4. PICK g \in Handler : g = h
    BY <2>3
  <2>q. QED BY <2>1, <2>3, <2>4, StartHistory DEF ReadIsPresent
<1>4. ASSUME NEW op, NEW c \in Case, NEW step \in {"remove", "unsetForNew", "insertPassenger"},
             StartOnCase(r, c, op, [Idle EXCEPT !.at = step])
      PROVE  HistoryInv'
  <2> DEFINE h == [[Idle EXCEPT !.at = step] EXCEPT !.case = c]
  <2>1. Start(r, op, h) /\ h \in Handler /\ h.at = step
    BY <1>4 DEF StartOnCase, Idle, Handler, Steps
  <2>2. PICK g \in Handler : g = h
    BY <2>1
  <2>q. QED BY <1>1, <2>1, <2>2
<1>5. ASSUME NEW c \in Case, NEW leader \in BOOLEAN, AddPassengerRead(r, c, leader)
      PROVE  HistoryInv'
  <2>1. CASE leader
    BY <1>4, <1>5, <2>1 DEF AddPassengerRead
  <2>2. CASE ~leader
    BY <1>4, <1>5, <2>2 DEF AddPassengerRead
  <2>q. QED BY <2>1, <2>2
<1>6. ASSUME NEW c \in Case, NEW s \in CaseStatus, UpdateRead(r, c, s)
      PROVE  HistoryInv'
  <2> DEFINE h == [[Idle EXCEPT !.at = "update", !.new = s] EXCEPT !.case = c]
  <2>1. Start(r, "update", h) /\ h \in Handler /\ h.at = "update"
    BY <1>6 DEF UpdateRead, StartOnCase, Idle, Handler, Steps
  <2>2. PICK g \in Handler : g = h
    BY <2>1
  <2>q. QED BY <1>1, <2>1, <2>2
<1>7. ASSUME NEW c \in Case, NEW k \in Plan, ReplacePlanRead(r, c, k)
      PROVE  HistoryInv'
  <2> DEFINE h == [[Idle EXCEPT !.at = "deletePlan", !.plan = k] EXCEPT !.case = c]
  <2>1. Start(r, "replacePlan", h) /\ h \in Handler /\ h.at = "deletePlan"
    BY <1>7 DEF ReplacePlanRead, StartOnCase, Idle, Handler, Steps
  <2>2. PICK g \in Handler : g = h
    BY <2>1
  <2>q. QED BY <1>1, <2>1, <2>2
<1>8. ASSUME NEW c \in Case, ToggleRead(r, c)
      PROVE  HistoryInv'
  <2> DEFINE h == [[Idle EXCEPT !.at = "toggle", !.old = checklist[c]] EXCEPT !.case = c]
  <2>1. Start(r, "toggle", h) /\ h \in Handler /\ h.at = "toggle"
    BY <1>8 DEF ToggleRead, StartOnItem, Idle, Handler, Steps
  <2>2. PICK g \in Handler : g = h
    BY <2>1
  <2>q. QED BY <1>1, <2>1, <2>2
<1>9. ASSUME NEW c \in Case, RemoveItemRead(r, c)
      PROVE  HistoryInv'
  <2> DEFINE h == [[Idle EXCEPT !.at = "removeItem"] EXCEPT !.case = c]
  <2>1. Start(r, "removeItem", h) /\ h \in Handler /\ h.at = "removeItem"
    BY <1>9 DEF RemoveItemRead, StartOnItem, Idle, Handler, Steps
  <2>2. PICK g \in Handler : g = h
    BY <2>1
  <2>q. QED BY <1>1, <2>1, <2>2
<1>10. ASSUME NEW p \in Passenger, NEW op,
              NEW step \in {"findPassenger", "clearLeader", "removePassenger"},
              StartOnPassenger(r, p, op, [Idle EXCEPT !.at = step])
       PROVE  HistoryInv'
  <2> DEFINE h == [[Idle EXCEPT !.at = step] EXCEPT !.passenger = p, !.case = passenger[p].case]
  <2>1. Start(r, op, h) /\ passenger[p].case \in Case
    BY <1>10 DEF StartOnPassenger, Aboard
  <2>2. h \in Handler /\ h.at = step
    BY <2>1 DEF Idle, Handler, Steps
  <2>3. PICK g \in Handler : g = h
    BY <2>2
  <2>q. QED BY <1>1, <2>1, <2>2, <2>3
<1>11. ASSUME NEW p \in Passenger, OnPassenger(r, p)
       PROVE  HistoryInv'
  <2>1. ASSUME NEW leader \in BOOLEAN, UpdatePassengerRead(r, p, leader)
        PROVE  HistoryInv'
    <3>1. CASE leader
      BY <1>10, <2>1, <3>1 DEF UpdatePassengerRead
    <3>2. CASE ~leader
      BY <1>10, <2>1, <3>2 DEF UpdatePassengerRead
    <3>q. QED BY <3>1, <3>2
  <2>q. QED BY <1>10, <1>11, <2>1 DEF OnPassenger, RemovePassengerRead
<1>q. QED
  BY <1>2, <1>3, <1>4, <1>5, <1>6, <1>7, <1>8, <1>9, <1>11 DEF OnCase, RemoveRead

\* So do all later statements: those that write neither a status nor a history, and the five
\* that do.
LEMMA ResumeHistory ==
  ASSUME TInv, CalmInv, HistoryInv, NEW r \in Request, Resume(r)
  PROVE  HistoryInv'
<1>1. ASSUME NEW h \in Handler, req' = [req EXCEPT ![r] = h],
             h.at \in {"idle", "insertLeader", "setLeader", "unset", "insertPlan"},
             req[r].at \notin {"createChecklist", "recordStatus"},
             \A c \in Case : case'[c].status = case[c].status,
             UNCHANGED <<changes, patched, broken, given, crossed>>,
             \A c \in Case : checklist[c] # "NONE" => checklist'[c] # "NONE"
      PROVE  HistoryInv'
  BY <1>1, HistoryKept DEF ReadIsPresent
<1>2. Idle \in Handler /\ Idle.at = "idle"
  BY DEF Idle, Handler
<1>3. ASSUME Finish(r), req[r].at \notin {"createChecklist", "recordStatus"},
             UNCHANGED <<case, changes, checklist, patched, broken, given, crossed>>
      PROVE  HistoryInv'
  BY <1>1, <1>2, <1>3 DEF Finish
<1>4. ASSUME NEW step \in {"insertLeader", "setLeader", "unset", "insertPlan"}, Proceed(r, step),
             req[r].at \notin {"idle", "createChecklist", "recordStatus"},
             UNCHANGED <<case, changes, checklist, patched, broken, given, crossed>>
      PROVE  HistoryInv'
  <2>1. PICK h \in Handler : Moved(h, r, step)
    BY <1>4, AtWork DEF At, Steps
  <2>q. QED BY <1>1, <1>4, <2>1 DEF Proceed, Moved
<1>5. CASE RemoveWrite(r)
  <2>1. /\ req[r].at = "remove" /\ req' = [req EXCEPT ![r] = Idle]
        /\ req[r].case \in Case /\ case[req[r].case] \in CaseRow
        /\ case' = [case EXCEPT ![req[r].case].deleted = TRUE]
        /\ UNCHANGED <<changes, checklist, patched, broken, given, crossed>>
    BY <1>5, AtWork DEF RemoveWrite, Finish, At, children, history
  <2>2. \A c \in Case : case'[c].status = case[c].status
    BY <2>1 DEF TInv, TypeOK, CaseRow
  <2>q. QED BY <1>1, <1>2, <2>1, <2>2
<1>6. CASE ToggleWrite(r) \/ RemoveItemWrite(r)
  <2>1. /\ req[r].at \in {"toggle", "removeItem"} /\ req' = [req EXCEPT ![r] = Idle]
        /\ UNCHANGED <<case, changes, patched, broken, given, crossed>>
    BY <1>6 DEF ToggleWrite, RemoveItemWrite, Finish, At, history
  <2>2. \A c \in Case : checklist[c] # "NONE" => checklist'[c] # "NONE"
    BY <1>6 DEF ToggleWrite, RemoveItemWrite, TInv, TypeOK
  <2>q. QED BY <1>1, <1>2, <2>1, <2>2
<1>7. CASE UnsetLeaders(r)
  <2>1. /\ req[r].at \in {"unsetForNew", "unset"}
        /\ Proceed(r, "insertLeader") \/ Proceed(r, "setLeader")
        /\ UNCHANGED <<case, changes, checklist, patched, broken, given, crossed>>
    BY <1>7 DEF UnsetLeaders, history
  <2>q. QED BY <1>4, <2>1
<1>8. ASSUME NEW p \in Passenger, InsertPassenger(r, p)
      PROVE  HistoryInv'
  BY <1>3, <1>8 DEF InsertPassenger, history
<1>9. CASE FindPassenger(r)
  <2>1. /\ req[r].at = "findPassenger" /\ (Proceed(r, "unset") \/ Finish(r))
        /\ UNCHANGED <<case, changes, checklist, patched, broken, given, crossed>>
    BY <1>9 DEF FindPassenger, At, children, history
  <2>q. QED BY <1>3, <1>4, <2>1
<1>10. CASE UpdatePassengerWrite(r) \/ RemovePassengerWrite(r)
  BY <1>3, <1>10 DEF UpdatePassengerWrite, RemovePassengerWrite, At, history
<1>11. CASE DeletePlan(r)
  BY <1>4, <1>11 DEF DeletePlan, At, history
<1>12. CASE InsertPlan(r)
  BY <1>3, <1>12 DEF InsertPlan, At, history
<1>q. QED
  BY <1>5, <1>6, <1>7, <1>8, <1>9, <1>10, <1>11, <1>12, ChecklistHistory, PatchHistory,
     StatusHistory, RecordHistory
  DEF Resume

LEMMA HistoryAlways == Spec => [](TInv /\ HistoryInv)
<1>1. Init => HistoryInv
  <2> SUFFICES ASSUME Init PROVE HistoryInv
    OBVIOUS
  <2>1. ASSUME NEW c \in Case, NEW s \in CaseStatus
        PROVE  Rows(c, s) = {} /\ Recorders(c, s) = {} /\ given[c][s] = 0
    BY DEF Init, Rows, Recorders, Recording, Idle, NoneGiven
  <2>2. \A c \in Case : Tally(c)
    BY <2>1, FS_EmptySet DEF Tally
  <2>q. QED BY <2>2 DEF Init, HistoryInv, Exists, NoCase, ReadIsPresent, Idle
<1>2. TInv /\ CalmInv /\ HistoryInv /\ [Next]_vars => HistoryInv'
  <2> SUFFICES ASSUME TInv, CalmInv, HistoryInv, [Next]_vars PROVE HistoryInv'
    OBVIOUS
  <2>1. CASE UNCHANGED vars
    BY <2>1 DEF vars, children, history, HistoryInv, Exists, Listed, Tally, Rows, Recorders,
                Chained, Recording, ReadIsPresent
  <2>q. QED BY <2>1, RequestHistory, ResumeHistory, FailHistory DEF Next
<1>q. QED BY <1>1, <1>2, InitTyped, InitCalm, NextTyped, NextCalm, PTL DEF Spec

\* Unless a handler for it fails, a case nobody is working on has its checklist, and as many
\* rows of history for each status as it was given it, when it was made and by the status
\* endpoint, in any interleaving.
THEOREM CaseMissesNothing == Spec => []NothingIsMissing
<1>1. HistoryInv => NothingIsMissing
  <2> SUFFICES ASSUME HistoryInv, NEW c \in Case \ broken, Exists(c), Quiet(c)
               PROVE  /\ checklist[c] # "NONE"
                      /\ \A s \in CaseStatus : Cardinality(Rows(c, s)) = given[c][s]
    BY DEF NothingIsMissing
  <2>1. Listed(c) /\ Tally(c)
    BY DEF HistoryInv
  <2>2. ASSUME NEW s \in CaseStatus
        PROVE  Cardinality(Rows(c, s)) = given[c][s]
    <3>1. Recorders(c, s) = {}
      BY DEF Recorders, Recording, Quiet
    <3>2. Cardinality(Recorders(c, s)) = 0 /\ Cardinality(Rows(c, s)) \in Nat
      BY <2>1, <3>1, FS_EmptySet, FS_CardinalityType DEF Tally
    <3>q. QED BY <2>1, <3>2 DEF Tally
  <2>q. QED BY <2>1, <2>2 DEF Listed, Quiet
<1>q. QED BY <1>1, HistoryAlways, PTL

\* As long as requests for it neither overlap nor fail, the history of a case that no PATCH
\* has touched leads from its first status to the present one without a gap.
THEOREM HistoryStaysChain == Spec => []HistoryIsChain
<1>1. HistoryInv => HistoryIsChain
  <2> SUFFICES ASSUME HistoryInv, NEW c \in Case \ (crossed \cup broken \cup patched),
                      Exists(c), Quiet(c)
               PROVE  /\ changes[c][Len(changes[c])].to = case[c].status
                      /\ \A i \in 2 .. Len(changes[c]) :
                           changes[c][i].from = changes[c][i - 1].to
    BY DEF HistoryIsChain
  <2>1. Chained(c) /\ \A r \in Request : ~Recording(r, c)
    BY DEF HistoryInv, Quiet, Recording
  <2>q. QED BY <2>1 DEF Chained
<1>q. QED BY <1>1, HistoryAlways, PTL

===============================================================================
