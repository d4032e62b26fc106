------------------------------ MODULE Workflows ------------------------------
(***************************************************************************)
(* WorkflowsService: tasks, approvals and reminders.  Of a task its status *)
(* and whether completedAt is set are modelled; of a reminder whether it is*)
(* done; titles, dates and the other fields are left out.                  *)
(***************************************************************************)
EXTENDS Handlers

CONSTANTS
  Task,      \* ids a task may get
  Approval,  \* ids an approval may get
  Reminder,  \* ids a reminder may get
  Approver   \* users that may be asked for an approval

VARIABLES
  task,      \* table tasks
  approval,  \* table approvals
  reminder,  \* table reminders
  (*************************** history variables ***************************)
  wish       \* what a user entitled to has asked to decide of a PENDING approval

workflowVars == <<task, approval, reminder, wish>>

\* CANCELLED is treated like IN_PROGRESS.
TaskStatus == {"TODO", "IN_PROGRESS", "DONE"}

NoTask == [status |-> "NONE", completed |-> FALSE]
NoApproval == [status |-> "NONE", approver |-> Null]

WorkflowsInit ==
  /\ task = [t \in Task |-> NoTask]
  /\ approval = [a \in Approval |-> NoApproval]
  /\ reminder = [m \in Reminder |-> "NONE"]
  /\ wish = [a \in Approval |-> Null]

-----------------------------------------------------------------------------
(* Tasks                                                                   *)

HasTask(t) == task[t].status \notin {"NONE", "DELETED"}

CreateTask(t) ==
  /\ task[t] = NoTask
  /\ task' = [task EXCEPT ![t].status = "TODO"]
  /\ AtOnce
  /\ UNCHANGED <<approval, reminder, wish>>

\* updateTask and completeTask: the body may have no status (Null).
UpdateTask(r, t, status) ==
  /\ HasTask(t)
  /\ Start(r, "writeTask", t, status)
  /\ UNCHANGED workflowVars

\* The update has no effect, and the request fails, when the task has been deleted.
WriteTask(r) ==
  LET t == req[r].on  status == req[r].seen
  IN  /\ At(r, "writeTask")
      /\ task' = IF HasTask(t) /\ status # Null
                 THEN [task EXCEPT ![t] = [status |-> status, completed |-> status = "DONE"]]
                 ELSE task
      /\ Finish(r)
      /\ UNCHANGED <<approval, reminder, wish>>

DeleteTask(r, t) ==
  /\ HasTask(t)
  /\ Start(r, "eraseTask", t, Null)
  /\ UNCHANGED workflowVars

EraseTask(r) ==
  /\ At(r, "eraseTask")
  /\ task' = [task EXCEPT ![req[r].on] = [status |-> "DELETED", completed |-> FALSE]]
  /\ Finish(r)
  /\ UNCHANGED <<approval, reminder, wish>>

-----------------------------------------------------------------------------
(* Approvals                                                               *)

CreateApproval(a, approver) ==
  /\ approval[a] = NoApproval
  /\ approval' = [approval EXCEPT ![a] = [status |-> "PENDING", approver |-> approver]]
  /\ AtOnce
  /\ UNCHANGED <<task, reminder, wish>>

\* The checks of decide on the approval that it has read.
MayDecide(a, user) ==
  /\ approval[a].status = "PENDING"
  /\ approval[a].approver \in {Null, user}

\* Fields of a decision that DecideApprovalDto declares with a validator.
Validated == {"notes"}

\* The validation pipe (whitelist, forbidNonWhitelisted) refuses a body with any other field:
\* the handler is not called.
RefuseDecision(a, user, body) ==
  /\ ~(DOMAIN body \subseteq Validated)
  /\ wish' = IF MayDecide(a, user) /\ "approved" \in DOMAIN body
             THEN [wish EXCEPT ![a] = IF body.approved THEN "approve" ELSE "reject"] ELSE wish
  /\ AtOnce
  /\ UNCHANGED <<task, approval, reminder>>

Decide(r, a, user, body) ==
  /\ DOMAIN body \subseteq Validated
  /\ MayDecide(a, user)
  /\ Start(r, "writeDecision", a, body)
  /\ UNCHANGED workflowVars

\* Approved when the body says so: what it does not say is not true.
WriteDecision(r) ==
  LET a == req[r].on  body == req[r].seen
      approved == "approved" \in DOMAIN body /\ body.approved
  IN  /\ At(r, "writeDecision")
      /\ approval' = [approval EXCEPT ![a].status = IF approved THEN "APPROVED" ELSE "REJECTED"]
      /\ Finish(r)
      /\ UNCHANGED <<task, reminder, wish>>

-----------------------------------------------------------------------------
(* Reminders                                                               *)

CreateReminder(m) ==
  /\ reminder[m] = "NONE"
  /\ reminder' = [reminder EXCEPT ![m] = "OPEN"]
  /\ AtOnce
  /\ UNCHANGED <<task, approval, wish>>

MarkReminderDone(r, m) ==
  /\ reminder[m] # "NONE"
  /\ Start(r, "writeReminder", m, Null)
  /\ UNCHANGED workflowVars

WriteReminder(r) ==
  /\ At(r, "writeReminder")
  /\ reminder' = [reminder EXCEPT ![req[r].on] = "DONE"]
  /\ Finish(r)
  /\ UNCHANGED <<task, approval, wish>>

-----------------------------------------------------------------------------
Body == {[notes |-> ""]} \cup [approved : BOOLEAN] \cup [approved : BOOLEAN, notes : {""}]

TaskEndpoint ==
  \/ \E t \in Task : CreateTask(t)
  \/ \E r \in Request, t \in Task :
       DeleteTask(r, t) \/ \E status \in TaskStatus \cup {Null} : UpdateTask(r, t, status)
  \/ \E m \in Reminder : CreateReminder(m)
  \/ \E r \in Request, m \in Reminder : MarkReminderDone(r, m)

ApprovalEndpoint ==
  \/ \E a \in Approval, u \in Approver \cup {Null} : CreateApproval(a, u)
  \/ \E a \in Approval, u \in Approver, body \in Body :
       RefuseDecision(a, u, body) \/ \E r \in Request : Decide(r, a, u, body)

WorkflowStep(r) ==
  \/ WriteTask(r) \/ EraseTask(r) \/ WriteDecision(r) \/ WriteReminder(r)
  \/ Fail(r) /\ UNCHANGED workflowVars

WorkflowsNext ==
  \/ "tasks" \in mix /\ TaskEndpoint
  \/ "approvals" \in mix /\ ApprovalEndpoint
  \/ \E r \in Request : WorkflowStep(r)

-----------------------------------------------------------------------------
\* An approval that somebody entitled to has asked to approve while it was pending is APPROVED
\* once no request is in progress (POST approvals/:id/decide).
GrantedIsApproved ==
  unbroken /\ Quiet => \A a \in Approval :
    wish[a] = "approve" => approval[a].status = "APPROVED"
=============================================================================
