------------------------------ MODULE BackOffice ------------------------------
(***************************************************************************)
(* What the office does beside its cases: documents, messages, tasks and   *)
(* approvals.  Each module has its own tables; in a behaviour the one whose*)
(* endpoints are in mix is at work.                                        *)
(***************************************************************************)
EXTENDS Documents, Communications, Workflows

officeVars == <<documentVars, communicationVars, workflowVars>>

BackOfficeInit == DocumentsInit /\ CommunicationsInit /\ WorkflowsInit

BackOfficeNext ==
  \/ /\ mix \cap {"documents", "templates"} # {} /\ DocumentsNext
     /\ UNCHANGED <<communicationVars, workflowVars>>
  \/ "messages" \in mix /\ CommunicationsNext /\ UNCHANGED <<documentVars, workflowVars>>
  \/ /\ mix \cap {"tasks", "approvals"} # {} /\ WorkflowsNext
     /\ UNCHANGED <<documentVars, communicationVars>>
=============================================================================
