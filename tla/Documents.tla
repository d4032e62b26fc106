------------------------------ MODULE Documents -------------------------------
(***************************************************************************)
(* ClientDocumentsService and DocumentTemplatesService: documents whose    *)
(* status is computed from their expiry when they are written, or for all  *)
(* of them when a refresh is asked for; and templates of which one is the  *)
(* default of its type.                                                    *)
(*                                                                         *)
(* Of a document only expiry and status are modelled, of a template only   *)
(* what findDefault looks at.  Names of templates are left out: a name that*)
(* is taken ends a creation before its first write, or at its insert.      *)
(***************************************************************************)
EXTENDS Handlers, Integers

CONSTANTS
  Document,      \* ids a client document may get
  Template,      \* ids a document template may get
  TemplateType,
  Horizon,       \* the last day that is looked at
  Soon           \* days before its expiry in which a document is EXPIRING_SOON

ASSUME DocumentsAssumption == Horizon \in Nat /\ Soon \in Nat

VARIABLES
  today,
  document,  \* table client_documents
  template,  \* table document_templates
  (*************************** history variables ***************************)
  fresh,     \* documents whose status has been computed today
  retyped    \* a template that is a default has been given another type

documentTables == <<document, template, today>>
documentHistory == <<fresh, retyped>>
documentVars == <<documentTables, documentHistory>>

Day == 0 .. Horizon
NoDocument == [status |-> "NONE", expiry |-> Null]
NoTemplate == [type |-> Null, isDefault |-> FALSE, isActive |-> FALSE]

DocumentsInit ==
  /\ today = 0
  /\ document = [d \in Document |-> NoDocument]
  /\ template = [t \in Template |-> NoTemplate]
  /\ fresh = {}
  /\ retyped = FALSE

-----------------------------------------------------------------------------
(* Client documents                                                        *)

computeStatus(expiry) ==
  IF expiry = Null THEN "UNKNOWN"
  ELSE IF expiry < today THEN "EXPIRED"
  ELSE IF expiry - today <= Soon THEN "EXPIRING_SOON" ELSE "VALID"

Stored(d) == document[d].status \notin {"NONE", "REMOVED"}

CreateDocument(d, expiry) ==
  /\ document[d] = NoDocument
  /\ document' = [document EXCEPT ![d] = [status |-> computeStatus(expiry), expiry |-> expiry]]
  /\ fresh' = fresh \cup {d}
  /\ AtOnce
  /\ UNCHANGED <<template, today, retyped>>

\* The body has another expiry, or none (Null).
UpdateDocument(r, d, expiry) ==
  /\ Stored(d)
  /\ Start(r, "writeDocument", d, expiry)
  /\ UNCHANGED documentVars

\* [mutant] The status is left to the next refresh.
WriteDocumentOnly(r) ==
  LET d == req[r].on  expiry == req[r].seen
  IN  /\ At(r, "writeDocument")
      /\ IF Stored(d) /\ expiry # Null
         THEN /\ document' = [document EXCEPT ![d].expiry = expiry]
              /\ fresh' = fresh \cup {d}
         ELSE UNCHANGED <<document, fresh>>
      /\ Finish(r)
      /\ UNCHANGED <<template, today, retyped>>

\* The statement has no effect when the row is gone, and the request fails.
WriteDocument(r) ==
  LET d == req[r].on  expiry == req[r].seen
  IN  /\ At(r, "writeDocument")
      /\ IF Stored(d) /\ expiry # Null
         THEN /\ document' = [document EXCEPT ![d] = [status |-> computeStatus(expiry),
                                                      expiry |-> expiry]]
              /\ fresh' = fresh \cup {d}
         ELSE UNCHANGED <<document, fresh>>
      /\ Finish(r)
      /\ UNCHANGED <<template, today, retyped>>

RemoveDocument(r, d) ==
  /\ Stored(d)
  /\ Start(r, "deleteDocument", d, Null)
  /\ UNCHANGED documentVars

DeleteDocument(r) ==
  /\ At(r, "deleteDocument")
  /\ document' = [document EXCEPT ![req[r].on] = [status |-> "REMOVED", expiry |-> Null]]
  /\ Finish(r)
  /\ UNCHANGED <<template, today, documentHistory>>

\* All documents that expire are read, and their statuses computed.
RefreshStatuses(r) ==
  /\ Start(r, "writeStatuses", Null,
           [day |-> today,
            status |-> [d \in {x \in Document : Stored(x) /\ document[x].expiry # Null} |->
                          computeStatus(document[d].expiry)]])
  /\ UNCHANGED documentVars

\* One transaction: it fails as a whole if a document has been deleted meanwhile.
WriteStatuses(r) ==
  LET of == req[r].seen.status
  IN  /\ At(r, "writeStatuses")
      /\ IF \A d \in DOMAIN of : Stored(d)
         THEN /\ document' = [d \in Document |->
                                IF d \in DOMAIN of
                                THEN [document[d] EXCEPT !.status = of[d]] ELSE document[d]]
              /\ fresh' = IF req[r].seen.day = today
                         THEN fresh \cup DOMAIN of ELSE fresh \ DOMAIN of
         ELSE UNCHANGED <<document, fresh>>
      /\ Finish(r)
      /\ UNCHANGED <<template, today, retyped>>

DayPasses ==
  /\ today < Horizon
  /\ today' = today + 1
  /\ fresh' = {}
  /\ UNCHANGED <<handlers, document, template, retyped>>

-----------------------------------------------------------------------------
(* Document templates                                                      *)

\* The insert follows a look at the name and, for a default, the end of the other defaults.
CreateTemplate(r, t, type, isDefault) ==
  /\ template[t] = NoTemplate
  /\ \A s \in Request : req[s].on # t
  /\ Start(r, IF isDefault THEN "clearDefaults" ELSE "insertTemplate", t,
           [type |-> type, isDefault |-> isDefault])
  /\ UNCHANGED documentVars

\* updateMany: the defaults of a type among some templates are no longer defaults.
Cleared(type, among) ==
  [t \in Template |->
     IF t \in among /\ template[t].type = type
     THEN [template[t] EXCEPT !.isDefault = FALSE] ELSE template[t]]

ClearDefaults(r) ==
  /\ At(r, "clearDefaults")
  /\ template' = Cleared(req[r].seen.type, Template)
  /\ Proceed(r, "insertTemplate", req[r].seen)
  /\ UNCHANGED <<document, today, documentHistory>>

InsertTemplate(r) ==
  /\ At(r, "insertTemplate")
  /\ template' = [template EXCEPT ![req[r].on] = [type |-> req[r].seen.type,
                                                  isDefault |-> req[r].seen.isDefault,
                                                  isActive |-> TRUE]]
  /\ Finish(r)
  /\ UNCHANGED <<document, today, documentHistory>>

\* The body has a type or none (Null), and isDefault or not.
UpdateTemplate(r, t, type, isDefault) ==
  /\ template[t] # NoTemplate
  /\ Start(r, IF isDefault = "true" THEN "readType" ELSE "writeTemplate", t,
           [type |-> type, isDefault |-> isDefault])
  /\ UNCHANGED documentVars

ReadType(r) ==
  /\ At(r, "readType")
  /\ Proceed(r, "clearOthers", [type |-> req[r].seen.type, isDefault |-> "true",
                                stored |-> template[req[r].on].type])
  /\ UNCHANGED documentVars

\* [mutant] id equal to the template's instead of different from it.
ClearOthersItself(r) ==
  /\ At(r, "clearOthers")
  /\ template' = Cleared(req[r].seen.stored, {req[r].on})
  /\ Proceed(r, "writeTemplate", req[r].seen)
  /\ UNCHANGED <<document, today, documentHistory>>

ClearOthers(r) ==
  /\ At(r, "clearOthers")
  /\ template' = Cleared(req[r].seen.stored, Template \ {req[r].on})
  /\ Proceed(r, "writeTemplate", req[r].seen)
  /\ UNCHANGED <<document, today, documentHistory>>

Written(row, dto) ==
  [row EXCEPT !.type = IF dto.type = Null THEN @ ELSE dto.type,
              !.isDefault = IF dto.isDefault = "absent" THEN @ ELSE dto.isDefault = "true"]

WriteTemplate(r) ==
  LET t == req[r].on
      row == Written(template[t], req[r].seen)
  IN  /\ At(r, "writeTemplate")
      /\ template' = [template EXCEPT ![t] = row]
      /\ retyped' = (retyped \/ (row.isDefault /\ row.type # template[t].type))
      /\ Finish(r)
      /\ UNCHANGED <<document, today, fresh>>

RemoveTemplate(r, t) ==
  /\ template[t] # NoTemplate
  /\ Start(r, "deactivate", t, Null)
  /\ UNCHANGED documentVars

Deactivate(r) ==
  /\ At(r, "deactivate")
  /\ template' = [template EXCEPT ![req[r].on].isActive = FALSE]
  /\ Finish(r)
  /\ UNCHANGED <<document, today, documentHistory>>

-----------------------------------------------------------------------------
DocumentRequest(r) ==
  \/ \E d \in Document, expiry \in Day \cup {Null} : UpdateDocument(r, d, expiry)
  \/ \E d \in Document : RemoveDocument(r, d)
  \/ RefreshStatuses(r)

TemplateRequest(r) ==
  \/ \E t \in Template, type \in TemplateType, isDefault \in BOOLEAN :
       CreateTemplate(r, t, type, isDefault)
  \/ /\ "update" \in mix
     /\ \E t \in Template, type \in TemplateType \cup {Null},
           isDefault \in {"true", "false", "absent"} : UpdateTemplate(r, t, type, isDefault)
  \/ "deactivate" \in mix /\ \E t \in Template : RemoveTemplate(r, t)

DocumentStep(r) ==
  \/ WriteDocument(r) \/ DeleteDocument(r) \/ WriteStatuses(r)
  \/ ClearDefaults(r) \/ InsertTemplate(r)
  \/ ReadType(r) \/ ClearOthers(r) \/ WriteTemplate(r) \/ Deactivate(r)
  \/ Fail(r) /\ UNCHANGED documentVars

DocumentsNext ==
  \/ /\ "documents" \in mix
     /\ \/ \E d \in Document, expiry \in Day \cup {Null} : CreateDocument(d, expiry)
        \/ DayPasses
        \/ \E r \in Request : DocumentRequest(r)
  \/ "templates" \in mix /\ \E r \in Request : TemplateRequest(r)
  \/ \E r \in Request : DocumentStep(r)

DocumentsSpec ==
  /\ HandlersInit /\ DocumentsInit
  /\ [][DocumentsNext]_<<handlers, documentVars>>

-----------------------------------------------------------------------------
Severity == [VALID |-> 0, EXPIRING_SOON |-> 1, EXPIRED |-> 2, UNKNOWN |-> 0]

\* While requests do not overlap, the status of a document never says worse than its expiry
\* does today, and says the same on the day it was computed (computeStatus in create, update
\* and refreshStatuses; a document ages in between).
StatusTellsExpiry ==
  alone => \A d \in Document : Stored(d) =>
    LET now == computeStatus(document[d].expiry)
    IN  /\ (document[d].status = "UNKNOWN") <=> (document[d].expiry = Null)
        /\ Severity[document[d].status] <= Severity[now]
        /\ d \in fresh => document[d].status = now

\* While requests neither overlap nor break, and no default is moved to another type, a type
\* has one default at most (updateMany before the write, in create and update).
OneDefault ==
  calm /\ ~retyped => \A s, t \in Template :
    /\ template[s].isDefault /\ template[t].isDefault
    /\ template[s].type = template[t].type
    => s = t
=============================================================================
