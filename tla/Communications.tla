---------------------------- MODULE Communications ----------------------------
(***************************************************************************)
(* CommunicationsService with EmailService and WhatsAppService: a message  *)
(* is stored as QUEUED, handed to the provider of its channel, and then    *)
(* marked as SENT or FAILED; nothing looks at it again.  The providers are *)
(* outside: one may refuse a message, and its answer may get lost.         *)
(***************************************************************************)
EXTENDS Handlers

CONSTANTS
  Message,         \* ids a message may get
  MessageTemplate, \* ids a template of messages may get
  Kind             \* pairs of a type of template and a channel

\* PHONE and CHAT are treated as SMS: there is no provider.
Channel == {"EMAIL", "WHATSAPP", "SMS"}

ASSUME CommunicationsAssumption ==
  /\ Null \notin Message \cup Channel
  /\ \A k \in Kind : k[2] \in Channel

VARIABLES
  message,          \* table communications: the status of a message
  messageTemplate,  \* table communication_templates
  configured,       \* channels with a provider that can be reached
  (*************************** history variables ***************************)
  delivered,        \* messages a provider has taken
  unanswered        \* messages that it has taken without an answer getting back

communicationVars == <<message, messageTemplate, configured, delivered, unanswered>>

NoMessageTemplate == [kind |-> Null, isDefault |-> FALSE]

CommunicationsInit ==
  /\ message = [m \in Message |-> "NONE"]
  /\ messageTemplate = [t \in MessageTemplate |-> NoMessageTemplate]
  /\ configured \in SUBSET {"EMAIL", "WHATSAPP"}
  /\ "messages" \in mix \/ configured = {}
  /\ delivered = {}
  /\ unanswered = {}

-----------------------------------------------------------------------------
(* Messages                                                                *)

Unused(x) == \A r \in Request : req[r].on # x

\* send: the message is inserted.
SendMessage(r, m, channel) ==
  /\ message[m] = "NONE" /\ Unused(m)
  /\ message' = [message EXCEPT ![m] = "QUEUED"]
  /\ Start(r, "dispatch", m, channel)
  /\ UNCHANGED <<messageTemplate, configured, delivered, unanswered>>

\* sendWithTemplate: the template is read and rendered, and send called.
SendWithTemplate(r, t, m) ==
  /\ messageTemplate[t] # NoMessageTemplate
  /\ message[m] = "NONE" /\ Unused(m)
  /\ Start(r, "insertMessage", m, messageTemplate[t].kind[2])
  /\ UNCHANGED communicationVars

InsertMessage(r) ==
  /\ At(r, "insertMessage")
  /\ message' = [message EXCEPT ![req[r].on] = "QUEUED"]
  /\ Proceed(r, "dispatch", req[r].seen)
  /\ UNCHANGED <<messageTemplate, configured, delivered, unanswered>>

\* There is no provider for the channel.
NoProvider(r) ==
  /\ At(r, "dispatch") /\ req[r].seen \notin configured
  /\ Proceed(r, "failed", Null)
  /\ UNCHANGED communicationVars

ProviderTakes(r) ==
  /\ At(r, "dispatch") /\ req[r].seen \in configured
  /\ delivered' = delivered \cup {req[r].on}
  /\ Proceed(r, "succeeded", Null)
  /\ UNCHANGED <<message, messageTemplate, configured, unanswered>>

\* The provider takes the message and the connection breaks before its answer.
AnswerLost(r) ==
  /\ At(r, "dispatch") /\ req[r].seen \in configured
  /\ delivered' = delivered \cup {req[r].on}
  /\ unanswered' = unanswered \cup {req[r].on}
  /\ Proceed(r, "failed", Null)
  /\ UNCHANGED <<message, messageTemplate, configured>>

\* [mutant] The exception is not caught, and the request ends with it.
ProviderRefusesUncaught(r) ==
  /\ At(r, "dispatch") /\ req[r].seen \in configured
  /\ Finish(r)
  /\ UNCHANGED communicationVars

ProviderRefuses(r) ==
  /\ At(r, "dispatch") /\ req[r].seen \in configured
  /\ Proceed(r, "failed", Null)
  /\ UNCHANGED communicationVars

\* The result is stored.
RecordResult(r) ==
  /\ At(r, "succeeded") \/ At(r, "failed")
  /\ message' = [message EXCEPT ![req[r].on] = IF At(r, "succeeded") THEN "SENT" ELSE "FAILED"]
  /\ Finish(r)
  /\ UNCHANGED <<messageTemplate, configured, delivered, unanswered>>

\* transporter.verify calls back, at any time after the start.
VerifyFails ==
  /\ "EMAIL" \in configured
  /\ configured' = configured \ {"EMAIL"}
  /\ UNCHANGED <<handlers, message, messageTemplate, delivered, unanswered>>

-----------------------------------------------------------------------------
(* Templates of messages                                                   *)

\* createTemplate with isDefault: the other defaults of the kind end first.
CreateDefaultMessageTemplate(r, t, kind) ==
  /\ messageTemplate[t] = NoMessageTemplate /\ Unused(t)
  /\ messageTemplate' = [x \in MessageTemplate |->
                           IF messageTemplate[x].kind = kind
                           THEN [messageTemplate[x] EXCEPT !.isDefault = FALSE]
                           ELSE messageTemplate[x]]
  /\ Start(r, "insertMessageTemplate", t, kind)
  /\ UNCHANGED <<message, configured, delivered, unanswered>>

InsertMessageTemplate(r) ==
  /\ At(r, "insertMessageTemplate")
  /\ messageTemplate' = [messageTemplate EXCEPT
                           ![req[r].on] = [kind |-> req[r].seen, isDefault |-> TRUE]]
  /\ Finish(r)
  /\ UNCHANGED <<message, configured, delivered, unanswered>>

CreateMessageTemplate(t, kind) ==
  /\ messageTemplate[t] = NoMessageTemplate /\ Unused(t)
  /\ messageTemplate' = [messageTemplate EXCEPT ![t] = [kind |-> kind, isDefault |-> FALSE]]
  /\ AtOnce
  /\ UNCHANGED <<message, configured, delivered, unanswered>>

-----------------------------------------------------------------------------
CommunicationRequest(r) ==
  \/ \E m \in Message, channel \in Channel : SendMessage(r, m, channel)
  \/ \E t \in MessageTemplate, m \in Message : SendWithTemplate(r, t, m)
  \/ \E t \in MessageTemplate, kind \in Kind : CreateDefaultMessageTemplate(r, t, kind)

CommunicationStep(r) ==
  \/ InsertMessage(r) \/ NoProvider(r) \/ ProviderTakes(r) \/ AnswerLost(r)
  \/ ProviderRefuses(r) \/ RecordResult(r) \/ InsertMessageTemplate(r)
  \/ Fail(r) /\ UNCHANGED communicationVars

CommunicationsNext ==
  \/ /\ "messages" \in mix
     /\ \/ \E r \in Request : CommunicationRequest(r)
        \/ \E t \in MessageTemplate, kind \in Kind : CreateMessageTemplate(t, kind)
        \/ VerifyFails
  \/ \E r \in Request : CommunicationStep(r)

CommunicationsSpec ==
  /\ HandlersInit /\ CommunicationsInit
  /\ [][CommunicationsNext]_<<handlers, communicationVars>>

-----------------------------------------------------------------------------
\* A handler is going to record what becomes of the message.
InHand(m) == \E r \in Request : req[r].on = m

\* A SENT message has reached its provider; a FAILED one has not, unless the answer of the
\* provider was lost; and a QUEUED one is being dispatched, unless a handler has died (the
\* results of EmailService.send and WhatsAppService.sendText, and the update after them).
StatusTellsDelivery ==
  \A m \in Message :
    /\ message[m] = "SENT" => m \in delivered
    /\ message[m] = "FAILED" => m \notin delivered \/ m \in unanswered
    /\ message[m] = "QUEUED" => InHand(m) \/ ~unbroken
=============================================================================
