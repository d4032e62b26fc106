----------------------------- MODULE Endpoints -------------------------------
(***************************************************************************)
(* What the endpoints take and give that the administration pages use: the *)
(* query parameters and body fields they accept (ValidationPipe with       *)
(* whitelist and forbidNonWhitelisted refuses every other one), the values *)
(* of the enumerations among them, and the parts of an answer.             *)
(***************************************************************************)
EXTENDS Routes

\* A DTO has its fields; a field of an enumeration takes a value of it.
Dto(fields, values) ==
  [open |-> FALSE, fields |-> fields \cup DOMAIN values, values |-> values]

\* Parameters without a class that the pipe could look at: the database refuses a value
\* that is not in an enumeration, and nothing else is checked.
Unchecked(values) == [open |-> TRUE, fields |-> DOMAIN values, values |-> values]

\* ValidationPipe; IsOptional lets undefined pass, never an empty string.
Accepts(dto, params) ==
  /\ dto.open \/ DOMAIN params \subseteq dto.fields
  /\ \A f \in DOMAIN params \cap DOMAIN dto.values : params[f] \in dto.values[f]

-----------------------------------------------------------------------------
(* Enumerations of the schema                                              *)

ClientStatus == {"ACTIVE", "INACTIVE", "BLACKLISTED"}
ClientSource == {"WALK_IN", "REFERRAL", "WEBSITE", "SOCIAL_MEDIA", "EMAIL_CAMPAIGN", "PHONE",
                 "PARTNER", "OTHER"}
LeadStatus == {"NEW", "CONTACTED", "QUALIFIED", "PROPOSAL_SENT", "WON", "LOST", "ARCHIVED"}
OpportunityStage == {"PROSPECTING", "QUALIFICATION", "PROPOSAL", "NEGOTIATION", "CLOSED_WON",
                     "CLOSED_LOST"}
QuotationStatus == {"DRAFT", "SENT", "VIEWED", "ACCEPTED", "REJECTED", "EXPIRED", "CONVERTED"}
CaseStatus == {"INQUIRY", "CONFIRMED", "IN_PROGRESS", "COMPLETED", "CANCELLED", "REFUNDED"}
BookingType == {"FLIGHT", "HOTEL", "PACKAGE", "CRUISE", "TRAIN", "FERRY", "CAR_RENTAL",
                "TRANSFER", "EXCURSION", "INSURANCE", "VISA", "TICKET", "OTHER"}
BookingStatus == {"ON_REQUEST", "PENDING", "CONFIRMED", "CANCELLED", "REFUNDED", "NO_SHOW"}
InvoiceStatus == {"DRAFT", "ISSUED", "SENT", "PAID", "PARTIALLY_PAID", "OVERDUE", "CANCELLED",
                  "REFUNDED"}
PaymentDirection == {"INCOMING", "OUTGOING"}
PaymentStatus == {"PENDING", "COMPLETED", "FAILED", "REFUNDED", "CANCELLED"}
ClientDocumentType == {"PASSPORT", "IDENTITY_CARD", "DRIVING_LICENSE", "VISA", "HEALTH_CARD",
                       "TAX_CODE_CARD", "RESIDENCE_PERMIT", "OTHER"}
ClientDocumentStatus == {"VALID", "EXPIRING_SOON", "EXPIRED", "UNKNOWN"}
SupplierType == {"AIRLINE", "HOTEL_CHAIN", "HOTEL_INDEPENDENT", "TOUR_OPERATOR", "CRUISE_LINE",
                 "TRAIN_OPERATOR", "FERRY_OPERATOR", "CAR_RENTAL", "TRANSFER_COMPANY",
                 "EXCURSION_PROVIDER", "INSURANCE_COMPANY", "VISA_AGENCY", "GDS", "BEDBANK",
                 "OTHER"}
CommunicationChannel == {"EMAIL", "WHATSAPP", "SMS", "PHONE", "CHAT"}
CommunicationStatus == {"DRAFT", "QUEUED", "SENT", "DELIVERED", "READ", "FAILED", "BOUNCED"}
TaskStatus == {"TODO", "IN_PROGRESS", "DONE", "CANCELLED"}
TaskPriority == {"LOW", "MEDIUM", "HIGH", "URGENT"}
Period == {"1M", "3M", "6M", "12M"}

-----------------------------------------------------------------------------
(* Query parameters and bodies                                             *)

Paged == {"page", "limit"}
Sorted == Paged \cup {"search", "sortBy", "sortOrder"}

QueryClientsDto ==
  Dto(Sorted \cup {"type", "isVip", "assignedToId", "city", "tagId"},
      [status |-> ClientStatus, source |-> ClientSource])
QueryLeadsDto ==
  Dto(Sorted \cup {"priority", "source", "assignedToId", "destination", "tagId"},
      [status |-> LeadStatus])
QueryOpportunitiesDto == Unchecked([stage |-> OpportunityStage])
QueryQuotationsDto ==
  Dto(Sorted \cup {"clientId", "leadId", "assignedToId", "destination"},
      [status |-> QuotationStatus])
\* [mutant] The search of cases is not declared.
QueryCasesDtoPaged ==
  Dto(Paged \cup {"clientId", "assignedToId", "destination"}, [status |-> CaseStatus])

QueryCasesDto ==
  Dto(Sorted \cup {"clientId", "assignedToId", "destination"}, [status |-> CaseStatus])
QueryBookingsDto ==
  Dto(Sorted \cup {"caseId", "clientId", "assignedToId", "from", "to"},
      [type |-> BookingType, status |-> BookingStatus])
QueryInvoicesDto ==
  Dto(Sorted \cup {"type", "clientId", "caseId", "from", "to", "overdue"},
      [status |-> InvoiceStatus])
QueryPaymentsDto ==
  Dto(Paged \cup {"method", "clientId", "invoiceId", "from", "to"},
      [status |-> PaymentStatus, direction |-> PaymentDirection])
QueryDocumentsDto ==
  Dto(Paged \cup {"clientId", "passengerId", "search", "expiringWithinDays"},
      [type |-> ClientDocumentType, status |-> ClientDocumentStatus])
QuerySuppliersDto ==
  Dto(Sorted \cup {"status", "isPreferred", "country"}, [type |-> SupplierType])
QueryCommunicationsDto ==
  Dto(Paged \cup {"clientId", "caseId", "search"},
      [channel |-> CommunicationChannel, status |-> CommunicationStatus])
QueryTasksDto == Unchecked([status |-> TaskStatus, priority |-> TaskPriority])
PeriodDto == Dto({}, [period |-> Period])

CreateClientDto ==
  Dto({"type", "firstName", "lastName", "companyName", "taxCode", "vatNumber", "birthDate",
       "email", "phone", "mobile", "website", "address", "city", "province", "postalCode",
       "country", "preferredLanguage", "preferredCurrency", "isVip", "isNewsletterSubscribed",
       "internalNotes", "assignedToId", "tagIds"},
      [source |-> ClientSource, status |-> ClientStatus])
CreateCaseDto ==
  Dto({"title", "description", "clientId", "leadId", "quotationId", "destination",
       "departureDate", "returnDate", "numberOfPeople", "travelType", "currency", "totalAmount",
       "assignedToId", "internalNotes"},
      [status |-> CaseStatus])
CreateTaskDto == Unchecked([priority |-> TaskPriority])
UpdateTaskDto == Unchecked([priority |-> TaskPriority, status |-> TaskStatus])

-----------------------------------------------------------------------------
(* Answers: the rows of a page of a list, or the parts of one object; "x[]"*)
(* is a part that is an array.                                             *)

Rows(fields) == [shape |-> "rows", has |-> fields]
Parts(fields) == [shape |-> "parts", has |-> fields]

Client == {"id", "firstName", "lastName", "companyName", "email", "phone"}

ClientsFindAll ==
  Rows(Client \cup {"type", "status", "isVip", "tags[]", "totalSpent", "totalBookings",
                    "createdAt"})
LeadsFindAll ==
  Rows({"id", "firstName", "lastName", "email", "phone", "status", "priority", "source",
        "destination", "departureDate", "budget", "assignedTo", "createdAt"})
LeadsPipelineStats ==
  Parts({"byStatus[]", "bySource[]", "byPriority[]", "recentLeads[]", "total",
         "conversionRate", "avgBudget"})
OpportunitiesFindAll ==
  Rows({"id", "title", "description", "stage", "probability", "estimatedValue", "currency",
        "expectedCloseDate", "assignedTo", "client", "lead", "createdAt"})
OpportunitiesPipelineStats == Parts({"byStage[]", "pipeline"})
QuotationsFindAll ==
  Rows({"id", "number", "status", "destination", "departureDate", "currency", "totalAmount",
        "totalMargin", "marginPercent", "validUntil", "createdAt", "client", "lead",
        "assignedTo", "items[]", "_count.items"})
QuotationsStats ==
  Parts({"byStatus[]", "totals._count", "totals._sum", "topDestinations[]", "conversionRate"})
CasesFindAll ==
  Rows({"id", "number", "title", "status", "destination", "departureDate", "returnDate",
        "totalAmount", "totalPaid", "balance", "client", "lead", "assignedTo",
        "_count.passengers", "_count.services", "_count.checklists", "_count.notes"})
\* [mutant] The cases that start soon are left out.
CasesStatsShort == Parts({"byStatus[]", "financial"})

CasesStats == Parts({"byStatus[]", "upcoming[]", "financial"})
CasesFindOne ==
  Parts({"id", "number", "title", "status", "destination", "departureDate", "returnDate",
         "numberOfPeople", "totalAmount", "totalCost", "totalPaid", "balance",
         "internalNotes", "client", "passengers[]", "itinerary[]", "services[]",
         "checklists[]", "notes[]", "statusHistory[]"})
BookingsFindAll ==
  Rows({"id", "number", "type", "status", "description", "supplierName", "confirmationCode",
        "serviceDate", "currency", "amount", "cost", "marginAmount", "marginPercent",
        "isPaidToSupplier", "case", "client", "assignedTo"})
InvoicesFindAll ==
  Rows({"id", "number", "type", "status", "issuedAt", "dueDate", "currency", "totalAmount",
        "paidAmount", "balanceDue", "clientName", "client", "case"})
InvoicesStats ==
  Parts({"byStatus[]", "totals._count", "totals._sum", "overdue._sum", "overdue._count",
         "currentMonth"})
PaymentsFindAll ==
  Rows({"id", "direction", "method", "status", "amount", "currency", "reference", "paidAt",
        "invoice", "client"})
PaymentsCashFlow == Parts({"monthly", "yearly", "byMethod[]"})
DocumentsFindAll ==
  Rows({"id", "type", "status", "documentNumber", "expiryDate", "nationality",
        "holderFirstName", "holderLastName", "client"})
SuppliersFindAll ==
  Rows({"id", "type", "status", "name", "code", "country", "email", "contactPerson",
        "defaultCommissionRate", "overallScore", "isPreferred"})
CommunicationsFindAll ==
  Rows({"id", "channel", "direction", "status", "toAddress", "subject", "body", "sentAt",
        "createdAt", "client", "author"})
CommunicationsStats == Parts({"byChannel[]", "byStatus[]", "recent[]", "total"})

Task == {"id", "title", "description", "status", "priority", "dueDate", "assignedTo"}

TasksFindAll == Rows(Task)
TasksMine ==
  Parts({"todo", "overdue", "dueToday", "dueThisWeek", "tasks[]"})
SettingsFindAll == Parts({"a value by key"})

DashboardKpis ==
  Parts({"revenue.thisMonth", "revenue.lastMonth", "revenue.changePercent", "revenue.ytd",
         "margins.ytd", "margins.percent", "leads.total", "leads.new", "leads.won",
         "leads.conversionRate", "cases.active", "cases.completed", "cases.upcoming",
         "clients.total", "clients.newThisMonth", "alerts.bookingsPending",
         "alerts.overdueInvoices", "alerts.overdueAmount"})
SalesAnalytics ==
  Parts({"quotationsByStatus[]", "monthlyRevenue", "topDestinations[]", "topAgents[]",
         "conversionFunnel[]"})
MarginAnalytics ==
  Parts({"byServiceType[]", "bySupplier[]", "quotationSummary", "bookingSummary",
         "overall.totalRevenue", "overall.totalCost", "overall.totalMargin",
         "overall.marginPercent"})
ClientAnalytics ==
  Parts({"bySource[]", "byType[]", "topClients[]", "vipStats", "monthlyAcquisition"})
Forecasts == Parts({"historical", "forecast[]", "avgMonthlyGrowthRate"})
=============================================================================
