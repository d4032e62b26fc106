------------------------------ MODULE MCOffice -------------------------------
EXTENDS Office, TLC

\* Sessions and locks, the users of the tenant, and the tenant; roles, permissions and the
\* bootstrap by twos; the client; and the back office, one module at a time.
OfficeMixes ==
  {{"accounts", "login", "wrong", "refresh", "own", "support"},
   {"accounts", "login", "refresh", "users"},
   {"accounts", "login", "refresh", "tenant"},
   {"authority", "roles", "assign"}, {"authority", "roles", "sync"},
   {"authority", "bootstrap", "sync"}, {"authority", "bootstrap", "permissions"},
   {"authority", "sync", "permissions"},
   {"client"},
   {"documents"}, {"templates", "update"}, {"templates", "deactivate"}, {"messages"},
   {"tasks"}, {"approvals"}}

ApprovalMixes == {{"approvals"}}

Confirmation == {<<"BOOKING_CONFIRMATION", "EMAIL">>, <<"BOOKING_CONFIRMATION", "WHATSAPP">>}
=============================================================================
