------------------------------- MODULE Bookings -------------------------------
(***************************************************************************)
(* BookingsService: the table bookings and the statistics it keeps in the  *)
(* rows of clients.  A handler is one action per database statement and    *)
(* req[r] is what it carries between them, as in InvoiceLedger.            *)
(*                                                                         *)
(* After an insert or a deletion syncClientStats counts the bookings of    *)
(* the client again and writes what it found.  Commissions are part of the *)
(* cost, percentages and dates are left out; numbers are the subject of    *)
(* DocumentNumbering.                                                      *)
(***************************************************************************)
EXTENDS Integers, FiniteSets, Functions

CONSTANTS
  Booking,   \* ids a booking row may get
  Client,    \* client rows, which exist from the start
  Amount,    \* what a booking may be sold for
  Cost,      \* what it may cost
  Request,   \* HTTP requests being served at the same time
  MayFail,   \* may a handler die between two statements?
  Null

ASSUME BookingsAssumption ==
  /\ Amount \subseteq Nat
  /\ Cost \subseteq Nat
  /\ MayFail \in BOOLEAN
  /\ Null \notin Booking \cup Client

VARIABLES
  booking,  \* table bookings
  stats,    \* table clients: totalBookings and totalSpent
  req,      \* the handlers in progress
  (*************************** history variables ***************************)
  crossed,  \* bookings and clients that two requests have worked on at a time
  broken,   \* clients whose statistics a handler failed to write
  repriced  \* clients with a booking whose amount changed after their last sync

vars == <<booking, stats, req, crossed, broken, repriced>>

-----------------------------------------------------------------------------
\* ON_REQUEST and NO_SHOW are treated like PENDING, REFUNDED like CANCELLED.
BookingStatus == {"PENDING", "CONFIRMED", "CANCELLED"}

NoBooking == [status |-> "ABSENT", deleted |-> FALSE, client |-> Null,
              amount |-> 0, cost |-> 0, margin |-> 0]
BookingRow == [status : BookingStatus, deleted : BOOLEAN, client : Client \cup {Null},
               amount : Nat, cost : Nat, margin : Int]

\* `read` is what the handler has read: the amount and the cost of the booking, or the
\* number of the client's bookings and the sum of their amounts.
Idle == [at |-> "idle", booking |-> Null, client |-> Null, read |-> <<0, 0>>]
Steps == {"update", "confirm", "cancel", "remove", "aggregate", "writeStats"}
Handler ==
  {Idle} \cup [at : Steps, booking : Booking, client : Client \cup {Null}, read : Nat \X Nat]

Init ==
  /\ booking = [b \in Booking |-> NoBooking]
  /\ stats = [c \in Client |-> [count |-> 0, spent |-> 0]]
  /\ req = [r \in Request |-> Idle]
  /\ crossed = {}
  /\ broken = {}
  /\ repriced = {}

-----------------------------------------------------------------------------
Exists(b) == booking[b].status # "ABSENT"

\* findOne
Found(b) == Exists(b) /\ ~booking[b].deleted

BookingsOf(c) == {b \in Booking : Found(b) /\ booking[b].client = c}

Spent(bs) == SumFunction([b \in bs |-> booking[b].amount])

\* computeFinancials
Margin(amount, cost) == amount - cost

At(r, step) == req[r].at = step
Finish(r) == req' = [req EXCEPT ![r] = Idle]

\* A handler works on the booking that it has read and is about to write, and on the client
\* whose statistics it computes, from before it deletes a booking.
WorksOn(h, x) ==
  \/ h.booking = x /\ h.at \in {"update", "confirm", "cancel", "remove"}
  \/ h.client = x /\ h.at \in {"remove", "aggregate", "writeStats"}

\* The first statement of a request is done; h is what remains of its handler.
Arrive(r, h) ==
  /\ req[r] = Idle
  /\ req' = [req EXCEPT ![r] = h]
  /\ crossed' = crossed \cup
       {x \in Booking \cup Client : WorksOn(h, x) /\ \E s \in Request : WorksOn(req[s], x)}
  /\ UNCHANGED <<stats, broken, repriced>>

\* The first statement of a handler that works on booking b.
Start(r, b, step) ==
  /\ Found(b)
  /\ Arrive(r, [at |-> step, booking |-> b, client |-> booking[b].client,
                read |-> <<booking[b].amount, booking[b].cost>>])
  /\ UNCHANGED booking

\* A write to the row of the handler's booking, by the statement that ends the handler.
Write(r, step, row) ==
  /\ At(r, step)
  /\ booking' = [booking EXCEPT ![req[r].booking] = row]
  /\ Finish(r)
  /\ UNCHANGED <<stats, crossed, broken>>

Row(r) == booking[req[r].booking]

-----------------------------------------------------------------------------
Create(r, b, c) ==
  /\ ~Exists(b)
  /\ \E s \in BookingStatus, amount \in Amount, cost \in Cost :
       booking' = [booking EXCEPT ![b] = [status |-> s, deleted |-> FALSE, client |-> c,
                                          amount |-> amount, cost |-> cost,
                                          margin |-> Margin(amount, cost)]]
  /\ Arrive(r, IF c = Null THEN Idle
               ELSE [Idle EXCEPT !.at = "aggregate", !.booking = b, !.client = c])

UpdateRead(r, b) == Start(r, b, "update")

\* [mutant] the margin is computed from what the request brings and 0 for the rest
UpdateWriteNoDefaults(r) ==
  \E amount \in Amount, cost \in Cost, newAmount, newCost \in BOOLEAN :
    /\ Write(r, "update", [Row(r) EXCEPT
          !.amount = IF newAmount THEN amount ELSE @,
          !.cost = IF newCost THEN cost ELSE @,
          !.margin = Margin(IF newAmount THEN amount ELSE 0, IF newCost THEN cost ELSE 0)])
    /\ repriced' = IF newAmount THEN repriced \cup {req[r].client} ELSE repriced

\* The request brings an amount, a cost, both or neither; the margin is computed from them
\* and from what was read.  The client's statistics are not computed again.
UpdateWrite(r) ==
  \E amount \in Amount \cup {req[r].read[1]}, cost \in Cost \cup {req[r].read[2]},
     newAmount, newCost \in BOOLEAN :
    /\ ~newAmount => amount = req[r].read[1]
    /\ ~newCost => cost = req[r].read[2]
    /\ Write(r, "update", [Row(r) EXCEPT !.amount = IF newAmount THEN amount ELSE @,
                                         !.cost = IF newCost THEN cost ELSE @,
                                         !.margin = Margin(amount, cost)])
    /\ repriced' = IF newAmount THEN repriced \cup {req[r].client} ELSE repriced

ConfirmRead(r, b) == booking[b].status # "CONFIRMED" /\ Start(r, b, "confirm")

ConfirmWrite(r) ==
  Write(r, "confirm", [Row(r) EXCEPT !.status = "CONFIRMED"]) /\ UNCHANGED repriced

CancelRead(r, b) == Start(r, b, "cancel")

CancelWrite(r) ==
  Write(r, "cancel", [Row(r) EXCEPT !.status = "CANCELLED"]) /\ UNCHANGED repriced

\* [mutant] a confirmed booking is deleted like any other
RemoveReadAny(r, b) == Start(r, b, "remove")

RemoveRead(r, b) == booking[b].status # "CONFIRMED" /\ Start(r, b, "remove")

RemoveWrite(r) ==
  /\ At(r, "remove")
  /\ booking' = [booking EXCEPT ![req[r].booking].deleted = TRUE]
  /\ IF req[r].client = Null THEN Finish(r)
     ELSE req' = [req EXCEPT ![r].at = "aggregate"]
  /\ UNCHANGED <<stats, crossed, broken, repriced>>

\* [mutant] cancelled bookings are not counted
AggregateUncancelled(r) ==
  /\ At(r, "aggregate")
  /\ LET bs == {b \in BookingsOf(req[r].client) : booking[b].status # "CANCELLED"}
     IN req' = [req EXCEPT ![r].at = "writeStats", ![r].read = <<Cardinality(bs), Spent(bs)>>]
  /\ repriced' = repriced \ {req[r].client}
  /\ UNCHANGED <<booking, stats, crossed, broken>>

\* syncClientStats reads ...
Aggregate(r) ==
  /\ At(r, "aggregate")
  /\ LET bs == BookingsOf(req[r].client)
     IN req' = [req EXCEPT ![r].at = "writeStats", ![r].read = <<Cardinality(bs), Spent(bs)>>]
  /\ repriced' = repriced \ {req[r].client}
  /\ UNCHANGED <<booking, stats, crossed, broken>>

\* ... and writes.
WriteStats(r) ==
  /\ At(r, "writeStats")
  /\ stats' = [stats EXCEPT ![req[r].client] = [count |-> req[r].read[1],
                                                spent |-> req[r].read[2]]]
  /\ Finish(r)
  /\ UNCHANGED <<booking, crossed, broken, repriced>>

-----------------------------------------------------------------------------
\* The bookings of the handler's client have changed and its statistics have not.
Syncing(r) == req[r].at \in {"aggregate", "writeStats"}

\* A rejected statement or a lost connection ends the handler; what it wrote stays.
Fail(r) ==
  /\ MayFail
  /\ req[r] # Idle
  /\ Finish(r)
  /\ broken' = IF Syncing(r) THEN broken \cup {req[r].client} ELSE broken
  /\ UNCHANGED <<booking, stats, crossed, repriced>>

\* The routes of BookingsController that change something.
Begin(r) ==
  \E b \in Booking :
    \/ \E c \in Client \cup {Null} : Create(r, b, c)
    \/ UpdateRead(r, b)
    \/ ConfirmRead(r, b)
    \/ CancelRead(r, b)
    \/ RemoveRead(r, b)

Resume(r) ==
  \/ UpdateWrite(r)
  \/ ConfirmWrite(r)
  \/ CancelWrite(r)
  \/ RemoveWrite(r)
  \/ Aggregate(r)
  \/ WriteStats(r)

Next == \E r \in Request : Begin(r) \/ Resume(r) \/ Fail(r)

Spec == Init /\ [][Next]_vars

-----------------------------------------------------------------------------
\* A client's statistics are those of its bookings as soon as no request computes them - the
\* amounts only until a booking is repriced - unless two requests that compute them have
\* overlapped or one has failed.  Other requests may overlap and fail.
StatsAreCurrent ==
  \A c \in Client \ (crossed \cup broken) :
    (\A r \in Request : Syncing(r) => req[r].client # c) =>
      /\ stats[c].count = Cardinality(BookingsOf(c))
      /\ c \notin repriced => stats[c].spent = Spent(BookingsOf(c))

\* The margin of a booking is that of its amount and cost, also when only one of the two is
\* changed, unless two requests have worked on the booking at a time.
MarginIsCurrent ==
  \A b \in Booking \ crossed :
    booking[b].margin = Margin(booking[b].amount, booking[b].cost)

\* A booking that was confirmed is not deleted ("Cannot delete a confirmed booking. Cancel it
\* first.") nor, once deleted, confirmed, unless two requests have worked on it at a time.
ConfirmedIsKept ==
  \A b \in Booking \ crossed : ~(booking[b].status = "CONFIRMED" /\ booking[b].deleted)

===============================================================================
