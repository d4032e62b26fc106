---------------------------- MODULE Bookings_proofs ----------------------------
(***************************************************************************)
(* Proofs about Bookings for any number of bookings, clients and           *)
(* overlapping requests, and any amounts and costs.  They speak of each    *)
(* booking, and of each client, that no two requests have worked on at a   *)
(* time, whatever is done to the others meanwhile.                         *)
(***************************************************************************)
EXTENDS Bookings, FiniteSetTheorems, TLAPS

\* The statements that write the row of a booking.
RowSteps == {"update", "confirm", "cancel", "remove"}

\* A handler has its fields; the row it is going to write exists and is one of its client's.
\* What a handler carries to writeStats is a sum, of which nothing is needed here.
Fits(h) ==
  /\ h \in Handler \/ h.at = "writeStats"
  /\ h.at \in RowSteps => Exists(h.booking) /\ h.client = booking[h.booking].client
  /\ h.at \in {"aggregate", "writeStats"} => h.client \in Client

Shape ==
  /\ booking \in [Booking -> BookingRow \cup {NoBooking}]
  /\ stats = [c \in Client |-> stats[c]]
  /\ req = [r \in Request |-> req[r]]
  /\ \A r \in Request : Fits(req[r])

\* What becomes of a handler: it ends, or goes on to the statistics of its client.
Goes(r, h) ==
  \/ h = Idle
  \/ /\ h.client = req[r].client /\ req[r].client \in Client
     /\ \/ req[r].at = "remove" /\ h.at = "aggregate" /\ h \in Handler
        \/ req[r].at = "aggregate" /\ h.at = "writeStats"

(* What a statement after the first does, or a failure: it ends the        *)
(* handler, or goes on to the statistics of its client, and it writes at   *)
(* most the row of its booking, which stays and keeps its client.          *)
Move(r) ==
  /\ req' = [s \in Request |-> req'[s]] /\ stats' = [c \in Client |-> stats'[c]]
  /\ \A s \in Request \ {r} : req'[s] = req[s]
  /\ Goes(r, req'[r])
  /\ crossed' = crossed /\ broken \subseteq broken'
  /\ booking' \in [Booking -> BookingRow \cup {NoBooking}]
  /\ \A b \in Booking :
       \/ booking'[b] = booking[b]
       \/ /\ b = req[r].booking /\ req[r].at \in RowSteps
          /\ booking'[b].status # "ABSENT" /\ booking'[b].client = booking[b].client

\* What a handler that is going to write a row knows of it.
LEMMA AtRow ==
  ASSUME Shape, NEW r \in Request, req[r].at \in RowSteps, NEW b, b = req[r].booking
  PROVE  /\ b \in Booking /\ Exists(b) /\ booking[b] \in BookingRow
         /\ req[r].client = booking[b].client
         /\ req[r] \in [at : Steps, booking : Booking, client : Client \cup {Null},
                        read : Nat \X Nat]
<1>1. Fits(req[r]) /\ req[r].at \notin {"idle", "writeStats"}
  BY DEF Shape, RowSteps
<1>2. req[r] \in [at : Steps, booking : Booking, client : Client \cup {Null}, read : Nat \X Nat]
  BY <1>1 DEF Fits, Handler, Idle
<1>3. b \in Booking /\ Exists(b) /\ req[r].client = booking[b].client
  BY <1>1, <1>2 DEF Fits
<1>4. booking[b] \in BookingRow
  BY <1>3 DEF Shape, Exists, NoBooking
<1>q. QED BY <1>2, <1>3, <1>4

\* A statement that writes a row is a move.
LEMMA RowMove ==
  ASSUME Shape, NEW r \in Request, req[r].at \in RowSteps,
         NEW row \in BookingRow, row.client = booking[req[r].booking].client,
         booking' = [booking EXCEPT ![req[r].booking] = row],
         NEW h, Goes(r, h), req' = [req EXCEPT ![r] = h],
         stats' = stats, crossed' = crossed, broken' = broken
  PROVE  Move(r) /\ req'[r] = h /\ booking'[req[r].booking] = row
<1> DEFINE b == req[r].booking
<1>1. /\ b \in Booking
      /\ req[r] \in [at : Steps, booking : Booking, client : Client \cup {Null},
                     read : Nat \X Nat]
  BY AtRow
<1>2. /\ booking'[b] = row /\ \A d \in Booking \ {b} : booking'[d] = booking[d]
      /\ booking' \in [Booking -> BookingRow \cup {NoBooking}]
  BY <1>1 DEF Shape
<1>3. /\ req' = [s \in Request |-> req'[s]] /\ stats' = [c \in Client |-> stats'[c]]
      /\ req'[r] = h /\ \A s \in Request \ {r} : req'[s] = req[s]
  BY DEF Shape
<1>4. Goes(r, req'[r])
  BY <1>3
<1>5. row.status # "ABSENT"
  BY DEF BookingRow, BookingStatus
<1>q. QED BY <1>1, <1>2, <1>3, <1>4, <1>5 DEF Move

\* What is to be shown of a row, and what a handler has read and checked of it.
Sound(row) ==
  /\ row.margin = Margin(row.amount, row.cost)
  /\ ~(row.status = "CONFIRMED" /\ row.deleted)

Guarded(h) ==
  LET row == booking[h.booking]
  IN /\ h.at = "update" => h.read = <<row.amount, row.cost>>
     /\ h.at = "confirm" => ~row.deleted
     /\ h.at = "remove" => row.status # "CONFIRMED"

\* What update, confirm and cancel do to the row of their booking: it stays in the table or
\* out of it, with its amount unless the client counts as repriced, and it is sound if it was
\* and what the handler relies on is so.
Repriced(r, row) ==
  \/ row.amount = booking[req[r].booking].amount /\ repriced' = repriced
  \/ repriced' = repriced \cup {req[r].client}

Keeps(r, row) ==
  /\ row.client = booking[req[r].booking].client
  /\ row.deleted = booking[req[r].booking].deleted
  /\ Guarded(req[r]) /\ Sound(booking[req[r].booking]) => Sound(row)

Wrote(r) ==
  /\ Move(r) /\ req'[r] = Idle /\ stats' = stats /\ broken' = broken
  /\ req[r].at \in {"update", "confirm", "cancel"}
  /\ Keeps(r, booking'[req[r].booking]) /\ Repriced(r, booking'[req[r].booking])

LEMMA WriteStatement ==
  ASSUME Shape, NEW r \in Request, NEW step \in {"update", "confirm", "cancel"},
         NEW row \in BookingRow, Write(r, step, row), Keeps(r, row), Repriced(r, row)
  PROVE  Wrote(r)
<1>1. /\ req[r].at = step /\ booking' = [booking EXCEPT ![req[r].booking] = row]
      /\ req' = [req EXCEPT ![r] = Idle]
      /\ stats' = stats /\ crossed' = crossed /\ broken' = broken
  BY DEF Write, At, Finish
<1>2. req[r].at \in RowSteps
  BY <1>1 DEF RowSteps
<1>3. Goes(r, Idle) /\ row.client = booking[req[r].booking].client
  BY DEF Goes, Keeps
<1>4. Move(r) /\ req'[r] = Idle /\ booking'[req[r].booking] = row
  BY <1>1, <1>2, <1>3, RowMove
<1>q. QED BY <1>1, <1>4 DEF Wrote

LEMMA RowStatement ==
  ASSUME Shape, NEW r \in Request, UpdateWrite(r) \/ ConfirmWrite(r) \/ CancelWrite(r)
  PROVE  Wrote(r)
<1> DEFINE b == req[r].booking
<1>2. ASSUME req[r].at \in RowSteps
      PROVE  /\ booking[b] \in BookingRow
             /\ req[r].read[1] \in Nat /\ req[r].read[2] \in Nat
  BY <1>2, AtRow
<1>3. CASE UpdateWrite(r)
  <2>1. PICK amount \in Amount \cup {req[r].read[1]}, cost \in Cost \cup {req[r].read[2]},
             newAmount \in BOOLEAN, newCost \in BOOLEAN :
          /\ ~newAmount => amount = req[r].read[1]
          /\ ~newCost => cost = req[r].read[2]
          /\ Write(r, "update", [booking[b] EXCEPT
                                   !.amount = IF newAmount THEN amount ELSE @,
                                   !.cost = IF newCost THEN cost ELSE @,
                                   !.margin = Margin(amount, cost)])
          /\ repriced' = IF newAmount THEN repriced \cup {req[r].client} ELSE repriced
    BY <1>3 DEF UpdateWrite, Row
  <2>2. req[r].at = "update"
    BY <2>1 DEF Write, At
  <2>3. booking[b] \in BookingRow /\ req[r].read[1] \in Nat /\ req[r].read[2] \in Nat
    BY <1>2, <2>2 DEF RowSteps
  <2>4. amount \in Nat /\ cost \in Nat
    BY <2>3, BookingsAssumption
  <2>5. PICK a \in Nat : a = IF newAmount THEN amount ELSE booking[b].amount
    BY <2>3, <2>4 DEF BookingRow
  <2>6. PICK k \in Nat : k = IF newCost THEN cost ELSE booking[b].cost
    BY <2>3, <2>4 DEF BookingRow
  <2>7. PICK m \in Int : m = Margin(amount, cost)
    BY <2>4 DEF Margin
  <2>8. PICK row : row = [booking[b] EXCEPT !.amount = a, !.cost = k, !.margin = m]
    OBVIOUS
  <2>9. /\ row \in BookingRow
        /\ row.amount = a /\ row.cost = k /\ row.margin = m
        /\ row.client = booking[b].client /\ row.deleted = booking[b].deleted
        /\ row.status = booking[b].status
    BY <2>3, <2>8 DEF BookingRow
  <2>10. Write(r, "update", row)
    BY <2>1, <2>5, <2>6, <2>7, <2>8
  <2>11. Guarded(req[r]) => req[r].read[1] = booking[b].amount /\ req[r].read[2] = booking[b].cost
    BY <2>2 DEF Guarded
  <2>12. Keeps(r, row)
    BY <2>1, <2>5, <2>6, <2>7, <2>9, <2>11 DEF Sound, Keeps
  <2>13. Repriced(r, row)
    BY <2>1, <2>5, <2>9 DEF Repriced
  <2>q. QED BY <2>9, <2>10, <2>12, <2>13, WriteStatement
<1>4. ASSUME NEW step \in {"confirm", "cancel"}, NEW status \in BookingStatus,
             Write(r, step, [booking[b] EXCEPT !.status = status]), repriced' = repriced,
             status = "CONFIRMED" => step = "confirm"
      PROVE  Wrote(r)
  <2>1. req[r].at = step
    BY <1>4 DEF Write, At
  <2>2. booking[b] \in BookingRow
    BY <1>2, <2>1 DEF RowSteps
  <2>3. PICK row : row = [booking[b] EXCEPT !.status = status]
    OBVIOUS
  <2>4. /\ row \in BookingRow /\ row.status = status
        /\ row.amount = booking[b].amount /\ row.cost = booking[b].cost
        /\ row.margin = booking[b].margin
        /\ row.client = booking[b].client /\ row.deleted = booking[b].deleted
    BY <2>2, <2>3 DEF BookingRow
  <2>5. Keeps(r, row) /\ Repriced(r, row)
    BY <1>4, <2>1, <2>4 DEF Guarded, Sound, Keeps, Repriced
  <2>6. Write(r, step, row)
    BY <1>4, <2>3
  <2>q. QED BY <2>4, <2>5, <2>6, WriteStatement
<1>5. CASE ConfirmWrite(r)
  BY <1>4, <1>5 DEF ConfirmWrite, Row, BookingStatus
<1>6. CASE CancelWrite(r)
  BY <1>4, <1>6 DEF CancelWrite, Row, BookingStatus
<1>q. QED BY <1>3, <1>5, <1>6

\* remove: the booking is marked, and the statistics of its client are to be computed.
Removed(r) ==
  /\ Move(r) /\ req[r].at = "remove"
  /\ stats' = stats /\ broken' = broken /\ repriced' = repriced
  /\ \/ req[r].client = Null /\ req'[r] = Idle
     \/ req[r].client \in Client /\ req'[r].at = "aggregate" /\ req'[r].client = req[r].client
  /\ LET row == booking[req[r].booking]
         new == booking'[req[r].booking]
     IN /\ new.amount = row.amount /\ new.client = row.client
        /\ Guarded(req[r]) /\ Sound(row) => Sound(new)

LEMMA RemoveStatement ==
  ASSUME Shape, NEW r \in Request, RemoveWrite(r)
  PROVE  Removed(r)
<1> DEFINE b == req[r].booking
<1>1. /\ req[r].at = "remove" /\ req[r].at \in RowSteps
      /\ booking' = [booking EXCEPT ![b].deleted = TRUE]
      /\ stats' = stats /\ crossed' = crossed /\ broken' = broken /\ repriced' = repriced
  BY DEF RemoveWrite, At, RowSteps
<1>2. /\ b \in Booking /\ booking[b] \in BookingRow
      /\ req[r] \in [at : Steps, booking : Booking, client : Client \cup {Null},
                     read : Nat \X Nat]
  BY <1>1, AtRow
<1>3. PICK row : row = [booking[b] EXCEPT !.deleted = TRUE]
  OBVIOUS
<1>4. /\ row \in BookingRow /\ row.status = booking[b].status
      /\ row.amount = booking[b].amount /\ row.cost = booking[b].cost
      /\ row.margin = booking[b].margin /\ row.client = booking[b].client
  BY <1>2, <1>3 DEF BookingRow
<1>5. /\ booking' = [booking EXCEPT ![req[r].booking] = row]
      /\ row.client = booking[req[r].booking].client
  BY <1>1, <1>3, <1>4
<1>6. Guarded(req[r]) /\ Sound(booking[b]) => Sound(row)
  BY <1>1, <1>4 DEF Guarded, Sound
<1>7. PICK h : h = IF req[r].client = Null THEN Idle ELSE [req[r] EXCEPT !.at = "aggregate"]
  OBVIOUS
<1>8. req' = [req EXCEPT ![r] = h]
  BY <1>7 DEF RemoveWrite, Finish
<1>9. \/ req[r].client = Null /\ h = Idle
      \/ /\ req[r].client \in Client /\ h.client = req[r].client
         /\ h.at = "aggregate" /\ h \in Handler
  BY <1>2, <1>7 DEF Handler, Steps
<1>10. Goes(r, h)
  BY <1>1, <1>9 DEF Goes
<1>11. Move(r) /\ req'[r] = h /\ booking'[b] = row
  BY <1>1, <1>4, <1>5, <1>8, <1>10, RowMove
<1>q. QED BY <1>1, <1>4, <1>6, <1>9, <1>11 DEF Removed

\* A statement that writes no booking.
LEMMA SyncMove ==
  ASSUME Shape, NEW r \in Request, NEW h, Goes(r, h), req' = [req EXCEPT ![r] = h],
         booking' = booking, stats' = [c \in Client |-> stats'[c]],
         crossed' = crossed, broken \subseteq broken'
  PROVE  Move(r) /\ req'[r] = h
<1>1. req' = [s \in Request |-> req'[s]] /\ req'[r] = h
      /\ \A s \in Request \ {r} : req'[s] = req[s]
  BY DEF Shape
<1>2. Goes(r, req'[r])
  BY <1>1
<1>q. QED BY <1>1, <1>2 DEF Move, Shape

\* The count and the sum of the bookings of a client.
Total(c) == <<Cardinality(BookingsOf(c)), Spent(BookingsOf(c))>>

\* syncClientStats reads, and writes.
LEMMA SyncStatement ==
  ASSUME Shape, NEW r \in Request, NEW c, c = req[r].client, Aggregate(r) \/ WriteStats(r)
  PROVE  /\ Move(r) /\ c \in Client /\ booking' = booking /\ broken' = broken
         /\ \/ /\ req[r].at = "aggregate" /\ req'[r].at = "writeStats"
               /\ req'[r].read = Total(c)
               /\ stats' = stats /\ repriced' = repriced \ {c}
            \/ /\ req[r].at = "writeStats" /\ req'[r] = Idle /\ repriced' = repriced
               /\ stats'[c].count = req[r].read[1] /\ stats'[c].spent = req[r].read[2]
               /\ \A d \in Client \ {c} : stats'[d] = stats[d]
<1>1. c \in Client
  BY DEF Aggregate, WriteStats, At, Shape, Fits
<1>2. CASE Aggregate(r)
  <2>1. /\ req[r].at = "aggregate" /\ UNCHANGED <<booking, stats, crossed, broken>>
        /\ repriced' = repriced \ {c}
        /\ req' = [req EXCEPT ![r].at = "writeStats", ![r].read = Total(c)]
    BY <1>2 DEF Aggregate, At, Total
  <2>2. req[r] \in [at : Steps, booking : Booking, client : Client \cup {Null}, read : Nat \X Nat]
    BY <2>1 DEF Shape, Fits, Handler, Idle
  <2>3. PICK t : t = Total(c)
    OBVIOUS
  <2>4. PICK h : h = [req[r] EXCEPT !.at = "writeStats", !.read = t]
    OBVIOUS
  <2>5. h.at = "writeStats" /\ h.client = c /\ h.read = t
    BY <2>2, <2>4
  <2>6. req' = [req EXCEPT ![r] = h]
    BY <2>1, <2>3, <2>4
  <2>7. stats' = [d \in Client |-> stats'[d]]
    BY <2>1 DEF Shape
  <2>8. Goes(r, h)
    BY <1>1, <2>1, <2>5 DEF Goes
  <2>9. Move(r) /\ req'[r] = h
    BY <2>1, <2>6, <2>7, <2>8, SyncMove
  <2>q. QED BY <1>1, <2>1, <2>3, <2>5, <2>9
<1>3. CASE WriteStats(r)
  <2>1. PICK row : row = [count |-> req[r].read[1], spent |-> req[r].read[2]]
    OBVIOUS
  <2>2. /\ req[r].at = "writeStats" /\ UNCHANGED <<booking, crossed, broken, repriced>>
        /\ stats' = [stats EXCEPT ![c] = row]
        /\ req' = [req EXCEPT ![r] = Idle]
    BY <1>3, <2>1 DEF WriteStats, At, Finish
  <2>3. /\ stats' = [d \in Client |-> stats'[d]] /\ stats'[c] = row
        /\ \A d \in Client \ {c} : stats'[d] = stats[d]
    BY <1>1, <2>2 DEF Shape
  <2>4. Goes(r, Idle)
    BY DEF Goes
  <2>5. Move(r) /\ req'[r] = Idle
    BY <2>2, <2>3, <2>4, SyncMove
  <2>q. QED BY <1>1, <2>1, <2>2, <2>3, <2>5
<1>q. QED BY <1>2, <1>3

\* A failure.
LEMMA FailStatement ==
  ASSUME Shape, NEW r \in Request, Fail(r)
  PROVE  /\ Move(r) /\ req'[r] = Idle /\ UNCHANGED <<booking, stats, repriced>>
         /\ Syncing(r) => req[r].client \in broken'
<1>1. /\ req' = [req EXCEPT ![r] = Idle] /\ UNCHANGED <<booking, stats, crossed, repriced>>
      /\ broken \subseteq broken' /\ (Syncing(r) => req[r].client \in broken')
  BY DEF Fail, Finish
<1>2. stats' = [d \in Client |-> stats'[d]]
  BY <1>1 DEF Shape
<1>3. Goes(r, Idle)
  BY DEF Goes
<1>q. QED BY <1>1, <1>2, <1>3, SyncMove

\* Every statement after the first is a move, and keeps the row it writes sound if it was and
\* what its handler relies on is so.
LEMMA EveryStatement ==
  ASSUME Shape, NEW r \in Request, Resume(r) \/ Fail(r)
  PROVE  /\ Move(r)
         /\ \/ booking' = booking
            \/ /\ req[r].at \in RowSteps
               /\ LET b == req[r].booking
                  IN Guarded(req[r]) /\ Sound(booking[b]) => Sound(booking'[b])
BY RowStatement, RemoveStatement, SyncStatement, FailStatement
   DEF Resume, Wrote, Removed, Keeps, RowSteps

-----------------------------------------------------------------------------
(* What the first statement of a request on booking b does: it adds a      *)
(* handler that nobody crosses, and reads the row that the handler is      *)
(* going to write, or inserts it.                                          *)
Joins(r) ==
  /\ req' = [s \in Request |-> req'[s]]
  /\ req[r] = Idle /\ \A s \in Request \ {r} : req'[s] = req[s]
  /\ \A x \in (Booking \cup Client) \ crossed' :
       x \notin crossed /\ (WorksOn(req'[r], x) => \A s \in Request : ~WorksOn(req[s], x))
  /\ stats' = stats /\ broken' = broken /\ repriced' = repriced

Read(r, b) ==
  /\ Found(b) /\ booking' = booking /\ req'[r] \in Handler
  /\ req'[r].at \in RowSteps /\ req'[r].booking = b
  /\ req'[r].client = booking[b].client
  /\ req'[r].read = <<booking[b].amount, booking[b].cost>>
  /\ req'[r].at = "remove" => booking[b].status # "CONFIRMED"

Inserted(r, b) ==
  /\ ~Exists(b) /\ booking' \in [Booking -> BookingRow \cup {NoBooking}]
  /\ \A d \in Booking \ {b} : booking'[d] = booking[d]
  /\ booking'[b] \in BookingRow /\ Sound(booking'[b])
  /\ req'[r] \in Handler
  /\ \/ booking'[b].client = Null /\ req'[r] = Idle
     \/ /\ booking'[b].client \in Client /\ req'[r].client = booking'[b].client
        /\ req'[r].at = "aggregate"

LEMMA ArriveStatement ==
  ASSUME Shape, NEW r \in Request, NEW h, Arrive(r, h)
  PROVE  Joins(r) /\ req'[r] = h
<1>1. /\ req[r] = Idle /\ req' = [req EXCEPT ![r] = h]
      /\ stats' = stats /\ broken' = broken /\ repriced' = repriced
      /\ crossed' = crossed \cup
           {x \in Booking \cup Client : WorksOn(h, x) /\ \E s \in Request : WorksOn(req[s], x)}
  BY DEF Arrive
<1>2. /\ req' = [s \in Request |-> req'[s]] /\ req'[r] = h
      /\ \A s \in Request \ {r} : req'[s] = req[s]
  BY <1>1 DEF Shape
<1>3. ASSUME NEW x \in (Booking \cup Client) \ crossed'
      PROVE  x \notin crossed /\ (WorksOn(h, x) => \A s \in Request : ~WorksOn(req[s], x))
  BY <1>1, <1>3
<1>q. QED BY <1>1, <1>2, <1>3 DEF Joins

LEMMA StartStatement ==
  ASSUME Shape, NEW r \in Request, NEW b \in Booking, NEW step \in RowSteps,
         Start(r, b, step), step = "remove" => booking[b].status # "CONFIRMED"
  PROVE  Joins(r) /\ Read(r, b)
<1>1. PICK h : h = [at |-> step, booking |-> b, client |-> booking[b].client,
                    read |-> <<booking[b].amount, booking[b].cost>>]
  OBVIOUS
<1>2. Found(b) /\ booking' = booking /\ Arrive(r, h)
  BY <1>1 DEF Start
<1>3. booking[b] \in BookingRow
  BY <1>2 DEF Shape, Found, Exists, NoBooking
<1>4. h \in Handler
  BY <1>1, <1>3 DEF Handler, BookingRow, Steps, RowSteps
<1>5. Joins(r) /\ req'[r] = h
  BY <1>2, ArriveStatement
<1>q. QED BY <1>1, <1>2, <1>4, <1>5 DEF Read

LEMMA CreateStatement ==
  ASSUME Shape, NEW r \in Request, NEW b \in Booking, NEW c \in Client \cup {Null},
         Create(r, b, c)
  PROVE  Joins(r) /\ Inserted(r, b)
<1>1. PICK status \in BookingStatus, amount \in Amount, cost \in Cost :
        booking' = [booking EXCEPT ![b] = [status |-> status, deleted |-> FALSE, client |-> c,
                                           amount |-> amount, cost |-> cost,
                                           margin |-> Margin(amount, cost)]]
  BY DEF Create
<1>2. PICK row : row = [status |-> status, deleted |-> FALSE, client |-> c, amount |-> amount,
                        cost |-> cost, margin |-> Margin(amount, cost)]
  OBVIOUS
<1>3. row \in BookingRow /\ Sound(row) /\ row.client = c
  BY <1>2, BookingsAssumption DEF BookingRow, BookingStatus, Sound, Margin
<1>4. booking' = [booking EXCEPT ![b] = row]
  BY <1>1, <1>2
<1>5. /\ booking'[b] = row /\ \A d \in Booking \ {b} : booking'[d] = booking[d]
      /\ booking' \in [Booking -> BookingRow \cup {NoBooking}]
  BY <1>3, <1>4 DEF Shape
<1>6. PICK h : h = IF c = Null THEN Idle
                   ELSE [Idle EXCEPT !.at = "aggregate", !.booking = b, !.client = c]
  OBVIOUS
<1>7. h \in Handler
      /\ \/ c = Null /\ h = Idle
         \/ c \in Client /\ h.client = c /\ h.at = "aggregate"
  BY <1>6 DEF Handler, Idle, Steps
<1>8. ~Exists(b) /\ Arrive(r, h)
  BY <1>6 DEF Create
<1>9. Joins(r) /\ req'[r] = h
  BY <1>8, ArriveStatement
<1>q. QED BY <1>3, <1>5, <1>7, <1>8, <1>9 DEF Inserted

LEMMA FirstStatement ==
  ASSUME Shape, NEW r \in Request, Begin(r)
  PROVE  Joins(r) /\ \E b \in Booking : Read(r, b) \/ Inserted(r, b)
<1>1. PICK b \in Booking :
        \/ \E c \in Client \cup {Null} : Create(r, b, c)
        \/ UpdateRead(r, b) \/ ConfirmRead(r, b) \/ CancelRead(r, b) \/ RemoveRead(r, b)
  BY DEF Begin
<1>2. CASE \E c \in Client \cup {Null} : Create(r, b, c)
  BY <1>2, CreateStatement
<1>3. CASE UpdateRead(r, b) \/ ConfirmRead(r, b) \/ CancelRead(r, b) \/ RemoveRead(r, b)
  <2>1. PICK step \in RowSteps : /\ Start(r, b, step)
                                 /\ step = "remove" => booking[b].status # "CONFIRMED"
    BY <1>3 DEF UpdateRead, ConfirmRead, CancelRead, RemoveRead, RowSteps
  <2>q. QED BY <2>1, StartStatement
<1>q. QED BY <1>1, <1>2, <1>3

-----------------------------------------------------------------------------
LEMMA ShapeInductive ==
  /\ Init => Shape
  /\ Shape /\ [Next]_vars => Shape'
<1>1. Init => Shape
  BY DEF Init, Shape, Fits, Handler, Idle, NoBooking, RowSteps
<1>2. ASSUME Shape, NEW r \in Request, Move(r) PROVE Shape'
  <2>1. ASSUME NEW b \in Booking, Exists(b)
        PROVE  booking'[b].status # "ABSENT" /\ booking'[b].client = booking[b].client
    BY <1>2, <2>1 DEF Move, Exists
  <2>2. ASSUME NEW s \in Request, s # r
        PROVE  Fits(req[s])'
    <3>1. req'[s] = req[s] /\ Fits(req[s])
      BY <1>2, <2>2 DEF Move, Shape
    <3>2. req[s].at \in RowSteps => req[s].booking \in Booking
      BY <3>1 DEF Fits, Handler, Idle, RowSteps
    <3>q. QED BY <2>1, <3>1, <3>2 DEF Fits, Exists
  <2>3. Fits(req[r])'
    <3>1. Goes(r, req'[r])
      BY <1>2 DEF Move
    <3>2. CASE req'[r] = Idle
      BY <3>2 DEF Fits, Handler, Idle, RowSteps
    <3>3. CASE req'[r] # Idle
      BY <3>1, <3>3 DEF Fits, Goes, RowSteps
    <3>q. QED BY <3>2, <3>3
  <2>4. \A s \in Request : Fits(req[s])'
    BY <2>2, <2>3
  <2>q. QED BY <1>2, <2>4 DEF Move, Shape
<1>3. ASSUME Shape, NEW r \in Request, Joins(r), NEW b \in Booking,
             Read(r, b) \/ Inserted(r, b)
      PROVE  Shape'
  <2>1. ASSUME NEW d \in Booking, Exists(d)
        PROVE  booking'[d] = booking[d]
    BY <1>3, <2>1 DEF Read, Inserted
  <2>2. ASSUME NEW s \in Request, s # r
        PROVE  Fits(req[s])'
    <3>1. req'[s] = req[s] /\ Fits(req[s])
      BY <1>3, <2>2 DEF Joins, Shape
    <3>2. req[s].at \in RowSteps => req[s].booking \in Booking
      BY <3>1 DEF Fits, Handler, Idle, RowSteps
    <3>q. QED BY <2>1, <3>1, <3>2 DEF Fits, Exists
  <2>3. Fits(req[r])'
    <3>1. CASE Read(r, b)
      BY <3>1 DEF Read, Fits, Found, Exists, RowSteps
    <3>2. CASE Inserted(r, b)
      BY <3>2 DEF Inserted, Fits, Idle, RowSteps
    <3>q. QED BY <1>3, <3>1, <3>2
  <2>4. \A s \in Request : Fits(req[s])'
    BY <2>2, <2>3
  <2>5. booking' \in [Booking -> BookingRow \cup {NoBooking}]
    BY <1>3 DEF Read, Inserted, Shape
  <2>q. QED BY <1>3, <2>4, <2>5 DEF Joins, Shape
<1>4. Shape /\ [Next]_vars => Shape'
  <2> SUFFICES ASSUME Shape, [Next]_vars PROVE Shape'
    OBVIOUS
  <2>1. ASSUME NEW r \in Request, Begin(r) PROVE Shape'
    BY <1>3, <2>1, FirstStatement
  <2>2. ASSUME NEW r \in Request, Resume(r) \/ Fail(r) PROVE Shape'
    BY <1>2, <2>2, EveryStatement
  <2>3. CASE UNCHANGED vars
    BY <2>3 DEF vars, Shape, Fits, Exists
  <2>q. QED BY <2>1, <2>2, <2>3 DEF Next
<1>q. QED BY <1>1, <1>4

-----------------------------------------------------------------------------
(* A booking, or a client, that is not crossed is worked on by one handler *)
(* at most; what that handler has read and checked of its booking is so    *)
(* when it writes, and the booking is sound.                               *)
AloneOn(x) == \A r, s \in Request : WorksOn(req[r], x) /\ WorksOn(req[s], x) => r = s

GuardedOn(b) ==
  \A r \in Request : req[r].at \in RowSteps /\ req[r].booking = b => Guarded(req[r])

CalmInv ==
  /\ Shape
  /\ \A x \in (Booking \cup Client) \ crossed : AloneOn(x)
  /\ \A b \in Booking \ crossed : GuardedOn(b) /\ Sound(booking[b])

LEMMA WorksOnBooking ==
  ASSUME NEW h, NEW b, h.at \in RowSteps, h.booking = b
  PROVE  WorksOn(h, b)
BY DEF WorksOn, RowSteps

LEMMA MoveAlone ==
  ASSUME NEW r \in Request, Move(r), NEW x, AloneOn(x)
  PROVE  AloneOn(x)'
<1>1. WorksOn(req'[r], x) => WorksOn(req[r], x)
  BY DEF Move, Goes, WorksOn, Idle
<1>2. \A s \in Request : WorksOn(req'[s], x) => WorksOn(req[s], x)
  BY <1>1 DEF Move
<1>q. QED BY <1>2 DEF AloneOn

LEMMA JoinAlone ==
  ASSUME NEW r \in Request, Joins(r), NEW x \in (Booking \cup Client) \ crossed',
         AloneOn(x)
  PROVE  AloneOn(x)'
<1>1. WorksOn(req'[r], x) => \A s \in Request : ~WorksOn(req[s], x)
  BY DEF Joins
<1>2. \A s \in Request : s # r => req'[s] = req[s]
  BY DEF Joins
<1>q. QED BY <1>1, <1>2 DEF AloneOn

\* A handler that is not the one that moves relies on what it relied on before.
LEMMA GuardedStays ==
  ASSUME NEW s \in Request, req'[s] = req[s], Guarded(req[s]),
         booking'[req[s].booking] = booking[req[s].booking]
  PROVE  Guarded(req[s])'
BY DEF Guarded

LEMMA MoveCalm ==
  ASSUME CalmInv, NEW r \in Request, Resume(r) \/ Fail(r), NEW b \in Booking \ crossed
  PROVE  GuardedOn(b)' /\ Sound(booking'[b])
<1>1. /\ Shape /\ AloneOn(b) /\ GuardedOn(b) /\ Sound(booking[b])
  BY DEF CalmInv
<1>2. /\ Move(r)
      /\ \/ booking' = booking
         \/ /\ req[r].at \in RowSteps
            /\ Guarded(req[r]) /\ Sound(booking[req[r].booking])
                 => Sound(booking'[req[r].booking])
  BY <1>1, EveryStatement
<1>3. CASE req[r].at \in RowSteps /\ req[r].booking = b
  <2>1. Guarded(req[r])
    BY <1>1, <1>3 DEF GuardedOn
  <2>2. Sound(booking'[b])
    BY <1>1, <1>2, <1>3, <2>1
  <2>3. ASSUME NEW s \in Request, req'[s].at \in RowSteps, req'[s].booking = b
        PROVE  FALSE
    <3>1. s # r
      BY <1>2, <2>3 DEF Move, Goes, Idle, RowSteps
    <3>2. req'[s] = req[s]
      BY <1>2, <3>1 DEF Move
    <3>3. WorksOn(req[s], b) /\ WorksOn(req[r], b)
      BY <1>3, <2>3, <3>2, WorksOnBooking
    <3>q. QED BY <1>1, <3>1, <3>3 DEF AloneOn
  <2>q. QED BY <2>2, <2>3 DEF GuardedOn
<1>4. CASE ~(req[r].at \in RowSteps /\ req[r].booking = b)
  <2>1. booking'[b] = booking[b]
    BY <1>2, <1>4 DEF Move
  <2>2. ASSUME NEW s \in Request, req'[s].at \in RowSteps, req'[s].booking = b
        PROVE  Guarded(req[s])'
    <3>1. s # r
      BY <1>2, <2>2 DEF Move, Goes, Idle, RowSteps
    <3>2. req'[s] = req[s]
      BY <1>2, <3>1 DEF Move
    <3>3. Guarded(req[s])
      BY <1>1, <2>2, <3>2 DEF GuardedOn
    <3>q. QED BY <2>1, <2>2, <3>2, <3>3, GuardedStays
  <2>q. QED BY <1>1, <2>1, <2>2 DEF GuardedOn
<1>q. QED BY <1>3, <1>4

LEMMA JoinCalm ==
  ASSUME CalmInv, NEW r \in Request, Begin(r), NEW b \in Booking \ crossed'
  PROVE  GuardedOn(b)' /\ Sound(booking'[b])
<1>1. Shape
  BY DEF CalmInv
<1>2. PICK d \in Booking : Read(r, d) \/ Inserted(r, d)
  BY <1>1, FirstStatement
<1>3. Joins(r) /\ b \notin crossed
  BY <1>1, FirstStatement DEF Joins
<1>4. GuardedOn(b) /\ Sound(booking[b])
  BY <1>3 DEF CalmInv
<1>5. Sound(booking'[b])
  BY <1>2, <1>4 DEF Read, Inserted
<1>6. ASSUME NEW s \in Request, req'[s].at \in RowSteps, req'[s].booking = b
      PROVE  Guarded(req[s])'
  <2>1. CASE s = r
    <3>1. Read(r, d)
      BY <1>2, <1>6, <2>1 DEF Inserted, Idle, RowSteps
    <3>2. /\ d = b /\ Found(b) /\ booking' = booking
          /\ req'[r].read = <<booking[b].amount, booking[b].cost>>
          /\ req'[r].at = "remove" => booking[b].status # "CONFIRMED"
      BY <1>6, <2>1, <3>1 DEF Read
    <3>q. QED BY <1>6, <2>1, <3>2 DEF Guarded, Found
  <2>2. CASE s # r
    <3>1. req'[s] = req[s]
      BY <1>3, <2>2 DEF Joins
    <3>2. Guarded(req[s]) /\ Exists(b)
      BY <1>1, <1>4, <1>6, <3>1 DEF GuardedOn, Shape, Fits
    <3>3. booking'[b] = booking[b]
      BY <1>2, <3>2 DEF Read, Inserted
    <3>q. QED BY <1>6, <3>1, <3>2, <3>3, GuardedStays
  <2>q. QED BY <2>1, <2>2
<1>q. QED BY <1>5, <1>6 DEF GuardedOn

LEMMA CalmInductive ==
  /\ Init => CalmInv
  /\ CalmInv /\ [Next]_vars => CalmInv'
<1>1. Init => CalmInv
  <2> SUFFICES ASSUME Init PROVE CalmInv
    OBVIOUS
  <2>1. Shape
    BY ShapeInductive
  <2>2. \A r \in Request : req[r] = Idle
    BY DEF Init
  <2>3. \A x : AloneOn(x)
    BY <2>2 DEF AloneOn, WorksOn, Idle
  <2>4. \A b \in Booking : GuardedOn(b) /\ Sound(booking[b])
    BY <2>2 DEF GuardedOn, Idle, RowSteps, Init, Sound, Margin, NoBooking
  <2>q. QED BY <2>1, <2>3, <2>4 DEF CalmInv
<1>2. CalmInv /\ [Next]_vars => CalmInv'
  <2> SUFFICES ASSUME CalmInv, [Next]_vars PROVE CalmInv'
    OBVIOUS
  <2>1. Shape /\ Shape'
    BY ShapeInductive DEF CalmInv
  <2>2. ASSUME NEW r \in Request, Begin(r) PROVE CalmInv'
    <3>1. Joins(r)
      BY <2>1, <2>2, FirstStatement
    <3>2. \A x \in (Booking \cup Client) \ crossed' : AloneOn(x)'
      BY <3>1, JoinAlone DEF CalmInv, Joins
    <3>3. \A b \in Booking \ crossed' : GuardedOn(b)' /\ Sound(booking'[b])
      BY <2>2, JoinCalm
    <3>q. QED BY <2>1, <3>2, <3>3 DEF CalmInv
  <2>3. ASSUME NEW r \in Request, Resume(r) \/ Fail(r) PROVE CalmInv'
    <3>1. Move(r) /\ crossed' = crossed
      BY <2>1, <2>3, EveryStatement DEF Move
    <3>2. \A x \in (Booking \cup Client) \ crossed' : AloneOn(x)'
      BY <3>1, MoveAlone DEF CalmInv
    <3>3. \A b \in Booking \ crossed' : GuardedOn(b)' /\ Sound(booking'[b])
      BY <2>3, <3>1, MoveCalm
    <3>q. QED BY <2>1, <3>2, <3>3 DEF CalmInv
  <2>4. CASE UNCHANGED vars
    BY <2>1, <2>4 DEF vars, CalmInv, AloneOn, GuardedOn, Guarded
  <2>q. QED BY <2>2, <2>3, <2>4 DEF Next
<1>q. QED BY <1>1, <1>2

\* The margin of a booking that no two requests have worked on at a time is that of its
\* amount and its cost, whatever is done to the others: update has read both before it
\* computes the margin of a change of one.
THEOREM MarginStaysCurrent == Spec => []MarginIsCurrent
<1>1. CalmInv => MarginIsCurrent
  BY DEF CalmInv, Sound, MarginIsCurrent
<1>q. QED BY <1>1, CalmInductive, PTL DEF Spec

\* A confirmed booking that no two requests have worked on at a time is not deleted, nor a
\* deleted one confirmed: the guards of confirm and remove still hold when they write.
THEOREM ConfirmedStays == Spec => []ConfirmedIsKept
<1>1. CalmInv => ConfirmedIsKept
  BY DEF CalmInv, Sound, ConfirmedIsKept
<1>q. QED BY <1>1, CalmInductive, PTL DEF Spec

-----------------------------------------------------------------------------
(* The statistics of the clients                                           *)

\* A handler is about to compute the statistics of client c, or to write them.
On(h, c) == h.at \in {"aggregate", "writeStats"} /\ h.client = c
Counting(c) == \E r \in Request : On(req[r], c)

\* What the handler is about to write, or what has been written, are the statistics of the
\* client's own bookings, but for the amounts of repriced ones.
Carries(h, c) ==
  /\ h.read[1] = Total(c)[1]
  /\ c \notin repriced => h.read[2] = Total(c)[2]

Counted(c) ==
  /\ stats[c].count = Total(c)[1]
  /\ c \notin repriced => stats[c].spent = Total(c)[2]

SyncedOn(c) ==
  /\ \A r \in Request : req[r].at = "writeStats" /\ req[r].client = c => Carries(req[r], c)
  /\ Counting(c) \/ Counted(c)

\* The strengthening for StatsAreCurrent.
SyncInv == \A c \in Client \ (crossed \cup broken) : SyncedOn(c)

\* A client without bookings has spent nothing.
LEMMA SumOfNothing ==
  ASSUME NEW f, DOMAIN f = {}
  PROVE  SumFunction(f) = 0
<1>1. SumFunction(f) = FoldFunctionOnSet(+, 0, f, {})
  BY DEF SumFunction, SumFunctionOnSet
<1>q. QED BY <1>1 DEF FoldFunctionOnSet, MapThenFoldSet

\* The bookings of a client, and what it has spent, change with the rows of its bookings only.
LEMMA TotalStable ==
  ASSUME NEW c \in Client,
         \A b \in Booking :
           Found(b)' /\ booking'[b].client = c <=> Found(b) /\ booking[b].client = c
  PROVE  /\ BookingsOf(c)' = BookingsOf(c)
         /\ Total(c)'[1] = Total(c)[1]
         /\ (\A b \in BookingsOf(c) : booking'[b].amount = booking[b].amount) =>
              Total(c)' = Total(c)
<1>1. BookingsOf(c)' = BookingsOf(c)
  BY DEF BookingsOf
<1>2. ASSUME \A b \in BookingsOf(c) : booking'[b].amount = booking[b].amount
      PROVE  Total(c)' = Total(c)
  <2>1. [b \in BookingsOf(c) |-> booking'[b].amount] =
          [b \in BookingsOf(c) |-> booking[b].amount]
    BY <1>2
  <2>q. QED BY <1>1, <2>1 DEF Total, Spent
<1>q. QED BY <1>1, <1>2 DEF Total

\* The totals of a client when only bookings of others are written, or none.
LEMMA TotalOfOthers ==
  ASSUME NEW c \in Client,
         \A b \in Booking : \/ booking'[b] = booking[b]
                            \/ /\ ~Exists(b) \/ booking[b].client # c
                               /\ booking'[b].client # c
  PROVE  Total(c)' = Total(c)
<1>1. \A b \in Booking :
        Found(b)' /\ booking'[b].client = c <=> Found(b) /\ booking[b].client = c
  BY DEF Found, Exists
<1>2. \A b \in BookingsOf(c) : booking'[b].amount = booking[b].amount
  BY DEF BookingsOf, Found
<1>q. QED BY <1>1, <1>2, TotalStable

\* A step that leaves the statistics of a client, and the handlers that compute them, alone.
LEMMA SyncedStays ==
  ASSUME NEW c \in Client, SyncedOn(c),
         \A s \in Request : req'[s] = req[s] \/ (~On(req[s], c) /\ ~On(req'[s], c)),
         stats'[c] = stats[c], Total(c)'[1] = Total(c)[1],
         c \notin repriced' => c \notin repriced /\ Total(c)' = Total(c)
  PROVE  SyncedOn(c)'
<1>1. ASSUME NEW s \in Request, req'[s].at = "writeStats", req'[s].client = c
      PROVE  Carries(req[s], c)'
  <2>1. req'[s] = req[s] /\ Carries(req[s], c)
    BY <1>1 DEF SyncedOn, On
  <2>q. QED BY <2>1 DEF Carries
<1>2. Counting(c) => Counting(c)'
  BY DEF Counting
<1>3. Counted(c) => Counted(c)'
  BY DEF Counted
<1>q. QED BY <1>1, <1>2, <1>3 DEF SyncedOn

\* A step of the only handler that works on a client.
LEMMA SyncedNow ==
  ASSUME NEW c \in Client, NEW r \in Request, \A s \in Request \ {r} : ~On(req'[s], c),
         \/ req'[r].at = "aggregate" /\ req'[r].client = c
         \/ req'[r].at = "writeStats" /\ req'[r].client = c /\ Carries(req[r], c)'
         \/ req'[r] = Idle /\ Counted(c)'
  PROVE  SyncedOn(c)'
<1>1. \A s \in Request : req'[s].at = "writeStats" /\ req'[s].client = c
                           => Carries(req[s], c)'
  BY DEF On, Idle
<1>2. Counting(c)' \/ Counted(c)'
  BY DEF Counting, On
<1>q. QED BY <1>1, <1>2 DEF SyncedOn

\* When a handler that works on a client moves, the others have nothing to do with it.
LEMMA OthersAway ==
  ASSUME NEW r \in Request, Move(r), NEW c, AloneOn(c), WorksOn(req[r], c)
  PROVE  \A s \in Request \ {r} : ~On(req'[s], c)
BY DEF Move, AloneOn, WorksOn, On

-----------------------------------------------------------------------------
LEMMA JoinSynced ==
  ASSUME Shape, NEW r \in Request, Begin(r), NEW c \in Client \ crossed', SyncedOn(c)
  PROVE  SyncedOn(c)'
<1>1. PICK b \in Booking : Read(r, b) \/ Inserted(r, b)
  BY FirstStatement
<1>2. Joins(r)
  BY FirstStatement
<1>3. /\ req[r] = Idle /\ \A s \in Request \ {r} : req'[s] = req[s]
      /\ stats' = stats /\ repriced' = repriced
      /\ WorksOn(req'[r], c) => \A s \in Request : ~WorksOn(req[s], c)
  BY <1>2 DEF Joins
<1>4. CASE On(req'[r], c)
  <2>1. /\ Inserted(r, b) /\ req'[r].at = "aggregate" /\ req'[r].client = c
    BY <1>1, <1>4 DEF On, Read, Inserted, Idle, RowSteps
  <2>2. \A s \in Request \ {r} : ~On(req'[s], c)
    BY <1>3, <1>4 DEF On, WorksOn
  <2>q. QED BY <2>1, <2>2, SyncedNow
<1>5. CASE ~On(req'[r], c)
  <2>1. \A s \in Request : req'[s] = req[s] \/ (~On(req[s], c) /\ ~On(req'[s], c))
    BY <1>3, <1>5 DEF On, Idle
  <2>2. \A d \in Booking : \/ booking'[d] = booking[d]
                           \/ ~Exists(d) /\ booking'[d].client # c
    BY <1>1, <1>5, BookingsAssumption DEF Read, Inserted, On
  <2>3. Total(c)' = Total(c)
    BY <2>2, TotalOfOthers
  <2>q. QED BY <1>3, <2>1, <2>3, SyncedStays
<1>q. QED BY <1>4, <1>5

LEMMA MoveSynced ==
  ASSUME Shape, NEW r \in Request, Resume(r) \/ Fail(r),
         NEW c \in Client \ broken', AloneOn(c), SyncedOn(c)
  PROVE  SyncedOn(c)'
<1>1. Move(r)
  BY EveryStatement
<1>2. \A s \in Request \ {r} : req'[s] = req[s]
  BY <1>1 DEF Move
<1>3. ASSUME ~On(req[r], c), ~On(req'[r], c)
      PROVE  \A s \in Request : req'[s] = req[s] \/ (~On(req[s], c) /\ ~On(req'[s], c))
  BY <1>2, <1>3
<1>4. ASSUME WorksOn(req[r], c)
      PROVE  \A s \in Request \ {r} : ~On(req'[s], c)
  BY <1>1, <1>4, OthersAway
<1>5. CASE Wrote(r)
  <2> DEFINE b == req[r].booking
  <2>1. /\ ~On(req[r], c) /\ ~On(req'[r], c) /\ stats' = stats
        /\ req[r].at \in RowSteps /\ Keeps(r, booking'[b]) /\ Repriced(r, booking'[b])
    BY <1>5 DEF Wrote, On, Idle, RowSteps
  <2>2. Exists(b) /\ req[r].client = booking[b].client
    BY <2>1, AtRow
  <2>3. \A d \in Booking : \/ booking'[d] = booking[d]
                           \/ d = b /\ booking'[d].status # "ABSENT"
    BY <1>1 DEF Move
  <2>4. \A d \in Booking :
          Found(d)' /\ booking'[d].client = c <=> Found(d) /\ booking[d].client = c
    BY <2>1, <2>2, <2>3 DEF Keeps, Found, Exists
  <2>5. Total(c)'[1] = Total(c)[1]
    BY <2>4, TotalStable
  <2>6. ASSUME c \notin repriced'
        PROVE  c \notin repriced /\ Total(c)' = Total(c)
    <3>1. c \notin repriced /\ (booking'[b].amount = booking[b].amount \/ booking[b].client # c)
      BY <2>1, <2>2, <2>6 DEF Repriced
    <3>2. \A d \in BookingsOf(c) : booking'[d].amount = booking[d].amount
      BY <2>3, <3>1 DEF BookingsOf
    <3>q. QED BY <2>4, <3>1, <3>2, TotalStable
  <2>q. QED BY <1>3, <2>1, <2>5, <2>6, SyncedStays
<1>6. CASE Removed(r)
  <2> DEFINE b == req[r].booking
  <2>1. /\ req[r].at = "remove" /\ req[r].at \in RowSteps /\ ~On(req[r], c)
        /\ stats' = stats /\ repriced' = repriced
        /\ \/ req[r].client = Null /\ req'[r] = Idle
           \/ req'[r].at = "aggregate" /\ req'[r].client = req[r].client
        /\ booking'[b].client = booking[b].client
    BY <1>6 DEF Removed, On, RowSteps
  <2>2. req[r].client = booking[b].client
    BY <2>1, AtRow
  <2>3. CASE req[r].client = c
    <3>1. req'[r].at = "aggregate" /\ req'[r].client = c
      BY <2>1, <2>3, BookingsAssumption
    <3>2. WorksOn(req[r], c)
      BY <2>1, <2>3 DEF WorksOn
    <3>q. QED BY <1>4, <3>1, <3>2, SyncedNow
  <2>4. CASE req[r].client # c
    <3>1. ~On(req'[r], c)
      BY <2>1, <2>4 DEF On, Idle
    <3>2. \A d \in Booking : booking'[d] = booking[d] \/ d = b
      BY <1>1 DEF Move
    <3>3. Total(c)' = Total(c)
      BY <2>1, <2>2, <2>4, <3>2, TotalOfOthers
    <3>q. QED BY <1>3, <2>1, <3>1, <3>3, SyncedStays
  <2>q. QED BY <2>3, <2>4
<1>7. CASE Aggregate(r) \/ WriteStats(r)
  <2> DEFINE e == req[r].client
  <2>1. PICK d : d = e
    OBVIOUS
  <2>2. /\ d \in Client /\ booking' = booking
        /\ \/ /\ req[r].at = "aggregate" /\ req'[r].at = "writeStats"
              /\ req'[r].read = Total(d)
              /\ stats' = stats /\ repriced' = repriced \ {d}
           \/ /\ req[r].at = "writeStats" /\ req'[r] = Idle /\ repriced' = repriced
              /\ stats'[d].count = req[r].read[1] /\ stats'[d].spent = req[r].read[2]
              /\ \A x \in Client \ {d} : stats'[x] = stats[x]
    BY <1>7, <2>1, SyncStatement
  <2>3. Total(c)' = Total(c)
    BY <2>2, TotalOfOthers
  <2>4. CASE d # c
    <3>1. ~On(req[r], c) /\ ~On(req'[r], c)
      BY <1>1, <2>1, <2>4 DEF On, Move, Goes, Idle
    <3>q. QED BY <1>3, <2>2, <2>3, <2>4, <3>1, SyncedStays
  <2>5. CASE d = c /\ req[r].at = "aggregate"
    <3>1. WorksOn(req[r], c)
      BY <2>1, <2>5 DEF WorksOn
    <3>2. req'[r].at = "writeStats" /\ req'[r].client = c /\ req'[r].read = Total(c)
      BY <1>1, <2>1, <2>2, <2>5 DEF Move, Goes, Idle
    <3>3. Carries(req[r], c)'
      BY <2>3, <3>2 DEF Carries
    <3>q. QED BY <1>4, <3>1, <3>2, <3>3, SyncedNow
  <2>6. CASE d = c /\ req[r].at = "writeStats"
    <3>1. WorksOn(req[r], c)
      BY <2>1, <2>6 DEF WorksOn
    <3>2. Carries(req[r], c)
      BY <2>1, <2>6 DEF SyncedOn
    <3>3. Counted(c)'
      BY <2>2, <2>3, <2>6, <3>2 DEF Counted, Carries
    <3>4. req'[r] = Idle
      BY <2>2, <2>6
    <3>q. QED BY <1>4, <3>1, <3>3, <3>4, SyncedNow
  <2>q. QED BY <2>2, <2>4, <2>5, <2>6
<1>8. CASE Fail(r)
  <2>1. /\ req'[r] = Idle /\ booking' = booking /\ stats' = stats /\ repriced' = repriced
        /\ ~On(req[r], c)
    BY <1>8, FailStatement DEF Syncing, On
  <2>2. Total(c)' = Total(c)
    BY <2>1, TotalOfOthers
  <2>3. ~On(req'[r], c)
    BY <2>1 DEF On, Idle
  <2>q. QED BY <1>3, <2>1, <2>2, <2>3, SyncedStays
<1>q. QED BY <1>5, <1>6, <1>7, <1>8, RowStatement, RemoveStatement DEF Resume

\* The statistics of a client are those of its bookings whenever no request computes them,
\* unless two requests that compute them have overlapped or one has failed, whatever requests
\* do to the bookings of others.
THEOREM StatsStayCurrent == Spec => []StatsAreCurrent
<1>1. Init => SyncInv
  <2> SUFFICES ASSUME Init PROVE SyncInv
    OBVIOUS
  <2>1. /\ \A s \in Request : req[s].at = "idle"
        /\ \A c \in Client : stats[c].count = 0 /\ stats[c].spent = 0
    BY DEF Init, Idle
  <2>2. ASSUME NEW c \in Client PROVE Counted(c)
    <3>1. BookingsOf(c) = {}
      BY DEF Init, BookingsOf, Found, Exists, NoBooking
    <3> DEFINE none == [b \in {} |-> booking[b].amount]
    <3>2. SumFunction(none) = 0
      BY SumOfNothing
    <3>3. Total(c) = <<0, 0>>
      BY <3>1, <3>2, FS_EmptySet DEF Total, Spent
    <3>q. QED BY <2>1, <3>3 DEF Counted
  <2>q. QED BY <2>1, <2>2 DEF SyncInv, SyncedOn
<1>2. CalmInv /\ SyncInv /\ [Next]_vars => SyncInv'
  <2> SUFFICES ASSUME CalmInv, SyncInv, [Next]_vars,
                      NEW c \in Client \ (crossed' \cup broken')
               PROVE  SyncedOn(c)'
    BY DEF SyncInv
  <2>1. Shape
    BY DEF CalmInv
  <2>2. ASSUME NEW r \in Request, Begin(r) PROVE SyncedOn(c)'
    <3>1. c \notin crossed \cup broken
      BY <2>1, <2>2, FirstStatement DEF Joins
    <3>q. QED BY <2>1, <2>2, <3>1, JoinSynced DEF SyncInv
  <2>3. ASSUME NEW r \in Request, Resume(r) \/ Fail(r) PROVE SyncedOn(c)'
    <3>1. c \notin crossed \cup broken
      BY <2>1, <2>3, EveryStatement DEF Move
    <3>q. QED BY <2>1, <2>3, <3>1, MoveSynced DEF SyncInv, CalmInv
  <2>4. CASE UNCHANGED vars
    <3>1. c \notin crossed \cup broken
      BY <2>4 DEF vars
    <3>2. SyncedOn(c)
      BY <3>1 DEF SyncInv
    <3>3. Total(c)' = Total(c)
      BY <2>4, TotalOfOthers DEF vars
    <3>q. QED BY <2>4, <3>2, <3>3, SyncedStays DEF vars
  <2>q. QED BY <2>2, <2>3, <2>4 DEF Next
<1>3. SyncInv => StatsAreCurrent
  BY DEF SyncInv, SyncedOn, Counting, On, Counted, Total, StatsAreCurrent, Syncing
<1>q. QED BY <1>1, <1>2, <1>3, CalmInductive, PTL DEF Spec

================================================================================
